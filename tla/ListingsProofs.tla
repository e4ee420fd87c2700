--------------------------- MODULE ListingsProofs ---------------------------
(***************************************************************************)
(* Proofs about Listings and ListingFeed for any markets, texts, answers   *)
(* of the models, messages, workers and bounds: what the parser's          *)
(* operators return, the types, and that a quarantined row is hidden.      *)
(***************************************************************************)
EXTENDS ListingFeed, FiniteSetTheorems, TLAPS

-----------------------------------------------------------------------------
(* Extraction *)

\* An amount that is scaled stays a natural number.
LEMMA ScaledNat ==
  ASSUME NEW a \in Nat, NEW u
  PROVE  Scale(a, u) \in Nat
  BY DEF Scale

\* Among the expressions that match one comes first.
LEMMA FirstMatch ==
  ASSUME NEW F \in SUBSET (1..6), F # {}
  PROVE  (CHOOSE i \in F : \A j \in F : i <= j) \in F
<1>1. \E i \in F : \A j \in F : i <= j
  <2>1. CASE 1 \in F
    BY <2>1
  <2>2. CASE 1 \notin F /\ 2 \in F
    BY <2>2
  <2>3. CASE 1 \notin F /\ 2 \notin F /\ 3 \in F
    BY <2>3
  <2>4. CASE 1 \notin F /\ 2 \notin F /\ 3 \notin F /\ 4 \in F
    BY <2>4
  <2>5. CASE 1 \notin F /\ 2 \notin F /\ 3 \notin F /\ 4 \notin F /\ 5 \in F
    BY <2>5
  <2>6. CASE 1 \notin F /\ 2 \notin F /\ 3 \notin F /\ 4 \notin F /\ 5 \notin F
    <3>1. \A i \in F : i = 6
      BY <2>6
    <3>2. F = {6}
      BY <3>1
    <3>3. QED
      BY <3>2
  <2>7. QED
    BY <2>1, <2>2, <2>3, <2>4, <2>5, <2>6
<1>2. QED
  BY <1>1

LEMMA PriceType ==
  ASSUME NEW t, IsText(t)
  PROVE  /\ ExtractPrice(t).price \in OptionalNat
         /\ ExtractPrice(t).currency \in Currencies
<1> DEFINE found == {i \in DOMAIN PricePatterns : PricePatterns[i] \in DOMAIN t.prices}
           least == CHOOSE i \in found : \A j \in found : i <= j
           first == PricePatterns[least]
           token == t.prices[first]
<1>1. CASE found = {}
  BY <1>1 DEF ExtractPrice, OptionalNat, Currencies
<1>2. CASE found # {}
  <2>1. found \in SUBSET (1..6)
    BY DEF PricePatterns
  <2>2. least \in found
    BY <1>2, <2>1, FirstMatch
  <2>3. token \in [amount : Nat, unit : STRING]
    BY <2>2 DEF IsText
  <2> HIDE DEF least
  <2>4. Scale(token.amount, token.unit) \in Nat
    BY <2>3, ScaledNat
  <2>5. {"AED", "INR", None} \subseteq Currencies
    BY DEF Currencies
  <2>6. ExtractPrice(t).price \in OptionalNat
    BY <1>2, <2>4 DEF ExtractPrice, OptionalNat, least
  <2>7. ExtractPrice(t).currency \in {"AED", "INR", None}
    <3> HIDE DEF token, first, found
    <3>1. ExtractPrice(t).currency =
            CASE first = "aed"               -> "AED"
              [] first \in {"inr", "crore"}  -> "INR"
              [] first \in {"kilo", "context"} /\ IndianUnit(t) -> "INR"
              [] OTHER                       -> None
      BY <1>2 DEF ExtractPrice, token, first, found, least
    <3>2. QED
      BY <3>1
  <2>8. QED
    BY <2>5, <2>6, <2>7
<1>3. QED
  BY <1>1, <1>2

LEMMA PlaceType ==
  ASSUME NEW t, IsText(t)
  PROVE  /\ MatchLocation(t) \in Places
         /\ MatchLocation(t) # None => Market[MatchLocation(t)] \in Currencies
         /\ FuzzyLocation(t) \in Places
         /\ FirstLineLocation(t) \in Places
         /\ ExtractLocation(t) \in Places
<1>1. None \in Places
  BY DEF Places
<1>2. /\ MatchLocation(t) \in Places
      /\ FuzzyLocation(t) \in Places
      /\ FirstLineLocation(t) \in Places
  BY <1>1 DEF IsText, Places, MatchLocation, FuzzyLocation, FirstLineLocation
<1>3. ExtractLocation(t) \in Places
  BY <1>2 DEF ExtractLocation
<1>4. ASSUME MatchLocation(t) # None
      PROVE  Market[MatchLocation(t)] \in Currencies
  <2>1. MatchLocation(t) \in DOMAIN Market
    BY <1>4 DEF MatchLocation
  <2>2. QED
    BY <2>1, MarketAssumption DEF Currencies
<1>5. QED
  BY <1>2, <1>3, <1>4

\* The score is a sum of points below 100.
LEMMA ScoreType ==
  ASSUME NEW p, NEW t
  PROVE  CalculateConfidence(p, t) \in 0..100
  BY DEF CalculateConfidence

LEMMA ConstructedType ==
  ASSUME NEW i \in {"yes", "no", "unknown"}, NEW n \in {"rent", "sale", None},
         NEW e \in BOOLEAN, NEW m \in OptionalNat, NEW c \in Currencies, NEW l \in Places,
         NEW b \in OptionalNat, NEW u \in Units, NEW f \in Furnishing,
         NEW a \in SUBSET STRING, NEW k \in BOOLEAN, NEW h \in BOOLEAN, NEW s \in 0..100
  PROVE  Listing(i, n, e, m, c, l, b, u, f, a, k, h, s) \in ListingType
  BY DEF ListingType, Listing, Reasons

\* What the expressions read is a listing.
LEMMA RegexType ==
  ASSUME NEW t, IsText(t)
  PROVE  RegexParse(t) \in ListingType
<1> DEFINE money == ExtractPrice(t)
           place == IF MatchLocation(t) # None THEN MatchLocation(t) ELSE FuzzyLocation(t)
           currency == CASE money.currency # None   -> money.currency
                         [] MatchLocation(t) # None -> Market[MatchLocation(t)]
                         [] IndianUnit(t)           -> "INR"
                         [] OTHER                   -> None
           p == Listing("unknown", None, FALSE, money.price, currency, place,
                        ExtractConfig(t).bedrooms, None, IsFurnished(t),
                        ExtractAmenities(t), HasParking(t), ExtractPhone(t), 0)
<1>1. money.price \in OptionalNat /\ money.currency \in Currencies
  BY PriceType
<1>2. place \in Places
  BY PlaceType
<1>3. currency \in Currencies
  <2>1. {"INR", None} \subseteq Currencies
    BY DEF Currencies
  <2>2. QED
    BY <1>1, <2>1, PlaceType
<1>4. /\ ExtractConfig(t).bedrooms \in OptionalNat
      /\ IsFurnished(t) \in Furnishing
      /\ ExtractAmenities(t) \in SUBSET STRING
      /\ HasParking(t) \in BOOLEAN
      /\ ExtractPhone(t) \in BOOLEAN
  BY DEF IsText, ExtractConfig, IsFurnished, ExtractAmenities, HasParking, ExtractPhone
<1>5. /\ "unknown" \in {"yes", "no", "unknown"} /\ None \in {"rent", "sale", None}
      /\ FALSE \in BOOLEAN /\ None \in Units /\ 0 \in 0..100
  BY DEF Units
<1> HIDE DEF money, place, currency
<1>6. p \in ListingType
  BY Zenon, <1>1, <1>2, <1>3, <1>4, <1>5, ConstructedType
<1> HIDE DEF p
<1>7. [p EXCEPT !.conf = CalculateConfidence(p, t)] \in ListingType
  BY Zenon, <1>6, ScoreType DEF ListingType
<1>8. QED
  BY <1>7 DEF RegexParse, p, money, place, currency

-----------------------------------------------------------------------------
(* The models and the merge *)

LEMMA EmptyType == Empty \in ListingType
<1>1. None \in Places /\ NoNumber \in OptionalNat /\ 0 \in 0..100
  BY DEF Places, OptionalNat
<1>2. /\ None \in Currencies /\ None \in Units /\ None \in Furnishing
      /\ {} \in SUBSET STRING /\ FALSE \in BOOLEAN
  BY DEF Currencies, Units, Furnishing
<1>3. QED
  BY <1>1, <1>2, ConstructedType DEF Empty

LEMMA NormalisedType ==
  ASSUME NEW a \in Answers
  PROVE  NormaliseLlmOutput(a) \in ListingType
<1> DEFINE p == a.listing
           conf == IF p.isListing = "no" THEN 0
                   ELSE IF a.scored THEN Larger(0, Smaller(100, a.conf))
                   ELSE 50
           parking == "parking" \in p.amenities
<1>1. p \in ListingType /\ a.conf \in Int
  BY AnswersAssumption DEF AnswerType
<1>2. conf \in 0..100
  BY <1>1 DEF Larger, Smaller
<1>3. parking \in BOOLEAN
  OBVIOUS
<1>4. None \in Reasons
  BY DEF Reasons
<1> HIDE DEF p, conf, parking
<1>5. [p EXCEPT !.conf = conf, !.parking = parking, !.reason = None] \in ListingType
  BY Zenon, <1>1, <1>2, <1>3, <1>4 DEF ListingType
<1>6. QED
  BY <1>5 DEF NormaliseLlmOutput, p, conf, parking

LEMMA LlmType ==
  ASSUME NEW t, IsText(t), NEW reply \in Replies
  PROVE  LlmParse(t, reply) \in ListingType
<1>1. RegexFallback(t) \in ListingType
  <2>1. RegexParse(t) \in ListingType
    BY RegexType
  <2>2. None \in Places
    BY DEF Places
  <2>3. QED
    BY Zenon, <2>1, <2>2 DEF RegexFallback, ListingType
<1>2. Usable(reply) => NormaliseLlmOutput(reply) \in ListingType
  BY NormalisedType DEF Replies, Usable
<1>3. QED
  BY <1>1, <1>2, EmptyType DEF LlmParse

LEMMA MergedType ==
  ASSUME NEW p \in ListingType, NEW t, IsText(t)
  PROVE  Merge(p, RegexParse(t), t) \in ListingType
<1> DEFINE r == RegexParse(t)
           config == ExtractConfig(t)
           sized == config.bedrooms # NoNumber
           place == IF r.place # None THEN r.place
                    ELSE IF p.place # None THEN p.place
                    ELSE FirstLineLocation(t)
           price == IF /\ r.price # NoNumber
                       /\ p.price = NoNumber \/ FarApart(r.price, p.price)
                    THEN r.price ELSE p.price
           currency == IF r.price # NoNumber /\ p.currency = None
                       THEN r.currency ELSE p.currency
           bedrooms == IF sized THEN config.bedrooms ELSE p.bedrooms
           unit == IF sized /\ config.unit # None THEN config.unit ELSE p.unit
           furnished == IF r.furnished # None THEN r.furnished ELSE p.furnished
           amenities == p.amenities \cup r.amenities
           parking == p.parking \/ r.parking
           agrees(mine, theirs, null) == IF mine # null /\ mine = theirs THEN 1 ELSE 0
           agreements == agrees(price, r.price, NoNumber)
                         + agrees(bedrooms, r.bedrooms, NoNumber)
                         + agrees(place, r.place, None)
           conf == Smaller(100, p.conf + 5 * agreements)
<1>1. r \in ListingType
  BY RegexType
<1>2. config.bedrooms \in OptionalNat /\ config.unit \in Units
  BY DEF IsText, ExtractConfig
<1> HIDE DEF r, config
<1>3. place \in Places
  BY <1>1, PlaceType DEF ListingType
<1>4. price \in OptionalNat /\ currency \in Currencies
  BY <1>1 DEF ListingType
<1>5. bedrooms \in OptionalNat /\ unit \in Units
  BY <1>2 DEF ListingType
<1>6. furnished \in Furnishing
  BY <1>1 DEF ListingType
<1>7. amenities \in SUBSET STRING
  BY <1>1 DEF ListingType
<1>8. parking \in BOOLEAN
  BY <1>1 DEF ListingType
<1>9. conf \in 0..100
  <2>1. agreements \in 0..3
    OBVIOUS
  <2>2. p.conf \in 0..100
    BY DEF ListingType
  <2> HIDE DEF agreements
  <2>3. QED
    BY <2>1, <2>2 DEF Smaller
<1> HIDE DEF place, price, currency, bedrooms, unit, furnished, amenities, parking, conf
<1>10. [p EXCEPT !.place = place, !.price = price, !.currency = currency,
                 !.bedrooms = bedrooms, !.unit = unit, !.furnished = furnished,
                 !.amenities = amenities, !.parking = parking, !.conf = conf]
         \in ListingType
  BY Zenon, <1>3, <1>4, <1>5, <1>6, <1>7, <1>8, <1>9 DEF ListingType
<1>11. QED
  BY <1>10 DEF Merge, r, config, sized, place, price, currency, bedrooms, unit, furnished,
               amenities, parking, conf, agreements, agrees

\* At most nine of the compared fields differ.
LEMMA FewDifferences ==
  ASSUME NEW D \in SUBSET ConsensusFields
  PROVE  Cardinality(D) \in 0..9
<1>1. /\ IsFiniteSet(ConsensusFields)
      /\ Cardinality(ConsensusFields) <= 9
  <2> DEFINE Small(S, n) == IsFiniteSet(S) /\ Cardinality(S) \in 0..n
             S0 == {}
             S1 == S0 \cup {"intent"}
             S2 == S1 \cup {"unit"}
             S3 == S2 \cup {"bedrooms"}
             S4 == S3 \cup {"price"}
             S5 == S4 \cup {"currency"}
             S6 == S5 \cup {"place"}
             S7 == S6 \cup {"furnished"}
             S8 == S7 \cup {"parking"}
             S9 == S8 \cup {"period"}
  <2>1. ASSUME NEW S, NEW x, NEW n \in Nat, NEW m \in Nat, m = n + 1, Small(S, n)
        PROVE  Small(S \cup {x}, m)
    <3>1. /\ IsFiniteSet(S \cup {x})
          /\ Cardinality(S \cup {x}) \in {Cardinality(S), Cardinality(S) + 1}
      BY <2>1, FS_AddElement
    <3>2. Cardinality(S) \in 0..n
      BY <2>1
    <3>3. Cardinality(S \cup {x}) \in 0..m
      BY <2>1, <3>1, <3>2
    <3>4. QED
      BY <3>1, <3>3
  <2>2. Small(S0, 0)
    BY FS_EmptySet
  <2>3. 1 = 0 + 1 /\ 2 = 1 + 1 /\ 3 = 2 + 1 /\ 4 = 3 + 1 /\ 5 = 4 + 1 /\ 6 = 5 + 1
        /\ 7 = 6 + 1 /\ 8 = 7 + 1 /\ 9 = 8 + 1
    OBVIOUS
  <2> HIDE DEF Small, S0
  <2>4. {0, 1, 2, 3, 4, 5, 6, 7, 8, 9} \subseteq Nat
    OBVIOUS
  <2>5. Small(S1, 1)
    BY Zenon, <2>1, <2>2, <2>3, <2>4
  <2>6. Small(S2, 2)
    BY Zenon, <2>1, <2>5, <2>3, <2>4
  <2>7. Small(S3, 3)
    BY Zenon, <2>1, <2>6, <2>3, <2>4
  <2>8. Small(S4, 4)
    BY Zenon, <2>1, <2>7, <2>3, <2>4
  <2>9. Small(S5, 5)
    BY Zenon, <2>1, <2>8, <2>3, <2>4
  <2>10. Small(S6, 6)
    BY Zenon, <2>1, <2>9, <2>3, <2>4
  <2>11. Small(S7, 7)
    BY Zenon, <2>1, <2>10, <2>3, <2>4
  <2>12. Small(S8, 8)
    BY Zenon, <2>1, <2>11, <2>3, <2>4
  <2>13. Small(S9, 9)
    BY Zenon, <2>1, <2>12, <2>3, <2>4
  <2>14. ConsensusFields = S9
    BY DEF ConsensusFields, S0
  <2>15. QED
    BY <2>13, <2>14 DEF Small
<1>2. /\ IsFiniteSet(D)
      /\ Cardinality(D) <= Cardinality(ConsensusFields)
  BY <1>1, FS_Subset
<1>3. Cardinality(D) \in Nat
  BY <1>2, FS_CardinalityType
<1>4. Cardinality(ConsensusFields) \in Nat
  BY <1>1, FS_CardinalityType
<1>5. QED
  BY <1>1, <1>2, <1>3, <1>4

LEMMA ReconciledType ==
  ASSUME NEW p \in ListingType, NEW q \in ListingType
  PROVE  Reconcile(p, q) \in ListingType
<1> DEFINE filled(a, b, null) == IF a = null THEN b ELSE a
           differing == {f \in ConsensusFields : p[f] # q[f]}
           agreed == ComparedFields - Cardinality(differing)
                     - (IF p.place # q.place THEN 1 ELSE 0)
           base == Larger(p.conf, q.conf)
           intent == filled(p.intent, q.intent, None)
           period == p.period \/ q.period
           unit == filled(p.unit, q.unit, None)
           bedrooms == filled(p.bedrooms, q.bedrooms, NoNumber)
           price == filled(p.price, q.price, NoNumber)
           currency == filled(p.currency, q.currency, None)
           place == filled(p.place, q.place, None)
           furnished == filled(p.furnished, q.furnished, None)
           amenities == p.amenities \cup q.amenities
           isListing == IF "yes" \in {p.isListing, q.isListing} THEN "yes" ELSE "no"
           conf == Smaller(100, (base * (70 * ComparedFields + 60 * agreed))
                                  \div (100 * ComparedFields))
<1>1. /\ intent \in {"rent", "sale", None}
      /\ period \in BOOLEAN
      /\ unit \in Units
      /\ bedrooms \in OptionalNat
      /\ price \in OptionalNat
  BY DEF ListingType
<1>2. /\ currency \in Currencies
      /\ place \in Places
      /\ furnished \in Furnishing
      /\ amenities \in SUBSET STRING
      /\ isListing \in {"yes", "no", "unknown"}
  BY DEF ListingType
<1>3. conf \in 0..100
  <2>1. base \in Nat
    BY DEF ListingType, Larger
  <2>2. Cardinality(differing) \in 0..9
    BY FewDifferences
  <2> HIDE DEF base, differing
  <2> DEFINE factor == 70 * ComparedFields + 60 * agreed
             quotient == (base * factor) \div (100 * ComparedFields)
  <2>3. factor \in Nat
    BY <2>2 DEF ComparedFields
  <2> HIDE DEF factor
  <2>4. base * factor \in Nat
    BY <2>1, <2>3
  <2>5. quotient \in Nat
    <3> DEFINE product == base * factor
    <3>1. product \in Nat
      BY <2>4
    <3> HIDE DEF product
    <3>2. product \div 1300 \in Nat
      BY <3>1
    <3>3. QED
      BY <3>2 DEF ComparedFields, product
  <2>6. Smaller(100, quotient) \in 0..100
    <3> HIDE DEF quotient
    <3>1. QED
      BY <2>5 DEF Smaller
  <2>7. QED
    BY <2>6 DEF factor
<1> HIDE DEF intent, period, unit, bedrooms, price, currency, place, furnished,
             amenities, isListing, conf
<1>4. [p EXCEPT !.intent = intent, !.period = period, !.unit = unit, !.bedrooms = bedrooms,
                !.price = price, !.currency = currency, !.place = place,
                !.furnished = furnished, !.amenities = amenities,
                !.isListing = isListing, !.conf = conf]
        \in ListingType
  BY Zenon, <1>1, <1>2, <1>3 DEF ListingType
<1>5. QED
  BY <1>4 DEF Reconcile, intent, period, unit, bedrooms, price, currency, place,
              furnished, amenities, isListing, conf, base, agreed, differing, filled

\* Whatever the models answer, the parser's result is a listing.
LEMMA ParsedType ==
  ASSUME NEW t, IsText(t), NEW k, NEW groq \in Replies, NEW gemini \in Replies,
         NEW again \in Replies
  PROVE  DualParse(t, k, groq, gemini, again) \in ListingType
<1> DEFINE first == FirstResult(t, k, groq, gemini)
           second == ParseWithContext(DetectConflictsFull(first, RegexParse(t), t), again)
<1>1. first \in ListingType
  <2>1. Usable(GeminiParse(k, gemini)) => gemini \in Answers
    BY DEF GeminiParse, Replies, Usable
  <2>2. QED
    BY <2>1, LlmType, NormalisedType, ReconciledType DEF FirstResult
<1>2. Usable(second) => second \in Answers
  BY DEF ParseWithContext, Replies, Usable
<1> HIDE DEF first, second
<1>3. (IF Usable(second) THEN NormaliseLlmOutput(second) ELSE first) \in ListingType
  BY <1>1, <1>2, NormalisedType
<1>4. QED
  BY <1>3, MergedType, EmptyType DEF DualParse, first, second

-----------------------------------------------------------------------------
(* normalize *)

LEMMA RepairedType ==
  ASSUME NEW p \in ListingType, NEW t, IsText(t)
  PROVE  Repaired(p, t) \in ListingType
<1> DEFINE money == ExtractPrice(t)
           priced == p.price = NoNumber /\ money.price # NoNumber
           place == SanitizeLocation(p.place, t)
           price == IF priced THEN money.price ELSE p.price
           currency == IF priced /\ p.currency = None THEN money.currency ELSE p.currency
           furnished == IF p.furnished = None THEN IsFurnished(t) ELSE p.furnished
           amenities == p.amenities \cup ExtractAmenities(t)
<1>1. money.price \in OptionalNat /\ money.currency \in Currencies
  BY PriceType
<1> HIDE DEF money
<1>2. place \in Places
  BY PlaceType DEF SanitizeLocation, ListingType
<1>3. price \in OptionalNat /\ currency \in Currencies
  BY <1>1 DEF ListingType
<1>4. furnished \in Furnishing
  BY DEF ListingType, IsText, IsFurnished
<1>5. amenities \in SUBSET STRING
  BY DEF ListingType, IsText, ExtractAmenities
<1> HIDE DEF place, price, currency, furnished, amenities
<1>6. [p EXCEPT !.place = place, !.price = price, !.currency = currency,
                !.furnished = furnished, !.amenities = amenities] \in ListingType
  BY Zenon, <1>2, <1>3, <1>4, <1>5 DEF ListingType
<1>7. QED
  BY <1>6 DEF Repaired, money, priced, place, price, currency, furnished, amenities

LEMMA RescoredType ==
  ASSUME NEW p \in ListingType, NEW t
  PROVE  Rescored(p, t) \in ListingType
<1> DEFINE conf == Larger(p.conf, CalculateConfidence(p, t))
<1>1. conf \in 0..100
  BY ScoreType DEF ListingType, Larger
<1> HIDE DEF conf
<1>2. [p EXCEPT !.conf = conf] \in ListingType
  BY Zenon, <1>1 DEF ListingType
<1>3. QED
  BY <1>2 DEF Rescored, conf

\* A row with a reason to be in quarantine has confidence 0.
Hidden(p) == p.reason # None => p.conf = 0

LEMMA QuarantineHides ==
  ASSUME NEW p \in ListingType, NEW reason \in Reasons
  PROVE  /\ Quarantine(p, reason) \in ListingType
         /\ Hidden(Quarantine(p, reason))
<1>1. 0 \in 0..100
  OBVIOUS
<1>2. [p EXCEPT !.reason = reason, !.conf = 0] \in ListingType
  BY Zenon, <1>1 DEF ListingType
<1>3. [p EXCEPT !.reason = reason, !.conf = 0].conf = 0
  BY DEF ListingType
<1>4. QED
  BY <1>2, <1>3 DEF Quarantine, Hidden

LEMMA SanityType ==
  ASSUME NEW p \in ListingType
  PROVE  SanityCheck(p) \in ListingType /\ Hidden(SanityCheck(p))
<1>1. 0 \in 0..100 /\ None \in Reasons
  BY DEF Reasons
<1>2. [p EXCEPT !.conf = 0] \in ListingType
  BY Zenon, <1>1 DEF ListingType
<1>3. [p EXCEPT !.conf = 0].conf = 0
  BY DEF ListingType
<1>4. [p EXCEPT !.reason = None] \in ListingType
  BY Zenon, <1>1 DEF ListingType
<1>5. [p EXCEPT !.reason = None].reason = None
  BY DEF ListingType
<1>6. \A reason \in {"not_a_listing", "implausible_price_low", "implausible_rent_high"} :
        /\ Quarantine(p, reason) \in ListingType
        /\ Hidden(Quarantine(p, reason))
  BY QuarantineHides DEF Reasons, Verdicts
<1>7. Hidden([p EXCEPT !.conf = 0]) /\ Hidden([p EXCEPT !.reason = None])
  BY <1>3, <1>5 DEF Hidden
<1>8. CASE p.isListing = "no"
  BY <1>6, <1>8 DEF SanityCheck
<1>9. CASE p.isListing # "no" /\ p.reason \in Verdicts
  BY <1>2, <1>7, <1>9 DEF SanityCheck
<1>10. CASE p.isListing # "no" /\ p.reason \notin Verdicts
  BY <1>4, <1>6, <1>7, <1>10 DEF SanityCheck
<1>11. QED
  BY <1>8, <1>9, <1>10

\* normalize() keeps a listing a listing and hides what it quarantines.
LEMMA NormalizedType ==
  ASSUME NEW p \in ListingType, NEW t, IsText(t)
  PROVE  Normalize(p, t) \in ListingType /\ Hidden(Normalize(p, t))
  BY RepairedType, RescoredType, SanityType DEF Normalize

-----------------------------------------------------------------------------
(* What the writers of the table write *)

LEMMA StoredType ==
  ASSUME NEW p \in ListingType, Hidden(p)
  PROVE  Stored(p) \in ListingType /\ Hidden(Stored(p))
<1>1. "unknown" \in {"yes", "no", "unknown"} /\ FALSE \in BOOLEAN
  OBVIOUS
<1>2. [p EXCEPT !.isListing = "unknown", !.parking = FALSE] \in ListingType
  BY Zenon, <1>1 DEF ListingType
<1>3. /\ [p EXCEPT !.isListing = "unknown", !.parking = FALSE].reason = p.reason
      /\ [p EXCEPT !.isListing = "unknown", !.parking = FALSE].conf = p.conf
  BY DEF ListingType
<1>4. QED
  BY <1>2, <1>3 DEF Stored, Hidden

LEMMA RenormalizedType ==
  ASSUME NEW p \in ListingType, NEW t, IsText(t)
  PROVE  Renormalized(p, t) \in ListingType /\ Hidden(Renormalized(p, t))
<1>1. "unknown" \in {"yes", "no", "unknown"} /\ HasParking(t) \in BOOLEAN
  BY DEF HasParking, IsText
<1>2. [p EXCEPT !.isListing = "unknown", !.parking = HasParking(t)] \in ListingType
  BY Zenon, <1>1 DEF ListingType
<1>3. QED
  BY <1>2, NormalizedType, StoredType DEF Renormalized

LEMMA ResultType ==
  ASSUME NEW t \in Texts, NEW k \in Keys, NEW result \in ParseResults[t][k]
  PROVE  /\ result.parsed \in ListingType
         /\ Hidden(result.parsed)
         /\ result.informed \in BOOLEAN
<1>1. PICK groq \in Replies, gemini \in Replies, again \in Replies :
        result = [ parsed   |-> Normalize(DualParse(t, k, groq, gemini, again), t),
                   informed |-> k.groq
                                /\ \E reply \in {groq, gemini, again} : Usable(reply) ]
  BY DEF ParseResults
<1>2. DualParse(t, k, groq, gemini, again) \in ListingType
  BY ParsedType, TextsAssumption
<1>3. /\ Normalize(DualParse(t, k, groq, gemini, again), t) \in ListingType
      /\ Hidden(Normalize(DualParse(t, k, groq, gemini, again), t))
  BY <1>2, NormalizedType, TextsAssumption
<1>4. (k.groq /\ \E reply \in {groq, gemini, again} : Usable(reply)) \in BOOLEAN
  OBVIOUS
<1>5. QED
  BY <1>1, <1>3, <1>4

LEMMA EmptyHidden == Hidden(Empty) /\ Hidden(Stored(Empty))
<1>1. Hidden(Empty)
  BY DEF Hidden, Empty, Listing
<1>2. QED
  BY <1>1, EmptyType, StoredType

-----------------------------------------------------------------------------
(* The table *)

\* The inductive invariant: types, and no row and no result on its way into a
\* row is in quarantine with a confidence above 0.
TableInv ==
  /\ TypeOK
  /\ \A m \in Messages : Hidden(row[m].listing)
  /\ \A w \in Workers : Hidden(worker[w].parsed)

LEMMA TableInit == Init => TableInv
<1> SUFFICES ASSUME Init
             PROVE  TableInv
  OBVIOUS
<1>1. Stored(Empty) \in ListingType /\ Empty \in ListingType
  BY EmptyType, EmptyHidden, StoredType
<1>2. NoRow \in RowType /\ NoRow.listing = Stored(Empty)
  BY <1>1 DEF NoRow, RowType
<1>3. /\ Idle \in [message : Messages \cup {"none"}, parsed : ListingType,
                   informed : BOOLEAN]
      /\ Idle.parsed = Empty
  BY <1>1 DEF Idle
<1>4. used \in [Bounded -> Nat]
  BY DEF Init
<1>5. QED
  BY <1>2, <1>3, <1>4, EmptyHidden DEF Init, TableInv, TypeOK

LEMMA TableStep == TableInv /\ [Next]_vars => TableInv'
<1> SUFFICES ASSUME TableInv, [Next]_vars
             PROVE  TableInv'
  OBVIOUS
<1> USE DEF TableInv, TypeOK
<1>1. \A m \in Messages : text[m] \in Texts /\ IsText(text[m])
  BY TextsAssumption
<1>2. ASSUME NEW e \in Bounded, Use(e)
      PROVE  used' \in [Bounded -> Nat]
  BY <1>2 DEF Use
<1>3. "run" \in Bounded /\ "flag" \in Bounded /\ "pass" \in Bounded
      /\ "reparse" \in Bounded
  BY DEF Bounded
<1>4. ASSUME NEW w \in Workers, NEW m \in Messages, ParseMessage(w, m)
      PROVE  TableInv'
  <2>1. PICK result \in ParseResults[text[m]][keys] :
          worker' = [worker EXCEPT ![w] = [ message  |-> m,
                                            parsed   |-> result.parsed,
                                            informed |-> result.informed ]]
    BY <1>4 DEF ParseMessage
  <2>2. /\ result.parsed \in ListingType
        /\ Hidden(result.parsed)
        /\ result.informed \in BOOLEAN
    BY <1>1, ResultType
  <2>3. /\ worker' \in [Workers -> [message : Messages \cup {"none"},
                                    parsed : ListingType, informed : BOOLEAN]]
        /\ \A v \in Workers : Hidden(worker'[v].parsed)
    BY <2>1, <2>2
  <2>4. used' \in [Bounded -> Nat]
    BY <1>2, <1>3, <1>4 DEF ParseMessage
  <2>5. QED
    BY <2>3, <2>4, <1>4 DEF ParseMessage
<1>5. ASSUME NEW w \in Workers, NEW m \in Messages, ParseFails(w, m)
      PROVE  TableInv'
  <2>1. used' \in [Bounded -> Nat]
    BY <1>2, <1>3, <1>5 DEF ParseFails
  <2>2. QED
    BY <2>1, <1>5 DEF ParseFails
<1>6. ASSUME NEW w \in Workers, Save(w)
      PROVE  TableInv'
  <2> DEFINE m == worker[w].message
             saved == [ id      |-> IF Exists(m) THEN row[m].id ELSE nextId,
                        listing |-> Stored(worker[w].parsed) ]
  <2>1. Stored(worker[w].parsed) \in ListingType /\ Hidden(Stored(worker[w].parsed))
    BY StoredType
  <2>2. m \in Messages => saved \in RowType
    BY <2>1 DEF RowType
  <2>3. row' = [row EXCEPT ![m] = saved]
    BY <1>6 DEF Save
  <2>4. saved.listing = Stored(worker[w].parsed)
    OBVIOUS
  <2> HIDE DEF saved, m
  <2>5. row' \in [Messages -> RowType] /\ \A n \in Messages : Hidden(row'[n].listing)
    BY <2>1, <2>2, <2>3, <2>4
  <2>6. nextId' \in Nat
    BY <1>6 DEF Save
  <2>7. /\ Idle \in [message : Messages \cup {"none"}, parsed : ListingType,
                     informed : BOOLEAN]
        /\ Hidden(Idle.parsed)
    BY EmptyType, EmptyHidden DEF Idle
  <2>8. worker' = [worker EXCEPT ![w] = Idle]
    BY <1>6 DEF Save
  <2>9. /\ worker' \in [Workers -> [message : Messages \cup {"none"},
                                    parsed : ListingType, informed : BOOLEAN]]
        /\ \A v \in Workers : Hidden(worker'[v].parsed)
    BY <2>7, <2>8
  <2>10. QED
    BY <2>5, <2>6, <2>9, <1>6 DEF Save
<1>7. CASE ReadListings
  <2>1. PICK chosen \in SUBSET {m \in Messages : Exists(m)} :
          pass' = {[message |-> m, row |-> row[m]] : m \in chosen}
    BY <1>7 DEF ReadListings
  <2>2. pass' \subseteq [message : Messages, row : RowType]
    BY <2>1
  <2>3. used' \in [Bounded -> Nat]
    BY <1>2, <1>3, <1>7 DEF ReadListings
  <2>4. QED
    BY <2>2, <2>3, <1>7 DEF ReadListings
<1>8. ASSUME NEW s \in pass, WriteBack(s)
      PROVE  TableInv'
  <2> DEFINE m == s.message
             derived == Renormalized(s.row.listing, text[m])
             old == row[m].listing
             new == [old EXCEPT !.price = derived.price, !.currency = derived.currency,
                                !.furnished = derived.furnished,
                                !.amenities = derived.amenities,
                                !.place = derived.place, !.conf = derived.conf,
                                !.reason = derived.reason]
  <2>1. m \in Messages /\ s.row.listing \in ListingType /\ old \in ListingType
    BY DEF RowType
  <2>2. derived \in ListingType /\ Hidden(derived)
    BY <1>1, <2>1, RenormalizedType
  <2>3. row' = row \/ row' = [row EXCEPT ![m].listing = new]
    BY <1>8 DEF WriteBack
  <2> HIDE DEF m, derived, old
  <2>4. /\ derived.price \in OptionalNat /\ derived.currency \in Currencies
        /\ derived.furnished \in Furnishing /\ derived.amenities \in SUBSET STRING
        /\ derived.place \in Places /\ derived.conf \in 0..100
        /\ derived.reason \in Reasons
    BY <2>2 DEF ListingType
  <2>5. new \in ListingType
    BY Zenon, <2>1, <2>4 DEF ListingType
  <2>6. new.conf = derived.conf /\ new.reason = derived.reason
    BY <2>1 DEF ListingType
  <2>7. Hidden(new)
    BY <2>2, <2>6 DEF Hidden
  <2> HIDE DEF new
  <2>8. row' \in [Messages -> RowType] /\ \A n \in Messages : Hidden(row'[n].listing)
    BY <2>1, <2>3, <2>5, <2>7 DEF RowType
  <2>9. QED
    BY <2>8, <1>8 DEF WriteBack
<1>9. ASSUME NEW m \in Messages, Flag(m)
      PROVE  TableInv'
  <2>1. row[m].listing \in ListingType /\ "user_flagged" \in Reasons
    BY DEF RowType, Reasons, Verdicts
  <2>2. /\ Quarantine(row[m].listing, "user_flagged") \in ListingType
        /\ Hidden(Quarantine(row[m].listing, "user_flagged"))
    BY <2>1, QuarantineHides
  <2>3. row' = [row EXCEPT ![m].listing = Quarantine(row[m].listing, "user_flagged")]
    BY <1>9 DEF Flag
  <2>4. row' \in [Messages -> RowType] /\ \A n \in Messages : Hidden(row'[n].listing)
    BY <2>2, <2>3 DEF RowType
  <2>5. used' \in [Bounded -> Nat]
    BY <1>2, <1>3, <1>9 DEF Flag
  <2>6. QED
    BY <2>4, <2>5, <1>9 DEF Flag
<1>10. CASE Reparse
  <2>1. NoRow \in RowType /\ Hidden(NoRow.listing)
    BY EmptyType, EmptyHidden, StoredType DEF NoRow, RowType
  <2>2. row' = [m \in Messages |-> NoRow]
    BY <1>10 DEF Reparse
  <2>3. row' \in [Messages -> RowType] /\ \A n \in Messages : Hidden(row'[n].listing)
    BY <2>1, <2>2
  <2>4. used' \in [Bounded -> Nat]
    BY <1>2, <1>3, <1>10 DEF Reparse
  <2>5. QED
    BY <2>3, <2>4, <1>10 DEF Reparse
<1>11. CASE UNCHANGED vars
  BY <1>11 DEF vars
<1>12. QED
  BY <1>4, <1>5, <1>6, <1>7, <1>8, <1>9, <1>10, <1>11 DEF Next

\* Every variable of the table keeps its type; above all, a confidence stays within
\* 0..100 in the worker, in the row and in a pass, for every market and whatever
\* confidence the models state, for that is clamped on the way in.
THEOREM TableTypes == Spec => []TypeOK
<1>1. TableInv => TypeOK
  BY DEF TableInv
<1>2. QED
  BY TableInit, TableStep, <1>1, PTL DEF Spec

\* Whichever writers met on a row, one that is in quarantine has confidence 0,
\* so the feed's confidence gate keeps it out.
THEOREM QuarantineIsHidden == Spec => []QuarantinedIsHidden
<1>1. TableInv => QuarantinedIsHidden
  BY DEF TableInv, QuarantinedIsHidden, Hidden
<1>2. QED
  BY TableInit, TableStep, <1>1, PTL DEF Spec

-----------------------------------------------------------------------------
(* The feed *)

\* The feed writes nothing of the table: every step of it is a step of the table
\* or leaves the table alone, so whatever is proved of Spec holds under FeedSpec.
THEOREM FeedKeepsTable == FeedSpec => Spec
<1>1. FeedInit => Init
  BY DEF FeedInit
<1>2. [FeedNext]_feedVars => [Next]_vars
  <2>1. ASSUME NEW q \in Requests,
               Fetch(q) \/ Query(q) \/ UserUnknown(q) \/ Store(q) \/ Respond(q) \/ FetchFails(q)
        PROVE  UNCHANGED vars
    BY <2>1 DEF Fetch, Query, UserUnknown, Store, Respond, FetchFails
  <2>2. Expire => UNCHANGED vars
    BY DEF Expire
  <2>3. UNCHANGED feedVars => UNCHANGED vars
    BY DEF feedVars
  <2>4. QED
    BY <2>1, <2>2, <2>3 DEF FeedNext
<1>3. QED
  BY <1>1, <1>2, PTL DEF FeedSpec, Spec

\* What is cached, on its way or shown is a set of stored messages' listings.
THEOREM FeedTypes == FeedSpec => []FeedTypeOK
<1> DEFINE FeedTyped ==
      /\ entry \in [held : BOOLEAN, rows : SUBSET Messages]
      /\ request \in [Requests -> [at : {"idle", "query", "store", "respond"},
                                   rows : SUBSET Messages]]
      /\ shown \subseteq Messages
<1>1. FeedInit => FeedTyped
  BY DEF FeedInit, Missing, NoRows
<1>2. FeedTyped /\ [FeedNext]_feedVars => FeedTyped'
  <2> SUFFICES ASSUME FeedTyped, [FeedNext]_feedVars
               PROVE  FeedTyped'
    OBVIOUS
  <2> USE DEF At
  <2>1. CASE Next /\ UNCHANGED feed
    BY <2>1 DEF feed
  <2>2. CASE \E q \in Requests : Fetch(q)
    BY <2>2 DEF Fetch, CacheGet
  <2>3. CASE \E q \in Requests : Query(q)
    BY <2>3 DEF Query, Visible
  <2>4. CASE \E q \in Requests : UserUnknown(q)
    BY <2>4 DEF UserUnknown
  <2>5. CASE \E q \in Requests : Store(q)
    BY <2>5 DEF Store, CacheSet
  <2>6. CASE \E q \in Requests : Respond(q)
    BY <2>6 DEF Respond
  <2>7. CASE \E q \in Requests : FetchFails(q)
    BY <2>7 DEF FetchFails
  <2>8. CASE Expire
    BY <2>8 DEF Expire, Missing
  <2>9. CASE UNCHANGED feedVars
    BY <2>9 DEF feedVars, feed
  <2>10. QED
    BY <2>1, <2>2, <2>3, <2>4, <2>5, <2>6, <2>7, <2>8, <2>9 DEF FeedNext
<1>3. TypeOK /\ FeedTyped => FeedTypeOK
  BY DEF FeedTypeOK
<1>4. QED
  BY <1>1, <1>2, <1>3, FeedKeepsTable, TableTypes, PTL DEF FeedSpec
=============================================================================
