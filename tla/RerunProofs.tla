----------------------------- MODULE RerunProofs -----------------------------
(***************************************************************************)
(* Proof that the live path and a re-run agree (RerunChangesNothing), for  *)
(* any texts and answers of the models: normalize() applied to a row it    *)
(* has produced changes nothing.                                           *)
(***************************************************************************)
EXTENDS ListingsProofs

-----------------------------------------------------------------------------
(* The fields that each stage of normalize() changes *)

LEMMA SameFields ==
  ASSUME NEW p \in ListingType, NEW q \in ListingType,
         p.isListing = q.isListing, p.intent = q.intent, p.period = q.period,
         p.price = q.price,
         p.currency = q.currency, p.place = q.place, p.bedrooms = q.bedrooms,
         p.unit = q.unit, p.furnished = q.furnished, p.amenities = q.amenities,
         p.parking = q.parking, p.phone = q.phone, p.conf = q.conf,
         p.reason = q.reason
  PROVE  p = q
  BY DEF ListingType

\* What no stage changes.
Kept(p, q) ==
  /\ q.isListing = p.isListing
  /\ q.intent = p.intent
  /\ q.period = p.period
  /\ q.bedrooms = p.bedrooms
  /\ q.unit = p.unit
  /\ q.parking = p.parking
  /\ q.phone = p.phone

\* What only the repairs change.
KeptRepairs(p, q) ==
  /\ q.price = p.price
  /\ q.currency = p.currency
  /\ q.place = p.place
  /\ q.furnished = p.furnished
  /\ q.amenities = p.amenities

LEMMA RepairedFields ==
  ASSUME NEW p \in ListingType, NEW t
  PROVE  LET q == Repaired(p, t)
             priced == p.price = NoNumber /\ ExtractPrice(t).price # NoNumber
         IN  /\ Kept(p, q)
             /\ q.conf = p.conf
             /\ q.reason = p.reason
             /\ q.place = SanitizeLocation(p.place, t)
             /\ q.price = IF priced THEN ExtractPrice(t).price ELSE p.price
             /\ q.currency = IF priced /\ p.currency = None
                             THEN ExtractPrice(t).currency ELSE p.currency
            
             /\ q.furnished = IF p.furnished = None THEN IsFurnished(t) ELSE p.furnished
             /\ q.amenities = p.amenities \cup ExtractAmenities(t)
  BY DEF Repaired, ListingType, Kept

LEMMA RescoredFields ==
  ASSUME NEW p \in ListingType, NEW t
  PROVE  LET q == Rescored(p, t)
         IN  /\ Kept(p, q)
             /\ KeptRepairs(p, q)
             /\ q.reason = p.reason
             /\ q.conf = Larger(p.conf, CalculateConfidence(p, t))
  BY DEF Rescored, ListingType, Kept, KeptRepairs

\* The price is one that _sanityCheck puts into quarantine.
TooLow(p)  == p.price > 0 /\ p.price <= PriceFloor
TooHigh(p) == IsRent(p) /\ p.price > RentCeiling(p.currency)

LEMMA QuarantineFields ==
  ASSUME NEW p \in ListingType, NEW reason
  PROVE  LET q == Quarantine(p, reason)
         IN  Kept(p, q) /\ KeptRepairs(p, q) /\ q.reason = reason /\ q.conf = 0
  BY DEF Quarantine, ListingType, Kept, KeptRepairs

LEMMA SanityFields ==
  ASSUME NEW p \in ListingType
  PROVE  LET q == SanityCheck(p)
         IN  /\ Kept(p, q)
             /\ KeptRepairs(p, q)
             /\ p.isListing = "no" => q.reason = "not_a_listing" /\ q.conf = 0
             /\ (p.isListing # "no" /\ p.reason \in Verdicts)
                  => q.reason = p.reason /\ q.conf = 0
             /\ (p.isListing # "no" /\ p.reason \notin Verdicts) =>
                  /\ TooLow(p) => q.reason = "implausible_price_low" /\ q.conf = 0
                  /\ (~TooLow(p) /\ TooHigh(p))
                       => q.reason = "implausible_rent_high" /\ q.conf = 0
                  /\ (~TooLow(p) /\ ~TooHigh(p)) => q.reason = None /\ q.conf = p.conf
<1>1. LET q == [p EXCEPT !.conf = 0]
      IN  Kept(p, q) /\ KeptRepairs(p, q) /\ q.reason = p.reason /\ q.conf = 0
  BY DEF ListingType, Kept, KeptRepairs
<1>2. LET q == [p EXCEPT !.reason = None]
      IN  Kept(p, q) /\ KeptRepairs(p, q) /\ q.reason = None /\ q.conf = p.conf
  BY DEF ListingType, Kept, KeptRepairs
<1>3. CASE p.isListing = "no"
  BY <1>3, QuarantineFields DEF SanityCheck
<1>4. CASE p.isListing # "no" /\ p.reason \in Verdicts
  BY <1>1, <1>4 DEF SanityCheck
<1>5. CASE p.isListing # "no" /\ p.reason \notin Verdicts
  <2>1. CASE TooLow(p)
    BY <1>5, <2>1, QuarantineFields DEF SanityCheck, TooLow
  <2>2. CASE ~TooLow(p) /\ TooHigh(p)
    BY <1>5, <2>2, QuarantineFields DEF SanityCheck, TooLow, TooHigh
  <2>3. CASE ~TooLow(p) /\ ~TooHigh(p)
    BY <1>5, <2>3, <1>2 DEF SanityCheck, TooLow, TooHigh
  <2>4. QED
    BY <2>1, <2>2, <2>3
<1>6. QED
  BY <1>3, <1>4, <1>5

LEMMA StoredFields ==
  ASSUME NEW p \in ListingType
  PROVE  LET q == Stored(p)
         IN  /\ KeptRepairs(p, q)
             /\ q.isListing = "unknown" /\ q.parking = FALSE
             /\ q.intent = p.intent /\ q.period = p.period
             /\ q.bedrooms = p.bedrooms /\ q.unit = p.unit
             /\ q.phone = p.phone /\ q.conf = p.conf /\ q.reason = p.reason
  BY DEF Stored, ListingType, KeptRepairs

\* What the pass makes of a stored row before it normalizes it.
Loaded(p, t) == [p EXCEPT !.isListing = "unknown", !.parking = HasParking(t)]

LEMMA LoadedFields ==
  ASSUME NEW p \in ListingType, NEW t, IsText(t)
  PROVE  LET q == Loaded(p, t)
         IN  /\ q \in ListingType
             /\ KeptRepairs(p, q)
             /\ q.isListing = "unknown" /\ q.parking = HasParking(t)
             /\ q.intent = p.intent /\ q.period = p.period
             /\ q.bedrooms = p.bedrooms /\ q.unit = p.unit
             /\ q.phone = p.phone /\ q.conf = p.conf /\ q.reason = p.reason
<1>1. "unknown" \in {"yes", "no", "unknown"} /\ HasParking(t) \in BOOLEAN
  BY DEF HasParking, IsText
<1>2. Loaded(p, t) \in ListingType
  BY Zenon, <1>1 DEF Loaded, ListingType
<1>3. QED
  BY <1>2 DEF Loaded, ListingType, KeptRepairs

-----------------------------------------------------------------------------
(* normalize() is idempotent *)

LEMMA ScoreGrows ==
  ASSUME NEW p \in ListingType, NEW q \in ListingType, NEW t,
         KeptRepairs(p, q), q.bedrooms = p.bedrooms, q.phone = p.phone,
         q.parking => p.parking
  PROVE  CalculateConfidence(q, t) <= CalculateConfidence(p, t)
  BY DEF CalculateConfidence, KeptRepairs, HasParking

LEMMA PlaceSettles ==
  ASSUME NEW place, NEW t
  PROVE  SanitizeLocation(SanitizeLocation(place, t), t) = SanitizeLocation(place, t)
  BY DEF SanitizeLocation

\* Repairing what was repaired from the same text changes nothing.
LEMMA RepairsSettle ==
  ASSUME NEW p \in ListingType, NEW t, IsText(t), NEW q \in ListingType,
         KeptRepairs(Repaired(p, t), q)
  PROVE  KeptRepairs(q, Repaired(q, t))
<1> DEFINE r == Repaired(p, t)
           s == Repaired(q, t)
<1>1. /\ q.price = r.price /\ q.currency = r.currency /\ q.place = r.place
      /\ q.furnished = r.furnished /\ q.amenities = r.amenities
  BY DEF KeptRepairs
<1>2. s.place = q.place
  BY <1>1, RepairedFields, PlaceSettles
<1>3. s.price = q.price /\ s.currency = q.currency
  BY <1>1, RepairedFields
<1>4. s.furnished = q.furnished
  BY <1>1, RepairedFields
<1>5. s.amenities = q.amenities
  BY <1>1, RepairedFields
<1>6. QED
  BY <1>2, <1>3, <1>4, <1>5 DEF KeptRepairs

\* A result that is no listing, or that knows of the text's parking, is settled
\* once it is stored.
LEMMA NormalizeSettles ==
  ASSUME NEW p \in ListingType, NEW t, IsText(t),
         p.isListing = "no" \/ (HasParking(t) => p.parking)
  PROVE  Renormalized(Stored(Normalize(p, t)), t) = Stored(Normalize(p, t))
<1> DEFINE r1 == Repaired(p, t)
           r2 == Rescored(r1, t)
           r3 == SanityCheck(r2)
           n  == Stored(r3)
           n0 == Loaded(n, t)
           s1 == Repaired(n0, t)
           s2 == Rescored(s1, t)
           s3 == SanityCheck(s2)
           e  == Stored(s3)
<1>1. r1 \in ListingType /\ r2 \in ListingType /\ r3 \in ListingType /\ Hidden(r3)
  BY RepairedType, RescoredType, SanityType
<1>2. n \in ListingType /\ n0 \in ListingType
  BY <1>1, StoredType, LoadedFields
<1>3. s1 \in ListingType /\ s2 \in ListingType /\ s3 \in ListingType /\ Hidden(s3)
  BY <1>2, RepairedType, RescoredType, SanityType
<1>4. e \in ListingType
  BY <1>3, StoredType
<1>5. /\ Kept(p, r1) /\ r1.reason = p.reason
      /\ Kept(r1, r2) /\ KeptRepairs(r1, r2) /\ r2.reason = r1.reason
      /\ r2.conf = Larger(r1.conf, CalculateConfidence(r1, t))
      /\ Kept(r2, r3) /\ KeptRepairs(r2, r3)
  BY <1>1, RepairedFields, RescoredFields, SanityFields
<1>6. /\ KeptRepairs(r3, n) /\ KeptRepairs(n, n0)
      /\ n.isListing = "unknown" /\ n.parking = FALSE
      /\ n.intent = r3.intent /\ n.period = r3.period
      /\ n.bedrooms = r3.bedrooms /\ n.unit = r3.unit
      /\ n.phone = r3.phone /\ n.conf = r3.conf /\ n.reason = r3.reason
      /\ n0.isListing = "unknown" /\ n0.parking = HasParking(t)
      /\ n0.intent = n.intent /\ n0.period = n.period
      /\ n0.bedrooms = n.bedrooms /\ n0.unit = n.unit
      /\ n0.phone = n.phone /\ n0.conf = n.conf /\ n0.reason = n.reason
  <2>1. /\ KeptRepairs(r3, n)
        /\ n.isListing = "unknown" /\ n.parking = FALSE
        /\ n.intent = r3.intent /\ n.period = r3.period
        /\ n.bedrooms = r3.bedrooms /\ n.unit = r3.unit
        /\ n.phone = r3.phone /\ n.conf = r3.conf /\ n.reason = r3.reason
    <3> HIDE DEF r3
    <3>1. QED
      BY <1>1, StoredFields
  <2>2. /\ KeptRepairs(n, n0)
        /\ n0.isListing = "unknown" /\ n0.parking = HasParking(t)
        /\ n0.intent = n.intent /\ n0.period = n.period
        /\ n0.bedrooms = n.bedrooms /\ n0.unit = n.unit
        /\ n0.phone = n.phone /\ n0.conf = n.conf /\ n0.reason = n.reason
    <3> HIDE DEF n
    <3>1. QED
      BY <1>2, LoadedFields
  <2>3. QED
    BY <2>1, <2>2
<1>7. /\ Kept(n0, s1) /\ s1.conf = n0.conf /\ s1.reason = n0.reason
      /\ Kept(s1, s2) /\ KeptRepairs(s1, s2) /\ s2.reason = s1.reason
      /\ s2.conf = Larger(s1.conf, CalculateConfidence(s1, t))
      /\ Kept(s2, s3) /\ KeptRepairs(s2, s3)
  BY <1>2, <1>3, RepairedFields, RescoredFields, SanityFields
<1>8. /\ KeptRepairs(s3, e)
      /\ e.isListing = "unknown" /\ e.parking = FALSE
      /\ e.intent = s3.intent /\ e.period = s3.period
      /\ e.bedrooms = s3.bedrooms /\ e.unit = s3.unit
      /\ e.phone = s3.phone /\ e.conf = s3.conf /\ e.reason = s3.reason
  BY <1>3, StoredFields
<1> HIDE DEF r1, r2, r3, n, n0, s1, s2, s3, e
<1>9. KeptRepairs(r1, n0)
  BY <1>5, <1>6 DEF KeptRepairs
<1>10. KeptRepairs(n0, s1)
  BY <1>2, <1>9, RepairsSettle DEF r1, s1
<1>11. KeptRepairs(n, e)
  BY <1>6, <1>7, <1>8, <1>10 DEF KeptRepairs
<1>12. e.intent = n.intent /\ e.period = n.period /\ e.bedrooms = n.bedrooms
       /\ e.unit = n.unit
       /\ e.phone = n.phone
  BY <1>6, <1>7, <1>8 DEF Kept
<1>13. e.conf = n.conf /\ e.reason = n.reason
  <2>1. s2.isListing = "unknown" /\ s2.reason = r3.reason
    BY <1>6, <1>7 DEF Kept
  <2>2. s2.price = r2.price /\ s2.currency = r2.currency /\ s2.intent = r2.intent
        /\ s2.period = r2.period
    BY <1>5, <1>6, <1>7, <1>9, <1>10 DEF Kept, KeptRepairs
  <2>3. (TooLow(s2) <=> TooLow(r2)) /\ (TooHigh(s2) <=> TooHigh(r2))
    BY <2>2 DEF TooLow, TooHigh, IsRent
  <2>4. /\ "not_a_listing" \in Verdicts /\ None \notin Verdicts
        /\ "implausible_price_low" \notin Verdicts
        /\ "implausible_rent_high" \notin Verdicts
    BY DEF Verdicts, None
  <2>5. r2.isListing = p.isListing /\ r2.parking = p.parking
        /\ r2.reason = p.reason
    BY <1>5 DEF Kept
  <2>6. CASE r2.isListing = "no"
    <3>1. r3.reason = "not_a_listing" /\ r3.conf = 0
      BY <2>6, <1>1, SanityFields DEF r3
    <3>2. s3.reason = r3.reason /\ s3.conf = 0
      BY <3>1, <2>1, <2>4, <1>3, SanityFields DEF s3
    <3>3. QED
      BY <3>1, <3>2, <1>6, <1>8
  <2>7. CASE r2.isListing # "no" /\ r2.reason \in Verdicts
    <3>1. r3.reason = r2.reason /\ r3.conf = 0
      BY <2>7, <1>1, SanityFields DEF r3
    <3>2. s3.reason = r3.reason /\ s3.conf = 0
      BY <3>1, <2>7, <2>1, <1>3, SanityFields DEF s3
    <3>3. QED
      BY <3>1, <3>2, <1>6, <1>8
  <2>8. CASE r2.isListing # "no" /\ r2.reason \notin Verdicts
    <3>1. CASE TooLow(r2)
      <4>1. r3.reason = "implausible_price_low" /\ r3.conf = 0
        BY <2>8, <3>1, <1>1, SanityFields DEF r3
      <4>2. s3.reason = "implausible_price_low" /\ s3.conf = 0
        BY <4>1, <3>1, <2>1, <2>3, <2>4, <1>3, SanityFields DEF s3
      <4>3. QED
        BY <4>1, <4>2, <1>6, <1>8
    <3>2. CASE ~TooLow(r2) /\ TooHigh(r2)
      <4>1. r3.reason = "implausible_rent_high" /\ r3.conf = 0
        BY <2>8, <3>2, <1>1, SanityFields DEF r3
      <4>2. s3.reason = "implausible_rent_high" /\ s3.conf = 0
        BY <4>1, <3>2, <2>1, <2>3, <2>4, <1>3, SanityFields DEF s3
      <4>3. QED
        BY <4>1, <4>2, <1>6, <1>8
    <3>3. CASE ~TooLow(r2) /\ ~TooHigh(r2)
      <4>1. r3.reason = None /\ r3.conf = r2.conf
        BY <2>8, <3>3, <1>1, SanityFields DEF r3
      <4>2. s3.reason = None /\ s3.conf = s2.conf
        BY <4>1, <3>3, <2>1, <2>3, <2>4, <1>3, SanityFields DEF s3
      <4>3. CalculateConfidence(s1, t) <= CalculateConfidence(r1, t)
        <5>1. KeptRepairs(r1, s1)
          BY <1>9, <1>10 DEF KeptRepairs
        <5>2. s1.bedrooms = r1.bedrooms /\ s1.phone = r1.phone
              /\ s1.parking = HasParking(t) /\ r1.parking = p.parking
          BY <1>5, <1>6, <1>7 DEF Kept
        <5>3. s1.parking => r1.parking
          BY <5>2, <2>5, <2>8
        <5>4. QED
          BY <5>1, <5>2, <5>3, <1>1, <1>3, ScoreGrows
      <4>4. s1.conf = r2.conf
        BY <4>1, <1>6, <1>7
      <4>5. /\ CalculateConfidence(r1, t) \in Int
            /\ CalculateConfidence(s1, t) \in Int
            /\ r1.conf \in Int
        BY <1>1, ScoreType DEF ListingType
      <4>6. s2.conf = r2.conf
        BY <4>3, <4>4, <4>5, <1>5, <1>7 DEF Larger
      <4>7. QED
        BY <4>1, <4>2, <4>6, <1>6, <1>8
    <3>4. QED
      BY <3>1, <3>2, <3>3
  <2>9. QED
    BY <2>6, <2>7, <2>8
<1>14. e = n
  BY <1>2, <1>4, <1>6, <1>8, <1>11, <1>12, <1>13, SameFields DEF KeptRepairs
<1>15. QED
  BY <1>14 DEF Renormalized, Normalize, Loaded, e, n, n0, s1, s2, s3, r1, r2, r3

-----------------------------------------------------------------------------
(* Every result is settled once it is stored *)

\* The result of the parser knows of the text's parking, or is no listing.
LEMMA ParserSeesParking ==
  ASSUME NEW t, IsText(t), NEW k, NEW groq \in Replies, NEW gemini \in Replies,
         NEW again \in Replies
  PROVE  LET p == DualParse(t, k, groq, gemini, again)
         IN  p.isListing = "no" \/ (HasParking(t) => p.parking)
<1> DEFINE first == FirstResult(t, k, groq, gemini)
           second == ParseWithContext(DetectConflictsFull(first, RegexParse(t), t), again)
           primary == IF Usable(second) THEN NormaliseLlmOutput(second) ELSE first
<1>1. first \in ListingType
  <2>1. Usable(GeminiParse(k, gemini)) => gemini \in Answers
    BY DEF GeminiParse, Replies, Usable
  <2>2. QED
    BY <2>1, LlmType, NormalisedType, ReconciledType DEF FirstResult
<1>2. Usable(second) => second \in Answers
  BY DEF ParseWithContext, Replies, Usable
<1> HIDE DEF first, second
<1>3. primary \in ListingType
  BY <1>1, <1>2, NormalisedType
<1> HIDE DEF primary
<1>4. RegexParse(t).parking = HasParking(t)
  BY DEF RegexParse, Listing
<1>5. Merge(primary, RegexParse(t), t).parking = (primary.parking \/ RegexParse(t).parking)
  BY <1>3 DEF Merge, ListingType
<1>6. Empty.isListing = "no"
  BY DEF Empty, Listing
<1>7. CASE t.shape = "tiny" \/ ~k.groq
  BY <1>6, <1>7 DEF DualParse
<1>8. CASE ~(t.shape = "tiny" \/ ~k.groq)
  <2>1. DualParse(t, k, groq, gemini, again) = Merge(primary, RegexParse(t), t)
    BY <1>8 DEF DualParse, primary, first, second
  <2>2. QED
    BY <2>1, <1>4, <1>5
<1>9. QED
  BY <1>7, <1>8

\* A further pass would not change the stored listing p.
SettledFor(p, t) == Renormalized(p, t) = p

LEMMA ResultSettles ==
  ASSUME NEW t \in Texts, NEW k \in Keys, NEW result \in ParseResults[t][k]
  PROVE  SettledFor(Stored(result.parsed), t)
<1>1. PICK groq \in Replies, gemini \in Replies, again \in Replies :
        result = [ parsed   |-> Normalize(DualParse(t, k, groq, gemini, again), t),
                   informed |-> k.groq
                               
                                /\ \E reply \in {groq, gemini, again} : Usable(reply) ]
  BY DEF ParseResults
<1> DEFINE p == DualParse(t, k, groq, gemini, again)
<1>2. p \in ListingType /\ (p.isListing = "no" \/ (HasParking(t) => p.parking))
  BY ParsedType, ParserSeesParking, TextsAssumption
<1> HIDE DEF p
<1>3. Renormalized(Stored(Normalize(p, t)), t) = Stored(Normalize(p, t))
  BY <1>2, NormalizeSettles, TextsAssumption
<1>4. result.parsed = Normalize(p, t)
  BY <1>1 DEF p
<1>5. QED
  BY <1>3, <1>4 DEF SettledFor

\* So does what a pass derives from any listing.
LEMMA PassSettles ==
  ASSUME NEW p \in ListingType, NEW t, IsText(t)
  PROVE  SettledFor(Renormalized(p, t), t)
<1>1. Loaded(p, t) \in ListingType /\ Loaded(p, t).parking = HasParking(t)
  BY LoadedFields
<1>2. Renormalized(p, t) = Stored(Normalize(Loaded(p, t), t))
  BY DEF Renormalized, Loaded
<1>3. QED
  BY <1>1, <1>2, NormalizeSettles DEF SettledFor

LEMMA RenormalizedFields ==
  ASSUME NEW p \in ListingType, NEW t, IsText(t)
  PROVE  LET q == Renormalized(p, t)
         IN  /\ q.isListing = "unknown" /\ q.parking = FALSE
             /\ q.intent = p.intent /\ q.period = p.period
             /\ q.bedrooms = p.bedrooms /\ q.unit = p.unit
             /\ q.phone = p.phone
<1> DEFINE p0 == Loaded(p, t)
           p1 == Repaired(p0, t)
           p2 == Rescored(p1, t)
           p3 == SanityCheck(p2)
<1>1. /\ p0 \in ListingType
      /\ p0.intent = p.intent /\ p0.period = p.period
      /\ p0.bedrooms = p.bedrooms /\ p0.unit = p.unit
      /\ p0.phone = p.phone
  BY LoadedFields
<1> HIDE DEF p0
<1>2. p1 \in ListingType /\ Kept(p0, p1)
  BY <1>1, RepairedType, RepairedFields
<1> HIDE DEF p1
<1>3. p2 \in ListingType /\ Kept(p1, p2)
  BY <1>2, RescoredType, RescoredFields
<1> HIDE DEF p2
<1>4. p3 \in ListingType /\ Kept(p2, p3)
  BY <1>3, SanityType, SanityFields
<1> HIDE DEF p3
<1>5. /\ Stored(p3).isListing = "unknown" /\ Stored(p3).parking = FALSE
      /\ Stored(p3).intent = p3.intent /\ Stored(p3).period = p3.period
      /\ Stored(p3).bedrooms = p3.bedrooms
      /\ Stored(p3).unit = p3.unit /\ Stored(p3).phone = p3.phone
  BY <1>4, StoredFields
<1>6. Renormalized(p, t) = Stored(p3)
  BY DEF Renormalized, Normalize, Loaded, p0, p1, p2, p3
<1>7. QED
  BY <1>1, <1>2, <1>3, <1>4, <1>5, <1>6 DEF Kept

-----------------------------------------------------------------------------
(* The table *)

AsStored(p) == p.isListing = "unknown" /\ p.parking = FALSE

\* The inductive invariant: rows hold what the table has columns for, and what a
\* worker is about to save is settled for its message.
RerunInv ==
  /\ TableInv
  /\ \A m \in Messages : AsStored(row[m].listing)
  /\ \A w \in Workers : worker[w] # Idle =>
       SettledFor(Stored(worker[w].parsed), text[worker[w].message])

\* What WriteBack leaves in the row it writes.
LEMMA WriteBackFields ==
  ASSUME TableInv, NEW s \in pass, WriteBack(s)
  PROVE  \/ row' = row
         \/ LET derived == Renormalized(s.row.listing, text[s.message])
                old     == row[s.message].listing
                new     == row'[s.message].listing
            IN  /\ \A n \in Messages : n # s.message => row'[n] = row[n]
                /\ new.isListing = old.isListing /\ new.parking = old.parking
                /\ new.intent = old.intent /\ new.period = old.period
                /\ new.bedrooms = old.bedrooms
                /\ new.unit = old.unit /\ new.phone = old.phone
                /\ new.price = derived.price /\ new.currency = derived.currency
                /\ new.place = derived.place /\ new.furnished = derived.furnished
                /\ new.amenities = derived.amenities
                /\ new.conf = derived.conf /\ new.reason = derived.reason
<1> DEFINE m == s.message
           derived == Renormalized(s.row.listing, text[m])
           old == row[m].listing
           new == [old EXCEPT !.price = derived.price, !.currency = derived.currency,
                              !.furnished = derived.furnished,
                              !.amenities = derived.amenities,
                              !.place = derived.place, !.conf = derived.conf,
                              !.reason = derived.reason]
<1>1. m \in Messages /\ old \in ListingType /\ row \in [Messages -> RowType]
  BY DEF TableInv, TypeOK, RowType
<1>2. row' = row \/ row' = [row EXCEPT ![m].listing = new]
  BY DEF WriteBack
<1> HIDE DEF m, old, derived
<1>3. /\ new.isListing = old.isListing /\ new.parking = old.parking
      /\ new.intent = old.intent /\ new.period = old.period
      /\ new.bedrooms = old.bedrooms
      /\ new.unit = old.unit /\ new.phone = old.phone
      /\ new.price = derived.price /\ new.currency = derived.currency
      /\ new.place = derived.place /\ new.furnished = derived.furnished
      /\ new.amenities = derived.amenities
      /\ new.conf = derived.conf /\ new.reason = derived.reason
  BY <1>1 DEF ListingType
<1> HIDE DEF new
<1>4. CASE row' = [row EXCEPT ![m].listing = new]
  <2>1. row'[m].listing = new /\ \A n \in Messages : n # m => row'[n] = row[n]
    BY <1>1, <1>4 DEF RowType
  <2>2. QED
    BY <2>1, <1>3 DEF m, old, derived
<1>5. QED
  BY <1>2, <1>4

LEMMA RerunInit == Init => RerunInv
<1> SUFFICES ASSUME Init
             PROVE  RerunInv
  OBVIOUS
<1>1. AsStored(NoRow.listing)
  BY EmptyType, StoredFields DEF NoRow, AsStored
<1>2. QED
  BY <1>1, TableInit DEF Init, RerunInv

LEMMA RerunStep == RerunInv /\ [Next]_vars => RerunInv'
<1> SUFFICES ASSUME RerunInv, [Next]_vars
             PROVE  RerunInv'
  OBVIOUS
<1>1. TableInv /\ TableInv'
  BY TableStep DEF RerunInv
<1>2. /\ \A m \in Messages : text[m] \in Texts /\ IsText(text[m])
      /\ keys \in Keys
  BY <1>1, TextsAssumption DEF TableInv, TypeOK
<1>3. /\ row \in [Messages -> RowType]
      /\ \A w \in Workers : worker[w].parsed \in ListingType
      /\ \A w \in Workers : worker[w].message \in Messages \cup {"none"}
      /\ worker = [w \in Workers |-> worker[w]]
  BY <1>1 DEF TableInv, TypeOK
<1>4. text' = text
  BY DEF Next, vars, ParseMessage, ParseFails, Save, ReadListings, WriteBack, Flag, Reparse
<1> USE DEF RerunInv
<1>5. ASSUME NEW w \in Workers, NEW m \in Messages, ParseMessage(w, m)
      PROVE  RerunInv'
  <2>1. PICK result \in ParseResults[text[m]][keys] :
          worker' = [worker EXCEPT ![w] = [ message  |-> m,
                                            parsed   |-> result.parsed,
                                            informed |-> result.informed ]]
    BY <1>5 DEF ParseMessage
  <2>2. SettledFor(Stored(result.parsed), text[m])
    BY <1>2, ResultSettles
  <2>3. \A v \in Workers : worker'[v] # Idle =>
          SettledFor(Stored(worker'[v].parsed), text[worker'[v].message])
    BY <1>3, <2>1, <2>2
  <2>4. row' = row
    BY <1>5 DEF ParseMessage
  <2>5. QED
    BY <1>1, <1>4, <2>3, <2>4
<1>6. ASSUME NEW w \in Workers, Save(w)
      PROVE  RerunInv'
  <2>1. AsStored(Stored(worker[w].parsed))
    BY <1>3, StoredFields DEF AsStored
  <2>2. \A m \in Messages : \/ row'[m] = row[m]
                           \/ row'[m].listing = Stored(worker[w].parsed)
    BY <1>3, <1>6 DEF Save
  <2>3. \A m \in Messages : AsStored(row'[m].listing)
    BY <2>1, <2>2
  <2>4. worker' = [worker EXCEPT ![w] = Idle]
    BY <1>6 DEF Save
  <2>5. \A v \in Workers : worker'[v] = worker[v] \/ worker'[v] = Idle
    BY <1>3, <2>4
  <2>6. QED
    BY <1>1, <1>4, <2>3, <2>5
<1>7. ASSUME NEW s \in pass, WriteBack(s)
      PROVE  RerunInv'
  <2>1. s.message \in Messages
    BY <1>1 DEF TableInv, TypeOK
  <2>2. \A m \in Messages : AsStored(row'[m].listing)
    BY <1>1, <1>7, <2>1, WriteBackFields DEF AsStored
  <2>3. worker' = worker
    BY <1>7 DEF WriteBack
  <2>4. QED
    BY <1>1, <1>4, <2>2, <2>3
<1>8. ASSUME NEW m \in Messages, Flag(m)
      PROVE  RerunInv'
  <2>1. row[m].listing \in ListingType
    BY <1>3 DEF RowType
  <2>2. AsStored(Quarantine(row[m].listing, "user_flagged"))
    BY <2>1, QuarantineFields DEF AsStored, Kept
  <2>3. row' = [row EXCEPT ![m].listing = Quarantine(row[m].listing, "user_flagged")]
    BY <1>8 DEF Flag
  <2>4. \A n \in Messages : AsStored(row'[n].listing)
    BY <1>3, <2>2, <2>3 DEF RowType
  <2>5. worker' = worker
    BY <1>8 DEF Flag
  <2>6. QED
    BY <1>1, <1>4, <2>4, <2>5
<1>9. CASE Reparse
  <2>1. AsStored(NoRow.listing)
    BY EmptyType, StoredFields DEF NoRow, AsStored
  <2>2. \A m \in Messages : AsStored(row'[m].listing)
    BY <1>9, <2>1 DEF Reparse
  <2>3. worker' = worker
    BY <1>9 DEF Reparse
  <2>4. QED
    BY <1>1, <1>4, <2>2, <2>3
<1>10. CASE \/ ReadListings
            \/ \E w \in Workers, m \in Messages : ParseFails(w, m)
            \/ UNCHANGED vars
  <2>1. row' = row /\ worker' = worker
    BY <1>10 DEF ReadListings, ParseFails, vars
  <2>2. QED
    BY <1>1, <1>4, <2>1
<1>11. QED
  BY <1>5, <1>6, <1>7, <1>8, <1>9, <1>10 DEF Next

\* The live path and a re-run agree: a row that a worker has just saved, or a pass
\* has just written, would not be changed by another pass.
THEOREM RerunIsSettled == Spec => RerunChangesNothing
<1>1. RerunInv /\ [Next]_vars =>
        [\A m \in Messages :
           (/\ row'[m] # row[m]
            /\ \/ \E w \in Workers : Save(w)
               \/ \E s \in pass : s.message = m /\ s.row = row[m] /\ WriteBack(s))
           => Settled(m)']_vars
  <2> SUFFICES ASSUME RerunInv, [Next]_vars, NEW m \in Messages, row'[m] # row[m]
               PROVE  /\ \A w \in Workers : Save(w) => Settled(m)'
                      /\ \A s \in pass :
                           (s.message = m /\ s.row = row[m] /\ WriteBack(s)) => Settled(m)'
    OBVIOUS
  <2>1. TableInv /\ row \in [Messages -> RowType] /\ IsText(text[m])
    BY TextsAssumption DEF RerunInv, TableInv, TypeOK
  <2>2. row[m].listing \in ListingType /\ AsStored(row[m].listing)
    BY <2>1 DEF RowType, RerunInv
  <2>3. TableInv'
    BY <2>1, TableStep
  <2>4. row'[m].listing \in ListingType
    BY <2>3 DEF TableInv, TypeOK, RowType
  <2>5. ASSUME NEW w \in Workers, Save(w)
        PROVE  Settled(m)'
    <3>1. worker[w] # Idle /\ text' = text
      BY <2>5 DEF Save
    <3>2. worker[w].message = m /\ row'[m].listing = Stored(worker[w].parsed)
      BY <2>1, <2>5 DEF Save
    <3>3. SettledFor(Stored(worker[w].parsed), text[m])
      BY <3>1, <3>2 DEF RerunInv
    <3>4. QED
      BY <3>1, <3>2, <3>3 DEF Settled, SettledFor
  <2>6. ASSUME NEW s \in pass, s.message = m, s.row = row[m], WriteBack(s)
        PROVE  Settled(m)'
    <3> DEFINE derived == Renormalized(row[m].listing, text[m])
    <3>1. derived \in ListingType
      BY <2>1, <2>2, RenormalizedType
    <3>2. /\ derived.isListing = "unknown" /\ derived.parking = FALSE
          /\ derived.intent = row[m].listing.intent
          /\ derived.period = row[m].listing.period
          /\ derived.bedrooms = row[m].listing.bedrooms
          /\ derived.unit = row[m].listing.unit
          /\ derived.phone = row[m].listing.phone
      BY <2>1, <2>2, RenormalizedFields
    <3>3. row'[m].listing = derived
      <4> HIDE DEF derived
      <4>1. s.row.listing = row[m].listing
        BY <2>6
      <4>2. LET new == row'[m].listing
            IN  /\ new.isListing = row[m].listing.isListing
                /\ new.parking = row[m].listing.parking
                /\ new.intent = row[m].listing.intent
                /\ new.period = row[m].listing.period
                /\ new.bedrooms = row[m].listing.bedrooms
                /\ new.unit = row[m].listing.unit
                /\ new.phone = row[m].listing.phone
                /\ new.price = derived.price /\ new.currency = derived.currency
                /\ new.place = derived.place /\ new.furnished = derived.furnished
                /\ new.amenities = derived.amenities
                /\ new.conf = derived.conf /\ new.reason = derived.reason
        BY <2>1, <2>6, <4>1, WriteBackFields DEF derived
      <4>3. QED
        BY <2>2, <2>4, <3>1, <3>2, <4>2, SameFields DEF AsStored
    <3>4. text' = text
      BY <2>6 DEF WriteBack
    <3>5. SettledFor(derived, text[m])
      BY <2>1, <2>2, PassSettles
    <3>6. QED
      BY <3>3, <3>4, <3>5 DEF Settled, SettledFor
  <2>7. QED
    BY <2>5, <2>6
<1>2. QED
  BY RerunInit, RerunStep, <1>1, PTL DEF Spec, RerunChangesNothing

-----------------------------------------------------------------------------
(* What normalize() leaves of prices and verdicts *)

\* A listing that can be seen has no token price.
Plausible(p) == p.conf > 0 => ~TooLow(p)

\* Whatever it is given, normalize() hides a token price, and it keeps a verdict
\* unless the model that was asked just now says otherwise.
LEMMA NormalizedBands ==
  ASSUME NEW p \in ListingType, NEW t, IsText(t)
  PROVE  LET q == Normalize(p, t)
         IN  /\ q \in ListingType
             /\ Plausible(q)
             /\ p.isListing # "no" /\ p.reason \in Verdicts => q.reason = p.reason
<1> DEFINE p1 == Repaired(p, t)
           p2 == Rescored(p1, t)
           p3 == SanityCheck(p2)
<1>1. p1 \in ListingType /\ Kept(p, p1) /\ p1.reason = p.reason
  BY RepairedType, RepairedFields
<1> HIDE DEF p1
<1>2. p2 \in ListingType /\ Kept(p1, p2) /\ p2.reason = p1.reason
  BY <1>1, RescoredType, RescoredFields
<1> HIDE DEF p2
<1>3. /\ p3 \in ListingType /\ p3.price = p2.price
      /\ p2.isListing = "no" => p3.conf = 0
      /\ p2.isListing # "no" /\ p2.reason \in Verdicts => p3.reason = p2.reason /\ p3.conf = 0
      /\ p2.isListing # "no" /\ p2.reason \notin Verdicts /\ TooLow(p2) => p3.conf = 0
  BY <1>2, SanityType, SanityFields DEF KeptRepairs
<1> HIDE DEF p3
<1>4. Plausible(p3)
  BY <1>3 DEF Plausible, TooLow
<1>5. p.isListing # "no" /\ p.reason \in Verdicts => p3.reason = p.reason
  BY <1>1, <1>2, <1>3 DEF Kept
<1>6. Normalize(p, t) = p3
  BY DEF Normalize, p1, p2, p3
<1>7. QED
  BY <1>3, <1>4, <1>5, <1>6

LEMMA StoredPlausible ==
  ASSUME NEW p \in ListingType, Plausible(p)
  PROVE  Plausible(Stored(p))
BY StoredFields DEF Plausible, TooLow, KeptRepairs

\* So does a pass, which never asks a model.
LEMMA RenormalizedBands ==
  ASSUME NEW p \in ListingType, NEW t, IsText(t)
  PROVE  LET q == Renormalized(p, t)
         IN  /\ Plausible(q)
             /\ p.reason \in Verdicts => q.reason = p.reason
<1> DEFINE p0 == Loaded(p, t)
           n  == Normalize(p0, t)
<1>1. p0 \in ListingType /\ p0.isListing = "unknown" /\ p0.reason = p.reason
  BY LoadedFields
<1> HIDE DEF p0
<1>2. /\ n \in ListingType /\ Plausible(n)
      /\ p.reason \in Verdicts => n.reason = p.reason
  BY <1>1, NormalizedBands
<1> HIDE DEF n
<1>3. Plausible(Stored(n)) /\ Stored(n).reason = n.reason
  BY <1>2, StoredPlausible, StoredFields
<1>4. Renormalized(p, t) = Stored(n)
  BY DEF Renormalized, Loaded, p0, n
<1>5. QED
  BY <1>2, <1>3, <1>4

LEMMA ResultPlausible ==
  ASSUME NEW t \in Texts, NEW k \in Keys, NEW result \in ParseResults[t][k]
  PROVE  Plausible(result.parsed)
<1>1. PICK groq \in Replies, gemini \in Replies, again \in Replies :
        result = [ parsed   |-> Normalize(DualParse(t, k, groq, gemini, again), t),
                   informed |-> k.groq
                               
                                /\ \E reply \in {groq, gemini, again} : Usable(reply) ]
  BY DEF ParseResults
<1> DEFINE p == DualParse(t, k, groq, gemini, again)
<1>2. p \in ListingType
  BY ParsedType, TextsAssumption
<1> HIDE DEF p
<1>3. Plausible(Normalize(p, t))
  BY <1>2, NormalizedBands, TextsAssumption
<1>4. QED
  BY <1>1, <1>3 DEF p

-----------------------------------------------------------------------------
(* The table: token prices and verdicts *)

\* The inductive invariant: no row, and no result on its way into one, shows a
\* token price.
PriceInv ==
  /\ TableInv
  /\ \A m \in Messages : Plausible(row[m].listing)
  /\ \A w \in Workers : Plausible(worker[w].parsed)

LEMMA EmptyPlausible == Plausible(Empty) /\ Plausible(NoRow.listing)
<1>1. Plausible(Empty)
  BY DEF Plausible, TooLow, Empty, Listing, NoNumber
<1>2. QED
  BY <1>1, EmptyType, StoredPlausible DEF NoRow

LEMMA PriceStep == PriceInv /\ [Next]_vars => PriceInv'
<1> SUFFICES ASSUME PriceInv, [Next]_vars
             PROVE  PriceInv'
  OBVIOUS
<1>1. TableInv /\ TableInv'
  BY TableStep DEF PriceInv
<1>2. /\ row \in [Messages -> RowType]
      /\ \A w \in Workers : worker[w].parsed \in ListingType
      /\ worker = [w \in Workers |-> worker[w]]
      /\ \A m \in Messages : text[m] \in Texts /\ IsText(text[m])
      /\ keys \in Keys
  BY <1>1, TextsAssumption DEF TableInv, TypeOK
<1> USE DEF PriceInv
<1>3. ASSUME NEW w \in Workers, NEW m \in Messages, ParseMessage(w, m)
      PROVE  PriceInv'
  <2>1. PICK result \in ParseResults[text[m]][keys] :
          worker' = [worker EXCEPT ![w] = [ message  |-> m,
                                            parsed   |-> result.parsed,
                                            informed |-> result.informed ]]
    BY <1>3 DEF ParseMessage
  <2>2. Plausible(result.parsed)
    BY <1>2, ResultPlausible
  <2>3. \A v \in Workers : Plausible(worker'[v].parsed)
    BY <1>2, <2>1, <2>2
  <2>4. row' = row
    BY <1>3 DEF ParseMessage
  <2>5. QED
    BY <1>1, <2>3, <2>4
<1>4. ASSUME NEW w \in Workers, Save(w)
      PROVE  PriceInv'
  <2>1. Plausible(Stored(worker[w].parsed))
    BY <1>2, StoredPlausible
  <2>2. \A m \in Messages : \/ row'[m] = row[m]
                           \/ row'[m].listing = Stored(worker[w].parsed)
    BY <1>2, <1>4 DEF Save
  <2>3. \A m \in Messages : Plausible(row'[m].listing)
    BY <2>1, <2>2
  <2>4. worker' = [worker EXCEPT ![w] = Idle] /\ Plausible(Idle.parsed)
    BY <1>4, EmptyPlausible DEF Save, Idle
  <2>5. \A v \in Workers : Plausible(worker'[v].parsed)
    BY <1>2, <2>4
  <2>6. QED
    BY <1>1, <2>3, <2>5
<1>5. ASSUME NEW s \in pass, WriteBack(s)
      PROVE  PriceInv'
  <2> DEFINE derived == Renormalized(s.row.listing, text[s.message])
  <2>1. s.message \in Messages /\ s.row.listing \in ListingType
    BY <1>1 DEF TableInv, TypeOK, RowType
  <2>2. Plausible(derived)
    BY <1>2, <2>1, RenormalizedBands
  <2>3. \/ row' = row
        \/ /\ \A n \in Messages : n # s.message => row'[n] = row[n]
           /\ row'[s.message].listing.price = derived.price
           /\ row'[s.message].listing.conf = derived.conf
    BY <1>1, <1>5, WriteBackFields
  <2> HIDE DEF derived
  <2>4. \A m \in Messages : Plausible(row'[m].listing)
    BY <2>2, <2>3 DEF Plausible, TooLow
  <2>5. worker' = worker
    BY <1>5 DEF WriteBack
  <2>6. QED
    BY <1>1, <2>4, <2>5
<1>6. ASSUME NEW m \in Messages, Flag(m)
      PROVE  PriceInv'
  <2>1. row[m].listing \in ListingType
    BY <1>2 DEF RowType
  <2>2. Plausible(Quarantine(row[m].listing, "user_flagged"))
    BY <2>1, QuarantineFields DEF Plausible
  <2>3. row' = [row EXCEPT ![m].listing = Quarantine(row[m].listing, "user_flagged")]
    BY <1>6 DEF Flag
  <2>4. \A n \in Messages : Plausible(row'[n].listing)
    BY <1>2, <2>2, <2>3 DEF RowType
  <2>5. worker' = worker
    BY <1>6 DEF Flag
  <2>6. QED
    BY <1>1, <2>4, <2>5
<1>7. CASE Reparse
  <2>1. \A m \in Messages : Plausible(row'[m].listing)
    BY <1>7, EmptyPlausible DEF Reparse
  <2>2. worker' = worker
    BY <1>7 DEF Reparse
  <2>3. QED
    BY <1>1, <2>1, <2>2
<1>8. CASE \/ ReadListings
           \/ \E w \in Workers, m \in Messages : ParseFails(w, m)
           \/ UNCHANGED vars
  <2>1. row' = row /\ worker' = worker
    BY <1>8 DEF ReadListings, ParseFails, vars
  <2>2. QED
    BY <1>1, <2>1
<1>9. QED
  BY <1>3, <1>4, <1>5, <1>6, <1>7, <1>8 DEF Next

\* Whatever the models answer and however saves, passes, flags and reparses
\* overlap, no visible row has a token price: the three columns it takes are
\* always written together.
THEOREM PriceIsPlausible == Spec => []VisiblePriceIsPlausible
<1>1. Init => PriceInv
  <2> SUFFICES ASSUME Init
               PROVE  PriceInv
    OBVIOUS
  <2>1. TableInv
    BY TableInit
  <2>2. \A m \in Messages : row[m] = NoRow
    BY DEF Init
  <2>3. \A w \in Workers : worker[w] = Idle /\ Idle.parsed = Empty
    BY DEF Init, Idle
  <2>4. QED
    BY <2>1, <2>2, <2>3, EmptyPlausible DEF PriceInv
<1>2. PriceInv => VisiblePriceIsPlausible
  <2> SUFFICES ASSUME PriceInv, NEW m \in Messages, row[m].listing.conf > 0
               PROVE  row[m].listing.price <= 0 \/ row[m].listing.price > PriceFloor
    BY DEF VisiblePriceIsPlausible
  <2>1. row[m].listing.price \in OptionalNat /\ PriceFloor \in Nat
    BY DEF PriceInv, TableInv, TypeOK, RowType, ListingType, PriceFloor
  <2>2. ~TooLow(row[m].listing)
    BY DEF PriceInv, Plausible
  <2>3. QED
    BY <2>1, <2>2 DEF TooLow, OptionalNat, NoNumber
<1>3. QED
  BY <1>1, <1>2, PriceStep, PTL DEF Spec

\* A pass never overturns the verdict that it read, of a person or of the model,
\* on any text.
THEOREM PassKeepsVerdict == Spec => PassKeepsVerdicts
<1>1. TableInv /\ [Next]_vars =>
        [\A s \in pass :
           (/\ WriteBack(s) /\ row' # row
            /\ s.row.listing.reason \in Verdicts)
           => row'[s.message].listing.reason = s.row.listing.reason]_vars
  <2> SUFFICES ASSUME TableInv, NEW s \in pass, WriteBack(s), row' # row,
                      s.row.listing.reason \in Verdicts
               PROVE  row'[s.message].listing.reason = s.row.listing.reason
    OBVIOUS
  <2>1. s.message \in Messages /\ s.row.listing \in ListingType
    BY DEF TableInv, TypeOK, RowType
  <2>2. IsText(text[s.message])
    BY <2>1, TextsAssumption DEF TableInv, TypeOK
  <2>3. Renormalized(s.row.listing, text[s.message]).reason = s.row.listing.reason
    BY <2>1, <2>2, RenormalizedBands
  <2>4. QED
    BY <2>3, WriteBackFields
<1>2. QED
  BY TableInit, TableStep, <1>1, PTL DEF Spec, PassKeepsVerdicts
=============================================================================
