---------------------------- MODULE MessageParser ----------------------------
(***************************************************************************)
(* scraper/message-parser.js: the regular expressions that read a listing  *)
(* out of a message, and normalize(), the deterministic pass that the      *)
(* parse worker runs after the language models and ops/reprocess.js runs   *)
(* over stored rows.                                                       *)
(*                                                                         *)
(* A message is a record of what the expressions find in it, so that which *)
(* expression is tried first, how amounts are scaled and what is derived   *)
(* from what are kept and characters are not.  Confidence is counted in    *)
(* hundredths, amounts are whole and not negative, and a currency is its   *)
(* code in upper case.  area_sqft, agent_name, property_type and the       *)
(* description, which no decision here depends on, are left out.           *)
(***************************************************************************)
EXTENDS Integers, FiniteSets

CONSTANTS
  Market,      \* known areas: a function from the area to its currency
  Attributes   \* place names that are really attributes ("Fully Furnished")

ASSUME MarketAssumption ==
  /\ Market \in [DOMAIN Market -> STRING]
  /\ DOMAIN Market \subseteq STRING

NoNumber == -1
None     == "none"

OptionalNat == Nat \cup {NoNumber}

Places     == STRING \cup {None}
Units      == {"BHK", "RK", "BK", "BR", None}
Currencies == STRING \cup {"INR", "AED", None}
Furnishing == {"furnished", "semi-furnished", "unfurnished", None}

(***************************************************************************)
(* The price expressions in the order in which extractPrice tries them: an *)
(* amount in AED, one in rupees, a bare "12k", "2 Cr", a number after a    *)
(* word like rent, a number before "per month".                            *)
(***************************************************************************)
PricePatterns == <<"aed", "inr", "kilo", "crore", "context", "month">>

(***************************************************************************)
(* What the expressions find in a text; prices maps the price expressions  *)
(* that match to the amount and the unit they capture.                     *)
(***************************************************************************)
IsText(t) ==
  /\ t.shape \in {"message", "short", "link", "tiny"}
  /\ \A p \in DOMAIN t.prices : t.prices[p] \in [amount : Nat, unit : STRING]
  /\ {t.area, t.fuzzy, t.firstLine} \subseteq STRING
  /\ t.bedrooms \in OptionalNat
  /\ t.unit \in Units
  /\ t.furnished \in Furnishing
  /\ t.amenities \in SUBSET STRING
  /\ {t.parking, t.phone, t.rental} \subseteq BOOLEAN

(***************************************************************************)
(* What a listing consists of while it is parsed.  isListing is the        *)
(* model's opinion, "unknown" when it is missing; reason is                *)
(* quarantine_reason up to its colon; period says whether rent_period is   *)
(* set; place stands for community, area_text and location, which          *)
(* normalize() sets together.                                              *)
(***************************************************************************)
Verdicts == {"user_flagged", "not_a_listing"}
Reasons  == Verdicts \cup {"implausible_price_low", "implausible_rent_high", None}

Listing(isListing, intent, period, price, currency, place, bedrooms, unit, furnished,
        amenities, parking, phone, conf) ==
  [ isListing |-> isListing, intent |-> intent, period |-> period, price |-> price,
    currency |-> currency, place |-> place, bedrooms |-> bedrooms,
    unit |-> unit, furnished |-> furnished, amenities |-> amenities,
    parking |-> parking, phone |-> phone, conf |-> conf, reason |-> None ]

ListingType ==
  [ isListing : {"yes", "no", "unknown"}, intent : {"rent", "sale", None},
    period : BOOLEAN, price : OptionalNat, currency : Currencies, place : Places, bedrooms : OptionalNat,
    unit : Units, furnished : Furnishing, amenities : SUBSET STRING,
    parking : BOOLEAN, phone : BOOLEAN, conf : 0..100, reason : Reasons ]

Larger(a, b)  == IF a > b THEN a ELSE b
Smaller(a, b) == IF a < b THEN a ELSE b

-----------------------------------------------------------------------------
(* Extraction *)

Scale(amount, unit) ==
  CASE unit = "Cr" -> amount * 10000000
    [] unit = "L"  -> amount * 100000
    [] unit = "k"  -> amount * 1000
    [] OTHER       -> amount              \* also "M", which the AED expressions accept

IndianUnit(t) == t.unit \in {"BHK", "RK", "BK"}

(* The first expression that matches wins. *)
ExtractPrice(t) ==
  LET found == {i \in DOMAIN PricePatterns : PricePatterns[i] \in DOMAIN t.prices}
      first == PricePatterns[CHOOSE i \in found : \A j \in found : i <= j]
      token == t.prices[first]
  IN  IF found = {}
      THEN [price |-> NoNumber, currency |-> None]
      ELSE [ price    |-> Scale(token.amount, token.unit),
             currency |-> CASE first = "aed"               -> "AED"
                            [] first \in {"inr", "crore"}  -> "INR"
                            [] first \in {"kilo", "context"} /\ IndianUnit(t) -> "INR"
                            [] OTHER                       -> None ]

MatchLocation(t)     == IF t.area \in DOMAIN Market THEN t.area ELSE None
FuzzyLocation(t)     == t.fuzzy
FirstLineLocation(t) == t.firstLine

ExtractLocation(t) ==
  IF MatchLocation(t) # None THEN MatchLocation(t)
  ELSE IF FuzzyLocation(t) # None THEN FuzzyLocation(t)
  ELSE FirstLineLocation(t)

ExtractConfig(t)    == [bedrooms |-> t.bedrooms, unit |-> t.unit]
IsFurnished(t)      == t.furnished
ExtractAmenities(t) == t.amenities
HasParking(t)       == t.parking         \* "carpark" is one, and no amenity
ExtractPhone(t)     == t.phone
IsRentalSignal(t)   == t.rental

CalculateConfidence(p, t) ==
  LET Points(n, holds) == IF holds THEN n ELSE 0
      structured == p.bedrooms > 0 \/ p.price > 0
  IN  Points(25, p.price > 0) + Points(20, p.place # None) + Points(20, p.phone)
      + Points(15, p.bedrooms > 0) + Points(5, p.furnished # None)
      + Points(2, p.parking) + Points(10, IsRentalSignal(t) /\ structured)

(***************************************************************************)
(* MessageParser.parse: a message read without a model.  The intent and    *)
(* is_listing stay open.                                                   *)
(***************************************************************************)
RegexParse(t) ==
  LET money == ExtractPrice(t)
      place == IF MatchLocation(t) # None THEN MatchLocation(t) ELSE FuzzyLocation(t)
      currency == CASE money.currency # None   -> money.currency
                    [] MatchLocation(t) # None -> Market[MatchLocation(t)]
                    [] IndianUnit(t)           -> "INR"
                    [] OTHER                   -> None
      p == Listing("unknown", None, FALSE, money.price, currency, place,
                   ExtractConfig(t).bedrooms, None, IsFurnished(t),
                   ExtractAmenities(t), HasParking(t), ExtractPhone(t), 0)
  IN  [p EXCEPT !.conf = CalculateConfidence(p, t)]

-----------------------------------------------------------------------------
(* normalize *)

IsNonLocation(place) == place \in Attributes

SanitizeLocation(place, t) ==
  IF place # None /\ ~IsNonLocation(place) THEN place ELSE ExtractLocation(t)

PriceFloor == 100
RentCeiling(currency) == IF currency = "USD" THEN 100000 ELSE 2000000
IsRent(p) == p.intent = "rent" \/ p.period

(* The reason is recorded, the confidence is not reset. *)
QuarantineByReason(p, reason) == [p EXCEPT !.reason = reason]

Quarantine(p, reason) == [p EXCEPT !.reason = reason, !.conf = 0]

(* A verdict is derived again like the other reasons. *)
SanityCheckOverVerdicts(p) ==
  IF p.isListing = "no" THEN Quarantine(p, "not_a_listing")
  ELSE IF p.price > 0 /\ p.price <= PriceFloor
  THEN Quarantine(p, "implausible_price_low")
  ELSE [p EXCEPT !.reason = None]

(***************************************************************************)
(* _sanityCheck: a verdict of the model or of a person stands, everything  *)
(* else is derived again from the price.                                   *)
(***************************************************************************)
SanityCheck(p) ==
  CASE p.isListing = "no"      -> Quarantine(p, "not_a_listing")
    [] p.isListing # "no" /\ p.reason \in Verdicts -> [p EXCEPT !.conf = 0]
    [] p.isListing # "no" /\ p.reason \notin Verdicts ->
         IF p.price > 0 /\ p.price <= PriceFloor
         THEN Quarantine(p, "implausible_price_low")
         ELSE IF IsRent(p) /\ p.price > RentCeiling(p.currency)
         THEN Quarantine(p, "implausible_rent_high")
         ELSE [p EXCEPT !.reason = None]

(***************************************************************************)
(* What normalize() repairs before it scores: the place, a missing price   *)
(* with its currency, furnishing and amenities.                            *)
(***************************************************************************)
Repaired(p, t) ==
  LET money   == ExtractPrice(t)
      priced  == p.price = NoNumber /\ money.price # NoNumber
  IN  [p EXCEPT !.place     = SanitizeLocation(@, t),
                !.price     = IF priced THEN money.price ELSE @,
                !.currency  = IF priced /\ @ = None THEN money.currency ELSE @,
                !.furnished = IF @ = None THEN IsFurnished(t) ELSE @,
                !.amenities = @ \cup ExtractAmenities(t)]

Rescored(p, t) == [p EXCEPT !.conf = Larger(@, CalculateConfidence(p, t))]

(* The confidence is raised after the check. *)
NormalizeRescoredLast(p, t) == Rescored(SanityCheck(Repaired(p, t)), t)

Normalize(p, t) == SanityCheck(Rescored(Repaired(p, t), t))
=============================================================================
