----------------------------- MODULE MCListings -----------------------------
(***************************************************************************)
(* Values of the constants of ListingFeed for model checking.              *)
(***************************************************************************)
EXTENDS ListingFeed, TLC

Towns == "Alpha 2" :> "INR" @@ "Marina" :> "AED" @@ "Hackney" :> "GBP"
Traits == {"Independent Raw"}

Token(amount, unit) == [amount |-> amount, unit |-> unit]

(* Says nothing; the texts below add to it. *)
Plain ==
  [ shape |-> "message", prices |-> [p \in {} |-> Token(0, "")], area |-> None,
    fuzzy |-> None, firstLine |-> None, bedrooms |-> NoNumber, unit |-> None,
    furnished |-> None, amenities |-> {}, parking |-> FALSE, phone |-> FALSE,
    rental |-> FALSE ]

(* "Alpha 2 / 2bhk semi furnished / rent 12k, deposit 1 lakh / lift, carpark" *)
Flat ==
  [Plain EXCEPT !.prices = "kilo" :> Token(12, "k") @@ "crore" :> Token(1, "L"),
                !.area = "Alpha 2", !.bedrooms = 2, !.unit = "BHK",
                !.furnished = "semi-furnished", !.amenities = {"lift"},
                !.parking = TRUE, !.rental = TRUE]
(* "AED 2M villa for sale, Marina" *)
Villa == [Plain EXCEPT !.prices = "aed" :> Token(2, "M"), !.area = "Marina"]
(* "2018 model, 4500k chalo" *)
Bike == [Plain EXCEPT !.prices = "kilo" :> Token(4500, "k"), !.firstLine = "Independent Raw"]
(* "studio Hackney" *)
Chat == [Plain EXCEPT !.shape = "short", !.area = "Hackney", !.bedrooms = 0]
Link == [Plain EXCEPT !.shape = "link"]
Tiny == [Plain EXCEPT !.shape = "tiny"]

SomeTexts == {Flat, Villa, Bike, Chat, Link, Tiny}

(***************************************************************************)
(* What a model answers: a reading of the flat that gives its rent by the  *)
(* month and is too sure of itself, or a refusal.                          *)
(***************************************************************************)
Good    == [ listing |-> Listing("yes", None, TRUE, 12000, "INR", "Alpha 2", 2, "BHK",
                                 "semi-furnished", {"AC"}, FALSE, TRUE, 0),
             scored |-> TRUE, conf |-> 130 ]
Refusal == [ listing |-> Empty, scored |-> FALSE, conf |-> 0 ]

SomeAnswers == {Good, Refusal}

Once  == [e \in Bounded |-> 1]
Twice == [Once EXCEPT !["run"] = 2]
=============================================================================
