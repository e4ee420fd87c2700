-------------------------- MODULE MCBridgeLifecycle --------------------------
(***************************************************************************)
(* Values of the constants of BridgeLifecycle for model checking.          *)
(***************************************************************************)
EXTENDS BridgeLifecycle

CONSTANTS i1, i2, b1, b2, b3, r1, r2, r3

BridgeHost  == [b \in Bridges |-> IF b = b3 THEN i2 ELSE i1]
RequestHost == [r \in Requests |-> IF r = r3 THEN i2 ELSE i1]

OneOfEach == [e \in RareEvents |-> 1]
OneCrash  == [e \in RareEvents |-> IF e = "crash" THEN 1 ELSE 0]
=============================================================================
