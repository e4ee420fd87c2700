--------------------------- MODULE MCParsePipeline ---------------------------
(***************************************************************************)
(* Values of the constants of ParsePipeline for model checking.            *)
(***************************************************************************)
EXTENDS ParsePipeline, TLC

WorkerSymmetry == Permutations(Workers)

NoRareEvents == [e \in RareEvents |-> 0]
Faults       == [NoRareEvents EXCEPT !["crash"] = 1, !["dbError"] = 1]
ErrorReparse == [NoRareEvents EXCEPT !["dbError"] = 1, !["reparse"] = 1]
LossAndRerun == [Faults EXCEPT !["queueLoss"] = 1, !["reprocess"] = 1]
OneReparse   == [NoRareEvents EXCEPT !["reparse"] = 1]
=============================================================================
