--------------------------- MODULE MCServerMetrics ---------------------------
(***************************************************************************)
(* The threads of ServerMetrics are alike: TLC need not tell them apart.   *)
(***************************************************************************)
EXTENDS ServerMetrics, TLC

ThreadSymmetry == Permutations(Threads)
=============================================================================
