-------------------------- MODULE MCServerVlmModel --------------------------
(***************************************************************************)
(* ServerVlmModel for TLC.  Threads and pids are interchangeable, so they  *)
(* are symmetry sets in the runs that check no liveness.                   *)
(***************************************************************************)
EXTENDS ServerVlmModel, TLC

Interchangeable == Permutations(Threads) \cup Permutations(Pids)
=============================================================================
