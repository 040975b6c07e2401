------------------------- MODULE MCGenerationConfig -------------------------
(***************************************************************************)
(* ServerVlmModel with one history variable: what the callers have asked   *)
(* for.  It changes when a caller's own Initialize or                      *)
(* UpdateGenerationConfig writes config_, never when Reset puts its saved  *)
(* copy back.                                                              *)
(***************************************************************************)
EXTENDS ServerVlmModel

VARIABLE intended

HistoryInit == Init /\ intended = config

HistoryNext ==
    /\ Next
    /\ intended' = IF \E t \in Threads : /\ pc[t] = "locked"
                                         /\ op[t] \in {"Initialize", "Update"}
                                         /\ arg[t] # NoConfig
                                         /\ pc'[t] # "locked"
                   THEN config' ELSE intended

HistorySpec == HistoryInit /\ [][HistoryNext]_<<vars, intended>>

(* "Updates service-wide generation defaults used by subsequent requests": *)
(* once no call is under way, the settings in force are the ones a caller  *)
(* set last.  A Reset, which only clears runtime state, may not undo them. *)
SettingsAreKept == (\A t \in Threads : pc[t] = "idle") => config = intended
=============================================================================
