----------------------------- MODULE OwnedServer -----------------------------
(***************************************************************************)
(* What the server backend promises about the processes it starts, with    *)
(* its threads, locks, timeouts and probes left out: there is at most one  *)
(* child, it is collected before the next one is started, and only a child *)
(* that has exited is collected.  ServerVlmModel implements it.            *)
(***************************************************************************)
CONSTANT Pids

VARIABLES own,     \* children started and not yet collected
          alive    \* those of them that still run

vars == <<own, alive>>

Init == own = {} /\ alive = {}

Spawn == /\ own = {}
         /\ \E p \in Pids : own' = {p} /\ alive' = {p}

Exit == /\ alive # {}
        /\ alive' = {}
        /\ UNCHANGED own

Reap == /\ own # {} /\ alive = {}
        /\ own' = {}
        /\ UNCHANGED alive

Next == Spawn \/ Exit \/ Reap

Spec == Init /\ [][Next]_vars
=============================================================================
