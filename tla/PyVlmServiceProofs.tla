------------------------- MODULE PyVlmServiceProofs -------------------------
(***************************************************************************)
(* Proofs about PyVlmService, for every set of services and pids and every *)
(* set of faults.  The inductive invariant is the conjunction of           *)
(*   Typed     the types of the variables it is about,                     *)
(*   Tracked   a service and its child know each other,                    *)
(*   Control   what a service holds at each point of a call.               *)
(* Every step does one of a few things to the processes (StepKinds), and   *)
(* the theorems follow from these.                                         *)
(***************************************************************************)
EXTENDS PyVlmService, TLAPS

States == {"none", "zombie"} \cup Alive

ProcessTypes == /\ proc \in [Pids -> States]
                /\ parent \in [Pids -> Services \cup {NoService}]
                /\ process \in [Services -> Pids \cup {NoPid}]
                /\ done \in [Services -> BOOLEAN]

CallTypes == pc \in [Services -> Points] /\ op \in [Services -> Ops]

Typed == ProcessTypes /\ CallTypes

Holds(s) == process[s] # NoPid /\ ~done[s]

Tracked == /\ NoOrphan
           /\ \A s \in Services :
                 /\ Holds(s) => /\ parent[process[s]] = s
                                /\ proc[process[s]] # "none"
                 /\ process[s] = NoPid => ~done[s]

Holding(s) ==
    /\ pc[s] \in {"gone", "probe", "spawn"} => process[s] = NoPid
    /\ pc[s] \in {"poll", "respond", "terminate", "kill"} => Holds(s)
    /\ pc[s] \in {"wait", "waitKilled"} => process[s] # NoPid
    /\ op[s] \in {"Close", "Del"} => pc[s] \in Closing

Control == \A s \in Services : Holding(s)

IInv == Typed /\ Tracked /\ Control

-----------------------------------------------------------------------------
(* What a step does to the processes and to what the services know.        *)
core == <<proc, parent, process, done>>

Spawns(s, p) ==
    /\ proc[p] = "none" /\ process[s] = NoPid
    /\ proc' = [proc EXCEPT ![p] = "booting"]
    /\ parent' = [parent EXCEPT ![p] = s]
    /\ process' = [process EXCEPT ![s] = p]
    /\ done' = [done EXCEPT ![s] = FALSE]

Collects(s) ==
    /\ Holds(s) /\ proc[process[s]] = "zombie"
    /\ proc' = [proc EXCEPT ![process[s]] = "none"]
    /\ UNCHANGED parent
    /\ \/ process' = process /\ done' = [done EXCEPT ![s] = TRUE]
       \/ /\ process' = [process EXCEPT ![s] = NoPid]
          /\ done' = [done EXCEPT ![s] = FALSE]

Forgets(s) ==
    /\ process[s] = NoPid \/ done[s]
    /\ UNCHANGED <<proc, parent>>
    /\ process' = [process EXCEPT ![s] = NoPid]
    /\ done' = [done EXCEPT ![s] = FALSE]

Signals(s) ==
    /\ pc[s] \in {"terminate", "kill"}
    /\ Holds(s) /\ proc[process[s]] # "zombie"
    /\ \E state \in {"stopping", "killed"} :
          proc' = [proc EXCEPT ![process[s]] = state]
    /\ UNCHANGED <<parent, process, done>>

Dies(s) ==
    /\ parent' = [p \in Pids |-> IF parent[p] = s THEN NoService ELSE parent[p]]
    /\ proc' = [p \in Pids |-> IF parent[p] = s /\ proc[p] = "zombie"
                               THEN "none" ELSE proc[p]]
    /\ process' = [process EXCEPT ![s] = NoPid]
    /\ done' = [done EXCEPT ![s] = FALSE]

Serves(p) ==
    /\ proc[p] = "booting"
    /\ proc' = [proc EXCEPT ![p] = "serving"]
    /\ UNCHANGED <<parent, process, done>>

Exits(p) ==
    /\ proc[p] \in Alive
    /\ proc' = [proc EXCEPT ![p] = IF parent[p] = NoService THEN "none"
                                                            ELSE "zombie"]
    /\ UNCHANGED <<parent, process, done>>

Kinds == \/ UNCHANGED core
         \/ \E s \in Services : \/ \E p \in Pids : Spawns(s, p)
                                \/ Collects(s) \/ Forgets(s) \/ Signals(s)
                                \/ Dies(s)
         \/ \E p \in Pids : Serves(p) \/ Exits(p)

LEMMA StepKinds == Typed /\ Control /\ [Next]_vars => Kinds
<1> SUFFICES ASSUME Typed, Control, [Next]_vars PROVE Kinds
  OBVIOUS
<1> USE DEF core, kernel, Holds
<1>1. ASSUME NEW s \in Services, Call(s) PROVE UNCHANGED core
  BY <1>1 DEF Call, Construct, CallClose, CallReset, Del, CallRequest, Begin
<1>2. ASSUME NEW s \in Services, Step(s) PROVE Kinds
  <2> SUFFICES \/ UNCHANGED core
               \/ \E p \in Pids : Spawns(s, p)
               \/ Collects(s) \/ Forgets(s) \/ Signals(s)
    BY DEF Kinds
  <2>1. CASE EndRequest(s) \/ Attach(s) \/ FindNone(s) \/ StartServerRaises(s)
             \/ PollRunning(s) \/ Started(s) \/ PollAgain(s) \/ TimedOut(s)
             \/ CloseRunning(s) \/ WaitTimesOut(s)
    BY <2>1 DEF EndRequest, Attach, FindNone, StartServerRaises, PollRunning,
                Started, PollAgain, TimedOut, CloseRunning, WaitTimesOut
  <2>2. CASE StartServer(s)
    BY <2>2 DEF StartServer, Spawns, Control, Holding
  <2>3. CASE PollExited(s)
    BY <2>3 DEF PollExited, Collect, Collects, Control, Holding
  <2>4. CASE CloseNothing(s)
    BY <2>4 DEF CloseNothing, Forget, Forgets
  <2>5. CASE CloseExited(s)
    BY <2>5 DEF CloseExited, Forget, Collect, Collects
  <2>6. CASE Terminate(s)
    BY <2>6 DEF Terminate, Signal, Collect, Collects, Signals, Control,
             Holding
  <2>7. CASE Kill(s)
    BY <2>7 DEF Kill, Signal, Collect, Collects, Signals, Control,
             Holding
  <2>8. CASE Waited(s)
    BY <2>8 DEF Waited, Forget, Collect, Collects, Forgets, Control,
             Holding
  <2> QED BY <1>2, <2>1, <2>2, <2>3, <2>4, <2>5, <2>6, <2>7, <2>8 DEF Step
<1>3. ASSUME NEW s \in Services, Crash(s) PROVE Dies(s)
  BY <1>3 DEF Crash, Dies
<1>4. ASSUME NEW p \in Pids, ChildServes(p) \/ ChildExits(p)
      PROVE  Serves(p) \/ Exits(p)
  BY <1>4 DEF ChildServes, ChildExits, Serves, Exits
<1>5. CASE ForeignListens \/ ForeignLeaves \/ UNCHANGED vars
  BY <1>5 DEF ForeignListens, ForeignLeaves, Kinds, vars
<1> QED BY <1>1, <1>2, <1>3, <1>4, <1>5 DEF Next, Kinds

-----------------------------------------------------------------------------
LEMMA InvInit == Init => IInv
  BY SentinelAssumption
  DEF Init, IInv, Typed, ProcessTypes, CallTypes, Tracked, Control, Holding, NoOrphan, Children, Holds, States,
      Points, Closing, Ops, Alive

(* Types.                                                                  *)
LEMMA TypeStep == Typed /\ Control /\ [Next]_vars => Typed'
<1> SUFFICES ASSUME Typed, Control, [Next]_vars PROVE Typed'
  OBVIOUS
<1>1. ProcessTypes'
  <2> USE DEF Typed, ProcessTypes, States, Alive
  <2>1. ASSUME NEW s \in Services, NEW p \in Pids, Spawns(s, p) PROVE ProcessTypes'
    BY <2>1 DEF Spawns
  <2>2. ASSUME NEW s \in Services, Collects(s) PROVE ProcessTypes'
    BY <2>2 DEF Collects
  <2>3. ASSUME NEW s \in Services, Forgets(s) PROVE ProcessTypes'
    BY <2>3 DEF Forgets
  <2>4. ASSUME NEW s \in Services, Signals(s) PROVE ProcessTypes'
    BY <2>4 DEF Signals
  <2>5. ASSUME NEW s \in Services, Dies(s) PROVE ProcessTypes'
    BY <2>5 DEF Dies
  <2>6. ASSUME NEW p \in Pids, Serves(p) \/ Exits(p) PROVE ProcessTypes'
    BY <2>6 DEF Serves, Exits
  <2>7. CASE UNCHANGED core
    BY <2>7 DEF core
  <2> QED BY StepKinds, <2>1, <2>2, <2>3, <2>4, <2>5, <2>6, <2>7 DEF Kinds
<1>2. CallTypes'
  <2> USE DEF Typed, CallTypes, Points, Closing, Ops
  <2>1. ASSUME NEW s \in Services, Call(s) PROVE CallTypes'
    BY <2>1 DEF Call, Construct, CallClose, CallReset, Del, CallRequest, Begin, Goto
  <2>2. ASSUME NEW s \in Services, Step(s) PROVE CallTypes'
    BY <2>2 DEF Step, EndRequest, Attach, FindNone, StartServer, StartServerRaises,
       PollExited, PollRunning, Started, PollAgain, TimedOut, CloseNothing,
       CloseExited, CloseRunning, Terminate, WaitTimesOut, Kill, Waited,
       Forget, Raise, Return, Goto
  <2>3. ASSUME NEW s \in Services, Crash(s) PROVE CallTypes'
    BY <2>3 DEF Crash, Return, Goto
  <2>4. CASE UNCHANGED <<pc, op>>
    BY <2>4
  <2>5. CASE UNCHANGED vars
    BY <2>4, <2>5 DEF vars
  <2> QED BY <2>1, <2>2, <2>3, <2>4, <2>5
          DEF Next, ChildServes, ChildExits, ForeignListens, ForeignLeaves
<1> QED BY <1>1, <1>2 DEF Typed

(* A service and its child know each other.                                *)
LEMMA TrackedStep == Typed /\ Tracked /\ Kinds => Tracked'
<1> SUFFICES ASSUME Typed, Tracked, Kinds PROVE Tracked'
  OBVIOUS
<1> USE DEF Typed, ProcessTypes, Tracked, NoOrphan, Children, Holds
<1>1. ASSUME NEW s \in Services, NEW p \in Pids, Spawns(s, p) PROVE Tracked'
  BY <1>1, SentinelAssumption DEF Spawns
<1>2. ASSUME NEW s \in Services, Collects(s) PROVE Tracked'
  BY <1>2 DEF Collects
<1>3. ASSUME NEW s \in Services, Forgets(s) PROVE Tracked'
  BY <1>3 DEF Forgets
<1>4. ASSUME NEW s \in Services, Signals(s) PROVE Tracked'
  BY <1>4 DEF Signals
<1>5. ASSUME NEW s \in Services, Dies(s) PROVE Tracked'
  BY <1>5, SentinelAssumption DEF Dies
<1>6. ASSUME NEW p \in Pids, Serves(p) \/ Exits(p) PROVE Tracked'
  BY <1>6, SentinelAssumption DEF Serves, Exits, Alive
<1>7. CASE UNCHANGED core
  BY <1>7 DEF core
<1> QED BY <1>1, <1>2, <1>3, <1>4, <1>5, <1>6, <1>7 DEF Kinds

(* What a service holds at each point.                                     *)
LEMMA ControlStep == Typed /\ Control /\ [Next]_vars => Control'
<1> SUFFICES ASSUME Typed, Control, [Next]_vars, NEW r \in Services
             PROVE  Holding(r)'
  BY DEF Control
<1> USE DEF Holds, Holding, Closing
<1>types. /\ pc \in [Services -> Points] /\ op \in [Services -> Ops]
         /\ process \in [Services -> Pids \cup {NoPid}]
         /\ done \in [Services -> BOOLEAN]
         /\ Holding(r) /\ NoPid \notin Pids
  BY SentinelAssumption DEF Typed, CallTypes, ProcessTypes, Control
<1>1. ASSUME NEW s \in Services, Call(s) \/ Step(s) \/ Crash(s)
      PROVE  Holding(r)'
  <2>1. CASE Construct(s)
    BY <2>1, <1>types
       DEF Construct, Goto, Begin
  <2>2. CASE CallClose(s)
    BY <2>2, <1>types
       DEF CallClose, Goto, Begin
  <2>3. CASE CallReset(s)
    BY <2>3, <1>types
       DEF CallReset, Goto, Begin
  <2>4. CASE Del(s)
    BY <2>4, <1>types
       DEF Del, Goto, Begin
  <2>5. CASE CallRequest(s)
    BY <2>5, <1>types
       DEF CallRequest, Goto, Begin
  <2>6. CASE EndRequest(s)
    BY <2>6, <1>types
       DEF EndRequest, Goto, Return
  <2>7. CASE Attach(s)
    BY <2>7, <1>types
       DEF Attach, Goto, Return
  <2>8. CASE FindNone(s)
    BY <2>8, <1>types
       DEF FindNone, Goto
  <2>9. CASE StartServer(s)
    BY <2>9, <1>types
       DEF StartServer, Goto
  <2>10. CASE StartServerRaises(s)
    BY <2>10, <1>types
       DEF StartServerRaises, Goto, Raise, Return
  <2>11. CASE PollExited(s)
    BY <2>11, <1>types
       DEF PollExited, Goto, Collect, Raise, Return
  <2>12. CASE PollRunning(s)
    BY <2>12, <1>types
       DEF PollRunning, Goto
  <2>13. CASE Started(s)
    BY <2>13, <1>types
       DEF Started, Goto, Return
  <2>14. CASE PollAgain(s)
    BY <2>14, <1>types
       DEF PollAgain, Goto
  <2>15. CASE TimedOut(s)
    BY <2>15, <1>types
       DEF TimedOut, Goto, Raise, Return
  <2>16. CASE CloseNothing(s)
    BY <2>16, <1>types
       DEF CloseNothing, Goto, Forget, Return
  <2>17. CASE CloseExited(s)
    BY <2>17, <1>types
       DEF CloseExited, Goto, Collect, Forget, Return
  <2>18. CASE CloseRunning(s)
    BY <2>18, <1>types
       DEF CloseRunning, Goto
  <2>19. CASE Terminate(s)
    BY <2>19, <1>types
       DEF Terminate, Goto, Signal, Collect
  <2>20. CASE WaitTimesOut(s)
    BY <2>20, <1>types
       DEF WaitTimesOut, Goto
  <2>21. CASE Kill(s)
    BY <2>21, <1>types
       DEF Kill, Goto, Signal, Collect
  <2>22. CASE Waited(s)
    BY <2>22, <1>types
       DEF Waited, Goto, Collect, Forget, Return
  <2>23. CASE Crash(s)
    BY <2>23, <1>types
       DEF Crash, Goto, Return
  <2> QED BY <1>1, <2>1, <2>2, <2>3, <2>4, <2>5, <2>6, <2>7, <2>8, <2>9,
     <2>10, <2>11, <2>12, <2>13, <2>14, <2>15, <2>16, <2>17, <2>18, <2>19,
     <2>20, <2>21, <2>22, <2>23
     DEF Call, Step
<1>2. ASSUME UNCHANGED <<pc, op, process, done>> PROVE Holding(r)'
  BY <1>2, <1>types
<1>3. CASE UNCHANGED vars
  BY <1>2, <1>3 DEF vars
<1> QED BY <1>1, <1>2, <1>3
        DEF Next, ChildServes, ChildExits, ForeignListens, ForeignLeaves

-----------------------------------------------------------------------------
(* The inductive invariant: types, tracking and control.                   *)
THEOREM Invariance == Spec => []IInv
<1>1. IInv /\ [Next]_vars => IInv'
  BY StepKinds, TypeStep, TrackedStep, ControlStep DEF IInv
<1> QED BY InvInit, <1>1, PTL DEF Spec

(* No child of a running program is forgotten, whatever raises or times    *)
(* out: constructor, reset, close and finalizer, in any order.             *)
THEOREM ChildrenTracked == Spec => []NoOrphan
<1>1. IInv => NoOrphan
  BY DEF IInv, Tracked
<1> QED BY Invariance, <1>1, PTL

-----------------------------------------------------------------------------
(* Only the service that started a process signals it, while it runs.      *)
THEOREM SignalsAreSafe == Spec => SignalsOwnChild
<1> DEFINE Safe == \A p \in Pids : Signalled(p) =>
                      /\ proc[p] \in Alive
                      /\ \E s \in Services : /\ pc[s] \in {"terminate", "kill"}
                                             /\ process[s] = p /\ parent[p] = s
<1>1. IInv /\ [Next]_vars => Safe
  <2> SUFFICES ASSUME IInv, [Next]_vars, NEW p \in Pids, Signalled(p)
               PROVE  /\ proc[p] \in Alive
                      /\ \E s \in Services : /\ pc[s] \in {"terminate", "kill"}
                                             /\ process[s] = p /\ parent[p] = s
    OBVIOUS
  <2> USE DEF Signalled
  <2>t. proc \in [Pids -> States] /\ process \in [Services -> Pids \cup {NoPid}]
    BY DEF IInv, Typed, ProcessTypes
  <2>1. ASSUME NEW s \in Services, Signals(s)
        PROVE  /\ proc[p] \in Alive
               /\ pc[s] \in {"terminate", "kill"} /\ process[s] = p /\ parent[p] = s
    <3>1. process[s] = p
      BY <2>1, <2>t DEF Signals
    <3> QED BY <3>1, <2>1, <2>t DEF Signals, IInv, Tracked, Holds, States
  <2>2. ~ UNCHANGED core
    BY DEF core
  <2>3. \A s \in Services, q \in Pids : ~Spawns(s, q)
    BY <2>t DEF Spawns
  <2>4. \A s \in Services : ~Collects(s) /\ ~Forgets(s)
    BY <2>t DEF Collects, Forgets
  <2>5. \A s \in Services : ~Dies(s)
    BY <2>t DEF Dies
  <2>6. \A q \in Pids : ~Serves(q) /\ ~Exits(q)
    BY <2>t DEF Serves, Exits
  <2> QED BY <2>1, <2>2, <2>3, <2>4, <2>5, <2>6, StepKinds DEF Kinds, IInv
<1> QED BY Invariance, <1>1, PTL DEF Spec, SignalsOwnChild

-----------------------------------------------------------------------------
(* When close or the finalizer returns, the service has no child left.     *)
LEMMA EndOfClose ==
  ASSUME Control, [Next]_vars, Typed, NEW s \in Services,
         op[s] \in {"Close", "Del"}, op'[s] = "none"
  PROVE  process'[s] = NoPid
<1> USE DEF Goto
<1>t. /\ pc \in [Services -> Points] /\ op \in [Services -> Ops]
      /\ process \in [Services -> Pids \cup {NoPid}]
  BY DEF Typed, CallTypes, ProcessTypes
<1>c. pc[s] \in Closing
  BY DEF Control, Holding
<1>1. ASSUME NEW r \in Services, Call(r) PROVE process'[s] = NoPid
  BY <1>1, <1>t, <1>c DEF Call, Construct, CallClose, CallReset, Del,
                          CallRequest, Begin, Closing
<1>2. ASSUME NEW r \in Services, Step(r) PROVE process'[s] = NoPid
  <2>1. CASE CloseNothing(r) \/ CloseExited(r) \/ Waited(r)
    BY <2>1, <1>t DEF CloseNothing, CloseExited, Waited, Forget, Return
  <2>2. CASE Terminate(r) \/ WaitTimesOut(r) \/ Kill(r) \/ CloseRunning(r)
             \/ FindNone(r) \/ StartServer(r) \/ PollRunning(r) \/ PollAgain(r)
    BY <2>2, <1>t DEF Terminate, WaitTimesOut, Kill, CloseRunning, FindNone,
                      StartServer, PollRunning, PollAgain
  <2>3. CASE EndRequest(r) \/ Attach(r) \/ StartServerRaises(r)
             \/ PollExited(r) \/ Started(r) \/ TimedOut(r)
    BY <2>3, <1>t, <1>c DEF EndRequest, Attach, StartServerRaises, PollExited,
                            Started, TimedOut, Raise, Return, Closing
  <2> QED BY <1>2, <2>1, <2>2, <2>3 DEF Step
<1>3. ASSUME NEW r \in Services, Crash(r) PROVE process'[s] = NoPid
  BY <1>3, <1>t DEF Crash, Return
<1>4. op' # op
  BY <1>t
<1> QED BY <1>1, <1>2, <1>3, <1>4
        DEF Next, ChildServes, ChildExits, ForeignListens, ForeignLeaves, vars

THEOREM ClosingIsFinal == Spec => CloseIsFinal
<1>1. ASSUME IInv, IInv', [Next]_vars, NEW s \in Services,
             op[s] \in {"Close", "Del"}, op'[s] = "none"
      PROVE  Children(s)' = {}
  <2>1. process'[s] = NoPid
    BY <1>1, EndOfClose DEF IInv
  <2>2. \A p \in Children(s)' : process'[s] = p /\ p \in Pids
    BY <1>1 DEF IInv, Tracked, NoOrphan, Children
  <2> QED BY <2>1, <2>2, SentinelAssumption
<1>2. IInv /\ IInv' /\ [Next]_vars =>
          \A s \in Services :
              op[s] \in {"Close", "Del"} /\ op'[s] = "none" => Children(s)' = {}
  BY <1>1
<1> QED BY Invariance, <1>2, PTL DEF Spec, CloseIsFinal

-----------------------------------------------------------------------------
(* Each service implements OwnedServer, apart from a crash of its program. *)
Running(s) == {p \in Children(s) : proc[p] # "zombie"}

(* A service that holds a child has this one and no other.                 *)
LEMMA OnlyChild ==
  ASSUME Typed, Tracked, NEW s \in Services
  PROVE  Children(s) = IF Holds(s) THEN {process[s]} ELSE {}
  BY SentinelAssumption DEF Typed, ProcessTypes, Tracked, NoOrphan, Children, Holds

THEOREM Implements == Spec => OwnedSpec
<1>1. Init => \A s \in Services : Owned(s)!Init
  BY ZenonT(60) DEF Init, Owned!Init, Children
<1>2. ASSUME IInv, [Next]_vars, NEW s \in Services PROVE OwnedStep(s)
  <2>t. /\ ProcessTypes
        /\ Children(s) = IF Holds(s) THEN {process[s]} ELSE {}
    BY <1>2, OnlyChild DEF IInv, Typed
  <2>0. ASSUME UNCHANGED <<Children(s), Running(s)>> PROVE OwnedStep(s)
    BY <2>0 DEF OwnedStep, Owned!vars, Running
  <2>1. ASSUME NEW r \in Services, NEW p \in Pids, Spawns(r, p)
        PROVE  OwnedStep(s)
    <3>1. CASE r # s
      <4>1. UNCHANGED <<Children(s), Running(s)>>
        BY <3>1, <2>1, <2>t DEF Spawns, Children, Running, ProcessTypes
      <4> QED BY <4>1, <2>0
    <3>2. CASE r = s
      <4>1. Children(s) = {}
        BY <3>2, <2>1, <2>t DEF Spawns, Holds
      <4>2. Children(s)' = {p} /\ Running(s)' = {p}
        BY <3>2, <4>1, <2>1, <2>t DEF Spawns, Children, Running, ProcessTypes
      <4> QED BY <4>1, <4>2 DEF OwnedStep, Owned!Next, Owned!Spawn, Running
    <3> QED BY <3>1, <3>2
  <2>2. ASSUME NEW r \in Services, Collects(r) PROVE OwnedStep(s)
    <3>1. CASE r # s
      <4>1. process[r] \notin Children(s)
        BY <3>1, <2>2, <1>2 DEF Collects, IInv, Tracked, Children
      <4>2. UNCHANGED <<Children(s), Running(s)>>
        BY <4>1, <2>2, <2>t DEF Collects, Children, Running, ProcessTypes
      <4> QED BY <4>2, <2>0
    <3>2. CASE r = s
      <4>1. Children(s) = {process[s]} /\ process[s] \in Pids
        BY <3>2, <2>2, <2>t DEF Collects, Holds, ProcessTypes
      <4>2. Running(s) = {}
        BY <3>2, <4>1, <2>2 DEF Collects, Running
      <4>3. Children(s)' = {}
        BY <3>2, <4>1, <2>2, <2>t DEF Collects, Children, ProcessTypes
      <4> QED BY <4>1, <4>2, <4>3
              DEF OwnedStep, Owned!Next, Owned!Reap, Running
    <3> QED BY <3>1, <3>2
  <2>3. ASSUME NEW r \in Services, Forgets(r) PROVE OwnedStep(s)
    BY <2>3, <2>0 DEF Forgets, Children, Running
  <2>4. ASSUME NEW r \in Services, Signals(r) PROVE OwnedStep(s)
    <3>1. proc[process[r]] # "none" /\ process[r] \in Pids
      BY <2>4, <1>2, <2>t DEF Signals, Holds, IInv, Tracked, ProcessTypes
    <3>2. UNCHANGED <<Children(s), Running(s)>>
      BY <3>1, <2>4, <2>t DEF Signals, Children, Running, ProcessTypes
    <3> QED BY <3>2, <2>0
  <2>5. ASSUME NEW r \in Services, Dies(r) PROVE OwnedStep(s)
    <3>1. CASE r # s
      <4>1. UNCHANGED <<Children(s), Running(s)>>
        BY <3>1, <2>5, <2>t, SentinelAssumption
        DEF Dies, Children, Running, ProcessTypes
      <4> QED BY <4>1, <2>0
    <3>2. CASE r = s
      BY <3>2, <2>5, <2>t, SentinelAssumption
      DEF Dies, Children, OwnedStep, Passed, ProcessTypes
    <3> QED BY <3>1, <3>2
  <2>6. ASSUME NEW p \in Pids, Serves(p) PROVE OwnedStep(s)
    <3>1. UNCHANGED <<Children(s), Running(s)>>
      BY <2>6, <2>t DEF Serves, Children, Running, ProcessTypes
    <3> QED BY <3>1, <2>0
  <2>7. ASSUME NEW p \in Pids, Exits(p) PROVE OwnedStep(s)
    <3>1. CASE p \notin Children(s)
      <4>1. parent[p] # s
        BY <3>1, <2>7 DEF Exits, Children, Alive
      <4>2. UNCHANGED <<Children(s), Running(s)>>
        BY <4>1, <2>7, <2>t DEF Exits, Children, Running, ProcessTypes
      <4> QED BY <4>2, <2>0
    <3>2. CASE p \in Children(s)
      <4>1. Children(s) = {p} /\ parent[p] = s
        BY <3>2, <2>t DEF Children
      <4>2. Running(s) = {p}
        BY <4>1, <2>7 DEF Exits, Running, Alive
      <4>3. proc' = [proc EXCEPT ![p] = "zombie"]
        BY <4>1, <2>7, SentinelAssumption DEF Exits
      <4>4. Children(s)' = {p} /\ Running(s)' = {}
        BY <4>1, <4>3, <2>7, <2>t DEF Exits, Children, Running, ProcessTypes
      <4> QED BY <4>1, <4>2, <4>4 DEF OwnedStep, Owned!Next, Owned!Exit, Running
    <3> QED BY <3>1, <3>2
  <2>8. CASE UNCHANGED core
    BY <2>8, <2>0 DEF core, Children, Running
  <2> QED BY <1>2, <2>1, <2>2, <2>3, <2>4, <2>5, <2>6, <2>7, <2>8, StepKinds
          DEF Kinds, IInv
<1>3. IInv /\ [Next]_vars => \A s \in Services : OwnedStep(s)
  BY <1>2
<1> QED BY <1>1, <1>3, Invariance, PTL DEF Spec, OwnedSpec
=============================================================================
