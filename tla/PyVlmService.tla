---------------------------- MODULE PyVlmService -----------------------------
(***************************************************************************)
(* The Python service (src/src/python/vlm.py): objects in programs of      *)
(* their own, each with at most one llama-server child, which meet at the  *)
(* one port that all of them are configured for.  A service attaches to    *)
(* whatever answers there and starts a child only if nothing does.  There  *)
(* is no lock; a service is used by one thread.                            *)
(***************************************************************************)
EXTENDS Integers

CONSTANTS
    Services,   \* VlmService objects, each in a program of its own
    Pids,       \* process ids the kernel may hand out (reused once reaped)
    NoPid,      \* self._process is None; nobody listens
    NoService,  \* parent of a process whose program is gone
    Foreign,    \* a listener that none of the services started
    MaxPolls,   \* 120 seconds in the code
    MaxCalls,   \* bound on the calls of all services (the model's own)
    Faults      \* what the environment may do: see FaultKinds

FaultKinds == {"popen",     \* Popen raises: no llama-server, no model path
               "probe",     \* the health check times out
               "listener",  \* a foreign server takes the port
               "crash"}     \* a program is killed

ASSUME SentinelAssumption == /\ NoPid \notin Pids /\ Foreign \notin Pids
                             /\ NoPid # Foreign
                             /\ NoService \notin Services
ASSUME BoundAssumption == MaxPolls \in Nat \ {0} /\ MaxCalls \in Nat
ASSUME FaultAssumption == Faults \subseteq FaultKinds

VARIABLES
    proc,      \* kernel: state of each pid
    parent,    \* the service whose program has to collect it
    listener,  \* who accepts connections on the port
    process,   \* self._process: the pid it holds
    done,      \* its returncode is known: poll and kill leave the pid alone
    pc, op, polls, calls

kernel == <<proc, parent, listener>>
vars   == <<proc, parent, listener, process, done, pc, op, polls, calls>>

Alive  == {"booting", "serving", "stopping", "killed"}
Ops    == {"none", "Construct", "Request", "Close", "Reset", "Del"}
Closing == {"close", "terminate", "wait", "kill", "waitKilled"}
Points == Closing \cup {"gone", "idle", "probe", "spawn", "poll", "respond",
                        "await"}

Init ==
    /\ proc = [p \in Pids |-> "none"]
    /\ parent = [p \in Pids |-> NoService]
    /\ listener \in {NoPid} \cup (IF "listener" \in Faults THEN {Foreign} ELSE {})
    /\ process = [s \in Services |-> NoPid]
    /\ done = [s \in Services |-> FALSE]
    /\ pc = [s \in Services |-> "gone"]
    /\ op = [s \in Services |-> "none"]
    /\ polls = [s \in Services |-> 0]
    /\ calls = 0

Goto(s, l) == pc' = [pc EXCEPT ![s] = l]

(* /health says ok: only a server that is listening and has loaded.        *)
ServerResponds(b) == IF b THEN listener # NoPid
                          ELSE listener = NoPid \/ "probe" \in Faults

Return(s, l) == /\ Goto(s, l)
                /\ op' = [op EXCEPT ![s] = "none"]
                /\ polls' = [polls EXCEPT ![s] = 0]

(* An exception: a constructor that raises leaves no reference, so that    *)
(* __del__ runs; after a reset the caller still has the object.            *)
Raise(s) ==
    IF op[s] = "Construct"
    THEN /\ Goto(s, "close")
         /\ op' = [op EXCEPT ![s] = "Del"]
         /\ polls' = [polls EXCEPT ![s] = 0]
    ELSE Return(s, "idle")

-----------------------------------------------------------------------------
(* Calls.                                                                  *)

Begin(s, o, from, to) ==
    /\ pc[s] = from /\ calls < MaxCalls
    /\ calls' = calls + 1
    /\ op' = [op EXCEPT ![s] = o]
    /\ Goto(s, to)
    /\ UNCHANGED <<kernel, process, done, polls>>

Construct(s) == Begin(s, "Construct", "gone", "probe")

(* close, shutdown and __exit__.                                           *)
CallClose(s) == Begin(s, "Close", "idle", "close")
(* Mutant: reset starts a server without closing the old one.              *)
ResetWithoutClose(s) == Begin(s, "Reset", "idle", "spawn")

CallReset(s) == Begin(s, "Reset", "idle", "close")

Del(s)       == Begin(s, "Del", "idle", "close")

(* generate, chat and their streams: whoever listens is asked, no matter   *)
(* who started it and whether the service was closed.                      *)
CallRequest(s) == Begin(s, "Request", "idle", "await")

(* An answer, an error, or the timeout of 180 s.                           *)
EndRequest(s) ==
    /\ pc[s] = "await"
    /\ Return(s, "idle")
    /\ UNCHANGED <<kernel, process, done, calls>>

-----------------------------------------------------------------------------
(* __init__, _start_server and _wait_for_server.                           *)

(* Mutant: a service that attaches takes the server for its own.           *)
AttachAndAdopt(s) ==
    /\ pc[s] = "probe" /\ ServerResponds(TRUE)
    /\ process' = [process EXCEPT ![s] = IF listener \in Pids THEN listener ELSE NoPid]
    /\ Return(s, "idle")
    /\ UNCHANGED <<kernel, done, calls>>

Attach(s) ==
    /\ pc[s] = "probe" /\ ServerResponds(TRUE)
    /\ Return(s, "idle")
    /\ UNCHANGED <<kernel, process, done, calls>>

FindNone(s) ==
    /\ pc[s] = "probe" /\ ServerResponds(FALSE)
    /\ Goto(s, "spawn")
    /\ UNCHANGED <<kernel, process, done, op, polls, calls>>

StartServer(s) ==
    /\ pc[s] = "spawn"
    /\ \E p \in Pids :
          /\ proc[p] = "none"
          /\ proc' = [proc EXCEPT ![p] = "booting"]
          /\ parent' = [parent EXCEPT ![p] = s]
          /\ process' = [process EXCEPT ![s] = p]
    /\ done' = [done EXCEPT ![s] = FALSE]
    /\ Goto(s, "poll")
    /\ UNCHANGED <<listener, op, polls, calls>>

StartServerRaises(s) ==
    /\ pc[s] = "spawn" /\ "popen" \in Faults
    /\ Raise(s)
    /\ UNCHANGED <<kernel, process, done, calls>>

(* Popen.poll() and wait(): a child that has exited is collected, once.    *)
Collect(s) ==
    /\ ~done[s] /\ proc[process[s]] = "zombie"
    /\ proc' = [proc EXCEPT ![process[s]] = "none"]

PollExited(s) ==
    /\ pc[s] = "poll"
    /\ Collect(s)
    /\ done' = [done EXCEPT ![s] = TRUE]
    /\ Raise(s)
    /\ UNCHANGED <<parent, listener, process, calls>>

PollRunning(s) ==
    /\ pc[s] = "poll"
    /\ proc[process[s]] # "zombie"
    /\ Goto(s, "respond")
    /\ UNCHANGED <<kernel, process, done, op, polls, calls>>

(* Whoever responds: it need not be the child just started.                *)
Started(s) ==
    /\ pc[s] = "respond" /\ ServerResponds(TRUE)
    /\ Return(s, "idle")
    /\ UNCHANGED <<kernel, process, done, calls>>

PollAgain(s) ==
    /\ pc[s] = "respond" /\ ServerResponds(FALSE)
    /\ polls[s] + 1 < MaxPolls
    /\ polls' = [polls EXCEPT ![s] = @ + 1]
    /\ Goto(s, "poll")
    /\ UNCHANGED <<kernel, process, done, op, calls>>

(* Mutant: the deadline is set again instead of raising.                   *)
StartOver(s) ==
    /\ pc[s] = "respond" /\ ServerResponds(FALSE)
    /\ polls[s] + 1 = MaxPolls
    /\ polls' = [polls EXCEPT ![s] = 0]
    /\ Goto(s, "poll")
    /\ UNCHANGED <<kernel, process, done, op, calls>>

TimedOut(s) ==
    /\ pc[s] = "respond" /\ ServerResponds(FALSE)
    /\ polls[s] + 1 = MaxPolls
    /\ Raise(s)
    /\ UNCHANGED <<kernel, process, done, calls>>

-----------------------------------------------------------------------------
(* close: where it goes on depends on who called it.                       *)

Forget(s) ==
    /\ process' = [process EXCEPT ![s] = NoPid]
    /\ done' = [done EXCEPT ![s] = FALSE]
    /\ \/ op[s] = "Reset" /\ Goto(s, "spawn") /\ UNCHANGED <<op, polls>>
       \/ op[s] = "Del" /\ Return(s, "gone")
       \/ op[s] = "Close" /\ Return(s, "idle")

CloseNothing(s) ==
    /\ pc[s] = "close"
    /\ process[s] = NoPid \/ done[s]
    /\ Forget(s)
    /\ UNCHANGED <<kernel, calls>>

CloseExited(s) ==
    /\ pc[s] = "close"
    /\ process[s] # NoPid /\ Collect(s)
    /\ Forget(s)
    /\ UNCHANGED <<parent, listener, calls>>

CloseRunning(s) ==
    /\ pc[s] = "close"
    /\ process[s] # NoPid /\ ~done[s] /\ proc[process[s]] # "zombie"
    /\ Goto(s, "terminate")
    /\ UNCHANGED <<kernel, process, done, op, polls, calls>>

(* A signal: Popen polls once more and sends none to a child that exited.  *)
Signal(s, state) ==
    \/ /\ Collect(s)
       /\ done' = [done EXCEPT ![s] = TRUE]
    \/ /\ ~done[s] /\ proc[process[s]] # "zombie"
       /\ proc' = [proc EXCEPT ![process[s]] = state]
       /\ UNCHANGED done

(* Mutant: close does not wait for the child.                              *)
TerminateAndForget(s) ==
    /\ pc[s] = "terminate"
    /\ ~done[s] /\ proc[process[s]] # "zombie"
    /\ proc' = [proc EXCEPT ![process[s]] = "stopping"]
    /\ Forget(s)
    /\ UNCHANGED <<parent, listener, calls>>

Terminate(s) ==
    /\ pc[s] = "terminate"
    /\ Signal(s, "stopping")
    /\ Goto(s, "wait")
    /\ UNCHANGED <<parent, listener, process, op, polls, calls>>

(* Mutant: after ten seconds close gives up.                               *)
GiveUp(s) ==
    /\ pc[s] = "wait" /\ ~done[s] /\ proc[process[s]] # "zombie"
    /\ Forget(s)
    /\ UNCHANGED <<kernel, calls>>

WaitTimesOut(s) ==
    /\ pc[s] = "wait" /\ ~done[s] /\ proc[process[s]] # "zombie"
    /\ Goto(s, "kill")
    /\ UNCHANGED <<kernel, process, done, op, polls, calls>>

Kill(s) ==
    /\ pc[s] = "kill"
    /\ Signal(s, "killed")
    /\ Goto(s, "waitKilled")
    /\ UNCHANGED <<parent, listener, process, op, polls, calls>>

(* Either wait() returns.                                                  *)
Waited(s) ==
    /\ pc[s] \in {"wait", "waitKilled"}
    /\ \/ Collect(s)
       \/ done[s] /\ UNCHANGED proc
    /\ Forget(s)
    /\ UNCHANGED <<parent, listener, calls>>

-----------------------------------------------------------------------------
(* The programs, the children and the machine.                             *)

(* The program of s is killed; init inherits and collects its children.    *)
Crash(s) ==
    /\ "crash" \in Faults /\ pc[s] # "gone"
    /\ parent' = [p \in Pids |-> IF parent[p] = s THEN NoService ELSE parent[p]]
    /\ proc' = [p \in Pids |-> IF parent[p] = s /\ proc[p] = "zombie"
                               THEN "none" ELSE proc[p]]
    /\ process' = [process EXCEPT ![s] = NoPid]
    /\ done' = [done EXCEPT ![s] = FALSE]
    /\ Return(s, "gone")
    /\ UNCHANGED <<listener, calls>>

(* A server that finds the port taken cannot serve; it can only exit.      *)
ChildServes(p) ==
    /\ proc[p] = "booting" /\ listener = NoPid
    /\ proc' = [proc EXCEPT ![p] = "serving"]
    /\ listener' = p
    /\ UNCHANGED <<parent, process, done, pc, op, polls, calls>>

ChildExits(p) ==
    /\ proc[p] \in Alive
    /\ proc' = [proc EXCEPT ![p] = IF parent[p] = NoService THEN "none"
                                                            ELSE "zombie"]
    /\ listener' = IF listener = p THEN NoPid ELSE listener
    /\ UNCHANGED <<parent, process, done, pc, op, polls, calls>>

ForeignListens ==
    /\ "listener" \in Faults /\ listener = NoPid
    /\ listener' = Foreign
    /\ UNCHANGED <<proc, parent, process, done, pc, op, polls, calls>>

ForeignLeaves ==
    /\ listener = Foreign
    /\ listener' = NoPid
    /\ UNCHANGED <<proc, parent, process, done, pc, op, polls, calls>>

Step(s) ==
    \/ EndRequest(s) \/ Attach(s) \/ FindNone(s)
    \/ StartServer(s) \/ StartServerRaises(s)
    \/ PollExited(s) \/ PollRunning(s) \/ Started(s) \/ PollAgain(s) \/ TimedOut(s)
    \/ CloseNothing(s) \/ CloseExited(s) \/ CloseRunning(s)
    \/ Terminate(s) \/ WaitTimesOut(s) \/ Kill(s) \/ Waited(s)

Call(s) == \/ Construct(s) \/ CallClose(s) \/ CallReset(s) \/ Del(s)
           \/ CallRequest(s)

Next ==
    \/ \E s \in Services : Call(s) \/ Step(s) \/ Crash(s)
    \/ \E p \in Pids : ChildServes(p) \/ ChildExits(p)
    \/ ForeignListens \/ ForeignLeaves

Spec == Init /\ [][Next]_vars

(* A call goes on while its thread runs; a killed process exits.  Nothing  *)
(* is assumed of callers, nor of a child that was only asked to stop.      *)
Fairness ==
    /\ \A s \in Services : WF_vars(Step(s))
    /\ \A p \in Pids : WF_vars(proc[p] = "killed" /\ ChildExits(p))

FairSpec == Spec /\ Fairness
-----------------------------------------------------------------------------
(* Properties.                                                             *)

(* Every child is the one its service holds and will still poll: whatever  *)
(* raises, times out or is called again, no llama-server of a program that *)
(* runs is forgotten.                                                      *)
Children(s) == {p \in Pids : parent[p] = s /\ proc[p] # "none"}

NoOrphan == \A s \in Services : \A p \in Children(s) :
                process[s] = p /\ ~done[s]

(* Only the service that started a child signals it, while it runs: one    *)
(* that attached to another's server never stops it, and a pid that was    *)
(* collected and given to another process is not signalled.                *)
Signalled(p) == proc'[p] # proc[p] /\ proc'[p] \in {"stopping", "killed"}

SignalsOwnChild ==
    [][\A p \in Pids : Signalled(p) =>
          /\ proc[p] \in Alive
          /\ \E s \in Services : /\ pc[s] \in {"terminate", "kill"}
                                 /\ process[s] = p /\ parent[p] = s]_vars

(* When close, shutdown, __exit__ or __del__ returns, also the __del__     *)
(* after a constructor that raised, no process of the service is left.     *)
CloseIsFinal ==
    [][\A s \in Services :
          op[s] \in {"Close", "Del"} /\ op'[s] = "none" => Children(s)' = {}]_vars

(* Each service implements OwnedServer, also across reset; a crash of its  *)
(* program passes its children on.                                         *)
Owned(s) == INSTANCE OwnedServer
            WITH own <- Children(s),
                 alive <- {p \in Children(s) : proc[p] # "zombie"}

Passed(s) == /\ Children(s)' = {}
             /\ \A p \in Children(s) : parent'[p] = NoService

OwnedStep(s) == Owned(s)!Next \/ Passed(s) \/ UNCHANGED Owned(s)!vars

OwnedSpec == /\ \A s \in Services : Owned(s)!Init
             /\ [][\A s \in Services : OwnedStep(s)]_vars

(* Every call comes to an end: a constructor and a reset after MaxPolls    *)
(* health checks, a close although the child ignores SIGTERM.              *)
CallsReturn == \A s \in Services :
    pc[s] \notin {"gone", "idle"} ~> pc[s] \in {"gone", "idle"}
=============================================================================
