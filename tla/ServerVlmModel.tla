--------------------------- MODULE ServerVlmModel ---------------------------
(***************************************************************************)
(* The server backend: a VlmService object that forks one llama-server     *)
(* child and talks to it over HTTP (src/src/core/cpp/server_vlm_model.cpp).  *)
(* Client threads call the public operations concurrently.  mutex_ covers  *)
(* Initialize, Shutdown, UpdateGenerationConfig and the slow path of       *)
(* StartServerIfNeeded; Reset, the fast path and every read of config_ by  *)
(* a request run outside it.  One action is one step between two points at *)
(* which another thread, the child or the kernel can interfere.            *)
(***************************************************************************)
EXTENDS Integers

CONSTANTS
    Threads,      \* client threads calling the service
    Pids,         \* process ids the kernel may hand out (reused once reaped)
    Ports,        \* TCP ports a configuration may name
    Gens,         \* values of VlmGenerationConfig
    NoConfig,     \* a configuration whose model_dir is empty
    NoPid,        \* server_pid_ == 0
    NoThread,     \* mutex_ is free
    Foreign,      \* a listener that this service did not start
    MaxPolls,     \* 120 in the code
    MaxWaits,     \* 30 in the code
    MaxCalls,     \* bound on the calls of each thread (the model's own)
    Faults        \* what the environment may do: see FaultKinds

FaultKinds == {"fork",       \* fork() fails
               "probe",      \* curl times out although the server is there
               "listener",   \* a foreign server takes the port
               "hostreap"}   \* the host program reaps every child (ECHILD)

ASSUME SentinelAssumption == /\ NoPid \notin Pids /\ Foreign \notin Pids
                             /\ NoPid # Foreign
                             /\ NoThread \notin Threads
ASSUME BoundAssumption == /\ MaxPolls \in Nat \ {0}
                          /\ MaxWaits \in Nat \ {0}
                          /\ MaxCalls \in Nat
ASSUME FaultAssumption == Faults \subseteq FaultKinds

VARIABLES
    config,     \* config_: port and generation settings
    ready,      \* ready_
    serverPid,  \* server_pid_
    mutex,      \* owner of mutex_
    proc,       \* kernel: state of each pid as a child of this program
    launched,   \* the configuration each process was started with
    listener,   \* who accepts connections on each port
    pc, op, arg, pid, polls, waits, peer, calls   \* locals of each thread

service == <<config, ready, serverPid, mutex>>
kernel  == <<proc, launched, listener>>
locals  == <<pc, op, arg, pid, polls, waits, peer, calls>>
vars    == <<config, ready, serverPid, mutex, proc, launched, listener,
             pc, op, arg, pid, polls, waits, peer, calls>>

-----------------------------------------------------------------------------
Config == [port : Ports, gen : Gens]
Alive  == {"booting", "serving", "killed"}
Ops    == {"none", "Request", "Shutdown", "Initialize", "Reset", "Reinit",
           "Update"}

(* Program points inside TerminateProcess, and all those under mutex_.     *)
Terminating == {"sigterm", "wait", "sigkill", "blockwait", "reaped"}
Critical    == Terminating \cup {"locked", "clearReady", "probe", "fork",
                                 "adopt", "poll"}
Points      == Critical \cup {"idle", "fast", "fastProbe", "lock", "send",
                              "await"}

Init ==
    /\ config \in Config                  \* CreateVlmService ran Initialize
    /\ ready = FALSE
    /\ serverPid = NoPid
    /\ mutex = NoThread
    /\ proc = [p \in Pids |-> "none"]
    /\ launched = [p \in Pids |-> config]
    /\ listener = [port \in Ports |-> NoPid]
    /\ pc = [t \in Threads |-> "idle"]
    /\ op = [t \in Threads |-> "none"]
    /\ arg = [t \in Threads |-> NoConfig]
    /\ pid = [t \in Threads |-> NoPid]
    /\ polls = [t \in Threads |-> 0]
    /\ waits = [t \in Threads |-> 0]
    /\ peer = [t \in Threads |-> NoPid]
    /\ calls = [t \in Threads |-> 0]

Goto(t, l) == pc' = [pc EXCEPT ![t] = l]

(* The outcomes of ServerResponds on the configured port: TRUE needs a     *)
(* listener, whoever it is; FALSE needs none, or a curl that timed out.    *)
(* (A host that collects children may also collect the shell of the popen  *)
(* at line 531; its pclose then fails and the probe is FALSE, too: that is *)
(* "hostreap" together with "probe".)                                      *)
ServerResponds(b) ==
    IF b THEN listener[config.port] # NoPid
         ELSE listener[config.port] = NoPid \/ "probe" \in Faults

(* Back to the caller, with the locals of the call gone.                   *)
Return(t) ==
    /\ Goto(t, "idle")
    /\ op' = [op EXCEPT ![t] = "none"]
    /\ arg' = [arg EXCEPT ![t] = NoConfig]
    /\ pid' = [pid EXCEPT ![t] = NoPid]
    /\ polls' = [polls EXCEPT ![t] = 0]
    /\ waits' = [waits EXCEPT ![t] = 0]
    /\ peer' = [peer EXCEPT ![t] = NoPid]
    /\ UNCHANGED calls

(* The lock_guard goes out of scope and the operation is over.             *)
UnlockAndReturn(t) == mutex' = NoThread /\ Return(t)

-----------------------------------------------------------------------------
(* Calls.                                                                  *)

Begin(t, o, a, l) ==
    /\ pc[t] = "idle" /\ calls[t] < MaxCalls
    /\ calls' = [calls EXCEPT ![t] = @ + 1]
    /\ op' = [op EXCEPT ![t] = o]
    /\ arg' = [arg EXCEPT ![t] = a]
    /\ Goto(t, l)
    /\ UNCHANGED <<service, kernel, pid, polls, waits, peer>>

(* Generate, GenerateStream, Chat, ChatStream: StartServerIfNeeded first.  *)
CallRequest(t) == Begin(t, "Request", NoConfig, "fast")

(* Shutdown, and the destructor, which only calls it.                      *)
CallShutdown(t) == Begin(t, "Shutdown", NoConfig, "lock")

CallInitialize(t) ==
    \E c \in Config \cup {NoConfig} : Begin(t, "Initialize", c, "lock")

(* Reset copies config_ before it takes any lock.                          *)
CallReset(t) == Begin(t, "Reset", config, "lock")

CallUpdateGenerationConfig(t) ==
    \E g \in Gens : Begin(t, "Update", [config EXCEPT !.gen = g], "lock")

Lock(t) ==
    /\ pc[t] = "lock" /\ mutex = NoThread
    /\ mutex' = t
    /\ Goto(t, "locked")
    /\ UNCHANGED <<config, ready, serverPid, kernel, op, arg, pid, polls,
                   waits, peer, calls>>

-----------------------------------------------------------------------------
(* Initialize, UpdateGenerationConfig and the two halves of Reset.         *)

(* config_ is written before ready_ is cleared; the fast path of another   *)
(* thread can run between the two.                                         *)
InitializeConfig(t) ==
    /\ pc[t] = "locked" /\ op[t] \in {"Initialize", "Reinit"}
    /\ arg[t] # NoConfig
    /\ config' = arg[t]
    /\ Goto(t, "clearReady")
    /\ UNCHANGED <<ready, serverPid, mutex, kernel, op, arg, pid, polls,
                   waits, peer, calls>>

InitializeReady(t) ==
    /\ pc[t] = "clearReady"
    /\ ready' = FALSE
    /\ UnlockAndReturn(t)
    /\ UNCHANGED <<config, serverPid, kernel>>

InitializeRejects(t) ==
    /\ pc[t] = "locked" /\ op[t] \in {"Initialize", "Reinit"}
    /\ arg[t] = NoConfig
    /\ UnlockAndReturn(t)
    /\ UNCHANGED <<config, ready, serverPid, kernel>>

UpdateGenerationConfig(t) ==
    /\ pc[t] = "locked" /\ op[t] = "Update"
    /\ config' = [config EXCEPT !.gen = arg[t].gen]
    /\ UnlockAndReturn(t)
    /\ UNCHANGED <<ready, serverPid, kernel>>

(* Shutdown is over: Reset releases mutex_ and calls Initialize(saved),    *)
(* which takes it again.                                                   *)
EndShutdown(t) == op[t] = "Shutdown" /\ UnlockAndReturn(t)

GoOnWithReset(t) ==
    /\ op[t] = "Reset"
    /\ mutex' = NoThread
    /\ op' = [op EXCEPT ![t] = "Reinit"]
    /\ pid' = [pid EXCEPT ![t] = NoPid]
    /\ waits' = [waits EXCEPT ![t] = 0]
    /\ Goto(t, "lock")
    /\ UNCHANGED <<arg, polls, peer, calls>>

ShutdownIdle(t) ==
    /\ pc[t] = "locked" /\ op[t] \in {"Shutdown", "Reset"}
    /\ serverPid = NoPid
    /\ ready' = FALSE
    /\ EndShutdown(t) \/ GoOnWithReset(t)
    /\ UNCHANGED <<config, serverPid, kernel>>

(* Mutant: Shutdown forgets to clear ready_.                               *)
ShutdownStaysReady(t) ==
    /\ pc[t] = "locked" /\ op[t] \in {"Shutdown", "Reset"}
    /\ serverPid # NoPid
    /\ pid' = [pid EXCEPT ![t] = serverPid]
    /\ Goto(t, "sigterm")
    /\ UNCHANGED <<service, kernel, op, arg, polls, waits, peer, calls>>

(* Mutant: Shutdown stops the child only when ready_ was set.              *)
ShutdownIfReady(t) ==
    /\ pc[t] = "locked" /\ op[t] \in {"Shutdown", "Reset"}
    /\ serverPid # NoPid
    /\ ready' = FALSE
    /\ IF ready
       THEN /\ pid' = [pid EXCEPT ![t] = serverPid]
            /\ Goto(t, "sigterm")
            /\ UNCHANGED <<mutex, op, arg, polls, waits, peer, calls>>
       ELSE EndShutdown(t) \/ GoOnWithReset(t)
    /\ UNCHANGED <<config, serverPid, kernel>>

ShutdownChild(t) ==
    /\ pc[t] = "locked" /\ op[t] \in {"Shutdown", "Reset"}
    /\ serverPid # NoPid
    /\ ready' = FALSE
    /\ pid' = [pid EXCEPT ![t] = serverPid]
    /\ Goto(t, "sigterm")
    /\ UNCHANGED <<config, serverPid, mutex, kernel, op, arg, polls, waits,
                   peer, calls>>

-----------------------------------------------------------------------------
(* TerminateProcess(pid), run under mutex_ by every caller.                *)

(* SIGTERM asks; the child may exit at any time after it, or never.        *)
SendSigterm(t) ==
    /\ pc[t] = "sigterm"
    /\ waits' = [waits EXCEPT ![t] = 0]
    /\ Goto(t, "wait")
    /\ UNCHANGED <<service, kernel, op, arg, pid, polls, peer, calls>>

(* waitpid collects the child, or finds that it is gone (ECHILD).          *)
Collect(t) ==
    /\ proc[pid[t]] \in {"zombie", "none"}
    /\ proc' = [proc EXCEPT ![pid[t]] = "none"]
    /\ Goto(t, "reaped")
    /\ UNCHANGED <<service, launched, listener, op, arg, pid, polls, waits,
                   peer, calls>>

WaitNoHang(t) == pc[t] = "wait" /\ Collect(t)

(* Mutant: one wait too many.                                              *)
WaitOnceMore(t) ==
    /\ pc[t] = "wait" /\ proc[pid[t]] \in Alive
    /\ waits' = [waits EXCEPT ![t] = @ + 1]
    /\ Goto(t, IF waits[t] = MaxWaits THEN "sigkill" ELSE "wait")
    /\ UNCHANGED <<service, kernel, op, arg, pid, polls, peer, calls>>

(* Mutant: TerminateProcess gives up instead of sending SIGKILL.           *)
WaitThenGiveUp(t) ==
    /\ pc[t] = "wait" /\ proc[pid[t]] \in Alive
    /\ waits' = [waits EXCEPT ![t] = @ + 1]
    /\ Goto(t, IF waits[t] + 1 = MaxWaits THEN "reaped" ELSE "wait")
    /\ UNCHANGED <<service, kernel, op, arg, pid, polls, peer, calls>>

WaitAgain(t) ==
    /\ pc[t] = "wait" /\ proc[pid[t]] \in Alive
    /\ waits' = [waits EXCEPT ![t] = @ + 1]
    /\ Goto(t, IF waits[t] + 1 = MaxWaits THEN "sigkill" ELSE "wait")
    /\ UNCHANGED <<service, kernel, op, arg, pid, polls, peer, calls>>

(* Mutant: a second SIGTERM where SIGKILL is due.                          *)
SendSigtermAgain(t) ==
    /\ pc[t] = "sigkill"
    /\ Goto(t, "blockwait")
    /\ UNCHANGED <<service, kernel, op, arg, pid, polls, waits, peer, calls>>

SendSigkill(t) ==
    /\ pc[t] = "sigkill"
    /\ proc' = IF proc[pid[t]] \in Alive
               THEN [proc EXCEPT ![pid[t]] = "killed"] ELSE proc
    /\ Goto(t, "blockwait")
    /\ UNCHANGED <<service, launched, listener, op, arg, pid, polls, waits,
                   peer, calls>>

WaitBlocking(t) == pc[t] = "blockwait" /\ Collect(t)

(* Mutant: server_pid_ keeps the pid of the collected child.               *)
ForgetKeepsPid(t) ==
    /\ pc[t] = "reaped" /\ op[t] \in {"Shutdown", "Reset"}
    /\ EndShutdown(t) \/ GoOnWithReset(t)
    /\ UNCHANGED <<config, ready, serverPid, kernel>>

(* The caller clears server_pid_ and goes on: Shutdown is over ...         *)
ForgetStopped(t) ==
    /\ pc[t] = "reaped" /\ op[t] \in {"Shutdown", "Reset"}
    /\ serverPid' = NoPid
    /\ EndShutdown(t) \/ GoOnWithReset(t)
    /\ UNCHANGED <<config, ready, kernel>>

(* ... a start whose old server did not answer forks a new one ...         *)
ForgetOld(t) ==
    /\ pc[t] = "reaped" /\ op[t] = "Request" /\ polls[t] < MaxPolls
    /\ serverPid' = NoPid
    /\ pid' = [pid EXCEPT ![t] = NoPid]
    /\ Goto(t, "fork")
    /\ UNCHANGED <<config, ready, mutex, kernel, op, arg, polls, waits, peer,
                   calls>>

(* ... and one that timed out gives up.                                    *)
ForgetTimedOut(t) ==
    /\ pc[t] = "reaped" /\ op[t] = "Request" /\ polls[t] = MaxPolls
    /\ serverPid' = NoPid
    /\ ready' = FALSE
    /\ UnlockAndReturn(t)
    /\ UNCHANGED <<config, kernel>>

-----------------------------------------------------------------------------
(* StartServerIfNeeded.                                                    *)

(* ready_ is read without the lock ...                                     *)
FastPath(t) ==
    /\ pc[t] = "fast"
    /\ Goto(t, IF ready THEN "fastProbe" ELSE "lock")
    /\ UNCHANGED <<service, kernel, op, arg, pid, polls, waits, peer, calls>>

(* ... and so is the probe: the child may be gone when it returns.         *)
FastProbe(t) ==
    /\ pc[t] = "fastProbe"
    /\ \E b \in BOOLEAN : /\ ServerResponds(b)
                          /\ Goto(t, IF b THEN "send" ELSE "lock")
    /\ UNCHANGED <<service, kernel, op, arg, pid, polls, waits, peer, calls>>

(* Mutant: a start believes ready_ rather than server_pid_.                *)
CheckReady(t) ==
    /\ pc[t] = "locked" /\ op[t] = "Request"
    /\ Goto(t, IF serverPid # NoPid /\ ready THEN "probe" ELSE "fork")
    /\ UNCHANGED <<service, kernel, op, arg, pid, polls, waits, peer, calls>>

CheckPid(t) ==
    /\ pc[t] = "locked" /\ op[t] = "Request"
    /\ Goto(t, IF serverPid # NoPid THEN "probe" ELSE "fork")
    /\ UNCHANGED <<service, kernel, op, arg, pid, polls, waits, peer, calls>>

(* The server answers: ready_ is set, mutex_ released, the request goes on. *)
Started(t) ==
    /\ ServerResponds(TRUE)
    /\ ready' = TRUE
    /\ mutex' = NoThread
    /\ Goto(t, "send")
    /\ pid' = [pid EXCEPT ![t] = NoPid]
    /\ polls' = [polls EXCEPT ![t] = 0]
    /\ waits' = [waits EXCEPT ![t] = 0]
    /\ UNCHANGED <<config, serverPid, kernel, op, arg, peer, calls>>

OldAnswers(t) == pc[t] = "probe" /\ Started(t)

(* Mutant: the old server is replaced without asking it.                   *)
ReplaceOld(t) ==
    /\ pc[t] = "probe"
    /\ pid' = [pid EXCEPT ![t] = serverPid]
    /\ Goto(t, "sigterm")
    /\ UNCHANGED <<service, kernel, op, arg, polls, waits, peer, calls>>

OldSilent(t) ==
    /\ pc[t] = "probe"
    /\ ServerResponds(FALSE)
    /\ pid' = [pid EXCEPT ![t] = serverPid]
    /\ Goto(t, "sigterm")
    /\ UNCHANGED <<service, kernel, op, arg, polls, waits, peer, calls>>

Fork(t) ==
    /\ pc[t] = "fork"
    /\ \E p \in Pids :
          /\ proc[p] = "none"
          /\ proc' = [proc EXCEPT ![p] = "booting"]
          /\ launched' = [launched EXCEPT ![p] = config]
          /\ pid' = [pid EXCEPT ![t] = p]
    /\ Goto(t, "adopt")
    /\ UNCHANGED <<service, listener, op, arg, polls, waits, peer, calls>>

(* ready_ keeps whatever value it had.                                     *)
ForkFails(t) ==
    /\ pc[t] = "fork" /\ "fork" \in Faults
    /\ UnlockAndReturn(t)
    /\ UNCHANGED <<config, ready, serverPid, kernel>>

Adopt(t) ==
    /\ pc[t] = "adopt"
    /\ serverPid' = pid[t]
    /\ Goto(t, "poll")
    /\ UNCHANGED <<config, ready, mutex, kernel, op, arg, pid, polls, waits,
                   peer, calls>>

(* One second of sleep and one probe; mutex_ is held for all MaxPolls.     *)
PollAnswered(t) == pc[t] = "poll" /\ Started(t)

PollAgain(t) ==
    /\ pc[t] = "poll"
    /\ ServerResponds(FALSE)
    /\ polls' = [polls EXCEPT ![t] = @ + 1]
    /\ Goto(t, IF polls[t] + 1 = MaxPolls THEN "sigterm" ELSE "poll")
    /\ UNCHANGED <<service, kernel, op, arg, pid, waits, peer, calls>>

-----------------------------------------------------------------------------
(* The request itself: no lock, and config_ read again for the URL.        *)

(* The image cannot be read, or mkstemp or popen fails.                    *)
RequestNotSent(t) ==
    /\ pc[t] = "send"
    /\ Return(t)
    /\ UNCHANGED <<service, kernel>>

Send(t) ==
    /\ pc[t] = "send"
    /\ peer' = [peer EXCEPT ![t] = listener[config.port]]
    /\ Goto(t, "await")
    /\ UNCHANGED <<service, kernel, op, arg, pid, polls, waits, calls>>

(* curl ends: with an answer when somebody is still there to give it, or   *)
(* with an error (refused, reset, HTTP failure, --max-time 180).           *)
Await(t) ==
    /\ pc[t] = "await"
    /\ Return(t)
    /\ UNCHANGED <<service, kernel>>

-----------------------------------------------------------------------------
(* The child and the rest of the machine.                                  *)

(* The child has loaded the model and accepts connections.                 *)
ChildServes(p) ==
    /\ proc[p] = "booting" /\ listener[launched[p].port] = NoPid
    /\ proc' = [proc EXCEPT ![p] = "serving"]
    /\ listener' = [listener EXCEPT ![launched[p].port] = p]
    /\ UNCHANGED <<service, launched, locals>>

(* It exits: exec failed, the port was taken, a signal, a crash.  Requests *)
(* it was answering lose their peer.                                       *)
ChildExits(p) ==
    /\ proc[p] \in Alive
    /\ proc' = [proc EXCEPT ![p] = "zombie"]
    /\ listener' = [port \in Ports |->
                       IF listener[port] = p THEN NoPid ELSE listener[port]]
    /\ peer' = [t \in Threads |-> IF peer[t] = p THEN NoPid ELSE peer[t]]
    /\ UNCHANGED <<service, launched, pc, op, arg, pid, polls, waits, calls>>

HostReaps(p) ==
    /\ "hostreap" \in Faults /\ proc[p] = "zombie"
    /\ proc' = [proc EXCEPT ![p] = "none"]
    /\ UNCHANGED <<service, launched, listener, locals>>

ForeignListens(port) ==
    /\ "listener" \in Faults /\ listener[port] = NoPid
    /\ listener' = [listener EXCEPT ![port] = Foreign]
    /\ UNCHANGED <<service, proc, launched, locals>>

ForeignLeaves(port) ==
    /\ listener[port] = Foreign
    /\ listener' = [listener EXCEPT ![port] = NoPid]
    /\ peer' = [t \in Threads |-> IF peer[t] = Foreign THEN NoPid ELSE peer[t]]
    /\ UNCHANGED <<service, proc, launched, pc, op, arg, pid, polls, waits,
                   calls>>

-----------------------------------------------------------------------------
Calls(t) == \/ CallRequest(t) \/ CallShutdown(t) \/ CallInitialize(t)
            \/ CallReset(t) \/ CallUpdateGenerationConfig(t)

Settings(t) == \/ Lock(t) \/ InitializeConfig(t) \/ InitializeReady(t)
               \/ InitializeRejects(t) \/ UpdateGenerationConfig(t)
               \/ ShutdownIdle(t) \/ ShutdownChild(t)

TerminateProcess(t) == \/ SendSigterm(t) \/ WaitNoHang(t) \/ WaitAgain(t)
                       \/ SendSigkill(t) \/ WaitBlocking(t)
                       \/ ForgetStopped(t) \/ ForgetOld(t) \/ ForgetTimedOut(t)

StartServerIfNeeded(t) == \/ FastPath(t) \/ FastProbe(t) \/ CheckPid(t)
                          \/ OldAnswers(t) \/ OldSilent(t) \/ Fork(t)
                          \/ ForkFails(t) \/ Adopt(t) \/ PollAnswered(t)
                          \/ PollAgain(t)

Request(t) == RequestNotSent(t) \/ Send(t) \/ Await(t)

(* What a thread does inside a call.                                       *)
Work(t) == Settings(t) \/ TerminateProcess(t) \/ StartServerIfNeeded(t)
              \/ Request(t)

Machine == \/ \E p \in Pids : ChildServes(p) \/ ChildExits(p) \/ HostReaps(p)
           \/ \E port \in Ports : ForeignListens(port) \/ ForeignLeaves(port)

Next == (\E t \in Threads : Calls(t) \/ Work(t)) \/ Machine

Spec == Init /\ [][Next]_vars

(* Threads inside a call keep running, and the kernel delivers SIGKILL.    *)
Fairness == /\ \A t \in Threads : WF_vars(Work(t))
            /\ \A p \in Pids : WF_vars(proc[p] = "killed" /\ ChildExits(p))

FairSpec == Spec /\ Fairness

-----------------------------------------------------------------------------
(* Every variable has its type.                                            *)
TypeOK ==
    /\ config \in Config
    /\ ready \in BOOLEAN
    /\ serverPid \in Pids \cup {NoPid}
    /\ mutex \in Threads \cup {NoThread}
    /\ proc \in [Pids -> Alive \cup {"none", "zombie"}]
    /\ launched \in [Pids -> Config]
    /\ listener \in [Ports -> Pids \cup {NoPid, Foreign}]
    /\ pc \in [Threads -> Points]
    /\ op \in [Threads -> Ops]
    /\ arg \in [Threads -> Config \cup {NoConfig}]
    /\ pid \in [Threads -> Pids \cup {NoPid}]
    /\ polls \in [Threads -> 0..MaxPolls]
    /\ waits \in [Threads -> 0..MaxWaits]
    /\ peer \in [Threads -> Pids \cup {NoPid, Foreign}]
    /\ calls \in [Threads -> 0..MaxCalls]

Unreaped == {p \in Pids : proc[p] # "none"}

(* No child is ever lost: a process this program forked and has not        *)
(* collected is the one server_pid_ names, or the one the owner of mutex_  *)
(* has just forked.  A start that gives up, a restart and a Reset may not  *)
(* leave a llama-server behind (StartServerIfNeeded, TerminateProcess).    *)
NoOrphan ==
    \A p \in Unreaped : \/ p = serverPid
                        \/ \E t \in Threads : pc[t] = "adopt" /\ pid[t] = p

(* kill() is only called with the pid of a child that is still there to    *)
(* receive the signal: a collected pid may already belong to an unrelated  *)
(* process (TerminateProcess and the three places that clear server_pid_). *)
SignalsOwnChild ==
    \A t \in Threads :
        pc[t] \in {"sigterm", "sigkill"} => pid[t] \in Unreaped

(* When Shutdown, alone or inside Reset, releases mutex_, no process this  *)
(* service started is left, dead or alive: "stops owned server processes". *)
ShutdownStopsServer ==
    [][\A t \in Threads :
          (op[t] \in {"Shutdown", "Reset"} /\ mutex = t /\ mutex' # t)
              => Unreaped' = {} /\ serverPid' = NoPid /\ ~ready']_vars

(* While forks succeed and no call holds mutex_, ready_ is TRUE only for a *)
(* service that has a child: the timeout path, Shutdown and Initialize     *)
(* clear it in time (StartServerIfNeeded).                                 *)
ReadyHasServer == (mutex = NoThread /\ ready) => serverPid # NoPid

(* A start never signals a server that is able to answer: with probes that *)
(* tell the truth and nobody else on the port, the old server it gives up  *)
(* on is dead or listens where the configuration no longer points.  The    *)
(* child of a start that timed out may come up too late and is excepted.   *)
StartSparesHealthyServer ==
    \A t \in Threads :
        (/\ pc[t] = "sigterm" /\ op[t] = "Request" /\ polls[t] < MaxPolls
         /\ proc[pid[t]] \in {"booting", "serving"})
            => launched[pid[t]].port # config.port

(* Every call returns: no interleaving of a slow start, a stuck child and  *)
(* concurrent callers leaves a thread waiting for ever.                    *)
CallsReturn == \A t \in Threads : pc[t] # "idle" ~> pc[t] = "idle"

(* The child this service owns, as OwnedServer describes it.               *)
Owned == INSTANCE OwnedServer
            WITH own <- Unreaped,
                 alive <- {p \in Pids : proc[p] \in Alive}
OwnedSpec == Owned!Spec
=============================================================================
