------------------------ MODULE ServerVlmModelProofs ------------------------
(***************************************************************************)
(* Proofs about ServerVlmModel, for every set of threads, pids, ports and  *)
(* settings, every bound and (unless a theorem says otherwise) every set   *)
(* of faults.  The inductive invariant is the conjunction of               *)
(*   Typed     types, loop counters and which operation runs where,        *)
(*   Locking   a thread is between lock and unlock iff it owns mutex_,     *)
(*   Tracking  how the locals of that thread relate server_pid_ to the     *)
(*             children the kernel still knows.                            *)
(***************************************************************************)
EXTENDS ServerVlmModel, TLAPS

LEMMA Bounds == /\ MaxPolls \in Nat /\ MaxPolls > 0
                /\ MaxWaits \in Nat /\ MaxWaits > 0
                /\ MaxCalls \in Nat
  BY BoundAssumption

USE Bounds DEF Alive, Ops

-----------------------------------------------------------------------------
(* The loop counters stay below their bounds wherever a loop goes on,      *)
(* UpdateGenerationConfig has settings to write, and only a request starts *)
(* a server, only Initialize clears ready_ where it does.                  *)
Counts ==
    \A t \in Threads :
        /\ polls[t] = MaxPolls => pc[t] \in Terminating /\ op[t] = "Request"
        /\ pc[t] = "wait" => waits[t] < MaxWaits
        /\ op[t] = "Update" => arg[t] \in Config
        /\ pc[t] \in {"probe", "fork", "adopt", "poll"} => op[t] = "Request"
        /\ pc[t] = "clearReady" => op[t] \in {"Initialize", "Reinit"}

Typed == TypeOK /\ Counts

LocalTypes ==
    /\ pc \in [Threads -> Points]
    /\ op \in [Threads -> Ops]
    /\ arg \in [Threads -> Config \cup {NoConfig}]
    /\ pid \in [Threads -> Pids \cup {NoPid}]
    /\ polls \in [Threads -> 0..MaxPolls]
    /\ waits \in [Threads -> 0..MaxWaits]
    /\ peer \in [Threads -> Pids \cup {NoPid, Foreign}]
    /\ calls \in [Threads -> 0..MaxCalls]

LEMMA TypeInit == Init => Typed
<1> SUFFICES ASSUME Init PROVE Typed
  OBVIOUS
<1>1. 0 # MaxPolls
  OBVIOUS
<1>2. LocalTypes
  BY DEF Init, LocalTypes, Points
<1>3. Counts
  <2> SUFFICES ASSUME NEW t \in Threads
               PROVE  /\ pc[t] = "idle" /\ op[t] = "none"
                      /\ polls[t] # MaxPolls
    BY DEF Counts
  <2> QED BY <1>1 DEF Init
<1> QED BY <1>2, <1>3 DEF Init, Typed, TypeOK, LocalTypes

(* The end of a call leaves well-typed locals.                             *)
LEMMA ReturnTyped ==
  ASSUME Typed, NEW t \in Threads, Return(t)
  PROVE  LocalTypes' /\ Counts'
<1>1. LocalTypes'
  BY DEF Return, Goto, Typed, TypeOK, LocalTypes, Points
<1>2. Counts'
  BY DEF Return, Goto, Typed, TypeOK, Counts
<1> QED BY <1>1, <1>2

LEMMA ResetTyped ==
  ASSUME Typed, NEW t \in Threads, GoOnWithReset(t)
  PROVE  LocalTypes' /\ Counts'
<1>1. LocalTypes'
  BY DEF GoOnWithReset, Goto, Typed, TypeOK, LocalTypes, Points
<1>2. Counts'
  BY DEF GoOnWithReset, Goto, Typed, TypeOK, Counts
<1> QED BY <1>1, <1>2

LEMMA TypeStep == Typed /\ [Next]_vars => Typed'
<1> SUFFICES ASSUME Typed, [Next]_vars PROVE Typed'
  OBVIOUS
<1> USE DEF Typed, TypeOK, Counts, Points, Critical, Terminating, service,
            kernel, locals, Goto
<1>1. ASSUME NEW t \in Threads, Calls(t) PROVE Typed'
  <2>1. CASE CallRequest(t)
    BY <2>1 DEF CallRequest, Begin
  <2>2. CASE CallShutdown(t)
    BY <2>2 DEF CallShutdown, Begin
  <2>3. CASE CallInitialize(t)
    BY <2>3 DEF CallInitialize, Begin
  <2>4. CASE CallReset(t)
    BY <2>4 DEF CallReset, Begin
  <2>5. CASE CallUpdateGenerationConfig(t)
    <3>1. \A g \in Gens : [config EXCEPT !.gen = g] \in Config
      BY DEF Config
    <3> QED BY <2>5, <3>1 DEF CallUpdateGenerationConfig, Begin
  <2> QED BY <1>1, <2>1, <2>2, <2>3, <2>4, <2>5 DEF Calls
<1>2. ASSUME NEW t \in Threads, Settings(t) PROVE Typed'
  <2>1. CASE Lock(t)
    BY <2>1 DEF Lock
  <2>2. CASE InitializeConfig(t)
    BY <2>2 DEF InitializeConfig
  <2>3. CASE InitializeReady(t)
    BY <2>3, ReturnTyped DEF InitializeReady, UnlockAndReturn, LocalTypes
  <2>4. CASE InitializeRejects(t)
    BY <2>4, ReturnTyped DEF InitializeRejects, UnlockAndReturn, LocalTypes
  <2>5. CASE UpdateGenerationConfig(t)
    <3>1. arg[t] \in Config
      BY <2>5 DEF UpdateGenerationConfig
    <3>2. config' \in Config
      BY <2>5, <3>1 DEF UpdateGenerationConfig, Config
    <3> QED BY <2>5, <3>2, ReturnTyped
            DEF UpdateGenerationConfig, UnlockAndReturn, LocalTypes
  <2>6. CASE ShutdownIdle(t)
    <3>1. CASE EndShutdown(t)
      BY <2>6, <3>1, ReturnTyped
         DEF ShutdownIdle, EndShutdown, UnlockAndReturn, LocalTypes
    <3>2. CASE GoOnWithReset(t)
      <4>1. mutex' = NoThread
        BY <3>2 DEF GoOnWithReset
      <4> QED BY <2>6, <3>2, <4>1, ResetTyped DEF ShutdownIdle, LocalTypes
    <3> QED BY <2>6, <3>1, <3>2 DEF ShutdownIdle
  <2>7. CASE ShutdownChild(t)
    BY <2>7 DEF ShutdownChild
  <2> QED BY <1>2, <2>1, <2>2, <2>3, <2>4, <2>5, <2>6, <2>7 DEF Settings
<1>3. ASSUME NEW t \in Threads, TerminateProcess(t) PROVE Typed'
  <2>1. CASE SendSigterm(t)
    BY <2>1 DEF SendSigterm
  <2>2. CASE WaitNoHang(t)
    BY <2>2 DEF WaitNoHang, Collect
  <2>3. CASE WaitAgain(t)
    BY <2>3 DEF WaitAgain
  <2>4. CASE SendSigkill(t)
    BY <2>4 DEF SendSigkill
  <2>5. CASE WaitBlocking(t)
    BY <2>5 DEF WaitBlocking, Collect
  <2>6. CASE ForgetStopped(t)
    <3>1. CASE EndShutdown(t)
      BY <2>6, <3>1, ReturnTyped
         DEF ForgetStopped, EndShutdown, UnlockAndReturn, LocalTypes
    <3>2. CASE GoOnWithReset(t)
      <4>1. mutex' = NoThread
        BY <3>2 DEF GoOnWithReset
      <4> QED BY <2>6, <3>2, <4>1, ResetTyped DEF ForgetStopped, LocalTypes
    <3> QED BY <2>6, <3>1, <3>2 DEF ForgetStopped
  <2>7. CASE ForgetOld(t)
    BY <2>7 DEF ForgetOld
  <2>8. CASE ForgetTimedOut(t)
    BY <2>8, ReturnTyped DEF ForgetTimedOut, UnlockAndReturn, LocalTypes
  <2> QED BY <1>3, <2>1, <2>2, <2>3, <2>4, <2>5, <2>6, <2>7, <2>8 DEF TerminateProcess
<1>4. ASSUME NEW t \in Threads, StartServerIfNeeded(t) PROVE Typed'
  <2>1. CASE FastPath(t)
    BY <2>1 DEF FastPath
  <2>2. CASE FastProbe(t)
    BY <2>2 DEF FastProbe
  <2>3. CASE CheckPid(t)
    BY <2>3 DEF CheckPid
  <2>4. CASE OldAnswers(t)
    BY <2>4 DEF OldAnswers, Started
  <2>5. CASE OldSilent(t)
    BY <2>5 DEF OldSilent
  <2>6. CASE Fork(t)
    BY <2>6 DEF Fork
  <2>7. CASE ForkFails(t)
    BY <2>7, ReturnTyped DEF ForkFails, UnlockAndReturn, LocalTypes
  <2>8. CASE Adopt(t)
    BY <2>8 DEF Adopt
  <2>9. CASE PollAnswered(t)
    BY <2>9 DEF PollAnswered, Started
  <2>10. CASE PollAgain(t)
    <3>1. /\ polls[t] \in Nat /\ polls[t] < MaxPolls
          /\ op[t] = "Request"
      BY <2>10 DEF PollAgain
    <3>2. polls' \in [Threads -> 0..MaxPolls]
      BY <2>10, <3>1 DEF PollAgain
    <3>3. TypeOK'
      BY <2>10, <3>2 DEF PollAgain
    <3>4. Counts'
      BY <2>10, <3>1 DEF PollAgain
    <3> QED BY <3>3, <3>4
  <2> QED BY <1>4, <2>1, <2>2, <2>3, <2>4, <2>5, <2>6, <2>7, <2>8, <2>9, <2>10
     DEF StartServerIfNeeded
<1>5. ASSUME NEW t \in Threads, Request(t) PROVE Typed'
  <2>1. CASE RequestNotSent(t)
    BY <2>1, ReturnTyped DEF RequestNotSent, LocalTypes
  <2>2. CASE Send(t)
    <3>1. listener[config.port] \in Pids \cup {NoPid, Foreign}
      BY DEF Config
    <3> QED BY <2>2, <3>1 DEF Send
  <2>3. CASE Await(t)
    BY <2>3, ReturnTyped DEF Await, LocalTypes
  <2> QED BY <1>5, <2>1, <2>2, <2>3 DEF Request
<1>6. ASSUME Machine PROVE Typed'
  <2>1. ASSUME NEW p \in Pids, ChildServes(p) PROVE Typed'
    BY <2>1 DEF ChildServes
  <2>2. ASSUME NEW p \in Pids, ChildExits(p) PROVE Typed'
    BY <2>2 DEF ChildExits
  <2>3. ASSUME NEW p \in Pids, HostReaps(p) PROVE Typed'
    BY <2>3 DEF HostReaps
  <2>4. ASSUME NEW port \in Ports,
               ForeignListens(port) \/ ForeignLeaves(port)
        PROVE  Typed'
    BY <2>4 DEF ForeignListens, ForeignLeaves
  <2> QED BY <1>6, <2>1, <2>2, <2>3, <2>4 DEF Machine
<1>7. CASE UNCHANGED vars
  BY <1>7 DEF vars
<1> QED BY <1>1, <1>2, <1>3, <1>4, <1>5, <1>6, <1>7 DEF Next, Work

(* Type correctness: TypeOK is an invariant, with the bounds of the loop   *)
(* counters (Counts) as the strengthening that makes it inductive.         *)
THEOREM TypeCorrect == Spec => []TypeOK
<1>1. Init => Typed
  BY TypeInit
<1>2. Typed /\ [Next]_vars => Typed'
  BY TypeStep
<1>3. Typed => TypeOK
  BY DEF Typed
<1> QED BY <1>1, <1>2, <1>3, PTL DEF Spec

-----------------------------------------------------------------------------
(* std::lock_guard: exactly the owner of mutex_ is between lock and unlock. *)
Locking == \A t \in Threads : pc[t] \in Critical <=> mutex = t

LEMMA LockStep == Typed /\ Locking /\ [Next]_vars => Locking'
<1> SUFFICES ASSUME Typed, Locking, [Next]_vars PROVE Locking'
  OBVIOUS
<1> USE SentinelAssumption
<1> USE DEF Typed, TypeOK, Locking, Critical, Terminating, service, kernel,
            locals, Goto
<1>1. ASSUME NEW t \in Threads, Calls(t) PROVE Locking'
  <2>1. CASE CallRequest(t)
    BY <2>1 DEF CallRequest, Begin
  <2>2. CASE CallShutdown(t)
    BY <2>2 DEF CallShutdown, Begin
  <2>3. CASE CallInitialize(t)
    BY <2>3 DEF CallInitialize, Begin
  <2>4. CASE CallReset(t)
    BY <2>4 DEF CallReset, Begin
  <2>5. CASE CallUpdateGenerationConfig(t)
    BY <2>5 DEF CallUpdateGenerationConfig, Begin
  <2> QED BY <1>1, <2>1, <2>2, <2>3, <2>4, <2>5 DEF Calls
<1>2. ASSUME NEW t \in Threads, Settings(t) PROVE Locking'
  <2>1. CASE Lock(t)
    BY <2>1 DEF Lock
  <2>2. CASE InitializeConfig(t)
    BY <2>2 DEF InitializeConfig
  <2>3. CASE InitializeReady(t)
    BY <2>3 DEF InitializeReady, UnlockAndReturn, Return
  <2>4. CASE InitializeRejects(t)
    BY <2>4 DEF InitializeRejects, UnlockAndReturn, Return
  <2>5. CASE UpdateGenerationConfig(t)
    BY <2>5 DEF UpdateGenerationConfig, UnlockAndReturn, Return
  <2>6. CASE ShutdownIdle(t)
    BY <2>6
       DEF ShutdownIdle, EndShutdown, GoOnWithReset, UnlockAndReturn, Return
  <2>7. CASE ShutdownChild(t)
    BY <2>7 DEF ShutdownChild
  <2> QED BY <1>2, <2>1, <2>2, <2>3, <2>4, <2>5, <2>6, <2>7 DEF Settings
<1>3. ASSUME NEW t \in Threads, TerminateProcess(t) PROVE Locking'
  <2>1. CASE SendSigterm(t)
    BY <2>1 DEF SendSigterm
  <2>2. CASE WaitNoHang(t)
    BY <2>2 DEF WaitNoHang, Collect
  <2>3. CASE WaitAgain(t)
    BY <2>3 DEF WaitAgain
  <2>4. CASE SendSigkill(t)
    BY <2>4 DEF SendSigkill
  <2>5. CASE WaitBlocking(t)
    BY <2>5 DEF WaitBlocking, Collect
  <2>6. CASE ForgetStopped(t)
    BY <2>6
       DEF ForgetStopped, EndShutdown, GoOnWithReset, UnlockAndReturn, Return
  <2>7. CASE ForgetOld(t)
    BY <2>7 DEF ForgetOld
  <2>8. CASE ForgetTimedOut(t)
    BY <2>8 DEF ForgetTimedOut, UnlockAndReturn, Return
  <2> QED BY <1>3, <2>1, <2>2, <2>3, <2>4, <2>5, <2>6, <2>7, <2>8 DEF TerminateProcess
<1>4. ASSUME NEW t \in Threads, StartServerIfNeeded(t) PROVE Locking'
  <2>1. CASE FastPath(t)
    BY <2>1 DEF FastPath
  <2>2. CASE FastProbe(t)
    BY <2>2 DEF FastProbe
  <2>3. CASE CheckPid(t)
    BY <2>3 DEF CheckPid
  <2>4. CASE OldAnswers(t)
    BY <2>4 DEF OldAnswers, Started
  <2>5. CASE OldSilent(t)
    BY <2>5 DEF OldSilent
  <2>6. CASE Fork(t)
    BY <2>6 DEF Fork
  <2>7. CASE ForkFails(t)
    BY <2>7 DEF ForkFails, UnlockAndReturn, Return
  <2>8. CASE Adopt(t)
    BY <2>8 DEF Adopt
  <2>9. CASE PollAnswered(t)
    BY <2>9 DEF PollAnswered, Started
  <2>10. CASE PollAgain(t)
    BY <2>10 DEF PollAgain
  <2> QED BY <1>4, <2>1, <2>2, <2>3, <2>4, <2>5, <2>6, <2>7, <2>8, <2>9, <2>10
     DEF StartServerIfNeeded
<1>5. ASSUME NEW t \in Threads, Request(t) PROVE Locking'
  <2>1. CASE RequestNotSent(t)
    BY <2>1 DEF RequestNotSent, Return
  <2>2. CASE Send(t)
    BY <2>2 DEF Send
  <2>3. CASE Await(t)
    BY <2>3 DEF Await, Return
  <2> QED BY <1>5, <2>1, <2>2, <2>3 DEF Request
<1>6. ASSUME Machine PROVE Locking'
  <2>1. ASSUME NEW p \in Pids, ChildServes(p) PROVE Locking'
    BY <2>1 DEF ChildServes
  <2>2. ASSUME NEW p \in Pids, ChildExits(p) PROVE Locking'
    BY <2>2 DEF ChildExits
  <2>3. ASSUME NEW p \in Pids, HostReaps(p) PROVE Locking'
    BY <2>3 DEF HostReaps
  <2>4. ASSUME NEW port \in Ports,
               ForeignListens(port) \/ ForeignLeaves(port)
        PROVE  Locking'
    BY <2>4 DEF ForeignListens, ForeignLeaves
  <2> QED BY <1>6, <2>1, <2>2, <2>3, <2>4 DEF Machine
<1>7. CASE UNCHANGED vars
  BY <1>7 DEF vars
<1> QED BY <1>1, <1>2, <1>3, <1>4, <1>5, <1>6, <1>7 DEF Next, Work

-----------------------------------------------------------------------------
(* What the owner of mutex_ knows about server_pid_ at each point of the   *)
(* critical section.                                                       *)
Holding ==
    \A t \in Threads :
        /\ pc[t] \in Terminating => pid[t] = serverPid /\ serverPid # NoPid
        /\ pc[t] \in Terminating /\ op[t] \in {"Shutdown", "Reset"} => ~ready
        /\ pc[t] = "reaped" => proc[serverPid] = "none"
        /\ pc[t] = "probe" => serverPid # NoPid
        /\ pc[t] = "poll" => pid[t] = serverPid /\ serverPid # NoPid
        /\ pc[t] = "fork" => serverPid = NoPid
        /\ pc[t] = "adopt" => serverPid = NoPid /\ pid[t] \in Pids

IInv == Typed /\ Locking /\ Holding /\ NoOrphan

LEMMA HoldingStep ==
  Typed /\ Locking /\ Holding /\ [Next]_vars => Holding'
<1> SUFFICES ASSUME Typed, Locking, Holding, [Next]_vars PROVE Holding'
  OBVIOUS
<1> USE SentinelAssumption
<1> USE DEF Typed, TypeOK, Locking, Holding, Critical, Terminating, service,
            kernel, locals, Goto
<1>1. ASSUME NEW t \in Threads, Calls(t) PROVE Holding'
  <2>1. CASE CallRequest(t)
    BY <2>1 DEF CallRequest, Begin
  <2>2. CASE CallShutdown(t)
    BY <2>2 DEF CallShutdown, Begin
  <2>3. CASE CallInitialize(t)
    BY <2>3 DEF CallInitialize, Begin
  <2>4. CASE CallReset(t)
    BY <2>4 DEF CallReset, Begin
  <2>5. CASE CallUpdateGenerationConfig(t)
    BY <2>5 DEF CallUpdateGenerationConfig, Begin
  <2> QED BY <1>1, <2>1, <2>2, <2>3, <2>4, <2>5 DEF Calls
<1>2. ASSUME NEW t \in Threads, Settings(t) PROVE Holding'
  <2>1. CASE Lock(t)
    BY <2>1 DEF Lock
  <2>2. CASE InitializeConfig(t)
    BY <2>2 DEF InitializeConfig
  <2>3. CASE InitializeReady(t)
    BY <2>3 DEF InitializeReady, UnlockAndReturn, Return
  <2>4. CASE InitializeRejects(t)
    BY <2>4 DEF InitializeRejects, UnlockAndReturn, Return
  <2>5. CASE UpdateGenerationConfig(t)
    BY <2>5 DEF UpdateGenerationConfig, UnlockAndReturn, Return
  <2>6. CASE ShutdownIdle(t)
    BY <2>6
       DEF ShutdownIdle, EndShutdown, GoOnWithReset, UnlockAndReturn, Return
  <2>7. CASE ShutdownChild(t)
    BY <2>7 DEF ShutdownChild
  <2> QED BY <1>2, <2>1, <2>2, <2>3, <2>4, <2>5, <2>6, <2>7 DEF Settings
<1>3. ASSUME NEW t \in Threads, TerminateProcess(t) PROVE Holding'
  <2>1. CASE SendSigterm(t)
    BY <2>1 DEF SendSigterm
  <2>2. CASE WaitNoHang(t)
    BY <2>2 DEF WaitNoHang, Collect
  <2>3. CASE WaitAgain(t)
    BY <2>3 DEF WaitAgain
  <2>4. CASE SendSigkill(t)
    BY <2>4 DEF SendSigkill
  <2>5. CASE WaitBlocking(t)
    BY <2>5 DEF WaitBlocking, Collect
  <2>6. CASE ForgetStopped(t)
    BY <2>6
       DEF ForgetStopped, EndShutdown, GoOnWithReset, UnlockAndReturn, Return
  <2>7. CASE ForgetOld(t)
    BY <2>7 DEF ForgetOld
  <2>8. CASE ForgetTimedOut(t)
    BY <2>8 DEF ForgetTimedOut, UnlockAndReturn, Return
  <2> QED BY <1>3, <2>1, <2>2, <2>3, <2>4, <2>5, <2>6, <2>7, <2>8 DEF TerminateProcess
<1>4. ASSUME NEW t \in Threads, StartServerIfNeeded(t) PROVE Holding'
  <2>1. CASE FastPath(t)
    BY <2>1 DEF FastPath
  <2>2. CASE FastProbe(t)
    BY <2>2 DEF FastProbe
  <2>3. CASE CheckPid(t)
    BY <2>3 DEF CheckPid
  <2>4. CASE OldAnswers(t)
    BY <2>4 DEF OldAnswers, Started
  <2>5. CASE OldSilent(t)
    BY <2>5 DEF OldSilent, Counts
  <2>6. CASE Fork(t)
    BY <2>6 DEF Fork
  <2>7. CASE ForkFails(t)
    BY <2>7 DEF ForkFails, UnlockAndReturn, Return
  <2>8. CASE Adopt(t)
    BY <2>8 DEF Adopt
  <2>9. CASE PollAnswered(t)
    BY <2>9 DEF PollAnswered, Started
  <2>10. CASE PollAgain(t)
    BY <2>10 DEF PollAgain, Counts
  <2> QED BY <1>4, <2>1, <2>2, <2>3, <2>4, <2>5, <2>6, <2>7, <2>8, <2>9, <2>10
     DEF StartServerIfNeeded
<1>5. ASSUME NEW t \in Threads, Request(t) PROVE Holding'
  <2>1. CASE RequestNotSent(t)
    BY <2>1 DEF RequestNotSent, Return
  <2>2. CASE Send(t)
    BY <2>2 DEF Send
  <2>3. CASE Await(t)
    BY <2>3 DEF Await, Return
  <2> QED BY <1>5, <2>1, <2>2, <2>3 DEF Request
<1>6. ASSUME Machine PROVE Holding'
  <2>1. ASSUME NEW p \in Pids, ChildServes(p) PROVE Holding'
    BY <2>1 DEF ChildServes
  <2>2. ASSUME NEW p \in Pids, ChildExits(p) PROVE Holding'
    BY <2>2 DEF ChildExits
  <2>3. ASSUME NEW p \in Pids, HostReaps(p) PROVE Holding'
    BY <2>3 DEF HostReaps
  <2>4. ASSUME NEW port \in Ports,
               ForeignListens(port) \/ ForeignLeaves(port)
        PROVE  Holding'
    BY <2>4 DEF ForeignListens, ForeignLeaves
  <2> QED BY <1>6, <2>1, <2>2, <2>3, <2>4 DEF Machine
<1>7. CASE UNCHANGED vars
  BY <1>7 DEF vars
<1> QED BY <1>1, <1>2, <1>3, <1>4, <1>5, <1>6, <1>7 DEF Next, Work

LEMMA OrphanStep == IInv /\ [Next]_vars => NoOrphan'
<1> SUFFICES ASSUME IInv, [Next]_vars PROVE NoOrphan'
  OBVIOUS
<1> USE SentinelAssumption
<1> USE DEF IInv, Typed, TypeOK, Locking, Holding, NoOrphan, Unreaped, Critical,
            Terminating, service, kernel, locals, Goto
<1>1. ASSUME NEW t \in Threads, Calls(t) PROVE NoOrphan'
  <2>1. CASE CallRequest(t)
    BY <2>1 DEF CallRequest, Begin
  <2>2. CASE CallShutdown(t)
    BY <2>2 DEF CallShutdown, Begin
  <2>3. CASE CallInitialize(t)
    BY <2>3 DEF CallInitialize, Begin
  <2>4. CASE CallReset(t)
    BY <2>4 DEF CallReset, Begin
  <2>5. CASE CallUpdateGenerationConfig(t)
    BY <2>5 DEF CallUpdateGenerationConfig, Begin
  <2> QED BY <1>1, <2>1, <2>2, <2>3, <2>4, <2>5 DEF Calls
<1>2. ASSUME NEW t \in Threads, Settings(t) PROVE NoOrphan'
  <2>1. CASE Lock(t)
    BY <2>1 DEF Lock
  <2>2. CASE InitializeConfig(t)
    BY <2>2 DEF InitializeConfig
  <2>3. CASE InitializeReady(t)
    BY <2>3 DEF InitializeReady, UnlockAndReturn, Return
  <2>4. CASE InitializeRejects(t)
    BY <2>4 DEF InitializeRejects, UnlockAndReturn, Return
  <2>5. CASE UpdateGenerationConfig(t)
    BY <2>5 DEF UpdateGenerationConfig, UnlockAndReturn, Return
  <2>6. CASE ShutdownIdle(t)
    BY <2>6
       DEF ShutdownIdle, EndShutdown, GoOnWithReset, UnlockAndReturn, Return
  <2>7. CASE ShutdownChild(t)
    BY <2>7 DEF ShutdownChild
  <2> QED BY <1>2, <2>1, <2>2, <2>3, <2>4, <2>5, <2>6, <2>7 DEF Settings
<1>3. ASSUME NEW t \in Threads, TerminateProcess(t) PROVE NoOrphan'
  <2>1. CASE SendSigterm(t)
    BY <2>1 DEF SendSigterm
  <2>2. CASE WaitNoHang(t)
    BY <2>2 DEF WaitNoHang, Collect
  <2>3. CASE WaitAgain(t)
    BY <2>3 DEF WaitAgain
  <2>4. CASE SendSigkill(t)
    BY <2>4 DEF SendSigkill
  <2>5. CASE WaitBlocking(t)
    BY <2>5 DEF WaitBlocking, Collect
  <2>6. CASE ForgetStopped(t)
    BY <2>6
       DEF ForgetStopped, EndShutdown, GoOnWithReset, UnlockAndReturn, Return
  <2>7. CASE ForgetOld(t)
    BY <2>7 DEF ForgetOld
  <2>8. CASE ForgetTimedOut(t)
    BY <2>8 DEF ForgetTimedOut, UnlockAndReturn, Return
  <2> QED BY <1>3, <2>1, <2>2, <2>3, <2>4, <2>5, <2>6, <2>7, <2>8 DEF TerminateProcess
<1>4. ASSUME NEW t \in Threads, StartServerIfNeeded(t) PROVE NoOrphan'
  <2>1. CASE FastPath(t)
    BY <2>1 DEF FastPath
  <2>2. CASE FastProbe(t)
    BY <2>2 DEF FastProbe
  <2>3. CASE CheckPid(t)
    BY <2>3 DEF CheckPid
  <2>4. CASE OldAnswers(t)
    BY <2>4 DEF OldAnswers, Started
  <2>5. CASE OldSilent(t)
    BY <2>5 DEF OldSilent
  <2>6. CASE Fork(t)
    BY <2>6 DEF Fork
  <2>7. CASE ForkFails(t)
    BY <2>7 DEF ForkFails, UnlockAndReturn, Return
  <2>8. CASE Adopt(t)
    BY <2>8 DEF Adopt
  <2>9. CASE PollAnswered(t)
    BY <2>9 DEF PollAnswered, Started
  <2>10. CASE PollAgain(t)
    BY <2>10 DEF PollAgain
  <2> QED BY <1>4, <2>1, <2>2, <2>3, <2>4, <2>5, <2>6, <2>7, <2>8, <2>9, <2>10
     DEF StartServerIfNeeded
<1>5. ASSUME NEW t \in Threads, Request(t) PROVE NoOrphan'
  <2>1. CASE RequestNotSent(t)
    BY <2>1 DEF RequestNotSent, Return
  <2>2. CASE Send(t)
    BY <2>2 DEF Send
  <2>3. CASE Await(t)
    BY <2>3 DEF Await, Return
  <2> QED BY <1>5, <2>1, <2>2, <2>3 DEF Request
<1>6. ASSUME Machine PROVE NoOrphan'
  <2>1. ASSUME NEW p \in Pids, ChildServes(p) PROVE NoOrphan'
    BY <2>1 DEF ChildServes
  <2>2. ASSUME NEW p \in Pids, ChildExits(p) PROVE NoOrphan'
    BY <2>2 DEF ChildExits
  <2>3. ASSUME NEW p \in Pids, HostReaps(p) PROVE NoOrphan'
    BY <2>3 DEF HostReaps
  <2>4. ASSUME NEW port \in Ports,
               ForeignListens(port) \/ ForeignLeaves(port)
        PROVE  NoOrphan'
    BY <2>4 DEF ForeignListens, ForeignLeaves
  <2> QED BY <1>6, <2>1, <2>2, <2>3, <2>4 DEF Machine
<1>7. CASE UNCHANGED vars
  BY <1>7 DEF vars
<1> QED BY <1>1, <1>2, <1>3, <1>4, <1>5, <1>6, <1>7 DEF Next, Work

(* The inductive invariant.                                                *)
THEOREM Invariance == Spec => []IInv
<1>1. Init => IInv
  <2> SUFFICES ASSUME Init PROVE IInv
    OBVIOUS
  <2>1. Locking
    BY SentinelAssumption DEF Init, Locking, Critical, Terminating
  <2>2. Holding
    BY DEF Init, Holding, Terminating
  <2>3. NoOrphan
    BY DEF Init, NoOrphan, Unreaped
  <2> QED BY TypeInit, <2>1, <2>2, <2>3 DEF IInv
<1>2. IInv /\ [Next]_vars => IInv'
  BY TypeStep, LockStep, HoldingStep, OrphanStep DEF IInv
<1> QED BY <1>1, <1>2, PTL DEF Spec

(* No llama-server is ever lost, whatever the environment does.            *)
THEOREM ChildrenTracked == Spec => []NoOrphan
<1>1. IInv => NoOrphan
  BY DEF IInv
<1> QED BY <1>1, Invariance, PTL

(* There is never more than one child.                                     *)
LEMMA OneChild ==
  ASSUME IInv, NEW p \in Unreaped, NEW q \in Unreaped PROVE p = q
  BY SentinelAssumption
  DEF IInv, Typed, TypeOK, Locking, Holding, NoOrphan, Unreaped, Critical

(* Shutdown, alone or inside Reset, is over only when the child is.        *)
THEOREM ShutdownIsFinal == Spec => ShutdownStopsServer
<1> DEFINE Final == \A t \in Threads :
                       (op[t] \in {"Shutdown", "Reset"} /\ mutex = t /\ mutex' # t)
                           => Unreaped' = {} /\ serverPid' = NoPid /\ ~ready'
<1>1. IInv /\ IInv' /\ [Next]_vars => [Final]_vars
  <2> SUFFICES ASSUME IInv, IInv', Next, NEW u \in Threads,
                      op[u] \in {"Shutdown", "Reset"}, mutex = u, mutex' # u
               PROVE  serverPid' = NoPid /\ ~ready' /\ Unreaped' = {}
    BY DEF Final
  <2>1. serverPid' = NoPid /\ ~ready' /\ mutex' = NoThread
    <3> USE SentinelAssumption
    <3> USE DEF IInv, Typed, TypeOK, Counts, Locking, Holding, Critical,
                Terminating, service, kernel, locals, Goto
    <3>1. PICK t \in Threads : Settings(t) \/ TerminateProcess(t)
                                 \/ StartServerIfNeeded(t)
      BY DEF Next, Work, Calls, CallRequest, CallShutdown, CallInitialize,
             CallReset, CallUpdateGenerationConfig, Begin, Request,
             RequestNotSent, Send, Await, Return, Machine, ChildServes,
             ChildExits, HostReaps, ForeignListens, ForeignLeaves
    <3>2. CASE Settings(t)
      BY <3>2 DEF Settings, Lock, InitializeConfig, InitializeReady,
                  InitializeRejects, UpdateGenerationConfig, ShutdownIdle,
                  ShutdownChild, EndShutdown, GoOnWithReset, UnlockAndReturn
    <3>3. CASE TerminateProcess(t)
      BY <3>3 DEF TerminateProcess, SendSigterm, WaitNoHang, WaitAgain,
                  SendSigkill, WaitBlocking, Collect, ForgetStopped, ForgetOld,
                  ForgetTimedOut, EndShutdown, GoOnWithReset, UnlockAndReturn
    <3>4. CASE StartServerIfNeeded(t)
      BY <3>4 DEF StartServerIfNeeded, FastPath, FastProbe, CheckPid,
                  OldAnswers, OldSilent, Started, Fork, ForkFails, Adopt,
                  PollAnswered, PollAgain, UnlockAndReturn
    <3> QED BY <3>1, <3>2, <3>3, <3>4
  <2>2. \A t \in Threads : pc'[t] # "adopt"
    BY <2>1, SentinelAssumption DEF IInv, Locking, Critical
  <2>3. Unreaped' = {}
    BY <2>1, <2>2, SentinelAssumption DEF IInv, NoOrphan, Unreaped
  <2> QED BY <2>1, <2>3
<1> QED BY <1>1, Invariance, PTL DEF Spec, ShutdownStopsServer, Final

-----------------------------------------------------------------------------
(* Unless the host program collects children behind the service's back,    *)
(* server_pid_ names a child that can still be signalled.                  *)
Fresh ==
    /\ serverPid \in Pids
          => serverPid \in Unreaped \/ \E t \in Threads : pc[t] = "reaped"
    /\ \A t \in Threads : pc[t] = "adopt" => pid[t] \in Unreaped

LEMMA FreshStep ==
  ASSUME "hostreap" \notin Faults, IInv, Fresh, [Next]_vars PROVE Fresh'
<1> USE SentinelAssumption
<1> USE DEF IInv, Typed, TypeOK, Locking, Holding, Fresh, Unreaped, Critical,
            Terminating, service, kernel, locals, Goto
<1>1. ASSUME NEW t \in Threads, Calls(t) PROVE Fresh'
  <2>1. CASE CallRequest(t)
    BY <2>1 DEF CallRequest, Begin
  <2>2. CASE CallShutdown(t)
    BY <2>2 DEF CallShutdown, Begin
  <2>3. CASE CallInitialize(t)
    BY <2>3 DEF CallInitialize, Begin
  <2>4. CASE CallReset(t)
    BY <2>4 DEF CallReset, Begin
  <2>5. CASE CallUpdateGenerationConfig(t)
    BY <2>5 DEF CallUpdateGenerationConfig, Begin
  <2> QED BY <1>1, <2>1, <2>2, <2>3, <2>4, <2>5 DEF Calls
<1>2. ASSUME NEW t \in Threads, Settings(t) PROVE Fresh'
  <2>1. CASE Lock(t)
    BY <2>1 DEF Lock
  <2>2. CASE InitializeConfig(t)
    BY <2>2 DEF InitializeConfig
  <2>3. CASE InitializeReady(t)
    BY <2>3 DEF InitializeReady, UnlockAndReturn, Return
  <2>4. CASE InitializeRejects(t)
    BY <2>4 DEF InitializeRejects, UnlockAndReturn, Return
  <2>5. CASE UpdateGenerationConfig(t)
    BY <2>5 DEF UpdateGenerationConfig, UnlockAndReturn, Return
  <2>6. CASE ShutdownIdle(t)
    BY <2>6
       DEF ShutdownIdle, EndShutdown, GoOnWithReset, UnlockAndReturn, Return
  <2>7. CASE ShutdownChild(t)
    BY <2>7 DEF ShutdownChild
  <2> QED BY <1>2, <2>1, <2>2, <2>3, <2>4, <2>5, <2>6, <2>7 DEF Settings
<1>3. ASSUME NEW t \in Threads, TerminateProcess(t) PROVE Fresh'
  <2>1. CASE SendSigterm(t)
    BY <2>1 DEF SendSigterm
  <2>2. CASE WaitNoHang(t)
    BY <2>2 DEF WaitNoHang, Collect
  <2>3. CASE WaitAgain(t)
    BY <2>3 DEF WaitAgain
  <2>4. CASE SendSigkill(t)
    BY <2>4 DEF SendSigkill
  <2>5. CASE WaitBlocking(t)
    BY <2>5 DEF WaitBlocking, Collect
  <2>6. CASE ForgetStopped(t)
    BY <2>6
       DEF ForgetStopped, EndShutdown, GoOnWithReset, UnlockAndReturn, Return
  <2>7. CASE ForgetOld(t)
    BY <2>7 DEF ForgetOld
  <2>8. CASE ForgetTimedOut(t)
    BY <2>8 DEF ForgetTimedOut, UnlockAndReturn, Return
  <2> QED BY <1>3, <2>1, <2>2, <2>3, <2>4, <2>5, <2>6, <2>7, <2>8 DEF TerminateProcess
<1>4. ASSUME NEW t \in Threads, StartServerIfNeeded(t) PROVE Fresh'
  <2>1. CASE FastPath(t)
    BY <2>1 DEF FastPath
  <2>2. CASE FastProbe(t)
    BY <2>2 DEF FastProbe
  <2>3. CASE CheckPid(t)
    BY <2>3 DEF CheckPid
  <2>4. CASE OldAnswers(t)
    BY <2>4 DEF OldAnswers, Started
  <2>5. CASE OldSilent(t)
    BY <2>5 DEF OldSilent
  <2>6. CASE Fork(t)
    BY <2>6 DEF Fork
  <2>7. CASE ForkFails(t)
    BY <2>7 DEF ForkFails, UnlockAndReturn, Return
  <2>8. CASE Adopt(t)
    BY <2>8 DEF Adopt
  <2>9. CASE PollAnswered(t)
    BY <2>9 DEF PollAnswered, Started
  <2>10. CASE PollAgain(t)
    BY <2>10 DEF PollAgain
  <2> QED BY <1>4, <2>1, <2>2, <2>3, <2>4, <2>5, <2>6, <2>7, <2>8, <2>9, <2>10
     DEF StartServerIfNeeded
<1>5. ASSUME NEW t \in Threads, Request(t) PROVE Fresh'
  <2>1. CASE RequestNotSent(t)
    BY <2>1 DEF RequestNotSent, Return
  <2>2. CASE Send(t)
    BY <2>2 DEF Send
  <2>3. CASE Await(t)
    BY <2>3 DEF Await, Return
  <2> QED BY <1>5, <2>1, <2>2, <2>3 DEF Request
<1>6. ASSUME Machine PROVE Fresh'
  <2>1. ASSUME NEW p \in Pids, ChildServes(p) PROVE Fresh'
    BY <2>1 DEF ChildServes
  <2>2. ASSUME NEW p \in Pids, ChildExits(p) PROVE Fresh'
    BY <2>2 DEF ChildExits
  <2>3. ASSUME NEW p \in Pids, HostReaps(p) PROVE Fresh'
    BY <2>3 DEF HostReaps
  <2>4. ASSUME NEW port \in Ports,
               ForeignListens(port) \/ ForeignLeaves(port)
        PROVE  Fresh'
    BY <2>4 DEF ForeignListens, ForeignLeaves
  <2> QED BY <1>6, <2>1, <2>2, <2>3, <2>4 DEF Machine
<1>7. CASE UNCHANGED vars
  BY <1>7 DEF vars
<1> QED BY <1>1, <1>2, <1>3, <1>4, <1>5, <1>6, <1>7 DEF Next, Work

(* Signals only go to children that are still there to receive them.       *)
THEOREM SignalsAreSafe ==
  ASSUME "hostreap" \notin Faults PROVE Spec => []SignalsOwnChild
<1>1. Init => Fresh
  BY SentinelAssumption DEF Init, Fresh
<1>2. IInv /\ Fresh /\ [Next]_vars => Fresh'
  BY FreshStep
<1>3. IInv /\ Fresh => SignalsOwnChild
  BY SentinelAssumption
  DEF IInv, Typed, TypeOK, Locking, Holding, Fresh, SignalsOwnChild,
      Critical, Terminating
<1> QED BY <1>1, <1>2, <1>3, Invariance, PTL DEF Spec

(* When forks succeed, ready_ without a server is only seen by the start   *)
(* that is replacing it.                                                   *)
Replacing ==
    ready /\ serverPid = NoPid
        => \E t \in Threads : pc[t] \in {"fork", "adopt"}

LEMMA ReplacingStep ==
  ASSUME "fork" \notin Faults, IInv, Replacing, [Next]_vars PROVE Replacing'
<1> USE SentinelAssumption
<1> USE DEF IInv, Typed, TypeOK, Locking, Holding, Replacing, Critical,
            Terminating, service, kernel, locals, Goto
<1>1. ASSUME NEW t \in Threads, Calls(t) PROVE Replacing'
  <2>1. CASE CallRequest(t)
    BY <2>1 DEF CallRequest, Begin
  <2>2. CASE CallShutdown(t)
    BY <2>2 DEF CallShutdown, Begin
  <2>3. CASE CallInitialize(t)
    BY <2>3 DEF CallInitialize, Begin
  <2>4. CASE CallReset(t)
    BY <2>4 DEF CallReset, Begin
  <2>5. CASE CallUpdateGenerationConfig(t)
    BY <2>5 DEF CallUpdateGenerationConfig, Begin
  <2> QED BY <1>1, <2>1, <2>2, <2>3, <2>4, <2>5 DEF Calls
<1>2. ASSUME NEW t \in Threads, Settings(t) PROVE Replacing'
  <2>1. CASE Lock(t)
    BY <2>1 DEF Lock
  <2>2. CASE InitializeConfig(t)
    BY <2>2 DEF InitializeConfig
  <2>3. CASE InitializeReady(t)
    BY <2>3 DEF InitializeReady, UnlockAndReturn, Return
  <2>4. CASE InitializeRejects(t)
    BY <2>4 DEF InitializeRejects, UnlockAndReturn, Return
  <2>5. CASE UpdateGenerationConfig(t)
    BY <2>5 DEF UpdateGenerationConfig, UnlockAndReturn, Return
  <2>6. CASE ShutdownIdle(t)
    BY <2>6
       DEF ShutdownIdle, EndShutdown, GoOnWithReset, UnlockAndReturn, Return
  <2>7. CASE ShutdownChild(t)
    BY <2>7 DEF ShutdownChild
  <2> QED BY <1>2, <2>1, <2>2, <2>3, <2>4, <2>5, <2>6, <2>7 DEF Settings
<1>3. ASSUME NEW t \in Threads, TerminateProcess(t) PROVE Replacing'
  <2>1. CASE SendSigterm(t)
    BY <2>1 DEF SendSigterm
  <2>2. CASE WaitNoHang(t)
    BY <2>2 DEF WaitNoHang, Collect
  <2>3. CASE WaitAgain(t)
    BY <2>3 DEF WaitAgain
  <2>4. CASE SendSigkill(t)
    BY <2>4 DEF SendSigkill
  <2>5. CASE WaitBlocking(t)
    BY <2>5 DEF WaitBlocking, Collect
  <2>6. CASE ForgetStopped(t)
    BY <2>6
       DEF ForgetStopped, EndShutdown, GoOnWithReset, UnlockAndReturn, Return
  <2>7. CASE ForgetOld(t)
    BY <2>7 DEF ForgetOld
  <2>8. CASE ForgetTimedOut(t)
    BY <2>8 DEF ForgetTimedOut, UnlockAndReturn, Return
  <2> QED BY <1>3, <2>1, <2>2, <2>3, <2>4, <2>5, <2>6, <2>7, <2>8 DEF TerminateProcess
<1>4. ASSUME NEW t \in Threads, StartServerIfNeeded(t) PROVE Replacing'
  <2>1. CASE FastPath(t)
    BY <2>1 DEF FastPath
  <2>2. CASE FastProbe(t)
    BY <2>2 DEF FastProbe
  <2>3. CASE CheckPid(t)
    BY <2>3 DEF CheckPid
  <2>4. CASE OldAnswers(t)
    BY <2>4 DEF OldAnswers, Started
  <2>5. CASE OldSilent(t)
    BY <2>5 DEF OldSilent
  <2>6. CASE Fork(t)
    BY <2>6 DEF Fork
  <2>7. CASE ForkFails(t)
    BY <2>7 DEF ForkFails, UnlockAndReturn, Return
  <2>8. CASE Adopt(t)
    BY <2>8 DEF Adopt
  <2>9. CASE PollAnswered(t)
    BY <2>9 DEF PollAnswered, Started
  <2>10. CASE PollAgain(t)
    BY <2>10 DEF PollAgain
  <2> QED BY <1>4, <2>1, <2>2, <2>3, <2>4, <2>5, <2>6, <2>7, <2>8, <2>9, <2>10
     DEF StartServerIfNeeded
<1>5. ASSUME NEW t \in Threads, Request(t) PROVE Replacing'
  <2>1. CASE RequestNotSent(t)
    BY <2>1 DEF RequestNotSent, Return
  <2>2. CASE Send(t)
    BY <2>2 DEF Send
  <2>3. CASE Await(t)
    BY <2>3 DEF Await, Return
  <2> QED BY <1>5, <2>1, <2>2, <2>3 DEF Request
<1>6. ASSUME Machine PROVE Replacing'
  <2>1. ASSUME NEW p \in Pids, ChildServes(p) PROVE Replacing'
    BY <2>1 DEF ChildServes
  <2>2. ASSUME NEW p \in Pids, ChildExits(p) PROVE Replacing'
    BY <2>2 DEF ChildExits
  <2>3. ASSUME NEW p \in Pids, HostReaps(p) PROVE Replacing'
    BY <2>3 DEF HostReaps
  <2>4. ASSUME NEW port \in Ports,
               ForeignListens(port) \/ ForeignLeaves(port)
        PROVE  Replacing'
    BY <2>4 DEF ForeignListens, ForeignLeaves
  <2> QED BY <1>6, <2>1, <2>2, <2>3, <2>4 DEF Machine
<1>7. CASE UNCHANGED vars
  BY <1>7 DEF vars
<1> QED BY <1>1, <1>2, <1>3, <1>4, <1>5, <1>6, <1>7 DEF Next, Work

(* IsReady() is backed by a child whenever no call holds mutex_.           *)
THEOREM ReadyIsBacked ==
  ASSUME "fork" \notin Faults PROVE Spec => []ReadyHasServer
<1>1. Init => Replacing
  BY DEF Init, Replacing
<1>2. IInv /\ Replacing /\ [Next]_vars => Replacing'
  BY ReplacingStep
<1>3. IInv /\ Replacing => ReadyHasServer
  BY SentinelAssumption DEF IInv, Locking, Replacing, ReadyHasServer, Critical
<1> QED BY <1>1, <1>2, <1>3, Invariance, PTL DEF Spec

-----------------------------------------------------------------------------
(* With nobody else on the port, whoever listens is a running child of     *)
(* this service, and once a start is over its child is no longer booting.  *)
PortsServed ==
    /\ \A port \in Ports :
          /\ listener[port] # Foreign
          /\ listener[port] \in Pids =>
                /\ proc[listener[port]] \in {"serving", "killed"}
                /\ launched[listener[port]].port = port
    /\ \A p \in Pids :
          /\ proc[p] = "serving" => listener[launched[p].port] = p
          /\ proc[p] = "booting" =>
                \E t \in Threads : pc[t] \in Terminating \cup {"adopt", "poll"}
          /\ proc[p] = "killed" =>
                \E t \in Threads : pc[t] \in {"blockwait", "reaped"}

LEMMA PortsStep ==
  ASSUME "listener" \notin Faults, IInv, PortsServed, [Next]_vars
  PROVE  PortsServed'
<1> USE SentinelAssumption
<1>0. \A c \in Config : c.port \in Ports
  BY DEF Config
<1> USE <1>0
<1> USE DEF IInv, Typed, TypeOK, Locking, Holding, PortsServed, Critical,
            Terminating, service, kernel, locals, Goto
<1>1. ASSUME NEW t \in Threads, Calls(t) PROVE PortsServed'
  <2>1. CASE CallRequest(t)
    BY <2>1 DEF CallRequest, Begin
  <2>2. CASE CallShutdown(t)
    BY <2>2 DEF CallShutdown, Begin
  <2>3. CASE CallInitialize(t)
    BY <2>3 DEF CallInitialize, Begin
  <2>4. CASE CallReset(t)
    BY <2>4 DEF CallReset, Begin
  <2>5. CASE CallUpdateGenerationConfig(t)
    BY <2>5 DEF CallUpdateGenerationConfig, Begin
  <2> QED BY <1>1, <2>1, <2>2, <2>3, <2>4, <2>5 DEF Calls
<1>2. ASSUME NEW t \in Threads, Settings(t) PROVE PortsServed'
  <2>1. CASE Lock(t)
    BY <2>1 DEF Lock
  <2>2. CASE InitializeConfig(t)
    BY <2>2 DEF InitializeConfig
  <2>3. CASE InitializeReady(t)
    BY <2>3 DEF InitializeReady, UnlockAndReturn, Return
  <2>4. CASE InitializeRejects(t)
    BY <2>4 DEF InitializeRejects, UnlockAndReturn, Return
  <2>5. CASE UpdateGenerationConfig(t)
    BY <2>5 DEF UpdateGenerationConfig, UnlockAndReturn, Return
  <2>6. CASE ShutdownIdle(t)
    BY <2>6
       DEF ShutdownIdle, EndShutdown, GoOnWithReset, UnlockAndReturn, Return
  <2>7. CASE ShutdownChild(t)
    BY <2>7 DEF ShutdownChild
  <2> QED BY <1>2, <2>1, <2>2, <2>3, <2>4, <2>5, <2>6, <2>7 DEF Settings
<1>3. ASSUME NEW t \in Threads, TerminateProcess(t) PROVE PortsServed'
  <2>1. CASE SendSigterm(t)
    BY <2>1 DEF SendSigterm
  <2>2. CASE WaitNoHang(t)
    BY <2>2 DEF WaitNoHang, Collect
  <2>3. CASE WaitAgain(t)
    BY <2>3 DEF WaitAgain
  <2>4. CASE SendSigkill(t)
    BY <2>4 DEF SendSigkill
  <2>5. CASE WaitBlocking(t)
    BY <2>5 DEF WaitBlocking, Collect
  <2>6. CASE ForgetStopped(t)
    <3>1. \A p \in Pids : proc[p] = "none"
      BY <2>6 DEF ForgetStopped, NoOrphan, Unreaped
    <3> QED BY <2>6, <3>1 DEF ForgetStopped, EndShutdown, GoOnWithReset,
               UnlockAndReturn, Return
  <2>7. CASE ForgetOld(t)
    <3>1. \A p \in Pids : proc[p] = "none"
      BY <2>7 DEF ForgetOld, NoOrphan, Unreaped
    <3> QED BY <2>7, <3>1 DEF ForgetOld
  <2>8. CASE ForgetTimedOut(t)
    <3>1. \A p \in Pids : proc[p] = "none"
      BY <2>8 DEF ForgetTimedOut, NoOrphan, Unreaped
    <3> QED BY <2>8, <3>1 DEF ForgetTimedOut, UnlockAndReturn, Return
  <2> QED BY <1>3, <2>1, <2>2, <2>3, <2>4, <2>5, <2>6, <2>7, <2>8 DEF TerminateProcess
<1>4. ASSUME NEW t \in Threads, StartServerIfNeeded(t) PROVE PortsServed'
  <2>1. CASE FastPath(t)
    BY <2>1 DEF FastPath
  <2>2. CASE FastProbe(t)
    BY <2>2 DEF FastProbe
  <2>3. CASE CheckPid(t)
    BY <2>3 DEF CheckPid
  <2>4. CASE OldAnswers(t)
    BY <2>4 DEF OldAnswers, Started
  <2>5. CASE OldSilent(t)
    BY <2>5 DEF OldSilent
  <2>6. CASE Fork(t)
    BY <2>6 DEF Fork
  <2>7. CASE ForkFails(t)
    BY <2>7 DEF ForkFails, UnlockAndReturn, Return
  <2>8. CASE Adopt(t)
    BY <2>8 DEF Adopt
  <2>9. CASE PollAnswered(t)
    <3>1. \A p \in Pids : proc[p] # "none" => p = serverPid
      BY <2>9 DEF PollAnswered, NoOrphan, Unreaped
    <3>2. listener[config.port] \in Pids
      BY <2>9 DEF PollAnswered, Started, ServerResponds
    <3>3. proc[serverPid] # "booting"
      BY <3>1, <3>2
    <3>4. \A p \in Pids : proc[p] \notin {"booting", "killed"}
      BY <2>9, <3>1, <3>3 DEF PollAnswered
    <3> QED BY <2>9, <3>4 DEF PollAnswered, Started
  <2>10. CASE PollAgain(t)
    BY <2>10 DEF PollAgain
  <2> QED BY <1>4, <2>1, <2>2, <2>3, <2>4, <2>5, <2>6, <2>7, <2>8, <2>9, <2>10
     DEF StartServerIfNeeded
<1>5. ASSUME NEW t \in Threads, Request(t) PROVE PortsServed'
  <2>1. CASE RequestNotSent(t)
    BY <2>1 DEF RequestNotSent, Return
  <2>2. CASE Send(t)
    BY <2>2 DEF Send
  <2>3. CASE Await(t)
    BY <2>3 DEF Await, Return
  <2> QED BY <1>5, <2>1, <2>2, <2>3 DEF Request
<1>6. ASSUME Machine PROVE PortsServed'
  <2>1. ASSUME NEW p \in Pids, ChildServes(p) PROVE PortsServed'
    BY <2>1 DEF ChildServes
  <2>2. ASSUME NEW p \in Pids, ChildExits(p) PROVE PortsServed'
    BY <2>2 DEF ChildExits
  <2>3. ASSUME NEW p \in Pids, HostReaps(p) PROVE PortsServed'
    BY <2>3 DEF HostReaps
  <2>4. ASSUME NEW port \in Ports,
               ForeignListens(port) \/ ForeignLeaves(port)
        PROVE  PortsServed'
    BY <2>4 DEF ForeignListens, ForeignLeaves
  <2> QED BY <1>6, <2>1, <2>2, <2>3, <2>4 DEF Machine
<1>7. CASE UNCHANGED vars
  BY <1>7 DEF vars
<1> QED BY <1>1, <1>2, <1>3, <1>4, <1>5, <1>6, <1>7 DEF Next, Work

(* A start that has given up on the old server is right to.                *)
LEMMA SparesStep ==
  ASSUME {"listener", "probe"} \cap Faults = {}, IInv, PortsServed,
         StartSparesHealthyServer, [Next]_vars
  PROVE  StartSparesHealthyServer'
<1> USE SentinelAssumption
<1> USE DEF IInv, Typed, TypeOK, Locking, Holding, Critical,
            StartSparesHealthyServer, Terminating, service, kernel, locals, Goto
<1>1. ASSUME NEW t \in Threads, Calls(t) PROVE StartSparesHealthyServer'
  <2>1. CASE CallRequest(t)
    BY <2>1 DEF CallRequest, Begin
  <2>2. CASE CallShutdown(t)
    BY <2>2 DEF CallShutdown, Begin
  <2>3. CASE CallInitialize(t)
    BY <2>3 DEF CallInitialize, Begin
  <2>4. CASE CallReset(t)
    BY <2>4 DEF CallReset, Begin
  <2>5. CASE CallUpdateGenerationConfig(t)
    BY <2>5 DEF CallUpdateGenerationConfig, Begin
  <2> QED BY <1>1, <2>1, <2>2, <2>3, <2>4, <2>5 DEF Calls
<1>2. ASSUME NEW t \in Threads, Settings(t) PROVE StartSparesHealthyServer'
  <2>1. CASE Lock(t)
    BY <2>1 DEF Lock
  <2>2. CASE InitializeConfig(t)
    BY <2>2 DEF InitializeConfig
  <2>3. CASE InitializeReady(t)
    BY <2>3 DEF InitializeReady, UnlockAndReturn, Return
  <2>4. CASE InitializeRejects(t)
    BY <2>4 DEF InitializeRejects, UnlockAndReturn, Return
  <2>5. CASE UpdateGenerationConfig(t)
    BY <2>5 DEF UpdateGenerationConfig, UnlockAndReturn, Return
  <2>6. CASE ShutdownIdle(t)
    BY <2>6
       DEF ShutdownIdle, EndShutdown, GoOnWithReset, UnlockAndReturn, Return
  <2>7. CASE ShutdownChild(t)
    BY <2>7 DEF ShutdownChild
  <2> QED BY <1>2, <2>1, <2>2, <2>3, <2>4, <2>5, <2>6, <2>7 DEF Settings
<1>3. ASSUME NEW t \in Threads, TerminateProcess(t) PROVE StartSparesHealthyServer'
  <2>1. CASE SendSigterm(t)
    BY <2>1 DEF SendSigterm
  <2>2. CASE WaitNoHang(t)
    BY <2>2 DEF WaitNoHang, Collect
  <2>3. CASE WaitAgain(t)
    BY <2>3 DEF WaitAgain
  <2>4. CASE SendSigkill(t)
    BY <2>4 DEF SendSigkill
  <2>5. CASE WaitBlocking(t)
    BY <2>5 DEF WaitBlocking, Collect
  <2>6. CASE ForgetStopped(t)
    BY <2>6
       DEF ForgetStopped, EndShutdown, GoOnWithReset, UnlockAndReturn, Return
  <2>7. CASE ForgetOld(t)
    BY <2>7 DEF ForgetOld
  <2>8. CASE ForgetTimedOut(t)
    BY <2>8 DEF ForgetTimedOut, UnlockAndReturn, Return
  <2> QED BY <1>3, <2>1, <2>2, <2>3, <2>4, <2>5, <2>6, <2>7, <2>8 DEF TerminateProcess
<1>4. ASSUME NEW t \in Threads, StartServerIfNeeded(t) PROVE StartSparesHealthyServer'
  <2>1. CASE FastPath(t)
    BY <2>1 DEF FastPath
  <2>2. CASE FastProbe(t)
    BY <2>2 DEF FastProbe
  <2>3. CASE CheckPid(t)
    BY <2>3 DEF CheckPid
  <2>4. CASE OldAnswers(t)
    BY <2>4 DEF OldAnswers, Started
  <2>5. CASE OldSilent(t)
    <3>1. /\ listener[config.port] = NoPid /\ pid'[t] = serverPid
          /\ UNCHANGED <<service, kernel>>
      BY <2>5 DEF OldSilent, ServerResponds
    <3>2. \A q \in Pids : proc[q] # "booting"
      BY <2>5 DEF OldSilent, PortsServed
    <3>3. serverPid \in Pids
      BY <2>5 DEF OldSilent
    <3>4. proc[serverPid] = "serving" => launched[serverPid].port # config.port
      BY <3>1, <3>3 DEF PortsServed
    <3> QED BY <2>5, <3>1, <3>2, <3>3, <3>4 DEF OldSilent
  <2>6. CASE Fork(t)
    BY <2>6 DEF Fork
  <2>7. CASE ForkFails(t)
    BY <2>7 DEF ForkFails, UnlockAndReturn, Return
  <2>8. CASE Adopt(t)
    BY <2>8 DEF Adopt
  <2>9. CASE PollAnswered(t)
    BY <2>9 DEF PollAnswered, Started
  <2>10. CASE PollAgain(t)
    BY <2>10 DEF PollAgain
  <2> QED BY <1>4, <2>1, <2>2, <2>3, <2>4, <2>5, <2>6, <2>7, <2>8, <2>9, <2>10
     DEF StartServerIfNeeded
<1>5. ASSUME NEW t \in Threads, Request(t) PROVE StartSparesHealthyServer'
  <2>1. CASE RequestNotSent(t)
    BY <2>1 DEF RequestNotSent, Return
  <2>2. CASE Send(t)
    BY <2>2 DEF Send
  <2>3. CASE Await(t)
    BY <2>3 DEF Await, Return
  <2> QED BY <1>5, <2>1, <2>2, <2>3 DEF Request
<1>6. ASSUME Machine PROVE StartSparesHealthyServer'
  <2>1. ASSUME NEW p \in Pids, ChildServes(p) PROVE StartSparesHealthyServer'
    BY <2>1 DEF ChildServes
  <2>2. ASSUME NEW p \in Pids, ChildExits(p) PROVE StartSparesHealthyServer'
    BY <2>2 DEF ChildExits
  <2>3. ASSUME NEW p \in Pids, HostReaps(p) PROVE StartSparesHealthyServer'
    BY <2>3 DEF HostReaps
  <2>4. ASSUME NEW port \in Ports,
               ForeignListens(port) \/ ForeignLeaves(port)
        PROVE  StartSparesHealthyServer'
    BY <2>4 DEF ForeignListens, ForeignLeaves
  <2> QED BY <1>6, <2>1, <2>2, <2>3, <2>4 DEF Machine
<1>7. CASE UNCHANGED vars
  BY <1>7 DEF vars
<1> QED BY <1>1, <1>2, <1>3, <1>4, <1>5, <1>6, <1>7 DEF Next, Work

(* A start never signals a server that is able to answer.                  *)
THEOREM HealthyServerIsSpared ==
  ASSUME {"listener", "probe"} \cap Faults = {}
  PROVE  Spec => []StartSparesHealthyServer
<1>1. Init => PortsServed /\ StartSparesHealthyServer
  BY SentinelAssumption DEF Init, PortsServed, StartSparesHealthyServer
<1>2. IInv /\ PortsServed /\ StartSparesHealthyServer /\ [Next]_vars
         => PortsServed' /\ StartSparesHealthyServer'
  BY PortsStep, SparesStep
<1> QED BY <1>1, <1>2, Invariance, PTL DEF Spec

-----------------------------------------------------------------------------
(* ServerVlmModel implements OwnedServer: at most one child at any time,   *)
(* collected before the next one is started, however calls interleave.     *)
THEOREM Implements == Spec => OwnedSpec
<1>1. Init => Owned!Init
  BY DEF Init, Owned!Init, Unreaped
<1>2. IInv /\ [Next]_vars => [Owned!Next]_(Owned!vars)
  <2> SUFFICES ASSUME IInv, [Next]_vars PROVE [Owned!Next]_(Owned!vars)
    OBVIOUS
  <2> USE SentinelAssumption
  <2> USE DEF service, kernel, locals, Unreaped, Owned!vars
  <2> DEFINE Running == {p \in Pids : proc[p] \in Alive}
  <2>t. proc \in [Pids -> Alive \cup {"none", "zombie"}]
    BY DEF IInv, Typed, TypeOK
  <2>o. \A p, q \in Unreaped : p = q
    BY OneChild
  <2>1. CASE UNCHANGED <<Unreaped, Running>>
    BY <2>1
  <2>2. CASE \E t \in Threads : Fork(t)
    <3>1. PICK t \in Threads, p \in Pids :
             /\ pc[t] = "fork" /\ proc[p] = "none"
             /\ proc' = [proc EXCEPT ![p] = "booting"]
      BY <2>2 DEF Fork
    <3>2. Unreaped = {}
      BY <3>1 DEF IInv, Locking, Holding, NoOrphan, Critical
    <3>3. Unreaped' = {p} /\ Running' = {p}
      BY <3>1, <3>2, <2>t
    <3> QED BY <3>2, <3>3 DEF Owned!Next, Owned!Spawn
  <2>3. CASE \E p \in Pids : ChildExits(p)
    <3>1. PICK p \in Pids : /\ proc[p] \in Alive
                            /\ proc' = [proc EXCEPT ![p] = "zombie"]
      BY <2>3 DEF ChildExits
    <3>2. Running # {} /\ Running' = {} /\ Unreaped' = Unreaped
      BY <3>1, <2>t, <2>o
    <3> QED BY <3>2 DEF Owned!Next, Owned!Exit
  <2>4. CASE \E p \in Pids : proc[p] = "zombie"
                             /\ proc' = [proc EXCEPT ![p] = "none"]
    <3>1. PICK p \in Pids : /\ proc[p] = "zombie"
                            /\ proc' = [proc EXCEPT ![p] = "none"]
      BY <2>4
    <3>2. Unreaped # {} /\ Running = {} /\ Running' = {} /\ Unreaped' = {}
      BY <3>1, <2>t, <2>o
    <3> QED BY <3>2 DEF Owned!Next, Owned!Reap
  <2>5. ASSUME NEW t \in Threads, Collect(t), pid[t] \in Pids
        PROVE  [Owned!Next]_(Owned!vars)
    <3>1. CASE proc[pid[t]] = "zombie"
      BY <2>5, <2>4, <3>1 DEF Collect
    <3>2. CASE proc[pid[t]] = "none"
      BY <2>5, <2>1, <2>t, <3>2 DEF Collect
    <3> QED BY <2>5, <3>1, <3>2 DEF Collect
  <2>6. ASSUME NEW t \in Threads, SendSigkill(t)
        PROVE  UNCHANGED <<Unreaped, Running>>
    BY <2>6, <2>t DEF SendSigkill
  <2>7. ASSUME NEW p \in Pids, ChildServes(p)
        PROVE  UNCHANGED <<Unreaped, Running>>
    BY <2>7, <2>t DEF ChildServes
  <2>8. \A t \in Threads : pc[t] \in Terminating => pid[t] \in Pids
    BY DEF IInv, Typed, TypeOK, Holding
  <2>9. ASSUME NEW t \in Threads, Calls(t) \/ Settings(t) \/ Request(t)
        PROVE  proc' = proc
    BY <2>9 DEF Calls, CallRequest, CallShutdown, CallInitialize, CallReset,
                CallUpdateGenerationConfig, Begin, Settings, Lock,
                InitializeConfig, InitializeReady, InitializeRejects,
                UpdateGenerationConfig, ShutdownIdle, ShutdownChild, Request,
                RequestNotSent, Send, Await
  <2>10. ASSUME NEW t \in Threads, TerminateProcess(t)
         PROVE  [Owned!Next]_(Owned!vars)
    BY <2>10, <2>1, <2>5, <2>6, <2>8
    DEF TerminateProcess, SendSigterm, WaitNoHang, WaitAgain, WaitBlocking,
        ForgetStopped, ForgetOld, ForgetTimedOut, Terminating
  <2>11. ASSUME NEW t \in Threads, StartServerIfNeeded(t)
         PROVE  [Owned!Next]_(Owned!vars)
    BY <2>11, <2>1, <2>2
    DEF StartServerIfNeeded, FastPath, FastProbe, CheckPid, OldAnswers,
        OldSilent, Started, ForkFails, Adopt, PollAnswered, PollAgain
  <2>12. ASSUME Machine PROVE [Owned!Next]_(Owned!vars)
    BY <2>12, <2>1, <2>3, <2>4, <2>7
    DEF Machine, HostReaps, ForeignListens, ForeignLeaves
  <2>13. CASE UNCHANGED vars
    BY <2>13, <2>1 DEF vars
  <2> QED BY <2>1, <2>9, <2>10, <2>11, <2>12, <2>13 DEF Next, Work
<1> QED BY <1>1, <1>2, Invariance, PTL DEF Spec, OwnedSpec, Owned!Spec
=============================================================================
