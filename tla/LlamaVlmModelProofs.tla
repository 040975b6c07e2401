------------------------- MODULE LlamaVlmModelProofs -------------------------
(***************************************************************************)
(* Proofs about LlamaVlmModel, for every set of threads, loads and         *)
(* settings and every bound.  The inductive invariant says what is loaded  *)
(* at each point of the one critical section that is under way (Held),     *)
(* that nothing else is unless an Initialize found the service loaded      *)
(* (Single), what ready_ stands for (Backed), and what a request holds and *)
(* has told its consumer (Freed, Told).                                    *)
(***************************************************************************)
EXTENDS LlamaVlmModel, TLAPS

LEMMA Bounds == /\ MaxCalls \in Nat /\ Context \in Nat
                /\ \A g \in Gens : g \in Nat /\ g > 0
                /\ Null \notin Loads /\ NoThread \notin Threads
  BY LimitAssumption, NullAssumption

LEMMA OneTokenMore == /\ \A n \in 0..Context : n + 1 < Context => n + 1 \in 0..Context
                      /\ \A n \in Nat : n + 1 \in Nat
  BY Bounds

USE Bounds DEF Ops

Initializer == {"Initialize", "Reinit"}
Generating  == {"Generate", "Stream"}

-----------------------------------------------------------------------------
(* Which operation runs where, and the argument it was called with.        *)
Shape ==
    \A t \in Threads :
        /\ op[t] \in Initializer => arg[t] \in Config \cup {Rejected}
        /\ op[t] \in {"Update", "Reset"} => arg[t] \in Config
        /\ op[t] \in Generating => arg[t] \in Input
        /\ pc[t] \in Creating => op[t] \in Initializer /\ arg[t] \in Config
        /\ pc[t] \in Running => op[t] \in Generating
        /\ pc[t] \in {"callback", "decode"} => cur[t] + 1 < Context

Typed == TypeOK /\ Shape

LocalTypes ==
    /\ pc \in [Threads -> Points] /\ op \in [Threads -> Ops]
    /\ arg \in [Threads -> Config \cup Input \cup {Rejected, NoArg}]
    /\ cur \in [Threads -> 0..Context] /\ nGen \in [Threads -> Nat]
    /\ made \in [Threads -> Nat] /\ heard \in [Threads -> Seq(Nat)]
    /\ closed \in [Threads -> BOOLEAN] /\ stopped \in [Threads -> BOOLEAN]
    /\ ret \in [Threads -> {"none", "true", "false"}]

(* What the thread in the critical section can count on: Initialize on     *)
(* what it has created so far, a request on the model it samples with.     *)
Held ==
    \A t \in Threads :
        /\ pc[t] = "context" => model \notin {Null, context, mtmd}
        /\ pc[t] \in {"mtmd", "commit"} => model # Null /\ context = model
        /\ pc[t] \in Running => model # Null /\ context = model
        /\ pc[t] \in Running \ {"bitmap", "chunks", "tokenize"} => mtmd # Null

(* Between the calls of Initialize: what ready_ stands for.                *)
Backed ==
    (ready /\ \A t \in Threads : pc[t] \notin Creating) =>
        IF failedLoad THEN model = Null ELSE model # Null /\ context = model

LEMMA TypeInit == Init => Typed
<1> SUFFICES ASSUME Init PROVE Typed
  OBVIOUS
<1>1. LocalTypes /\ 0 \in 0..MaxCalls
  <2>1. <<>> \in Seq(Nat) /\ 0 \in 0..Context /\ 0 \in 0..MaxCalls
    OBVIOUS
  <2> QED BY <2>1 DEF Init, LocalTypes, Points
<1>2. Shape
  BY DEF Init, Shape, Critical, Creating, Running, Sampling, Initializer,
         Generating
<1> QED BY <1>1, <1>2 DEF Init, Typed, TypeOK, LocalTypes

(* So does its beginning, whatever the operation.                          *)
LEMMA BeginTyped ==
  ASSUME Typed, NEW t \in Threads, NEW o \in Ops, NEW a, Begin(t, o, a),
         a \in Config \cup Input \cup {Rejected, NoArg},
         o \in Initializer => a \in Config \cup {Rejected},
         o \in {"Update", "Reset"} => a \in Config,
         o \in Generating => a \in Input
  PROVE  Typed'
<1> USE DEF Begin, Goto, members, pointers, heap, history, sampling, seen
<1>1. calls' \in [Threads -> 0..MaxCalls]
  <2>1. calls[t] \in 0..MaxCalls /\ calls[t] < MaxCalls
    BY DEF Typed, TypeOK
  <2>2. calls[t] + 1 \in 0..MaxCalls
    BY <2>1
  <2> QED BY <2>2 DEF Typed, TypeOK
<1>2. LocalTypes'
  BY DEF Typed, TypeOK, LocalTypes, Points
<1>3. Shape'
  BY DEF Typed, TypeOK, Shape, Points, Critical, Creating, Running, Sampling
<1> QED BY <1>1, <1>2, <1>3 DEF Typed, TypeOK, LocalTypes

(* The end of a call leaves well-typed locals.                             *)
LEMMA ReturnTyped ==
  ASSUME Typed, NEW t \in Threads, NEW r \in {"true", "false"}, Return(t, r)
  PROVE  LocalTypes' /\ Shape'
<1>1. LocalTypes'
  BY SMTT(60) DEF Return, Goto, Typed, TypeOK, LocalTypes, Points
<1>2. Shape'
  BY DEF Return, Goto, Typed, TypeOK, Shape, Points, Critical, Creating,
         Running, Sampling, Initializer, Generating
<1> QED BY <1>1, <1>2

(* A step inside a request.                                                *)
LEMMA ContinuesTyped ==
  ASSUME Typed, NEW t \in Threads, NEW l \in Running, Continues(t, l),
         op[t] \in Generating,
         bitmap' \in [Threads -> BOOLEAN], chunks' \in [Threads -> BOOLEAN],
         cur' \in [Threads -> 0..Context], nGen' \in [Threads -> Nat],
         made' \in [Threads -> Nat],
         \A u \in Threads \ {t} : cur'[u] = cur[u],
         l \in {"callback", "decode"} => cur'[t] + 1 < Context
  PROVE  Typed'
<1> USE DEF Continues, Goto, members, pointers, heap, history, seen
<1>1. pc' \in [Threads -> Points]
  BY DEF Typed, TypeOK, Points, Critical
<1>2. TypeOK'
  BY <1>1 DEF Typed, TypeOK
<1>3. Shape'
  <2> SUFFICES ASSUME NEW u \in Threads
               PROVE  /\ pc'[u] \in Creating =>
                            op[u] \in Initializer /\ arg[u] \in Config
                      /\ pc'[u] \in Running => op[u] \in Generating
                      /\ pc'[u] \in {"callback", "decode"} => cur'[u] + 1 < Context
    BY DEF Typed, Shape
  <2>1. pc'[t] = l /\ l \notin Creating
    BY DEF Typed, TypeOK, Creating, Running, Sampling
  <2>2. u # t => pc'[u] = pc[u]
    BY DEF Typed, TypeOK
  <2> QED BY <2>1, <2>2 DEF Typed, Shape
<1> QED BY <1>2, <1>3 DEF Typed

LEMMA TypeStep == Typed /\ Held /\ [Next]_vars => Typed'
<1> SUFFICES ASSUME Typed, Held, [Next]_vars PROVE Typed'
  OBVIOUS
<1> USE DEF Typed, TypeOK, Shape, Points, Critical, Creating, Running,
            Sampling, Initializer, Generating, members, pointers, heap,
            history, sampling, seen, Goto
<1>c. \A c \in Config : /\ c.gen \in Gens /\ c.vision \in BOOLEAN
                         /\ \A g \in Gens : [c EXCEPT !.gen = g] \in Config
  BY DEF Config
<1>i. \A i \in Input : i.image \in BOOLEAN /\ i.callback \in BOOLEAN
  BY DEF Input
<1> USE <1>c, <1>i
<1>1. ASSUME NEW t \in Threads, Calls(t) PROVE Typed'
  <2>1. ASSUME NEW b \in BOOLEAN
        PROVE  [image |-> b, callback |-> FALSE] \in Input
    BY <2>1 DEF Input
  <2>2. \A g \in Gens : [config EXCEPT !.gen = g] \in Config
    BY DEF Config
  <2> QED BY <1>1, <2>1, <2>2, BeginTyped
          DEF Calls, CallGenerate, CallGenerateStream, CallShutdown,
              CallInitialize, CallReset, CallUpdateGenerationConfig
<1>2. ASSUME NEW t \in Threads, Initialize(t) PROVE Typed'
  <2>1. CASE InitializeRejects(t)
    BY <2>1, ReturnTyped
       DEF InitializeRejects, Initializing, UnlockAndReturn, LocalTypes
  <2>2. CASE LoadModel(t)
    BY <2>2 DEF LoadModel, Initializing, Reloads
  <2>3. CASE LoadModelFails(t)
    BY <2>3, ReturnTyped
       DEF LoadModelFails, Initializing, UnlockAndReturn, Reloads, LocalTypes
  <2>4. CASE CreateContext(t)
    <3>1. model \in Loads /\ arg[t] \in Config
      BY <2>4 DEF CreateContext, Held
    <3>2. pc' \in [Threads -> Points] /\ pc'[t] \in {"mtmd", "commit"}
      BY <2>4 DEF CreateContext
    <3> QED BY <2>4, <3>1, <3>2 DEF CreateContext
  <2>5. CASE CreateContextFails(t)
    BY <2>5, ReturnTyped
       DEF CreateContextFails, UnlockAndReturn, LocalTypes
  <2>6. CASE CreateMtmd(t)
    <3>1. model \in Loads
      BY <2>6 DEF CreateMtmd, Held
    <3> QED BY <2>6, <3>1 DEF CreateMtmd
  <2>7. CASE CreateMtmdFails(t)
    BY <2>7, ReturnTyped
       DEF CreateMtmdFails, UnlockAndReturn, LocalTypes
  <2>8. CASE Commit(t)
    <3>1. arg[t] \in Config
      BY <2>8 DEF Commit
    <3>3. config' \in Config /\ sampler' \in Gens
      BY <2>8, <3>1 DEF Commit
    <3>2. mutex' = NoThread /\ LocalTypes' /\ Shape'
      BY <2>8, ReturnTyped DEF Commit, UnlockAndReturn
    <3> QED BY <2>8, <3>2, <3>3 DEF Commit, LocalTypes
  <2> QED BY <1>2, <2>1, <2>2, <2>3, <2>4, <2>5, <2>6, <2>7, <2>8 DEF Initialize
<1>3. ASSUME NEW t \in Threads, Prepare(t) PROVE Typed'
  <2>1. CASE NotInitialized(t)
    BY <2>1, ReturnTyped
       DEF NotInitialized, Fails, UnlockAndReturn, Loaded, LocalTypes
  <2>2. CASE DoGenerate(t)
    BY <2>2, ContinuesTyped DEF DoGenerate
  <2>3. CASE LoadBitmap(t)
    <3>1. bitmap' \in [Threads -> BOOLEAN]
      BY <2>3 DEF LoadBitmap
    <3> QED BY <2>3, <3>1, ContinuesTyped DEF LoadBitmap
  <2>4. CASE NewChunks(t)
    <3>1. chunks' \in [Threads -> BOOLEAN]
      BY <2>4 DEF NewChunks
    <3> QED BY <2>4, <3>1, ContinuesTyped DEF NewChunks
  <2>5. CASE NewChunksFails(t)
    BY <2>5, ReturnTyped
       DEF NewChunksFails, Fails, UnlockAndReturn, LocalTypes
  <2>6. CASE Tokenize(t)
    BY <2>6, ContinuesTyped DEF Tokenize
  <2>7. CASE TokenizeFails(t)
    BY <2>7, ReturnTyped
       DEF TokenizeFails, Fails, UnlockAndReturn, LocalTypes
  <2>8. CASE Evaluate(t)
    <3>1. /\ chunks' \in [Threads -> BOOLEAN]
          /\ cur' \in [Threads -> 0..Context]
      BY <2>8 DEF Evaluate
    <3>2. \A u \in Threads \ {t} : cur'[u] = cur[u]
      BY <2>8 DEF Evaluate
    <3> QED BY <2>8, <3>1, <3>2, ContinuesTyped DEF Evaluate
  <2>9. CASE EvaluateFails(t)
    BY <2>9, ReturnTyped
       DEF EvaluateFails, Fails, UnlockAndReturn, LocalTypes
  <2> QED BY <1>3, <2>1, <2>2, <2>3, <2>4, <2>5, <2>6, <2>7, <2>8, <2>9 DEF Prepare
<1>4. ASSUME NEW t \in Threads, Sample(t) PROVE Typed'
  <2>1. CASE SampleToken(t)
    <3>1. cur[t] + 1 < Context /\ op[t] \in Generating /\ made[t] + 1 \in Nat
      BY <2>1, SMTT(60) DEF SampleToken
    <3>2. made' = made \/ made' = [made EXCEPT ![t] = made[t] + 1]
      BY <2>1 DEF SampleToken
    <3>4. made' \in [Threads -> Nat]
      BY <3>1, <3>2
    <3> QED BY <2>1, <3>1, <3>4, ContinuesTyped DEF SampleToken
  <2>2. CASE EndSampling(t)
    BY <2>2, ContinuesTyped DEF EndSampling
  <2>3. CASE Callback(t)
    <3>1. made[t] \in Nat /\ heard[t] \in Seq(Nat)
      BY DEF Typed, TypeOK
    <3>2. Append(heard[t], made[t]) \in Seq(Nat)
      BY <3>1
    <3>3. heard' \in [Threads -> Seq(Nat)]
      BY <2>3, <3>2 DEF Callback
    <3>4. stopped' \in [Threads -> BOOLEAN]
      BY <2>3 DEF Callback
    <3>5. pc' = [pc EXCEPT ![t] = "decode"] \/ pc' = [pc EXCEPT ![t] = "close"]
      BY <2>3 DEF Callback
    <3>6. op[t] \in Generating /\ cur[t] + 1 < Context
      BY <2>3 DEF Callback
    <3>7. UNCHANGED <<op, arg, cur>>
      BY <2>3 DEF Callback
    <3>8. pc'[t] \in Sampling \ {"callback"}
           /\ \A u \in Threads \ {t} : pc'[u] = pc[u]
      BY <3>5
    <3>9. Shape'
      BY <3>6, <3>7, <3>8
    <3>10. TypeOK'
      BY <2>3, <3>3, <3>4, <3>5, ZenonT(60) DEF Callback
    <3> QED BY <3>9, <3>10
  <2>4. CASE Decode(t)
    <3>1. cur[t] \in 0..Context /\ cur[t] + 1 < Context /\ nGen[t] \in Nat
      BY <2>4 DEF Decode
    <3>2. cur[t] + 1 \in 0..Context /\ nGen[t] + 1 \in Nat
      BY <3>1, OneTokenMore
    <3>3. /\ cur' \in [Threads -> 0..Context]
          /\ nGen' \in [Threads -> Nat]
      BY <2>4, <3>2 DEF Decode
    <3>4. \A u \in Threads \ {t} : cur'[u] = cur[u]
      BY <2>4 DEF Decode
    <3> QED BY <2>4, <3>3, <3>4, ContinuesTyped DEF Decode
  <2>5. CASE DecodeFails(t)
    BY <2>5, ReturnTyped
       DEF DecodeFails, Fails, UnlockAndReturn, LocalTypes
  <2>6. CASE Close(t)
    BY <2>6 DEF Close
  <2>7. CASE Finish(t)
    BY <2>7, ReturnTyped
       DEF Finish, UnlockAndReturn, LocalTypes
  <2> QED BY <1>4, <2>1, <2>2, <2>3, <2>4, <2>5, <2>6, <2>7 DEF Sample
<1>5. ASSUME NEW t \in Threads, Lock(t) PROVE Typed'
  BY <1>5 DEF Lock
<1>6. ASSUME NEW t \in Threads, Shutdown(t) PROVE Typed'
  <2>1. CASE EndShutdown(t)
    BY <1>6, <2>1, ReturnTyped
       DEF Shutdown, EndShutdown, UnlockAndReturn, LocalTypes
  <2>2. CASE GoOnWithReset(t)
    BY <1>6, <2>2 DEF Shutdown, GoOnWithReset
  <2> QED BY <1>6, <2>1, <2>2 DEF Shutdown
<1>7. ASSUME NEW t \in Threads, UpdateGenerationConfig(t) PROVE Typed'
    <2>1. arg[t] \in Config
      BY <1>7 DEF UpdateGenerationConfig
    <2>3. config' \in Config /\ sampler' \in Gens
      BY <1>7, <2>1 DEF UpdateGenerationConfig
    <2>2. mutex' = NoThread /\ LocalTypes' /\ Shape'
      BY <1>7, ReturnTyped DEF UpdateGenerationConfig, UnlockAndReturn
    <2> QED BY <1>7, <2>2, <2>3 DEF UpdateGenerationConfig, LocalTypes
<1>8. CASE UNCHANGED vars
  BY <1>8 DEF vars
<1> QED BY <1>1, <1>2, <1>3, <1>4, <1>5, <1>6, <1>7, <1>8 DEF Next, Work

-----------------------------------------------------------------------------
(* std::lock_guard: exactly the owner of mutex_ is between lock and unlock. *)
Locking == \A t \in Threads : pc[t] \in Critical <=> mutex = t

LEMMA LockStep == Typed /\ Locking /\ [Next]_vars => Locking'
<1> SUFFICES ASSUME Typed, Locking, [Next]_vars PROVE Locking'
  OBVIOUS
<1>t. pc \in [Threads -> Points]
  BY DEF Typed, TypeOK
<1> USE <1>t
<1> USE DEF Locking, Critical, Creating, Running, Sampling, members, Goto
<1>1. ASSUME NEW t \in Threads, Calls(t) PROVE Locking'
  <2>1. ASSUME NEW o, NEW a, Begin(t, o, a) PROVE Locking'
    BY <2>1 DEF Begin
  <2> QED BY <1>1, <2>1
          DEF Calls, CallGenerate, CallGenerateStream, CallShutdown,
              CallInitialize, CallReset, CallUpdateGenerationConfig
<1>2. ASSUME NEW t \in Threads, Initialize(t) PROVE Locking'
  <2>1. CASE InitializeRejects(t)
    BY <2>1 DEF InitializeRejects, Initializing, UnlockAndReturn, Return
  <2>2. CASE LoadModel(t)
    BY <2>2 DEF LoadModel, Initializing, Reloads
  <2>3. CASE LoadModelFails(t)
    BY <2>3 DEF LoadModelFails, Initializing, UnlockAndReturn, Return, Reloads
  <2>4. CASE CreateContext(t)
    BY <2>4 DEF CreateContext
  <2>5. CASE CreateContextFails(t)
    BY <2>5 DEF CreateContextFails, UnlockAndReturn, Return
  <2>6. CASE CreateMtmd(t)
    BY <2>6 DEF CreateMtmd
  <2>7. CASE CreateMtmdFails(t)
    BY <2>7 DEF CreateMtmdFails, UnlockAndReturn, Return
  <2>8. CASE Commit(t)
    BY <2>8 DEF Commit, UnlockAndReturn, Return
  <2> QED BY <1>2, <2>1, <2>2, <2>3, <2>4, <2>5, <2>6, <2>7, <2>8 DEF Initialize
<1>3. ASSUME NEW t \in Threads, Prepare(t) PROVE Locking'
  <2>1. CASE NotInitialized(t)
    BY <2>1 DEF NotInitialized, Fails, UnlockAndReturn, Return, Loaded
  <2>2. CASE DoGenerate(t)
    BY <2>2 DEF DoGenerate, Continues, Loaded
  <2>3. CASE LoadBitmap(t)
    BY <2>3 DEF LoadBitmap, Continues
  <2>4. CASE NewChunks(t)
    BY <2>4 DEF NewChunks, Continues
  <2>5. CASE NewChunksFails(t)
    BY <2>5 DEF NewChunksFails, Fails, UnlockAndReturn, Return
  <2>6. CASE Tokenize(t)
    BY <2>6 DEF Tokenize, Continues
  <2>7. CASE TokenizeFails(t)
    BY <2>7 DEF TokenizeFails, Fails, UnlockAndReturn, Return
  <2>8. CASE Evaluate(t)
    BY <2>8 DEF Evaluate, Continues
  <2>9. CASE EvaluateFails(t)
    BY <2>9 DEF EvaluateFails, Fails, UnlockAndReturn, Return
  <2> QED BY <1>3, <2>1, <2>2, <2>3, <2>4, <2>5, <2>6, <2>7, <2>8, <2>9 DEF Prepare
<1>4. ASSUME NEW t \in Threads, Sample(t) PROVE Locking'
  <2>1. CASE SampleToken(t)
    BY <2>1 DEF SampleToken, Continues
  <2>2. CASE EndSampling(t)
    BY <2>2 DEF EndSampling, Continues
  <2>3. CASE Callback(t)
    BY <2>3 DEF Callback
  <2>4. CASE Decode(t)
    BY <2>4 DEF Decode, Continues
  <2>5. CASE DecodeFails(t)
    BY <2>5 DEF DecodeFails, Fails, UnlockAndReturn, Return
  <2>6. CASE Close(t)
    BY <2>6 DEF Close
  <2>7. CASE Finish(t)
    BY <2>7 DEF Finish, UnlockAndReturn, Return
  <2> QED BY <1>4, <2>1, <2>2, <2>3, <2>4, <2>5, <2>6, <2>7 DEF Sample
<1>5. ASSUME NEW t \in Threads, Lock(t) PROVE Locking'
  BY <1>5 DEF Lock
<1>6. ASSUME NEW t \in Threads, Shutdown(t) PROVE Locking'
  BY <1>6 DEF Shutdown, EndShutdown, GoOnWithReset, UnlockAndReturn, Return
<1>7. ASSUME NEW t \in Threads, UpdateGenerationConfig(t) PROVE Locking'
  BY <1>7 DEF UpdateGenerationConfig, UnlockAndReturn, Return
<1>8. CASE UNCHANGED vars
  BY <1>8 DEF vars
<1> QED BY <1>1, <1>2, <1>3, <1>4, <1>5, <1>6, <1>7, <1>8 DEF Next, Work

-----------------------------------------------------------------------------
LEMMA HeldStep ==
  Typed /\ Locking /\ NoDangling /\ Held /\ Backed /\ [Next]_vars
     => (NoDangling /\ Held /\ Backed)'
<1> SUFFICES ASSUME Typed, Locking, NoDangling, Held, Backed, [Next]_vars
             PROVE  (NoDangling /\ Held /\ Backed)'
  OBVIOUS
<1>t. /\ pc \in [Threads -> Points]
      /\ model \in Loads \cup {Null} /\ context \in Loads \cup {Null}
      /\ mtmd \in Loads \cup {Null}
      /\ ready \in BOOLEAN /\ failedLoad \in BOOLEAN
  BY DEF Typed, TypeOK
<1> USE <1>t
<1> USE DEF Locking, NoDangling, Held, Backed, Critical, Creating, Running, Sampling,
            members, pointers, heap, history, Goto
<1>1. ASSUME NEW t \in Threads, Calls(t) PROVE (NoDangling /\ Held /\ Backed)'
  <2>1. ASSUME NEW o, NEW a, Begin(t, o, a) PROVE (NoDangling /\ Held /\ Backed)'
    BY <2>1 DEF Begin
  <2> QED BY <1>1, <2>1
          DEF Calls, CallGenerate, CallGenerateStream, CallShutdown,
              CallInitialize, CallReset, CallUpdateGenerationConfig
<1>2. ASSUME NEW t \in Threads, Initialize(t) PROVE (NoDangling /\ Held /\ Backed)'
  <2>1. CASE InitializeRejects(t)
    BY <2>1 DEF InitializeRejects, Initializing, UnlockAndReturn, Return
  <2>2. CASE LoadModel(t)
    BY <2>2 DEF LoadModel, Initializing, Reloads
  <2>3. CASE LoadModelFails(t)
    BY <2>3 DEF LoadModelFails, Initializing, UnlockAndReturn, Return, Reloads
  <2>4. CASE CreateContext(t)
    BY <2>4 DEF CreateContext
  <2>5. CASE CreateContextFails(t)
    BY <2>5 DEF CreateContextFails, UnlockAndReturn, Return
  <2>6. CASE CreateMtmd(t)
    BY <2>6 DEF CreateMtmd
  <2>7. CASE CreateMtmdFails(t)
    BY <2>7 DEF CreateMtmdFails, UnlockAndReturn, Return
  <2>8. CASE Commit(t)
    BY <2>8 DEF Commit, UnlockAndReturn, Return
  <2> QED BY <1>2, <2>1, <2>2, <2>3, <2>4, <2>5, <2>6, <2>7, <2>8 DEF Initialize
<1>3. ASSUME NEW t \in Threads, Prepare(t) PROVE (NoDangling /\ Held /\ Backed)'
  <2>1. CASE NotInitialized(t)
    BY <2>1 DEF NotInitialized, Fails, UnlockAndReturn, Return, Loaded
  <2>2. CASE DoGenerate(t)
    BY <2>2 DEF DoGenerate, Continues, Loaded
  <2>3. CASE LoadBitmap(t)
    BY <2>3 DEF LoadBitmap, Continues
  <2>4. CASE NewChunks(t)
    BY <2>4 DEF NewChunks, Continues
  <2>5. CASE NewChunksFails(t)
    BY <2>5 DEF NewChunksFails, Fails, UnlockAndReturn, Return
  <2>6. CASE Tokenize(t)
    BY <2>6 DEF Tokenize, Continues
  <2>7. CASE TokenizeFails(t)
    BY <2>7 DEF TokenizeFails, Fails, UnlockAndReturn, Return
  <2>8. CASE Evaluate(t)
    BY <2>8 DEF Evaluate, Continues
  <2>9. CASE EvaluateFails(t)
    BY <2>9 DEF EvaluateFails, Fails, UnlockAndReturn, Return
  <2> QED BY <1>3, <2>1, <2>2, <2>3, <2>4, <2>5, <2>6, <2>7, <2>8, <2>9 DEF Prepare
<1>4. ASSUME NEW t \in Threads, Sample(t) PROVE (NoDangling /\ Held /\ Backed)'
  <2>1. CASE SampleToken(t)
    BY <2>1 DEF SampleToken, Continues
  <2>2. CASE EndSampling(t)
    BY <2>2 DEF EndSampling, Continues
  <2>3. CASE Callback(t)
    BY <2>3 DEF Callback
  <2>4. CASE Decode(t)
    BY <2>4 DEF Decode, Continues
  <2>5. CASE DecodeFails(t)
    BY <2>5 DEF DecodeFails, Fails, UnlockAndReturn, Return
  <2>6. CASE Close(t)
    BY <2>6 DEF Close
  <2>7. CASE Finish(t)
    BY <2>7 DEF Finish, UnlockAndReturn, Return
  <2> QED BY <1>4, <2>1, <2>2, <2>3, <2>4, <2>5, <2>6, <2>7 DEF Sample
<1>5. ASSUME NEW t \in Threads, Lock(t) PROVE (NoDangling /\ Held /\ Backed)'
  BY <1>5 DEF Lock
<1>6. ASSUME NEW t \in Threads, Shutdown(t) PROVE (NoDangling /\ Held /\ Backed)'
  BY <1>6 DEF Shutdown, EndShutdown, GoOnWithReset, UnlockAndReturn, Return
<1>7. ASSUME NEW t \in Threads, UpdateGenerationConfig(t) PROVE (NoDangling /\ Held /\ Backed)'
  BY <1>7 DEF UpdateGenerationConfig, UnlockAndReturn, Return
<1>8. CASE UNCHANGED vars
  BY <1>8 DEF vars
<1> QED BY <1>1, <1>2, <1>3, <1>4, <1>5, <1>6, <1>7, <1>8 DEF Next, Work

-----------------------------------------------------------------------------
(* As long as no Initialize has found the service loaded: ready_ means     *)
(* loaded, and an Initialize started from nothing.                         *)
Single ==
    ~reloaded => /\ ready => model # Null /\ context # Null
                 /\ \A t \in Threads :
                       /\ pc[t] = "context" => context = Null /\ mtmd = Null
                       /\ pc[t] = "mtmd" => mtmd = Null /\ ~ready

LEMMA SingleStep ==
  Typed /\ Locking /\ NoDangling /\ Held /\ NothingLost /\ Single /\ [Next]_vars
     => (NothingLost /\ Single)'
<1> SUFFICES ASSUME Typed, Locking, NoDangling, Held, NothingLost, Single,
                    [Next]_vars
             PROVE  (NothingLost /\ Single)'
  OBVIOUS
<1>t. /\ pc \in [Threads -> Points]
      /\ model \in Loads \cup {Null} /\ context \in Loads \cup {Null}
      /\ mtmd \in Loads \cup {Null} /\ reloaded \in BOOLEAN
      /\ liveModels \subseteq Loads /\ liveContexts \subseteq Loads
      /\ liveMtmd \subseteq Loads /\ ready \in BOOLEAN
  BY DEF Typed, TypeOK
<1> USE <1>t
<1> USE DEF Locking, NoDangling, Held, NothingLost, Single, Critical, Creating,
            Running, Sampling, members, pointers, heap, history, Goto
<1>1. ASSUME NEW t \in Threads, Calls(t) PROVE (NothingLost /\ Single)'
  <2>1. ASSUME NEW o, NEW a, Begin(t, o, a) PROVE (NothingLost /\ Single)'
    BY <2>1 DEF Begin
  <2> QED BY <1>1, <2>1
          DEF Calls, CallGenerate, CallGenerateStream, CallShutdown,
              CallInitialize, CallReset, CallUpdateGenerationConfig
<1>2. ASSUME NEW t \in Threads, Initialize(t) PROVE (NothingLost /\ Single)'
  <2>1. CASE InitializeRejects(t)
    BY <2>1 DEF InitializeRejects, Initializing, UnlockAndReturn, Return
  <2>2. CASE LoadModel(t)
    <3>1. PICK m \in Loads \ (liveModels \cup liveContexts \cup liveMtmd) :
             model' = m /\ liveModels' = liveModels \cup {m}
      BY <2>2 DEF LoadModel
    <3>2. ~reloaded' => /\ ~reloaded /\ model = Null /\ context = Null
                        /\ mtmd = Null
      BY <2>2 DEF LoadModel, Reloads
    <3>3. ~reloaded' => ~ready /\ liveModels = {}
      BY <3>2
    <3> QED BY <2>2, <3>1, <3>2, <3>3 DEF LoadModel
  <2>3. CASE LoadModelFails(t)
    BY <2>3 DEF LoadModelFails, Initializing, UnlockAndReturn, Return, Reloads
  <2>4. CASE CreateContext(t)
    BY <2>4 DEF CreateContext
  <2>5. CASE CreateContextFails(t)
    BY <2>5 DEF CreateContextFails, UnlockAndReturn, Return
  <2>6. CASE CreateMtmd(t)
    BY <2>6 DEF CreateMtmd
  <2>7. CASE CreateMtmdFails(t)
    BY <2>7 DEF CreateMtmdFails, UnlockAndReturn, Return
  <2>8. CASE Commit(t)
    BY <2>8 DEF Commit, UnlockAndReturn, Return
  <2> QED BY <1>2, <2>1, <2>2, <2>3, <2>4, <2>5, <2>6, <2>7, <2>8 DEF Initialize
<1>3. ASSUME NEW t \in Threads, Prepare(t) PROVE (NothingLost /\ Single)'
  <2>1. CASE NotInitialized(t)
    BY <2>1 DEF NotInitialized, Fails, UnlockAndReturn, Return, Loaded
  <2>2. CASE DoGenerate(t)
    BY <2>2 DEF DoGenerate, Continues, Loaded
  <2>3. CASE LoadBitmap(t)
    BY <2>3 DEF LoadBitmap, Continues
  <2>4. CASE NewChunks(t)
    BY <2>4 DEF NewChunks, Continues
  <2>5. CASE NewChunksFails(t)
    BY <2>5 DEF NewChunksFails, Fails, UnlockAndReturn, Return
  <2>6. CASE Tokenize(t)
    BY <2>6 DEF Tokenize, Continues
  <2>7. CASE TokenizeFails(t)
    BY <2>7 DEF TokenizeFails, Fails, UnlockAndReturn, Return
  <2>8. CASE Evaluate(t)
    BY <2>8 DEF Evaluate, Continues
  <2>9. CASE EvaluateFails(t)
    BY <2>9 DEF EvaluateFails, Fails, UnlockAndReturn, Return
  <2> QED BY <1>3, <2>1, <2>2, <2>3, <2>4, <2>5, <2>6, <2>7, <2>8, <2>9 DEF Prepare
<1>4. ASSUME NEW t \in Threads, Sample(t) PROVE (NothingLost /\ Single)'
  <2>1. CASE SampleToken(t)
    BY <2>1 DEF SampleToken, Continues
  <2>2. CASE EndSampling(t)
    BY <2>2 DEF EndSampling, Continues
  <2>3. CASE Callback(t)
    BY <2>3 DEF Callback
  <2>4. CASE Decode(t)
    BY <2>4 DEF Decode, Continues
  <2>5. CASE DecodeFails(t)
    BY <2>5 DEF DecodeFails, Fails, UnlockAndReturn, Return
  <2>6. CASE Close(t)
    BY <2>6 DEF Close
  <2>7. CASE Finish(t)
    BY <2>7 DEF Finish, UnlockAndReturn, Return
  <2> QED BY <1>4, <2>1, <2>2, <2>3, <2>4, <2>5, <2>6, <2>7 DEF Sample
<1>5. ASSUME NEW t \in Threads, Lock(t) PROVE (NothingLost /\ Single)'
  BY <1>5 DEF Lock
<1>6. ASSUME NEW t \in Threads, Shutdown(t) PROVE (NothingLost /\ Single)'
  BY <1>6 DEF Shutdown, EndShutdown, GoOnWithReset, UnlockAndReturn, Return
<1>7. ASSUME NEW t \in Threads, UpdateGenerationConfig(t) PROVE (NothingLost /\ Single)'
  BY <1>7 DEF UpdateGenerationConfig, UnlockAndReturn, Return
<1>8. CASE UNCHANGED vars
  BY <1>8 DEF vars
<1> QED BY <1>1, <1>2, <1>3, <1>4, <1>5, <1>6, <1>7, <1>8 DEF Next, Work

-----------------------------------------------------------------------------
(* The sampler chain is the one config_ describes.                         *)
SamplerIsBuilt == sampler # Null => sampler = config.gen

LEMMA SamplerStep ==
  Typed /\ SamplerIsBuilt /\ [Next]_vars => SamplerIsBuilt'
<1> SUFFICES ASSUME Typed, SamplerIsBuilt, [Next]_vars
             PROVE  SamplerIsBuilt'
  OBVIOUS
<1>c. \A c \in Config : /\ c.gen \in Gens
                         /\ \A g \in Gens : [c EXCEPT !.gen = g].gen = g
  BY DEF Config
<1>u. \A t \in Threads : /\ op[t] = "Update" => arg[t] \in Config
                         /\ pc[t] \in Creating => arg[t] \in Config
  BY DEF Typed, Shape
<1> USE <1>c, <1>u
<1> USE DEF SamplerIsBuilt, Critical, Creating, Running,
            Sampling, members, sampling, Goto
<1>1. ASSUME NEW t \in Threads, Calls(t) PROVE SamplerIsBuilt'
  <2>1. ASSUME NEW o, NEW a, Begin(t, o, a) PROVE SamplerIsBuilt'
    BY <2>1 DEF Begin
  <2> QED BY <1>1, <2>1
          DEF Calls, CallGenerate, CallGenerateStream, CallShutdown,
              CallInitialize, CallReset, CallUpdateGenerationConfig
<1>2. ASSUME NEW t \in Threads, Initialize(t) PROVE SamplerIsBuilt'
  <2>1. CASE InitializeRejects(t)
    BY <2>1 DEF InitializeRejects, Initializing, UnlockAndReturn, Return
  <2>2. CASE LoadModel(t)
    BY <2>2 DEF LoadModel, Initializing, Reloads
  <2>3. CASE LoadModelFails(t)
    BY <2>3 DEF LoadModelFails, Initializing, UnlockAndReturn, Return, Reloads
  <2>4. CASE CreateContext(t)
    BY <2>4 DEF CreateContext
  <2>5. CASE CreateContextFails(t)
    BY <2>5 DEF CreateContextFails, UnlockAndReturn, Return
  <2>6. CASE CreateMtmd(t)
    BY <2>6 DEF CreateMtmd
  <2>7. CASE CreateMtmdFails(t)
    BY <2>7 DEF CreateMtmdFails, UnlockAndReturn, Return
  <2>8. CASE Commit(t)
    BY <2>8 DEF Commit, UnlockAndReturn, Return
  <2> QED BY <1>2, <2>1, <2>2, <2>3, <2>4, <2>5, <2>6, <2>7, <2>8 DEF Initialize
<1>3. ASSUME NEW t \in Threads, Prepare(t) PROVE SamplerIsBuilt'
  <2>1. CASE NotInitialized(t)
    BY <2>1 DEF NotInitialized, Fails, UnlockAndReturn, Return, Loaded
  <2>2. CASE DoGenerate(t)
    BY <2>2 DEF DoGenerate, Continues, Loaded
  <2>3. CASE LoadBitmap(t)
    BY <2>3 DEF LoadBitmap, Continues
  <2>4. CASE NewChunks(t)
    BY <2>4 DEF NewChunks, Continues
  <2>5. CASE NewChunksFails(t)
    BY <2>5 DEF NewChunksFails, Fails, UnlockAndReturn, Return
  <2>6. CASE Tokenize(t)
    BY <2>6 DEF Tokenize, Continues
  <2>7. CASE TokenizeFails(t)
    BY <2>7 DEF TokenizeFails, Fails, UnlockAndReturn, Return
  <2>8. CASE Evaluate(t)
    BY <2>8 DEF Evaluate, Continues
  <2>9. CASE EvaluateFails(t)
    BY <2>9 DEF EvaluateFails, Fails, UnlockAndReturn, Return
  <2> QED BY <1>3, <2>1, <2>2, <2>3, <2>4, <2>5, <2>6, <2>7, <2>8, <2>9 DEF Prepare
<1>4. ASSUME NEW t \in Threads, Sample(t) PROVE SamplerIsBuilt'
  <2>1. CASE SampleToken(t)
    BY <2>1 DEF SampleToken, Continues
  <2>2. CASE EndSampling(t)
    BY <2>2 DEF EndSampling, Continues
  <2>3. CASE Callback(t)
    BY <2>3 DEF Callback
  <2>4. CASE Decode(t)
    BY <2>4 DEF Decode, Continues
  <2>5. CASE DecodeFails(t)
    BY <2>5 DEF DecodeFails, Fails, UnlockAndReturn, Return
  <2>6. CASE Close(t)
    BY <2>6 DEF Close
  <2>7. CASE Finish(t)
    BY <2>7 DEF Finish, UnlockAndReturn, Return
  <2> QED BY <1>4, <2>1, <2>2, <2>3, <2>4, <2>5, <2>6, <2>7 DEF Sample
<1>5. ASSUME NEW t \in Threads, Lock(t) PROVE SamplerIsBuilt'
  BY <1>5 DEF Lock
<1>6. ASSUME NEW t \in Threads, Shutdown(t) PROVE SamplerIsBuilt'
  <2>1. CASE EndShutdown(t)
    BY <1>6, <2>1 DEF Shutdown, EndShutdown, UnlockAndReturn, Return
  <2>2. CASE GoOnWithReset(t)
    BY <1>6, <2>2 DEF Shutdown, GoOnWithReset
  <2> QED BY <1>6, <2>1, <2>2 DEF Shutdown
<1>7. ASSUME NEW t \in Threads, UpdateGenerationConfig(t) PROVE SamplerIsBuilt'
  BY <1>7 DEF UpdateGenerationConfig, UnlockAndReturn, Return
<1>8. CASE UNCHANGED vars
  BY <1>8 DEF vars
<1> QED BY <1>1, <1>2, <1>3, <1>4, <1>5, <1>6, <1>7, <1>8 DEF Next, Work

-----------------------------------------------------------------------------
(* Where a request holds its bitmap and its input chunks.                  *)
Freed ==
    \A t \in Threads :
        /\ bitmap[t] => pc[t] \in {"chunks", "tokenize", "eval"} \cup Sampling
        /\ chunks[t] => pc[t] \in {"tokenize", "eval"}

LEMMA FreedStep == Typed /\ Freed /\ [Next]_vars => Freed'
<1> SUFFICES ASSUME Typed, Freed, [Next]_vars PROVE Freed'
  OBVIOUS
<1>t. /\ pc \in [Threads -> Points] /\ bitmap \in [Threads -> BOOLEAN]
      /\ chunks \in [Threads -> BOOLEAN]
  BY DEF Typed, TypeOK
<1> USE <1>t
<1> USE DEF Freed, Creating, Running, Sampling, Goto
<1>1. ASSUME NEW t \in Threads, Calls(t) PROVE Freed'
  <2>1. ASSUME NEW o, NEW a, Begin(t, o, a) PROVE Freed'
    BY <2>1 DEF Begin
  <2> QED BY <1>1, <2>1
          DEF Calls, CallGenerate, CallGenerateStream, CallShutdown,
              CallInitialize, CallReset, CallUpdateGenerationConfig
<1>2. ASSUME NEW t \in Threads, Initialize(t) PROVE Freed'
  <2>1. CASE InitializeRejects(t)
    BY <2>1 DEF InitializeRejects, Initializing, UnlockAndReturn, Return
  <2>2. CASE LoadModel(t)
    BY <2>2 DEF LoadModel, Initializing, Reloads
  <2>3. CASE LoadModelFails(t)
    BY <2>3 DEF LoadModelFails, Initializing, UnlockAndReturn, Return, Reloads
  <2>4. CASE CreateContext(t)
    BY <2>4 DEF CreateContext
  <2>5. CASE CreateContextFails(t)
    BY <2>5 DEF CreateContextFails, UnlockAndReturn, Return
  <2>6. CASE CreateMtmd(t)
    BY <2>6 DEF CreateMtmd
  <2>7. CASE CreateMtmdFails(t)
    BY <2>7 DEF CreateMtmdFails, UnlockAndReturn, Return
  <2>8. CASE Commit(t)
    BY <2>8 DEF Commit, UnlockAndReturn, Return
  <2> QED BY <1>2, <2>1, <2>2, <2>3, <2>4, <2>5, <2>6, <2>7, <2>8 DEF Initialize
<1>3. ASSUME NEW t \in Threads, Prepare(t) PROVE Freed'
  <2>1. CASE NotInitialized(t)
    BY <2>1 DEF NotInitialized, Fails, UnlockAndReturn, Return, Loaded
  <2>2. CASE DoGenerate(t)
    BY <2>2 DEF DoGenerate, Continues, Loaded
  <2>3. CASE LoadBitmap(t)
    BY <2>3 DEF LoadBitmap, Continues
  <2>4. CASE NewChunks(t)
    BY <2>4 DEF NewChunks, Continues
  <2>5. CASE NewChunksFails(t)
    BY <2>5 DEF NewChunksFails, Fails, UnlockAndReturn, Return
  <2>6. CASE Tokenize(t)
    BY <2>6 DEF Tokenize, Continues
  <2>7. CASE TokenizeFails(t)
    BY <2>7 DEF TokenizeFails, Fails, UnlockAndReturn, Return
  <2>8. CASE Evaluate(t)
    BY <2>8 DEF Evaluate, Continues
  <2>9. CASE EvaluateFails(t)
    BY <2>9 DEF EvaluateFails, Fails, UnlockAndReturn, Return
  <2> QED BY <1>3, <2>1, <2>2, <2>3, <2>4, <2>5, <2>6, <2>7, <2>8, <2>9 DEF Prepare
<1>4. ASSUME NEW t \in Threads, Sample(t) PROVE Freed'
  <2>1. CASE SampleToken(t)
    BY <2>1 DEF SampleToken, Continues
  <2>2. CASE EndSampling(t)
    BY <2>2 DEF EndSampling, Continues
  <2>3. CASE Callback(t)
    BY <2>3 DEF Callback
  <2>4. CASE Decode(t)
    BY <2>4 DEF Decode, Continues
  <2>5. CASE DecodeFails(t)
    BY <2>5 DEF DecodeFails, Fails, UnlockAndReturn, Return
  <2>6. CASE Close(t)
    BY <2>6 DEF Close
  <2>7. CASE Finish(t)
    BY <2>7 DEF Finish, UnlockAndReturn, Return
  <2> QED BY <1>4, <2>1, <2>2, <2>3, <2>4, <2>5, <2>6, <2>7 DEF Sample
<1>5. ASSUME NEW t \in Threads, Lock(t) PROVE Freed'
  BY <1>5 DEF Lock
<1>6. ASSUME NEW t \in Threads, Shutdown(t) PROVE Freed'
  BY <1>6 DEF Shutdown, EndShutdown, GoOnWithReset, UnlockAndReturn, Return
<1>7. ASSUME NEW t \in Threads, UpdateGenerationConfig(t) PROVE Freed'
  BY <1>7 DEF UpdateGenerationConfig, UnlockAndReturn, Return
<1>8. CASE UNCHANGED vars
  BY <1>8 DEF vars
<1> QED BY <1>1, <1>2, <1>3, <1>4, <1>5, <1>6, <1>7, <1>8 DEF Next, Work

-----------------------------------------------------------------------------
(* What the consumer of a request has been told.                           *)
Told ==
    \A t \in Threads :
        /\ closed[t] => pc[t] = "finish"
        /\ pc[t] = "finish" => closed[t] = arg[t].callback
        /\ stopped[t] => pc[t] \in {"close", "finish"}
        /\ Len(heard[t]) = IF pc[t] = "callback" THEN made[t] - 1 ELSE made[t]
        /\ pc[t] \notin Sampling => heard[t] = <<>>

LEMMA ToldStep == Typed /\ Told /\ [Next]_vars => Told'
<1> SUFFICES ASSUME Typed, Told, [Next]_vars PROVE Told'
  OBVIOUS
<1>t. /\ pc \in [Threads -> Points] /\ op \in [Threads -> Ops]
      /\ arg \in [Threads -> Config \cup Input \cup {Rejected, NoArg}]
      /\ made \in [Threads -> Nat] /\ heard \in [Threads -> Seq(Nat)]
      /\ closed \in [Threads -> BOOLEAN] /\ stopped \in [Threads -> BOOLEAN]
  BY DEF Typed, TypeOK
<1> USE <1>t
<1> USE DEF Told, Creating, Running, Sampling, sampling, seen, Goto
<1>1. ASSUME NEW t \in Threads, Calls(t) PROVE Told'
  <2>1. ASSUME NEW o, NEW a, Begin(t, o, a) PROVE Told'
    BY <2>1 DEF Begin
  <2> QED BY <1>1, <2>1
          DEF Calls, CallGenerate, CallGenerateStream, CallShutdown,
              CallInitialize, CallReset, CallUpdateGenerationConfig
<1>2. ASSUME NEW t \in Threads, Initialize(t) PROVE Told'
  <2>1. CASE InitializeRejects(t)
    BY <2>1 DEF InitializeRejects, Initializing, UnlockAndReturn, Return
  <2>2. CASE LoadModel(t)
    BY <2>2 DEF LoadModel, Initializing, Reloads
  <2>3. CASE LoadModelFails(t)
    BY <2>3 DEF LoadModelFails, Initializing, UnlockAndReturn, Return, Reloads
  <2>4. CASE CreateContext(t)
    BY <2>4 DEF CreateContext
  <2>5. CASE CreateContextFails(t)
    BY <2>5 DEF CreateContextFails, UnlockAndReturn, Return
  <2>6. CASE CreateMtmd(t)
    BY <2>6 DEF CreateMtmd
  <2>7. CASE CreateMtmdFails(t)
    BY <2>7 DEF CreateMtmdFails, UnlockAndReturn, Return
  <2>8. CASE Commit(t)
    BY <2>8 DEF Commit, UnlockAndReturn, Return
  <2> QED BY <1>2, <2>1, <2>2, <2>3, <2>4, <2>5, <2>6, <2>7, <2>8 DEF Initialize
<1>3. ASSUME NEW t \in Threads, Prepare(t) PROVE Told'
  <2>1. CASE NotInitialized(t)
    BY <2>1 DEF NotInitialized, Fails, UnlockAndReturn, Return, Loaded
  <2>2. CASE DoGenerate(t)
    BY <2>2 DEF DoGenerate, Continues, Loaded
  <2>3. CASE LoadBitmap(t)
    BY <2>3 DEF LoadBitmap, Continues
  <2>4. CASE NewChunks(t)
    BY <2>4 DEF NewChunks, Continues
  <2>5. CASE NewChunksFails(t)
    BY <2>5 DEF NewChunksFails, Fails, UnlockAndReturn, Return
  <2>6. CASE Tokenize(t)
    BY <2>6 DEF Tokenize, Continues
  <2>7. CASE TokenizeFails(t)
    BY <2>7 DEF TokenizeFails, Fails, UnlockAndReturn, Return
  <2>8. CASE Evaluate(t)
    BY <2>8 DEF Evaluate, Continues
  <2>9. CASE EvaluateFails(t)
    BY <2>9 DEF EvaluateFails, Fails, UnlockAndReturn, Return
  <2> QED BY <1>3, <2>1, <2>2, <2>3, <2>4, <2>5, <2>6, <2>7, <2>8, <2>9 DEF Prepare
<1>4. ASSUME NEW t \in Threads, Sample(t) PROVE Told'
  <2>1. CASE SampleToken(t)
    <3>1. Len(heard[t]) = made[t] /\ made[t] \in Nat
      BY <2>1 DEF SampleToken
    <3>2. \/ /\ pc' = [pc EXCEPT ![t] = "callback"]
             /\ made' = [made EXCEPT ![t] = made[t] + 1]
          \/ pc' = [pc EXCEPT ![t] = "decode"] /\ UNCHANGED made
      BY <2>1 DEF SampleToken, Continues
    <3>3. pc[t] = "sample" /\ UNCHANGED <<arg, heard, closed, stopped>>
      BY <2>1 DEF SampleToken, Continues
    <3> QED BY <3>1, <3>2, <3>3
  <2>2. CASE EndSampling(t)
    BY <2>2 DEF EndSampling, Continues
  <2>3. CASE Callback(t)
    <3>1. heard[t] \in Seq(Nat) /\ made[t] \in Nat
      BY DEF Typed, TypeOK
    <3>2. Len(heard[t]) = made[t] - 1
      BY <2>3 DEF Callback
    <3>3. Len(Append(heard[t], made[t])) = made[t]
      BY <3>1, <3>2
    <3>4. /\ pc[t] = "callback" /\ UNCHANGED <<arg, made, closed>>
          /\ heard' = [heard EXCEPT ![t] = Append(heard[t], made[t])]
      BY <2>3 DEF Callback
    <3>5. \/ /\ pc' = [pc EXCEPT ![t] = "decode"]
             /\ stopped' = [stopped EXCEPT ![t] = FALSE]
          \/ /\ pc' = [pc EXCEPT ![t] = "close"]
             /\ stopped' = [stopped EXCEPT ![t] = TRUE]
      BY <2>3 DEF Callback
    <3>6. Len(heard'[t]) = made'[t]
      BY <3>3, <3>4
    <3>7. \A u \in Threads \ {t} : /\ heard'[u] = heard[u] /\ pc'[u] = pc[u]
                                 /\ stopped'[u] = stopped[u]
      BY <3>4, <3>5
    <3>8. UNCHANGED <<arg, made, closed>> /\ ~closed[t]
      BY <3>4
    <3>9. /\ pc'[t] \in {"decode", "close"}
          /\ stopped'[t] => pc'[t] = "close"
      BY <3>5
    <3> SUFFICES ASSUME NEW u \in Threads
                 PROVE  /\ closed'[u] => pc'[u] = "finish"
                        /\ pc'[u] = "finish" => closed'[u] = arg'[u].callback
                        /\ stopped'[u] => pc'[u] \in {"close", "finish"}
                        /\ Len(heard'[u]) = IF pc'[u] = "callback"
                                            THEN made'[u] - 1 ELSE made'[u]
                        /\ pc'[u] \notin Sampling => heard'[u] = <<>>
      BY Zenon DEF Told
    <3>10. CASE u = t
      BY <3>6, <3>8, <3>9, <3>10
    <3>11. CASE u # t
      BY <3>7, <3>8, <3>11
    <3> QED BY <3>10, <3>11
  <2>4. CASE Decode(t)
    BY <2>4 DEF Decode, Continues
  <2>5. CASE DecodeFails(t)
    BY <2>5 DEF DecodeFails, Fails, UnlockAndReturn, Return
  <2>6. CASE Close(t)
    BY <2>6 DEF Close
  <2>7. CASE Finish(t)
    BY <2>7 DEF Finish, UnlockAndReturn, Return
  <2> QED BY <1>4, <2>1, <2>2, <2>3, <2>4, <2>5, <2>6, <2>7 DEF Sample
<1>5. ASSUME NEW t \in Threads, Lock(t) PROVE Told'
  BY <1>5 DEF Lock
<1>6. ASSUME NEW t \in Threads, Shutdown(t) PROVE Told'
  <2>1. CASE EndShutdown(t)
    BY <1>6, <2>1 DEF Shutdown, EndShutdown, UnlockAndReturn, Return
  <2>2. CASE GoOnWithReset(t)
    BY <1>6, <2>2 DEF Shutdown, GoOnWithReset
  <2> QED BY <1>6, <2>1, <2>2 DEF Shutdown
<1>7. ASSUME NEW t \in Threads, UpdateGenerationConfig(t) PROVE Told'
  BY <1>7 DEF UpdateGenerationConfig, UnlockAndReturn, Return
<1>8. CASE UNCHANGED vars
  BY <1>8 DEF vars
<1> QED BY <1>1, <1>2, <1>3, <1>4, <1>5, <1>6, <1>7, <1>8 DEF Next, Work

-----------------------------------------------------------------------------
Loading == Typed /\ Locking /\ NoDangling /\ Held /\ Backed /\ NothingLost /\ Single
Serving == SamplerIsBuilt /\ Freed /\ Told
IInv    == Loading /\ Serving

LEMMA InvInit == Init => IInv
<1> SUFFICES ASSUME Init PROVE IInv
  OBVIOUS
<1> USE DEF Init, Critical, Creating, Running, Sampling
<1>1. Typed
  BY TypeInit
<1>2. Locking /\ NoDangling /\ Held /\ Backed /\ NothingLost /\ Single
  BY DEF Locking, NoDangling, Held, Backed, NothingLost, Single
<1>3. SamplerIsBuilt /\ Freed
  BY DEF SamplerIsBuilt, Freed
<1>4. Told
  BY DEF Told
<1> QED BY <1>1, <1>2, <1>3, <1>4 DEF IInv, Loading, Serving

(* The inductive invariant.                                                *)
THEOREM Invariance == Spec => []IInv
<1>1. IInv /\ [Next]_vars => IInv'
  BY TypeStep, LockStep, HeldStep, SingleStep, SamplerStep, FreedStep, ToldStep
     DEF IInv, Loading, Serving
<1> QED BY <1>1, InvInit, PTL DEF Spec

(* Type correctness: every reachable state of the direct backend is well   *)
(* typed; in particular no position beyond the context is counted.         *)
THEOREM TypeCorrect == Spec => []TypeOK
<1>1. IInv => TypeOK
  BY DEF IInv, Loading, Typed
<1> QED BY <1>1, Invariance, PTL

(* No use after free and no double free: whatever step fails and however   *)
(* Initialize, Reset, Shutdown and requests of any number of threads are   *)
(* ordered, a pointer of the service names something that is alive.        *)
THEOREM PointersAreAlive == Spec => []NoDangling
<1>1. IInv => NoDangling
  BY DEF IInv, Loading
<1> QED BY <1>1, Invariance, PTL

(* The cleanup of a failing Initialize is complete.                        *)
THEOREM NothingIsLost == Spec => []NothingLost
<1>1. IInv => NothingLost
  BY DEF IInv, Loading
<1> QED BY <1>1, Invariance, PTL

(* A request keeps one model and its context from its evaluation to its    *)
(* last token, and a vision context, which is that model's unless an       *)
(* Initialize has found the service loaded.                                *)
THEOREM RequestsAreIsolated == Spec => []RequestKeepsItsModel
<1>1. IInv => RequestKeepsItsModel
  <2> SUFFICES ASSUME IInv, NEW t \in Threads,
                      pc[t] \in Running \ {"bitmap", "chunks", "tokenize"}
               PROVE  /\ model # Null /\ context = model
                      /\ mtmd # Null /\ (~reloaded => mtmd = model)
    BY DEF RequestKeepsItsModel
  <2>1. model # Null /\ context = model /\ mtmd # Null
    BY DEF IInv, Loading, Held
  <2>2. ~reloaded => liveModels \subseteq {model}
    BY DEF IInv, Loading, NothingLost
  <2> QED BY <2>1, <2>2 DEF IInv, Loading, NoDangling
<1> QED BY <1>1, Invariance, PTL

(* ready_ means a model and its context, however calls are ordered, except *)
(* after an Initialize that failed on a ready service: then the model is   *)
(* null.                                                                   *)
THEOREM ReadyIsBacked == Spec => []ReadyIsLoaded
<1>1. IInv => ReadyIsLoaded
  <2> SUFFICES ASSUME IInv, mutex = NoThread
               PROVE  \A t \in Threads : pc[t] \notin Creating
    BY DEF IInv, Loading, Backed, ReadyIsLoaded
  <2> QED BY DEF IInv, Loading, Locking, Critical
<1> QED BY <1>1, Invariance, PTL

(* The sampler chain is the one config_ describes.                         *)
THEOREM SamplerIsCurrent == Spec => []SamplerFollowsConfig
<1>1. IInv => SamplerFollowsConfig
  BY DEF IInv, Serving, SamplerIsBuilt, SamplerFollowsConfig
<1> QED BY <1>1, Invariance, PTL

(* No request leaves a bitmap or input chunks behind.                      *)
THEOREM RequestsCleanUp == Spec => []NothingLeft
<1>1. IInv => NothingLeft
  BY DEF IInv, Serving, Freed, NothingLeft, Sampling
<1> QED BY <1>1, Invariance, PTL

-----------------------------------------------------------------------------
(* What a step means for the consumer of thread v: a step of StreamContract *)
(* or none, and at the end of a call the closing call it was promised.     *)
Watched(v) == Consumer(v)!Next \/ UNCHANGED Consumer(v)!vars

ToldTheEnd(v) ==
    (op[v] = "Stream" /\ pc'[v] = "idle" /\ pc[v] # "idle" /\ arg[v].callback)
        => (closed[v] <=> ret'[v] = "true")

Follows == \A v \in Threads : Watched(v) /\ ToldTheEnd(v)

(* A step the consumers do not see.                                        *)
LEMMA SilentStep ==
  ASSUME UNCHANGED <<calls, heard, stopped, closed>>,
         \A v \in Threads : pc'[v] = "idle" <=> pc[v] = "idle"
  PROVE  Follows
<1> SUFFICES ASSUME NEW v \in Threads PROVE Watched(v) /\ ToldTheEnd(v)
  BY DEF Follows
<1>1. UNCHANGED Consumer(v)!vars
  <2>1. (pc[v] = "idle")' = (pc[v] = "idle")
    OBVIOUS
  <2> QED BY <2>1 DEF Consumer!vars
<1> QED BY <1>1 DEF Watched, ToldTheEnd

(* A call begins.                                                          *)
LEMMA BeginStep ==
  ASSUME IInv, NEW t \in Threads, NEW o, NEW a, Begin(t, o, a)
  PROVE  Follows
<1> USE DEF IInv, Loading, Serving, Typed, TypeOK
<1> SUFFICES ASSUME NEW v \in Threads PROVE Watched(v) /\ ToldTheEnd(v)
  BY DEF Follows
<1>1. pc[t] = "idle" /\ UNCHANGED <<heard, stopped, closed>>
  BY DEF Begin, seen
<1>2. CASE v = t
  <2>1. heard[v] = <<>> /\ ~stopped[v] /\ ~closed[v]
    BY <1>1, <1>2 DEF Told, Sampling
  <2>2. calls'[v] # calls[v]
    BY <1>2 DEF Begin
  <2>3. Consumer(v)!NextRequest
    BY <1>1, <2>1, <2>2 DEF Consumer!NextRequest, Told
  <2> QED BY <1>1, <1>2, <2>3 DEF Watched, ToldTheEnd, Consumer!Next
<1>3. CASE v # t
  <2>1. pc'[v] = pc[v] /\ calls'[v] = calls[v]
    BY <1>3 DEF Begin, Goto
  <2>2. UNCHANGED Consumer(v)!vars
    BY <1>1, <2>1 DEF Consumer!vars
  <2> QED BY <2>1, <2>2 DEF Watched, ToldTheEnd
<1> QED BY <1>2, <1>3

(* A call ends.                                                            *)
LEMMA ReturnStep ==
  ASSUME IInv, NEW t \in Threads, NEW r, Return(t, r), UNCHANGED calls,
         pc[t] # "idle",
         op[t] = "Stream" /\ arg[t].callback => (closed[t] <=> r = "true")
  PROVE  Follows
<1> USE DEF IInv, Loading, Serving, Typed, TypeOK
<1> SUFFICES ASSUME NEW v \in Threads PROVE Watched(v) /\ ToldTheEnd(v)
  BY DEF Follows
<1>2. CASE v = t
  <2>1. /\ heard'[v] = <<>> /\ stopped'[v] = FALSE /\ closed'[v] = FALSE
        /\ pc'[v] = "idle" /\ ret'[v] = r
    BY <1>2 DEF Return, Goto
  <2>2. <<calls[v], pc[v] = "idle">>' # <<calls[v], pc[v] = "idle">>
    BY <1>2, <2>1
  <2>3. Consumer(v)!NextRequest
    BY <2>1, <2>2 DEF Consumer!NextRequest
  <2> QED BY <1>2, <2>1, <2>3 DEF Watched, ToldTheEnd, Consumer!Next
<1>3. CASE v # t
  <2>1. /\ pc'[v] = pc[v] /\ heard'[v] = heard[v]
        /\ stopped'[v] = stopped[v] /\ closed'[v] = closed[v]
    BY <1>3 DEF Return, Goto
  <2>2. UNCHANGED Consumer(v)!vars
    BY <2>1 DEF Consumer!vars
  <2> QED BY <2>1, <2>2 DEF Watched, ToldTheEnd
<1> QED BY <1>2, <1>3

(* The callback is called.                                                 *)
LEMMA CallbackStep ==
  ASSUME IInv, NEW t \in Threads, Callback(t) \/ Close(t)
  PROVE  Follows
<1> USE DEF IInv, Loading, Serving, Typed, TypeOK
<1> SUFFICES ASSUME NEW v \in Threads PROVE Watched(v) /\ ToldTheEnd(v)
  BY DEF Follows
<1>0. pc'[v] = "idle" <=> pc[v] = "idle"
  BY DEF Callback, Close, Goto
<1>1. calls' = calls /\ (pc[v] = "idle")' = (pc[v] = "idle")
  BY <1>0 DEF Callback, Close
<1>2. CASE v = t /\ Callback(t)
  <2>1. ~closed[v] /\ ~stopped[v] /\ Len(heard[v]) = made[v] - 1
    BY <1>2 DEF Callback, Told
  <2>2. heard'[v] = Append(heard[v], made[v]) /\ closed'[v] = closed[v]
    BY <1>2 DEF Callback
  <2>3. stopped'[v] \in BOOLEAN
    BY <1>2 DEF Callback
  <2>4. made[v] = Len(heard[v]) + 1
    BY <2>1
  <2>5. Consumer(v)!Piece
    BY <1>1, <2>1, <2>2, <2>3, <2>4 DEF Consumer!Piece
  <2> QED BY <1>0, <2>5 DEF Watched, ToldTheEnd, Consumer!Next
<1>3. CASE v = t /\ Close(t)
  <2>1. /\ ~closed[v] /\ closed'[v] = arg[v].callback
        /\ UNCHANGED <<heard, stopped>>
    BY <1>3 DEF Close, Told
  <2>2. arg[v].callback \in BOOLEAN
    BY <1>3 DEF Close, Shape, Running, Sampling, Generating, Input
  <2>3. CASE arg[v].callback = TRUE
    <3>1. Consumer(v)!Close
      BY <1>1, <2>1, <2>3 DEF Consumer!Close
    <3> QED BY <1>0, <3>1 DEF Watched, ToldTheEnd, Consumer!Next
  <2>4. CASE arg[v].callback = FALSE
    <3>1. closed'[v] = closed[v]
      BY <2>1, <2>4
    <3>2. UNCHANGED Consumer(v)!vars
      BY <1>1, <2>1, <3>1 DEF Consumer!vars
    <3> QED BY <1>0, <3>2 DEF Watched, ToldTheEnd
  <2> QED BY <2>2, <2>3, <2>4
<1>4. CASE v # t
  <2>1. /\ heard'[v] = heard[v] /\ stopped'[v] = stopped[v]
        /\ closed'[v] = closed[v]
    BY <1>4 DEF Callback, Close
  <2>2. UNCHANGED Consumer(v)!vars
    BY <1>1, <2>1 DEF Consumer!vars
  <2> QED BY <1>0, <2>2 DEF Watched, ToldTheEnd
<1> QED BY <1>2, <1>3, <1>4

LEMMA FollowsStep == IInv /\ [Next]_vars => [Follows]_vars
<1> SUFFICES ASSUME IInv, [Next]_vars, ~ UNCHANGED vars PROVE Follows
  OBVIOUS
<1> USE DEF IInv, Loading, Serving, Typed, TypeOK, Shape, Told, Creating,
            Running, Sampling, Initializer, Generating, seen, sampling, Goto
<1>1. ASSUME NEW t \in Threads, Calls(t) PROVE Follows
  BY <1>1, BeginStep
     DEF Calls, CallGenerate, CallGenerateStream, CallShutdown,
         CallInitialize, CallReset, CallUpdateGenerationConfig
<1>2. ASSUME NEW t \in Threads, Initialize(t) PROVE Follows
  <2>1. CASE InitializeRejects(t)
    BY <2>1, ReturnStep DEF InitializeRejects, Initializing, UnlockAndReturn
  <2>2. CASE LoadModel(t)
    BY <2>2, SilentStep DEF LoadModel, Initializing
  <2>3. CASE LoadModelFails(t)
    BY <2>3, ReturnStep DEF LoadModelFails, Initializing, UnlockAndReturn
  <2>4. CASE CreateContext(t)
    BY <2>4, SilentStep DEF CreateContext
  <2>5. CASE CreateContextFails(t)
    BY <2>5, ReturnStep DEF CreateContextFails, UnlockAndReturn
  <2>6. CASE CreateMtmd(t)
    BY <2>6, SilentStep DEF CreateMtmd
  <2>7. CASE CreateMtmdFails(t)
    BY <2>7, ReturnStep DEF CreateMtmdFails, UnlockAndReturn
  <2>8. CASE Commit(t)
    BY <2>8, ReturnStep DEF Commit, UnlockAndReturn
  <2> QED BY <1>2, <2>1, <2>2, <2>3, <2>4, <2>5, <2>6, <2>7, <2>8 DEF Initialize
<1>3. ASSUME NEW t \in Threads, Prepare(t) PROVE Follows
  <2>1. CASE NotInitialized(t)
    BY <2>1, ReturnStep DEF NotInitialized, Fails, UnlockAndReturn
  <2>2. CASE DoGenerate(t)
    BY <2>2, SilentStep DEF DoGenerate, Continues, Loaded
  <2>3. CASE LoadBitmap(t)
    BY <2>3, SilentStep DEF LoadBitmap, Continues
  <2>4. CASE NewChunks(t)
    BY <2>4, SilentStep DEF NewChunks, Continues
  <2>5. CASE NewChunksFails(t)
    BY <2>5, ReturnStep DEF NewChunksFails, Fails, UnlockAndReturn
  <2>6. CASE Tokenize(t)
    BY <2>6, SilentStep DEF Tokenize, Continues
  <2>7. CASE TokenizeFails(t)
    BY <2>7, ReturnStep DEF TokenizeFails, Fails, UnlockAndReturn
  <2>8. CASE Evaluate(t)
    BY <2>8, SilentStep DEF Evaluate, Continues
  <2>9. CASE EvaluateFails(t)
    BY <2>9, ReturnStep DEF EvaluateFails, Fails, UnlockAndReturn
  <2> QED BY <1>3, <2>1, <2>2, <2>3, <2>4, <2>5, <2>6, <2>7, <2>8, <2>9 DEF Prepare
<1>4. ASSUME NEW t \in Threads, Sample(t) PROVE Follows
  <2>1. CASE SampleToken(t)
    BY <2>1, SilentStep DEF SampleToken, Continues
  <2>2. CASE EndSampling(t)
    BY <2>2, SilentStep DEF EndSampling, Continues
  <2>3. CASE Callback(t)
    BY <2>3, CallbackStep
  <2>4. CASE Decode(t)
    BY <2>4, SilentStep DEF Decode, Continues
  <2>5. CASE DecodeFails(t)
    BY <2>5, ReturnStep DEF DecodeFails, Fails, UnlockAndReturn
  <2>6. CASE Close(t)
    BY <2>6, CallbackStep
  <2>7. CASE Finish(t)
    BY <2>7, ReturnStep DEF Finish, UnlockAndReturn
  <2> QED BY <1>4, <2>1, <2>2, <2>3, <2>4, <2>5, <2>6, <2>7 DEF Sample
<1>5. ASSUME NEW t \in Threads, Lock(t) PROVE Follows
    BY <1>5, SilentStep DEF Lock
<1>6. ASSUME NEW t \in Threads, Shutdown(t) PROVE Follows
  <2>1. CASE EndShutdown(t)
    BY <1>6, <2>1, ReturnStep DEF Shutdown, EndShutdown, UnlockAndReturn
  <2>2. CASE GoOnWithReset(t)
    BY <1>6, <2>2, SilentStep DEF Shutdown, GoOnWithReset
  <2> QED BY <1>6, <2>1, <2>2 DEF Shutdown
<1>7. ASSUME NEW t \in Threads, UpdateGenerationConfig(t) PROVE Follows
    BY <1>7, ReturnStep DEF UpdateGenerationConfig, UnlockAndReturn
<1> QED BY <1>1, <1>2, <1>3, <1>4, <1>5, <1>6, <1>7 DEF Next, Work

(* A streaming call returns true if and only if it made its closing call.  *)
THEOREM StreamsAreClosed == Spec => ClosedIffTrue
<1>1. IInv /\ [Next]_vars => [\A t \in Threads : ToldTheEnd(t)]_vars
  BY FollowsStep DEF Follows
<1> QED BY <1>1, Invariance, PTL DEF Spec, ClosedIffTrue, ToldTheEnd

(* The direct backend implements StreamContract for every consumer.        *)
THEOREM Implements == Spec => ContractSpec
<1>1. Init => \A t \in Threads : Consumer(t)!Init
  BY DEF Init, Consumer!Init
<1>2. IInv /\ [Next]_vars => [\A t \in Threads : Watched(t)]_vars
  BY FollowsStep DEF Follows
<1> QED BY <1>1, <1>2, Invariance, PTL DEF Spec, ContractSpec, Watched
=============================================================================
