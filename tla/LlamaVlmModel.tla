---------------------------- MODULE LlamaVlmModel ----------------------------
(***************************************************************************)
(* The direct backend: llama.cpp and mtmd inside the process               *)
(* (src/src/core/cpp/llama_vlm_model.cpp, with the sampling loop of          *)
(* sampler.cpp).  Every operation runs under mutex_ from its first line to *)
(* its last, a request included; only Reset reads config_ before it and    *)
(* releases it between its two halves.  What Initialize loads is named by  *)
(* the load it came from, so a context or a vision context is known by its *)
(* model.                                                                  *)
(***************************************************************************)
EXTENDS Integers, Sequences

CONSTANTS
    Threads,     \* client threads calling the service
    Loads,       \* identities of llama_models (reused once all is freed)
    Gens,        \* values of VlmGenerationConfig, named by max_tokens
    Rejected,    \* a configuration without text model, or with an ONNX one
    Null,        \* a null pointer
    NoThread,    \* mutex_ is free
    NoArg,       \* an operation without argument
    Context,     \* positions of a context, n_ctx (the model's own bound)
    MaxCalls     \* bound on the calls of each thread (the model's own)

ASSUME NullAssumption == Null \notin Loads /\ NoThread \notin Threads
ASSUME LimitAssumption == /\ Gens \subseteq Nat \ {0}
                          /\ Context \in Nat
                          /\ MaxCalls \in Nat

VARIABLES
    config,      \* config_
    ready,       \* ready_
    mutex,       \* owner of mutex_
    model, context, mtmd,                 \* model_, context_, mtmd_ctx_
    sampler,     \* generation settings the sampler chain was built from
    liveModels, liveContexts, liveMtmd,   \* what llama.cpp has not freed
    reloaded,    \* history: an Initialize found something loaded already
    failedLoad,  \* history: so far as it got to loading, the last one failed
    pc, op, arg, bitmap, chunks,          \* locals of each thread
    cur, nGen, made,                      \* ... in the sampling loop
    heard, closed, stopped, ret, calls    \* ... and what its caller saw

members  == <<config, ready, sampler>>
pointers == <<model, context, mtmd>>
heap     == <<liveModels, liveContexts, liveMtmd>>
history  == <<reloaded, failedLoad>>
sampling == <<cur, nGen, made>>
seen     == <<heard, closed, stopped>>
vars     == <<config, ready, mutex, model, context, mtmd, sampler, liveModels,
              liveContexts, liveMtmd, reloaded, failedLoad, pc, op, arg,
              bitmap, chunks, cur, nGen, made, heard, closed, stopped, ret,
              calls>>

-----------------------------------------------------------------------------
Config   == [vision : BOOLEAN, gen : Gens]
Input    == [image : BOOLEAN, callback : BOOLEAN]
Ops      == {"none", "Generate", "Stream", "Shutdown", "Initialize", "Reset",
             "Reinit", "Update"}
Creating == {"context", "mtmd", "commit"}
Sampling == {"sample", "callback", "decode", "close",
             "finish"}
Running  == {"bitmap", "chunks", "tokenize", "eval"} \cup Sampling
Critical == {"locked"} \cup Creating \cup Running
Points   == Critical \cup {"idle", "lock"}

(* The factory has constructed the object; Initialize comes next.          *)
Init ==
    /\ config \in Config /\ ready = FALSE /\ mutex = NoThread
    /\ model = Null /\ context = Null /\ mtmd = Null
    /\ sampler = Null
    /\ liveModels = {} /\ liveContexts = {} /\ liveMtmd = {}
    /\ reloaded = FALSE /\ failedLoad = FALSE
    /\ pc = [t \in Threads |-> "idle"] /\ op = [t \in Threads |-> "none"]
    /\ arg = [t \in Threads |-> NoArg]
    /\ bitmap = [t \in Threads |-> FALSE] /\ chunks = [t \in Threads |-> FALSE]
    /\ cur = [t \in Threads |-> 0] /\ nGen = [t \in Threads |-> 0]
    /\ made = [t \in Threads |-> 0] /\ heard = [t \in Threads |-> <<>>]
    /\ closed = [t \in Threads |-> FALSE]
    /\ stopped = [t \in Threads |-> FALSE]
    /\ ret = [t \in Threads |-> "none"] /\ calls = [t \in Threads |-> 0]

Goto(t, l) == pc' = [pc EXCEPT ![t] = l]

(* Back to the caller, with the locals of the call gone.                   *)
Return(t, r) ==
    /\ Goto(t, "idle")
    /\ op' = [op EXCEPT ![t] = "none"]
    /\ arg' = [arg EXCEPT ![t] = NoArg]
    /\ cur' = [cur EXCEPT ![t] = 0]
    /\ nGen' = [nGen EXCEPT ![t] = 0]
    /\ made' = [made EXCEPT ![t] = 0]
    /\ heard' = [heard EXCEPT ![t] = <<>>]
    /\ closed' = [closed EXCEPT ![t] = FALSE]
    /\ stopped' = [stopped EXCEPT ![t] = FALSE]
    /\ ret' = [ret EXCEPT ![t] = r]

(* The lock_guard goes out of scope and the operation is over.             *)
UnlockAndReturn(t, r) == mutex' = NoThread /\ Return(t, r)

-----------------------------------------------------------------------------
(* Calls.                                                                  *)

Begin(t, o, a) ==
    /\ pc[t] = "idle" /\ calls[t] < MaxCalls
    /\ calls' = [calls EXCEPT ![t] = @ + 1]
    /\ op' = [op EXCEPT ![t] = o]
    /\ arg' = [arg EXCEPT ![t] = a]
    /\ Goto(t, "lock")
    /\ ret' = [ret EXCEPT ![t] = "none"]
    /\ UNCHANGED <<members, mutex, pointers, heap, history, bitmap, chunks,
                   sampling, seen>>

(* Generate, and GenerateAsync and Chat, which pick their input and call it. *)
CallGenerate(t) ==
    \E b \in BOOLEAN : Begin(t, "Generate", [image |-> b, callback |-> FALSE])

(* GenerateStream and ChatStream, with or without a callback.              *)
CallGenerateStream(t) == \E i \in Input : Begin(t, "Stream", i)

(* Shutdown, and the destructor, which only calls it.                      *)
CallShutdown(t) == Begin(t, "Shutdown", NoArg)

CallInitialize(t) ==
    \E c \in Config \cup {Rejected} : Begin(t, "Initialize", c)

(* Reset copies config_ before it takes any lock.                          *)
CallReset(t) == Begin(t, "Reset", config)

CallUpdateGenerationConfig(t) ==
    \E g \in Gens : Begin(t, "Update", [config EXCEPT !.gen = g])

(* Mutant: Shutdown runs without the mutex.                                *)
LockUnlessShutdown(t) ==
    /\ pc[t] = "lock" /\ (mutex = NoThread \/ op[t] = "Shutdown")
    /\ mutex' = IF mutex = NoThread THEN t ELSE mutex
    /\ Goto(t, "locked")
    /\ UNCHANGED <<members, pointers, heap, history, op, arg, bitmap, chunks,
                   sampling, seen, ret, calls>>

Lock(t) ==
    /\ pc[t] = "lock" /\ mutex = NoThread
    /\ mutex' = t
    /\ Goto(t, "locked")
    /\ UNCHANGED <<members, pointers, heap, history, op, arg, bitmap, chunks,
                   sampling, seen, ret, calls>>

-----------------------------------------------------------------------------
(* Initialize: each pointer is overwritten, whatever it held before.       *)

Initializing(t) == pc[t] = "locked" /\ op[t] \in {"Initialize", "Reinit"}

InitializeRejects(t) ==
    /\ Initializing(t) /\ arg[t] = Rejected
    /\ UnlockAndReturn(t, "false")
    /\ UNCHANGED <<members, pointers, heap, history, bitmap, chunks, calls>>

Reloads == reloaded' = (reloaded \/ <<model, context, mtmd>> # <<Null, Null, Null>>)

LoadModel(t) ==
    /\ Initializing(t) /\ arg[t] # Rejected
    /\ \E m \in Loads \ (liveModels \cup liveContexts \cup liveMtmd) :
          /\ model' = m
          /\ liveModels' = liveModels \cup {m}
    /\ Reloads
    /\ Goto(t, "context")
    /\ UNCHANGED <<failedLoad, members, mutex, context, mtmd, liveContexts,
                   liveMtmd, op, arg, bitmap, chunks, sampling, seen, ret, calls>>

LoadModelFails(t) ==
    /\ Initializing(t) /\ arg[t] # Rejected
    /\ model' = Null
    /\ Reloads /\ failedLoad' = TRUE
    /\ UnlockAndReturn(t, "false")
    /\ UNCHANGED <<members, context, mtmd, heap, bitmap, chunks, calls>>

CreateContext(t) ==
    /\ pc[t] = "context"
    /\ context' = model
    /\ liveContexts' = liveContexts \cup {model}
    /\ Goto(t, IF arg[t].vision THEN "mtmd" ELSE "commit")
    /\ UNCHANGED <<members, mutex, model, mtmd, liveModels, liveMtmd, history,
                   op, arg, bitmap, chunks, sampling, seen, ret, calls>>

(* Mutant: the model is freed and its pointer kept.                        *)
CreateContextKeepsPointer(t) ==
    /\ pc[t] = "context"
    /\ context' = Null
    /\ liveModels' = liveModels \ {model}
    /\ UnlockAndReturn(t, "false")
    /\ failedLoad' = TRUE
    /\ UNCHANGED <<members, model, mtmd, liveContexts, liveMtmd, reloaded,
                   bitmap, chunks, calls>>

CreateContextFails(t) ==
    /\ pc[t] = "context"
    /\ context' = Null
    /\ liveModels' = liveModels \ {model} /\ model' = Null
    /\ UnlockAndReturn(t, "false")
    /\ failedLoad' = TRUE
    /\ UNCHANGED <<members, mtmd, liveContexts, liveMtmd, reloaded, bitmap,
                   chunks, calls>>

CreateMtmd(t) ==
    /\ pc[t] = "mtmd"
    /\ mtmd' = model
    /\ liveMtmd' = liveMtmd \cup {model}
    /\ Goto(t, "commit")
    /\ UNCHANGED <<members, mutex, model, context, liveModels, liveContexts,
                   history, op, arg, bitmap, chunks, sampling, seen, ret,
                   calls>>

(* Mutant: only the model is freed.                                        *)
CreateMtmdKeepsContext(t) ==
    /\ pc[t] = "mtmd"
    /\ mtmd' = Null /\ context' = Null
    /\ liveModels' = liveModels \ {model} /\ model' = Null
    /\ UnlockAndReturn(t, "false")
    /\ failedLoad' = TRUE
    /\ UNCHANGED <<members, liveContexts, liveMtmd, reloaded, bitmap, chunks,
                   calls>>

CreateMtmdFails(t) ==
    /\ pc[t] = "mtmd"
    /\ mtmd' = Null
    /\ liveContexts' = liveContexts \ {context} /\ context' = Null
    /\ liveModels' = liveModels \ {model} /\ model' = Null
    /\ UnlockAndReturn(t, "false")
    /\ failedLoad' = TRUE
    /\ UNCHANGED <<members, liveMtmd, reloaded, bitmap, chunks, calls>>

(* The sampler chain is rebuilt, which cannot fail; config_ and ready_ are *)
(* written last.                                                           *)
Commit(t) ==
    /\ pc[t] = "commit"
    /\ sampler' = arg[t].gen
    /\ config' = arg[t]
    /\ ready' = TRUE
    /\ UnlockAndReturn(t, "true")
    /\ failedLoad' = FALSE
    /\ UNCHANGED <<pointers, heap, reloaded, bitmap, chunks, calls>>

-----------------------------------------------------------------------------
(* Shutdown, Reset and UpdateGenerationConfig.                             *)

EndShutdown(t) ==
    /\ op[t] = "Shutdown"
    /\ UnlockAndReturn(t, "true")

(* Reset releases mutex_ and calls Initialize(saved), which takes it again. *)
GoOnWithReset(t) ==
    /\ op[t] = "Reset"
    /\ mutex' = NoThread
    /\ op' = [op EXCEPT ![t] = "Reinit"]
    /\ Goto(t, "lock")
    /\ UNCHANGED <<arg, ret, sampling, seen>>

(* Mutant: ready_ survives the resources.                                  *)
ShutdownStaysReady(t) ==
    /\ pc[t] = "locked" /\ op[t] \in {"Shutdown", "Reset"}
    /\ mtmd' = Null /\ liveMtmd' = liveMtmd \ {mtmd}
    /\ context' = Null /\ liveContexts' = liveContexts \ {context}
    /\ model' = Null /\ liveModels' = liveModels \ {model}
    /\ EndShutdown(t) \/ GoOnWithReset(t)
    /\ failedLoad' = FALSE
    /\ UNCHANGED <<config, ready, sampler, reloaded, bitmap, chunks, calls>>

Shutdown(t) ==
    /\ pc[t] = "locked" /\ op[t] \in {"Shutdown", "Reset"}
    /\ ready' = FALSE
    /\ mtmd' = Null /\ liveMtmd' = liveMtmd \ {mtmd}
    /\ context' = Null /\ liveContexts' = liveContexts \ {context}
    /\ model' = Null /\ liveModels' = liveModels \ {model}
    /\ EndShutdown(t) \/ GoOnWithReset(t)
    /\ failedLoad' = FALSE
    /\ UNCHANGED <<config, sampler, reloaded, bitmap, chunks, calls>>

(* Mutant: the sampler keeps the settings it was built with.               *)
UpdateConfigOnly(t) ==
    /\ pc[t] = "locked" /\ op[t] = "Update"
    /\ config' = [config EXCEPT !.gen = arg[t].gen]
    /\ UnlockAndReturn(t, "true")
    /\ UNCHANGED <<ready, sampler, pointers, heap, history, bitmap, chunks,
                   calls>>

UpdateGenerationConfig(t) ==
    /\ pc[t] = "locked" /\ op[t] = "Update"
    /\ config' = [config EXCEPT !.gen = arg[t].gen]
    /\ sampler' = arg[t].gen
    /\ UnlockAndReturn(t, "true")
    /\ UNCHANGED <<ready, pointers, heap, history, bitmap, chunks, calls>>

-----------------------------------------------------------------------------
(* DoGenerate, up to the first token.                                      *)

Fails(t) ==
    /\ UnlockAndReturn(t, "false")
    /\ UNCHANGED <<members, pointers, heap, history, calls>>

Continues(t, l) ==
    /\ Goto(t, l)
    /\ UNCHANGED <<members, mutex, pointers, heap, history, op, arg, seen,
                   ret, calls>>

Loaded == ready /\ model # Null /\ context # Null

NotInitialized(t) ==
    /\ pc[t] = "locked" /\ op[t] \in {"Generate", "Stream"} /\ ~Loaded
    /\ Fails(t)
    /\ UNCHANGED <<bitmap, chunks>>

DoGenerate(t) ==
    /\ pc[t] = "locked" /\ op[t] \in {"Generate", "Stream"} /\ Loaded
    /\ Continues(t, "bitmap")
    /\ UNCHANGED <<bitmap, chunks, sampling>>

(* LoadBitmapFromInput: an image that cannot be read or decoded is no      *)
(* image, and the request goes on with the text alone.                     *)
LoadBitmap(t) ==
    /\ pc[t] = "bitmap"
    /\ \E b \in BOOLEAN : /\ b => mtmd # Null /\ arg[t].image
                          /\ bitmap' = [bitmap EXCEPT ![t] = b]
    /\ Continues(t, "chunks")
    /\ UNCHANGED <<chunks, sampling>>

NewChunks(t) ==
    /\ pc[t] = "chunks"
    /\ chunks' = [chunks EXCEPT ![t] = TRUE]
    /\ Continues(t, "tokenize")
    /\ UNCHANGED <<bitmap, sampling>>

NewChunksFails(t) ==
    /\ pc[t] = "chunks"
    /\ bitmap' = [bitmap EXCEPT ![t] = FALSE]
    /\ Fails(t)
    /\ UNCHANGED chunks

(* Mutant: the chunks are not freed when tokenization fails.               *)
TokenizeLeaves(t) ==
    /\ pc[t] = "tokenize"
    /\ bitmap' = [bitmap EXCEPT ![t] = FALSE]
    /\ Fails(t)
    /\ UNCHANGED chunks

(* No vision context, or mtmd_tokenize fails.                              *)
TokenizeFails(t) ==
    /\ pc[t] = "tokenize"
    /\ bitmap' = [bitmap EXCEPT ![t] = FALSE]
    /\ chunks' = [chunks EXCEPT ![t] = FALSE]
    /\ Fails(t)

Tokenize(t) ==
    /\ pc[t] = "tokenize" /\ mtmd # Null
    /\ Continues(t, "eval")
    /\ UNCHANGED <<bitmap, chunks, sampling>>

(* mtmd_helper_eval_chunks; the sampler then starts to count its positions *)
(* at what llama_n_ctx_seq answers, which is the capacity of a sequence    *)
(* and not what the prompt has filled.                                     *)
Evaluate(t) ==
    /\ pc[t] = "eval"
    /\ chunks' = [chunks EXCEPT ![t] = FALSE]
    /\ \E n \in 0..Context : cur' = [cur EXCEPT ![t] = n]
    /\ Continues(t, "sample")
    /\ UNCHANGED <<bitmap, nGen, made>>

EvaluateFails(t) ==
    /\ pc[t] = "eval"
    /\ chunks' = [chunks EXCEPT ![t] = FALSE]
    /\ bitmap' = [bitmap EXCEPT ![t] = FALSE]
    /\ Fails(t)

-----------------------------------------------------------------------------
(* LlamaSampler::Sample and SampleStream.                                  *)

(* Mutant: the size of the context is not looked at.                       *)
SampleTokenAnyway(t) ==
    /\ pc[t] = "sample"
    /\ nGen[t] < config.gen
    /\ Continues(t, "decode")
    /\ UNCHANGED <<bitmap, chunks, sampling>>

(* A token that is not the end of generation; its piece may be empty.      *)
SampleToken(t) ==
    /\ pc[t] = "sample"
    /\ nGen[t] < config.gen /\ cur[t] + 1 < Context
    /\ \/ /\ arg[t].callback
          /\ made' = [made EXCEPT ![t] = @ + 1]
          /\ Continues(t, "callback")
       \/ UNCHANGED made /\ Continues(t, "decode")
    /\ UNCHANGED <<bitmap, chunks, cur, nGen>>

(* End of generation, max_tokens reached, or the context is full.          *)
EndSampling(t) ==
    /\ pc[t] = "sample"
    /\ Continues(t, "close")
    /\ UNCHANGED <<bitmap, chunks, sampling>>

(* Mutant: the answer of the callback is ignored.                          *)
CallbackIgnored(t) ==
    /\ pc[t] = "callback"
    /\ heard' = [heard EXCEPT ![t] = Append(@, made[t])]
    /\ \E cont \in BOOLEAN : stopped' = [stopped EXCEPT ![t] = @ \/ ~cont]
    /\ Goto(t, "decode")
    /\ UNCHANGED <<members, mutex, pointers, heap, history, op, arg, bitmap,
                   chunks, sampling, closed, ret, calls>>

(* The callback runs with mutex_ held; it may ask to stop.                 *)
Callback(t) ==
    /\ pc[t] = "callback"
    /\ heard' = [heard EXCEPT ![t] = Append(@, made[t])]
    /\ \E cont \in BOOLEAN :
          /\ stopped' = [stopped EXCEPT ![t] = ~cont]
          /\ Goto(t, IF cont THEN "decode" ELSE "close")
    /\ UNCHANGED <<members, mutex, pointers, heap, history, op, arg, bitmap,
                   chunks, sampling, closed, ret, calls>>

Decode(t) ==
    /\ pc[t] = "decode"
    /\ cur' = [cur EXCEPT ![t] = @ + 1]
    /\ nGen' = [nGen EXCEPT ![t] = @ + 1]
    /\ Continues(t, "sample")
    /\ UNCHANGED <<bitmap, chunks, made>>

DecodeFails(t) ==
    /\ pc[t] = "decode"
    /\ bitmap' = [bitmap EXCEPT ![t] = FALSE]
    /\ Fails(t)
    /\ UNCHANGED chunks

(* Mutant: a consumer that asked to stop is not told of the end.           *)
CloseUnlessStopped(t) ==
    /\ pc[t] = "close"
    /\ closed' = [closed EXCEPT ![t] = arg[t].callback /\ ~stopped[t]]
    /\ Goto(t, "finish")
    /\ UNCHANGED <<members, mutex, pointers, heap, history, op, arg, bitmap,
                   chunks, sampling, heard, stopped, ret, calls>>

(* The closing call, also to a consumer that asked to stop.                *)
Close(t) ==
    /\ pc[t] = "close"
    /\ closed' = [closed EXCEPT ![t] = arg[t].callback]
    /\ Goto(t, "finish")
    /\ UNCHANGED <<members, mutex, pointers, heap, history, op, arg, bitmap,
                   chunks, sampling, heard, stopped, ret, calls>>

Finish(t) ==
    /\ pc[t] = "finish"
    /\ bitmap' = [bitmap EXCEPT ![t] = FALSE]
    /\ UnlockAndReturn(t, "true")
    /\ UNCHANGED <<members, pointers, heap, history, chunks, calls>>

-----------------------------------------------------------------------------
Calls(t) == \/ CallGenerate(t) \/ CallGenerateStream(t) \/ CallShutdown(t)
            \/ CallInitialize(t) \/ CallReset(t)
            \/ CallUpdateGenerationConfig(t)

Initialize(t) == \/ InitializeRejects(t) \/ LoadModel(t) \/ LoadModelFails(t)
                 \/ CreateContext(t) \/ CreateContextFails(t)
                 \/ CreateMtmd(t) \/ CreateMtmdFails(t) \/ Commit(t)

Prepare(t) == \/ NotInitialized(t) \/ DoGenerate(t) \/ LoadBitmap(t)
              \/ NewChunks(t) \/ NewChunksFails(t) \/ Tokenize(t)
              \/ TokenizeFails(t) \/ Evaluate(t) \/ EvaluateFails(t)

Sample(t) == \/ SampleToken(t) \/ EndSampling(t) \/ Callback(t) \/ Decode(t)
             \/ DecodeFails(t) \/ Close(t) \/ Finish(t)

(* What a thread does inside a call.                                       *)
Work(t) == \/ Lock(t) \/ Initialize(t) \/ Shutdown(t)
           \/ UpdateGenerationConfig(t) \/ Prepare(t) \/ Sample(t)

Next == \E t \in Threads : Calls(t) \/ Work(t)

Spec == Init /\ [][Next]_vars

-----------------------------------------------------------------------------
(* Every variable has its type; the sampler counts no position beyond the  *)
(* context.                                                                *)
TypeOK ==
    /\ config \in Config /\ ready \in BOOLEAN
    /\ mutex \in Threads \cup {NoThread}
    /\ model \in Loads \cup {Null} /\ context \in Loads \cup {Null}
    /\ mtmd \in Loads \cup {Null} /\ sampler \in Gens \cup {Null}
    /\ liveModels \subseteq Loads /\ liveContexts \subseteq Loads
    /\ liveMtmd \subseteq Loads
    /\ reloaded \in BOOLEAN /\ failedLoad \in BOOLEAN
    /\ pc \in [Threads -> Points] /\ op \in [Threads -> Ops]
    /\ arg \in [Threads -> Config \cup Input \cup {Rejected, NoArg}]
    /\ bitmap \in [Threads -> BOOLEAN] /\ chunks \in [Threads -> BOOLEAN]
    /\ cur \in [Threads -> 0..Context] /\ nGen \in [Threads -> Nat]
    /\ made \in [Threads -> Nat] /\ heard \in [Threads -> Seq(Nat)]
    /\ closed \in [Threads -> BOOLEAN] /\ stopped \in [Threads -> BOOLEAN]
    /\ ret \in [Threads -> {"none", "true", "false"}]
    /\ calls \in [Threads -> 0..MaxCalls]

(* A pointer of the service is null or names something llama.cpp has not   *)
(* freed, and the model a held context was made from is alive: no order of *)
(* failing Initialize calls, Resets and Shutdowns leads to a use after     *)
(* free or a double free (Initialize's cleanup paths, Shutdown).           *)
NoDangling ==
    /\ model # Null => model \in liveModels
    /\ context # Null => context \in liveContexts \cap liveModels
    /\ mtmd # Null => mtmd \in liveMtmd \cap liveModels

(* Nothing is loaded that the service does not hold, whatever step of      *)
(* Initialize fails, as long as no Initialize finds the service loaded.    *)
NothingLost ==
    ~reloaded => /\ liveModels \subseteq {model}
                 /\ liveContexts \subseteq {context}
                 /\ liveMtmd \subseteq {mtmd}

(* A request evaluates and samples with one model: the context and the     *)
(* model it uses belong together and stay alive and in place until it is   *)
(* over, although Shutdown, Reset and Initialize of other threads are      *)
(* waiting (DoGenerate under mutex_).  So does the vision context, unless  *)
(* an Initialize once found the service loaded: one that names no vision   *)
(* model keeps the vision context of the model before it (lines 89-102).   *)
RequestKeepsItsModel ==
    \A t \in Threads : pc[t] \in Running \ {"bitmap", "chunks", "tokenize"} =>
        /\ model # Null /\ context = model
        /\ mtmd # Null /\ (~reloaded => mtmd = model)

(* Outside every call ready_ means that model and context are there, or    *)
(* that the last Initialize found the service ready and failed: it leaves  *)
(* ready_ TRUE over a null model_ (lines 68-101), and only the check of    *)
(* line 140 keeps requests from using it until the next Initialize.        *)
ReadyIsLoaded ==
    (mutex = NoThread /\ ready) =>
        IF failedLoad THEN model = Null ELSE model # Null /\ context = model

(* The sampler chain is the one config_ describes, so that a request that  *)
(* follows UpdateGenerationConfig, or a Reset, samples with its settings.  *)
SamplerFollowsConfig ==
    (mutex = NoThread /\ sampler # Null) => sampler = config.gen

(* A request that is over, however it ended, has freed its bitmap and its  *)
(* input chunks (every early return of DoGenerate).                        *)
NothingLeft == \A t \in Threads : pc[t] = "idle" => ~bitmap[t] /\ ~chunks[t]

(* A streaming call that returns true has made its closing call, one that  *)
(* returns false has not: the consumer never takes a failed stream for a   *)
(* finished one.                                                           *)
ClosedIffTrue ==
    [][\A t \in Threads :
          (op[t] = "Stream" /\ pc'[t] = "idle" /\ pc[t] # "idle" /\ arg[t].callback)
              => (closed[t] <=> ret'[t] = "true")]_vars

(* Each consumer sees the stream StreamContract describes.                 *)
Consumer(t) == INSTANCE StreamContract
                  WITH request <- <<calls[t], pc[t] = "idle">>,
                       heard <- heard[t], closed <- closed[t],
                       stopped <- stopped[t]
ContractSpec ==
    /\ \A t \in Threads : Consumer(t)!Init
    /\ [][\A t \in Threads : Consumer(t)!Next \/ UNCHANGED Consumer(t)!vars]_vars
=============================================================================
