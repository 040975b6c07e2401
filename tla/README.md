# Verification of the SpacemiT VLM component

TLA+ models, TLC model checking and TLAPS proofs for the C++ code of this
repository (`src/core/cpp`, `include/vlm_service.h`), the Python service
(`src/python/vlm.py`) and `scripts/download_model.sh`. Paths and line numbers in
this file are relative to the repository root; `PROJECT.json` and the headers of
the modules name the same files with the prefix `src/` of the checkout.

## 1. Inventory

| Component | State it keeps | Operations | What is hard |
| --- | --- | --- | --- |
| Server backend, process lifecycle (`server_vlm_model.cpp`) | `config_`, `ready_` (atomic), `server_pid_`, `mutex_`; one llama-server child | `Initialize`, `Shutdown`, `IsReady`, `Reset`, `UpdateGenerationConfig`, `StartServerIfNeeded`, `TerminateProcess`, `ServerResponds` | the mutex covers only some operations; forks, bounded polls, a child that dies, hangs or never listens; other servers on the port; pids that are reused |
| Server backend, streaming (`StreamRequest`) | payload temp file, curl pipe, accumulated text, chunk count | read lines, parse `data:` lines, call back, stop, finish | early stop by the consumer, curl failing after part of the text, lines longer than the buffer, `[DONE]` |
| Server backend, metrics and results | `metrics_`, the caller's result object | `UpdateMetricsForRequest`, `GetMetrics` | updated without a lock; result fields not written keep old values |
| Server backend, payload | `config_`, the messages | `BuildChatCompletionPayload`, `BuildLlamaServerCommand`, `ExtractImageBase64` | which image goes to which message; which setting goes where |
| Direct backend (`llama_vlm_model.cpp`) | llama model, context, mtmd context, sampler, `ready_`, `config_`, `metrics_`, `mutex_` | `Initialize`, `Shutdown`, `Reset`, `Generate`, `GenerateStream`, `Chat`, `ChatStream`, `UpdateGenerationConfig` | resources freed exactly once; partial failure of `Initialize`; callbacks run with the mutex held; `Reset` in two critical sections |
| Sampler (`sampler.cpp`) | sampler chain | `Initialize`, `Sample`, `SampleStream` | token and context limits, end of generation, stop by the consumer |
| Configuration (`vlm_config.cpp`) | none | YAML, manifest, validation, defaults | precedence of three sources, values out of range |
| Factory (`vlm_model_factory.cpp`) | none | `CreateVlmService`, `CreateVlmServiceFromConfig` | failure at each stage; `config.json` read several times |
| Utilities (`vlm_utils.cpp`) | none | base64, JSON escape and extraction, shell quoting, thinking blocks | text at the boundaries |
| Image loading (`mtmd_image.cpp`) | none | path or bytes to bitmap | failure of each stage, what is freed |
| Python service (`vlm.py`) | config, own process handle, metrics | constructor, `close`, `reset`, `generate*`, `chat*` | attaches to a server it did not start; never checks that it is open |
| Model download (`download_model.sh`) | files on disk | download, unpack, write config | interrupted runs that look complete |
| Gateway | not in this repository | REST API over the Python service | described in the documents only |

Interaction. The threads of a program call one `VlmService`; the factory picks
the server or the direct backend. The server backend forks llama-server and
talks to it through `curl` processes and pipes; the direct backend calls
llama.cpp and mtmd in process and passes every piece of a stream to the
caller's callback while it holds its mutex. The Python service does what the
server backend does, with a child of its own. Two services on one machine meet
only at the TCP port: whoever listens there answers the probe.

What makes each component correct:

* process lifecycle: at most one child, never a lost one, none after
  `Shutdown`; no signal to a pid that is no longer ours; no healthy server
  restarted; `ready_` backed by a child; every call returns; settings that a
  caller has set stay set and reach the server;
* streaming: nothing left behind by any early return; true means that every
  piece the reader can find was delivered; no piece after a stop; exactly one
  closing call for a success; the call returns;
* metrics: the count and the mean are those of the completed requests, and a
  time or rate is the request's own, or else it is known where it comes from;
* direct backend and sampler: no use after free, no leak, one model per
  request, `ready_` that means a model, the same consumer contract;
* configuration and factory: a service never runs with a value out of range or
  without a string that some file named, and the result does not depend on the
  route;
* payloads, commands and utilities: the server reads back what the caller and
  the configuration said, through the shell, JSON and base64; the caller reads
  back what the model answered; a call that fails leaves nothing;
* Python service: at most one child each, signalled only by the service that
  started it, none left by `close` or by the finalizer;
* download: what the next run and the service take for complete is complete.

`PROJECT.json` lists the hazards of this code at the lines where they bite, with
the properties that cover each.

## 2. Modules

| Module | Models | Composes or is used by |
| --- | --- | --- |
| `ServerVlmModel` | process lifecycle of the server backend | instantiates `OwnedServer` |
| `OwnedServer` | abstract: one owned child | implemented by `ServerVlmModel` and by each Python service |
| `MCServerVlmModel` | symmetry for TLC | extends `ServerVlmModel` |
| `MCGenerationConfig` | what the callers asked for, as a history variable | extends `ServerVlmModel` |
| `ServerVlmModelProofs` | theorems | extends `ServerVlmModel` |
| `StreamRequest` | one streaming request, its curl and its consumer | instantiates `StreamContract` |
| `StreamContract` | abstract: what a consumer sees | implemented by `StreamRequest` and, per thread, by `LlamaVlmModel` |
| `StreamRequestProofs` | theorems | extends `StreamRequest` |
| `ServerMetrics` | `metrics_` and the result objects | |
| `MCServerMetrics` | symmetry for TLC | extends `ServerMetrics` |
| `ServerMetricsProofs` | theorems | extends `ServerMetrics` |
| `TextCodecs` | the conversions of `vlm_utils.cpp`, each with its reader | extended by `LlamaServerCommand` |
| `LlamaServerCommand` | `BuildLlamaServerCommand` and what llama-server reads from it | extended by `ChatRequest` |
| `ChatRequest` | one `Generate`, `GenerateAsync` or `Chat`, from the messages to the result | extends `LlamaServerCommand` |
| `MCChatRequest` | settings, messages and answers for TLC | extends `ChatRequest` |
| `ChatRequestProofs` | theorems, and the lemmas about the conversions | extends `ChatRequest` |
| `LlamaVlmModel` | direct backend with the loops of the sampler | instantiates `StreamContract` |
| `LlamaVlmModelProofs` | theorems | extends `LlamaVlmModel` |
| `VlmConfig` | YAML, manifest, validation and factory as one pipeline | |
| `VlmConfigProofs` | theorems | extends `VlmConfig` |
| `PyVlmService` | the Python services of several programs and the port they share | instantiates `OwnedServer` for each |
| `PyVlmServiceProofs` | theorems | extends `PyVlmService` |
| `DownloadModel` | the download script, run after run | |
| `DownloadModelProofs` | theorems | extends `DownloadModel` |

Operators whose comment begins with `Mutant:` are not part of the model. Each
is an action or operator with a plausible bug, kept next to the one it would
replace; `PROJECT.json` pairs it with the property that then fails.

### ServerVlmModel

State: `config`, `ready`, `serverPid`, `mutex` are the members of
`ServerVlmModel`. `proc`, `launched` and `listener` are the kernel's view: the
state of each pid as a child of this program (`none`, `booting`, `serving`,
`killed`, `zombie`), the configuration each was started with, and who listens
on each port. Per thread there are a program counter, the operation and its
argument, and the locals of `StartServerIfNeeded` and `TerminateProcess`.

One action is one step between two points at which another thread, the child or
the kernel can interfere. Because `mutex_` protects only part of the state, the
critical sections are not single actions: the fast path reads `ready_` and
probes without the lock, requests read `config_` without it, and the kernel may
kill, reap or start processes at any time. `Initialize` writes `config_` and
`ready_` in two actions, since the fast path can run between them. `Reset` is
its three parts (copy of `config_`, `Shutdown`, `Initialize` of the copy) with
the lock released in between. `TerminateProcess` is the SIGTERM, the bounded
polls with `WNOHANG`, the SIGKILL and the blocking `waitpid`, each an action.

The constant `Faults` says what the environment may do: `fork` (fork fails),
`probe` (a probe times out although the server is there), `listener` (another
program listens on the port), `hostreap` (the host program collects the
children, so that `waitpid` answers ECHILD). Such a host may also collect the
shell of the probe's `popen`, and `ServerResponds` then answers FALSE for a
server that is there (line 538); that is `hostreap` with `probe`, a combination
that `srv_truthful`, whose probes tell the truth, leaves out.

### StreamRequest

The reader is the function line by line: `mkstemp`, `write`, `popen`, the
`fgets` loop, `pclose`, `unlink`, the result. The writer is curl, and the
server behind it: it writes lines into a bounded pipe, is cut, gets EPIPE once
the reader has left, or ends. A line is what the reader can tell apart: one
that gives text (a delta), a `data: ` line that gives none, another line or the
tail of one that does not fit the 4096-byte buffer; and in each whether it holds
the text `data: [DONE]`. Line 653 looks for that text anywhere in a line, before
it looks at the prefix, so an answer that speaks of it (`quote` in `Faults`) ends
the loop there. The deltas the reader can find are numbered, which is enough to
see loss, duplication and reordering; `long` and `quoted` are history variables
for the two ways in which text is lost under a true result.

### ServerMetrics

`UpdateMetricsForRequest` field by field, since it runs without `mutex_`. The
average is a pair (sum, count) instead of a double, so that exactness can be
stated; the second load of `total_requests` in the expression for the mean is a
nondeterministic choice between the value in memory and the value just stored,
as the data race allows either. The result objects of the callers are modelled
because the non-streaming calls feed fields into the metrics that they have not
written themselves: `Chat` the time to first token (line 246), and `Generate`
and `Chat` the rate of an answer without tokens. Callers pass a new object, one
they have used before, or a null pointer; `filled` and `before` are history
variables that say which calls have filled an object.

### TextCodecs, LlamaServerCommand, ChatRequest

These follow the data. A text is a sequence of symbols: the characters that
shell, JSON, base64 and the thinking markup treat specially, and words that no
function looks into. Each conversion stands beside the reader it has to agree
with: `JsonEscape` beside a JSON parser, `ShellQuote` beside the word splitting
of a POSIX shell, `Base64Encode` beside a decoder, `StripThinkingBlocks` beside
a definition that walks the text once. `ExtractJsonString` and `ExtractJsonInt`
search the answer as the code does, so a text that looks like a JSON key can
mislead them in the model as well.

`ChatRequest` puts them together. One call runs from the caller's messages
through `ExtractImageBase64`, `BuildChatCompletionPayload`, the temporary file,
curl and the server to the caller's result; the command line that starts the
server is split by a shell on the way. Each step may fail (`Faults`). The
properties never mention escaping: they compare what the caller said with what
the server understood, and what the model answered with what the caller got.

### LlamaVlmModel

Every operation of the direct backend from lock to unlock, each step that can
fail with both outcomes, and the loops of `Sample` and `SampleStream` token by
token. What `Initialize` loads is named by the load it came from, so a context
that belongs to another model than the one held can be told apart; llama.cpp's
own bookkeeping (`liveModels`, `liveContexts`, `liveMtmd`) is what has been
created and not freed. Two history variables: `reloaded`, an `Initialize` found
something loaded; `failedLoad`, the last one that got as far as loading failed.
`cur` counts as `n_cur` of the sampler does, which starts at what
`llama_n_ctx_seq` answers, the capacity of a sequence, and not at the positions
that the prompt has filled; that answer is any number up to `Context`. Because
the whole of every operation runs under one mutex, the other threads can only
wait; `Reset`, which releases the mutex between its halves and copies `config_`
before the first, is where they get in.

### VlmConfig

A YAML file and a `config.json` are chosen arbitrarily, and the pipeline runs:
`LoadVlmConfigFromYaml`, `LoadVlmManifest`, `ValidateVlmModelConfig`,
`CreateVlmService` with its second validation, `Initialize`; or a caller builds
the configuration by hand. `config.json` is read up to three times on the way
and another process may put it in place in between (`Installed`). A YAML file
that cannot be read or parsed ends the creation, a `backend_type` that is no
scalar throws. Strings are
known by their origin, numbers are integers.

### PyVlmService

Each service is an object in a program of its own; what they share is the
machine, that is the port (`listener`) and the pids. `process` and `done` are
`self._process` and whether its return code is known: `subprocess.Popen` leaves
a pid alone once it has collected it, and the model does the same in `Collect`
and `Signal`. A constructor attaches to whatever answers on the port and starts
a child only if nothing does. One that raises leaves an object nobody holds, so
that only `__del__` can stop its child; after a `reset` that raises the caller
still has the object. `close` is poll, SIGTERM, a bounded wait, SIGKILL and a
second wait, each an action. `Crash` kills a program; its children pass to init.

### DownloadModel

The disk after every step of the script, and the next run on what it finds.
An archive holds its members in any order, with or without a `config.json` in
the place where the script looks for it; separate files are fetched one after
the other, and the script writes `config.json` itself at the end. Every step can
fail or be interrupted. What was written stays written: the script never
flushes its files, and what a loss of power could take back is left out.

## 3. Runs

Runs that must pass:

| Run | Instance | What it shows |
| --- | --- | --- |
| `srv_children` | 3 threads, 2 pids, 1 port, 2 calls each, all faults but `hostreap` | no child is lost, signalled after it was collected, or left by `Shutdown`; `OwnedServer` is implemented |
| `srv_truthful` | 2 threads, 2 ports, 2 calls each, a host that may collect the children, fairness | `ready_` is backed by a child; a start never signals a server that can answer on the configured port, also after an `Initialize` that moved the port; every call returns |
| `stream_all` | 3 lines, a pipe of 2 lines, all faults, with and without callback, fairness | nothing left behind; true means every delta the reader can find, and the whole text without long lines and quoted end markers; `StreamContract` (order, no piece after a stop, the closing call); the call returns although curl may be blocked on the pipe |
| `metrics_exact` | 2 threads, 2 latencies, 3 calls in all, results new, used or null; symmetry of the threads | as long as no two updates overlap, count and mean are exact, a stream reports its own times, and a non-streaming call a time only if it is a `Chat` on an object that a `ChatStream` filled before |
| `direct_all` | 2 threads, 2 loads, 2 settings, contexts of 4 positions, 2 calls each | the nine properties of the direct backend, `StreamContract` per consumer included |
| `config_create` | ports 0, 8090, 65536; numbers 0 and 3; every key present or absent | every service created has its numbers in range and its strings set, but for a text model that no file named in time; a second validation changes nothing; both routes give the same service |
| `chat_all` | see `MCChatRequest`; all faults | the server is asked what the caller said and started with what `config_` says; the answer is understood; true means answered; nothing is left by a failure |
| `py_all` | 2 services, 2 pids, 4 calls in all, all faults, fairness | no child is forgotten or signalled by another service; `close` leaves nothing; each service implements `OwnedServer`; every call returns |
| `download_all` | 3 runs of the script; 8 archives or separate files | `config.json` is never beside an unfinished model if it comes last; a run that succeeds leaves a whole one |

Runs that find a disagreement between the code and what the repository says of
it; each checks one property, quoted in `PROJECT.json` under "findings":

| Run | Property | What happens |
| --- | --- | --- |
| `srv_lost_update` | `SettingsAreKept` | `Reset` copies `config_` first; an `UpdateGenerationConfig` that completes before `Reset` puts the copy back is lost |
| `stream_refused` | `RefusalFails` | the streaming curl has no `-f`: an HTTP error is a successful stream without text |
| `chat_image` | `ImageStaysWithItsMessage` | the image of the first user message that has one is sent with the last message, or not at all |

Other disagreements, found while modelling, that need no interleaving to show
and have no run:

* settings that only appear on llama-server's command line (context size,
  threads, thinking) do not reach a server that is already running
  (`server_vlm_model.cpp:304-309`);
* two overlapping updates of `metrics_` lose a request
  (`server_vlm_model.cpp:467`), which is why `UndisturbedIsExact` has its
  hypothesis;
* `Initialize` on a loaded direct backend, or two concurrent `Reset`s, overwrite
  the pointers; what they held is never released (`llama_vlm_model.cpp:68`,
  the exception in `NothingLost`). If that `Initialize` fails, `ready_` stays
  TRUE over a null `model_` (lines 68-101), so `IsReady()` answers TRUE for a
  service that refuses every request; `ReadyIsLoaded` says exactly this. One
  without vision models keeps the vision context of the old model (the
  exception in `RequestKeepsItsModel`);
* a `Chat` on a result object that a `ChatStream` has filled reports the time of
  that stream to the metrics (`server_vlm_model.cpp:246`), although
  `docs/production/vlm_api_reference.md:212` and `:767` promise 0.0 for
  non-streaming calls (the exception in `TimedExactlyWhenStreamed`);
* a stream loses the rest of a line of more than 4095 bytes
  (`server_vlm_model.cpp:646`), and every line from the first that holds the
  text `data: [DONE]`, wherever it stands (line 653); the call can return true
  all the same (the exceptions in `TrueMeansWhole`);
* a server service can be created without a text model: nothing demands
  `text_model_path` for that backend, and `BuildLlamaServerCommand` passes it as
  an empty `-m` (`server_vlm_model.cpp:328`), so that every start times out (the
  exception in `ServiceIsSound`);
* a `fork` that fails after the old server was stopped leaves `ready_` TRUE
  (`server_vlm_model.cpp:500`), the assumption of `ReadyIsBacked`;
* a Python service answers requests after `close` as long as anybody listens on
  the port, although `docs/production/vlm_api_reference.md:498` rules them out;
* `JsonEscape` passes control characters other than newline, return and tab on,
  and `ExtractJsonString` reads `\u001b` as the text `u001b` (`Legible` and
  `Sendable` are the exceptions in the properties);
* `top_k` and `repeat_penalty` are accepted and reach neither the payload nor
  the command line of the server backend.

### Bounds and why they are enough

* `MaxPolls` (120 in the code) and `MaxWaits` (30) only count. Two distinguish
  a first, a repeated and a last iteration, and the proofs hold for every
  positive value.
* Three threads are the largest number that a lifecycle property relates: one
  in the critical section, one waiting for the lock, one on the fast path. Two
  suffice for the lost update, for the metrics and for the direct backend,
  whose threads only exchange the mutex. The theorems need no bound.
* Two pids let an old and a new child exist at once, and let a pid be used
  again after it was collected. A lost child would block one for good.
* Two calls per thread allow all pairs of operations in every interleaving, and
  start followed by reconfiguration, or reconfiguration by restart, in one of
  them. The theorems cover longer histories.
* In `stream_all` three lines reach beyond the pipe (two), so curl blocks on the
  full pipe and receives EPIPE; every kind of line occurs at every position.
* `Context = 4` and `max_tokens` 1 or 2 reach both ends of the sampling loop:
  tokens run out first, or the count of positions does, at once or later.
* `Ports` and `Numbers` in `config_create` hold a value below, in and above
  each range that the code tests.
* In `chat_all` settings, messages and answers are varied one kind at a time
  against a plain value of the others, since no conversion reads two of them.
  Within a kind: every list of up to two paths, empty ones and ones with a
  blank, a quote or a backslash included; one to three messages with images of
  0, 1, 3 and 4 bytes (each padding of base64), by path, by bytes or both;
  every answer of up to four symbols of the thinking markup, enough for two
  blocks, a nested one and an unclosed one.
* In `py_all` two services are the smallest number that can meet at a port. Four
  calls allow both to start, and one to be closed and constructed or reset
  again while the other goes on.
* In `download_all` three runs are an interrupted one, one that goes on from its
  rest, and one that finds what the second has left.

Deadlock checking is off because every model has legitimate final states: all
calls are used up, the request has returned, the service is created.

### Fairness

`srv_truthful`, `stream_all` and `py_all` assume weak fairness of the thread
inside a call (the operating system schedules it, `sleep` and a poll return,
curl is bounded by `--max-time`) and that a process that received SIGKILL exits.
Nothing is assumed of a child that received SIGTERM only: it may ignore it,
which is why `TerminateProcess` needs the SIGKILL. Nothing is assumed of
callers: they may never call again. Weak fairness is enough for the mutex,
because the number of calls is bounded in the model: a waiting thread can be
overtaken only finitely often, and once the others are idle its `Lock` stays
enabled. With unboundedly many callers `std::mutex` promises no more than that
somebody makes progress. For `StreamRequest`, fairness of `Ends` is the same
`--max-time`: curl comes to an end even if the server sends for ever, except
while it sits in a write to a pipe that is full and open (`Blocked`), where
nothing ends it but the reader. In
`PyVlmService` a step may depend on the deadline of `_wait_for_server` or on the
timeouts of `urlopen` and `Popen.wait`, which run out by themselves.

## 4. Proofs

Eight modules prove safety properties for every value of the constants: any
number of threads, services, pids, ports, loads and settings, any length of an
answer and capacity of a pipe, any numbers in the configuration files, texts,
images, paths and command lines of any length, and every bound. What they assume
of the constants TLC evaluates in the runs: sentinels are not ordinary values,
bounds are (positive) naturals, `Faults` is a set of the known faults,
`max_tokens` is positive, texts are finite sequences and files sequences of
bytes. Further hypotheses stand in the
statements. Each module has one inductive invariant, `IInv` or named parts, with
one step per action in the proof that it is kept.

| Module | Theorems |
| --- | --- |
| `ServerVlmModelProofs` | `TypeCorrect`, `Invariance`, `ChildrenTracked`, `ShutdownIsFinal`, `SignalsAreSafe`, `ReadyIsBacked`, `HealthyServerIsSpared`, `Implements` |
| `LlamaVlmModelProofs` | `TypeCorrect`, `Invariance`, `PointersAreAlive`, `NothingIsLost`, `RequestsAreIsolated`, `ReadyIsBacked`, `SamplerIsCurrent`, `RequestsCleanUp`, `StreamsAreClosed`, `Implements` |
| `StreamRequestProofs` | `Invariance`, `RequestsCleanUp`, `NothingIsMissing`, `Implements` |
| `ServerMetricsProofs` | `CountIsExact`, `TimesAreMeasured` |
| `VlmConfigProofs` | `Invariance`, `ServicesAreSound`, `RevalidationChangesNothing`, `RoutesAgree` |
| `PyVlmServiceProofs` | `Invariance`, `ChildrenTracked`, `SignalsAreSafe`, `ClosingIsFinal`, `Implements` |
| `ChatRequestProofs` | `CallsAreClean`, `ServerIsAskedTheChat`, `CallsAreTruthful`, `SettingsAreTold`, `AnswersAreUnderstood` |
| `DownloadModelProofs` | `Invariance`, `ManifestsAreTrue`, `SuccessIsComplete` |

**Server backend.** `NoOrphan` is not inductive: it says nothing of who may
write `server_pid_`. The inductive invariant `IInv` adds

* `Typed`: the types, where the loop counters may reach their bounds, and which
  operation runs where;
* `Locking`: a thread is between lock and unlock iff it owns `mutex_`. It
  follows that at most one is, and that nobody else touches `server_pid_`;
* `Holding`: what that thread knows. In `TerminateProcess` its `pid` is
  `server_pid_`; at `fork` there is no child at all; at `adopt` the child it
  forked is the only one; at `reaped` the old one is gone.

From it follow, with one step per action, `ChildrenTracked`, `ShutdownIsFinal`,
`SignalsAreSafe` (when the host does not collect children itself; with it,
`kill` on a stale pid is possible and the assumption is needed) and
`ReadyIsBacked` (when `fork` does not fail: a failing one leaves `ready_` as it
was). `HealthyServerIsSpared` needs a second invariant, `PortsServed`, which
relates `proc`, `launched` and `listener`; it assumes truthful probes and no
other program on the port. `Implements` shows that every step is a step of
`OwnedServer` or leaves `own` and `alive` alone: `Fork` is `Spawn`,
`ChildExits` is `Exit`, the two `waitpid`s (and a host that collects) are
`Reap`. That at most one child exists is the lemma `OneChild`.

**Direct backend.** The inductive invariant is `Loading /\ Serving`.
`Loading` says what is loaded: `Typed`, `Locking` as above, `NoDangling`,
`NothingLost`, `Held` (what `Initialize` has created so far at each of its
points, and that a request has a model and a context, and from its evaluation
on a vision context), `Backed` (what `ready_` stands for between the calls of
`Initialize`: a model and its context, or a null model after a failed one on a
ready service) and `Single` (as long as no `Initialize` has found the service
loaded, one in progress started from nothing and `ready_` means loaded).
`NoDangling` alone is not inductive: the cleanup of a failed
`llama_init_from_model` frees the new model, and only `Held` says that the
vision context still held, if any, belongs to another one. `Serving` says what
a request may still do: the sampler chain matches `config_`, where bitmap and
chunks are held, and what the consumer was told. Each theorem then is a short
consequence; for instance `RequestsAreIsolated` takes model and context from
`Held`; that the vision context is the same model's follows since it is alive
(`NoDangling`) and, as long as nothing was reloaded, only one model is (`NothingLost`). `Implements` and
`StreamsAreClosed` share the lemma `FollowsStep`: a step is silent, begins a
call, ends one, or is one of the two that call the callback.

**Streaming.** `TrueMeansWhole` speaks of the end; on the way the deltas are
spread over three places. `Reading` says that the numbers from 1 to the last one
sent lie in order and without a gap in the accumulated text, then in the line
buffer, then in the pipe (`Queue`). Sending appends to the last (`QueueAppend`),
reading takes from it (`QueueHead`), and at the end of file it is empty
(`QueueEmpty`). `Life` says what exists at each point, from which `NothingLeft`
follows, and that curl can have succeeded only after the whole answer. A delta
that stands behind the text of the end marker has no number, and `Reading` says
that the reader meets that text first (`Clear`). `Telling` keeps the consumer and
the text in step, which gives `Implements`.

**Metrics.** Count and mean are exact only between updates, and a single update
passes through states in which they disagree. `Exact` says for each point of an
update by how much, as long as no two overlap. That the new mean is right is
`MeanGrows`: the mean times the old count plus the new latency, over the new
count. `TimesAreMeasured` holds for whatever objects callers pass: `Honest` says
of each result object what it can hold by what has filled it (`Carries`), and of
each report what it may say by what had filled its object (`Agrees`).

**Configuration.** The heart is that validation is idempotent although it may
read `config.json` again (`ValidationSettles`): the second reading finds what
the first has found (`Again`), and values in range stay (`SanitizeTwice`).
`ManifestFirst` shows that reading `config.json` before validation, which reads
it again, gives the same as validation alone. The invariant says of each point
which validated configuration `config` is; it refers to what `config.json` holds
now, hence the exception for one that has just appeared. `Unnamed` follows the
text model: reading `config.json` and validating leave it empty only if it was
empty and `config.json` named none or could not be read (`LoadedText`,
`ValidatedText`).

**Python service.** `NoOrphan` is strengthened by what a service holds at each
point of a call (`Control`): between its probe and the start of a child it holds
none, while it polls or signals it holds one that it has not collected.
`StepKinds` sorts the actions into the few things that a step can do to the
processes (start, signal, collect, exit, crash, nothing), so that the other
proofs have one case for each of these. No property needs an assumption on the
faults: also a health check that lies or a foreign listener cannot make a
service lose or signal the wrong process.

**Chat request.** `CallsAreClean` holds for any settings, messages, images and
answers: it depends on the order of the steps and their early returns only, not
on the conversions. The others follow the data through the conversions, for
texts and images of every length:

* `ServerIsAskedTheChat`. The invariant `Asked` says of each point that the
  payload, if there is one, is the one built from the chat and the image found
  in it. That the server understands what was said is then `JsonRoundTrip`: curl
  (`Posted`) and a JSON parser give back every text that `JsonEscape` was given,
  and `Base64RoundTrip`: a decoder gives back every image.
* `CallsAreTruthful`. That a call returns `true` only if nothing failed is
  control flow (`Truthful`); that it returns `true` whenever nothing failed
  needs `ParsesIffSendable`: the JSON that `JsonEscape` writes is accepted
  exactly when the text holds no control character, which it passes through
  raw.
* `SettingsAreTold`. The command line is read back twice. `sh` splits it
  (`Says`: the words read so far and the state in which the next piece is read;
  `ShellQuote` of any text says exactly that text, `Writes`), then llama-server
  walks the words (`Tells`: which options the words so far set; each value
  follows its own option, so a path that looks like an option is not taken for
  one). The settings follow piece by piece in the order in which
  `BuildLlamaServerCommand` writes them (`Begins`, `Part`).
* `AnswersAreUnderstood`. What a call hands out is `Understand` of the answer
  to its own request (`Brought`); the rest is about the answer. `AnswerIs` says
  where in it each member stands. A quote inside a text is always written after
  a backslash (`DumpsShield`), so the search for `"content"` ends at the member
  (`ContentIsFound`) and `Unescape` undoes, symbol by symbol, what the server
  wrote (`TextComesBack`). The search for a count ends at the count
  (`CountIsFound`), unless the text ends in the count's name right after a
  quote: there the quote that closes the text completes a key. `EndsAsKey` is
  exactly that exception: `KeyIsFound` needs nothing else. The loop
  of `StripThinkingBlocks`, three searches at a time, is compared with the
  reader that walks the text once: from every position at which the reader may
  go on (`Ready`), both add the same text and the same thinking (`Agree`, by
  induction from the end of the text; `StripsApart`).

All of these are inductions over texts. The induction theorems of the library
take an operator as a parameter, which the provers cannot instantiate.
`SetInduction` states induction for a set of naturals instead: if some number is
missing, a smallest one is, because inclusion of finite sets is well founded.
`SeqInduction` is the same for sequences that grow at the end. A fold of the
community modules is then known by its values at the empty sequence and after
one more element (`Run`), and every reader in `TextCodecs` is such a fold. A loop
that goes on at a later position is a recursive function on positions, which
exists because the positions grow (`ChainExists`).

`GivenAssumption` and `DiskAssumption` say what the code's types say: texts are
`std::string`s, that is, finite sequences, files and images are bytes, a flag is
a Boolean, llama-server prints times and counts of tokens as decimal digits, and
what stands unquoted on the command line (numbers, and the name of a media
backend, of which the code writes three) holds no character that a shell splits
at or removes.

**Download.** The invariant follows an archive member by member: all of it but
the rest in `todo` is whole (`Unpacking`), so that once `config.json` has been
seen and comes last, every part lies before it (`LastIsLast`). That an archive
holds every part, and each member once, is `ArchivesHold`. A run writes to a
part only while `config.json` is absent, since otherwise it is skipped; that
keeps `ManifestMeansComplete` true while an old download is overwritten.

Checked by TLC only: all liveness (`CallsReturn` of both services,
`StreamReturns`), which this prover cannot do.

## 5. Abstractions and limits

* The copy of `config_` that `Reset` makes without the lock is one step. The
  code copies a structure of strings; a copy torn by a concurrent write is
  undefined behaviour beyond the lost update that the model shows.
* The reads of `config_` by a request are of the port and of nothing else.
* Callbacks do not call the service. With the direct backend they would wait
  for a mutex their own thread holds; no document allows or forbids it.
* Other servers on the port are a fault the properties must survive. That a
  request can reach one follows at once from the probe and is listed as a
  hazard rather than checked.
* The number at which the sampler starts to count positions is any number up to
  the context: the code takes it from `llama_n_ctx_seq`, which llama.cpp owns.
  What happens at the real edge of the context is `llama_decode`'s answer, which
  may be a failure after any token. No property is stated about the limits of
  sampling: it would only repeat the guards of the loop.
* In the direct backend the counters of `metrics_` are left out; unlike those
  of the server backend they are only touched under the mutex.
* In `VlmConfig` temperatures, stop sequences and the narrowing of 64-bit JSON
  numbers are left out. The model directory has a name, that is, it is not `/`,
  and a `config.json` names a vision model.
* In `ChatRequest` the JSON around the texts of a payload is a record, and the
  numbers in it are passed on. The members of an answer come in one order, the
  role before the content and the counts after it; one other member, `created`,
  stands for those that no function looks for; there is no `reasoning_content`
  beside the content. A write that fails writes a part, and the server refuses
  it. A member that the payload leaves out (`enable_thinking` when it is off, the
  budget, the stop sequences) is written as what the server assumes without it.
  Temperature, `top_p` and the budget are passed on and not compared. Texts are
  valid UTF-8: no symbol stands for a broken sequence.
* `fork` copies the open descriptors of the other threads into the child; the
  pipe of a stream that is read at that moment then stays open on one more side.
  The models know processes and not descriptors.
* A pid is not handed out by the kernel to another program while this program
  has not collected it; after that it may be, which is what `SignalsOwnChild`
  is about.

Not modelled:

* in `vlm.py` the defaults read from YAML, the payloads, the parser of the
  streamed lines and the counters of `get_metrics`: they repeat what
  `ChatRequest` and `StreamRequest` check for C++, without processes of curl or
  temporary files;
* `ReadFileToString` and `SetError` in `vlm_utils.cpp`: library calls around a
  file and a pointer;
* the sampler chain and the decoding of images: llama.cpp, mtmd and the image
  library;
* two download scripts at once, which share the archive's file;
* examples, demos and tests, which are callers without state of their own; the
  gateway, which is not in this repository.

## 6. Plan

Done, in this order: process lifecycle and its proofs, streaming, metrics,
direct backend and its proofs, configuration and factory; then the Python
service and its proofs, the text conversions, the command line and the chat
request, the download script, and the proofs of streaming, metrics,
configuration and download, and of the chat request with its conversions.

Next:

1. The Python stream parser against `StreamContract`, as the C++ one.
2. Two download scripts at once.
3. The counters of `GetMetrics` in the direct backend, under its mutex.

Runs are few on purpose. A new component takes the place of the violation run
that says least, or joins a run that asks the same question.
