----------------------------- MODULE ChatRequest -----------------------------
(***************************************************************************)
(* One call of Generate, GenerateAsync or Chat of the server backend, from *)
(* the messages to the result: the image, the payload, its temporary file, *)
(* curl, the answer.  Where ServerVlmModel follows the server's process    *)
(* and StreamRequest a stream of pieces, this module follows the data.     *)
(*                                                                         *)
(* A payload and an answer are records of the texts in them, each as it    *)
(* stands between its quotes; base64 is a sequence of kTable indices.      *)
(***************************************************************************)
EXTENDS LlamaServerCommand

CONSTANTS
    Given,    \* [config, chat, answer]: settings, messages, the model's answer
    Disk,     \* the contents of the files that can be read, by path
    Faults    \* what may go wrong in a call, at most one thing each

FaultKinds == {"start", "mkstemp", "write", "popen", "refused", "cut"}

ASSUME FaultsAssumption == Faults \subseteq FaultKinds

(* std::string, and files and images, which are bytes.                     *)
IsString(s) == s \in Seq(Range(s))
IsData(s) == s \in Seq(0..255)

(* What the command line has between quotes, and what it has without.      *)
ConfigStrings(c) ==
    {c.text_model_path, c.model_dir, c.smt_config_dir, c.media_path, c.cpu_affinity, c.host}
    \cup Range(c.vision_model_paths)
ConfigNumbers(c) == {c.port, c.context_size, c.threads, c.batch_threads,
                     c.n_gpu_layers, c.reasoning_budget}
ConfigWords(c) == {c.media_backend} \cup {ToString(n) : n \in ConfigNumbers(c)}
ShellSymbols == {"'", "backslash", "blank"}

ASSUME DiskAssumption == \A path \in DOMAIN Disk : IsData(Disk[path])

ASSUME GivenAssumption ==
    \A g \in Given :
        /\ IsString(g.chat) /\ IsString(g.config.stop_sequences)
        /\ \A m \in Range(g.chat) : IsString(m.content) /\ IsData(m.image_bytes)
        /\ \A s \in Range(g.config.stop_sequences) : IsString(s)
        /\ IsString(g.config.vision_model_paths)
        /\ \A s \in ConfigStrings(g.config) : IsString(s)
        /\ ConfigWords(g.config) \cap ShellSymbols = {}
        /\ g.config.media_backend \in {"smt", "mtmd", "auto"}
        /\ g.config.no_warmup \in BOOLEAN /\ g.config.enable_thinking \in BOOLEAN
        /\ IsString(g.answer.content)
        /\ {g.answer.created, g.answer.completion, g.answer.total} \subseteq Seq(Range(Digits))

VARIABLES
    given, op, fault,   \* chosen by the caller and the environment
    pc,
    argv,               \* <<the words that llama-server was started with>>
    image,              \* image_b64
    payload, file,      \* "none", "empty", "part", "whole"
    served,             \* what the server has understood, at most once
    status, printed,    \* curl: its exit status and its standard output
    result,             \* the caller's result object
    told,               \* the calls of the VlmAsyncCallback
    returned            \* TRUE or FALSE once the call has returned

scenario == <<given, op, fault>>
vars == <<given, op, fault, pc, argv, image, payload, file, served, status,
          printed, result, told, returned>>

config == given.config
chat == given.chat

NoResult == [text |-> <<>>, reasoning_content |-> <<>>,
             completion_tokens |-> 0, total_tokens |-> 0]

-----------------------------------------------------------------------------
(* The image.                                                              *)

(* No data stands for a file that cannot be read, too.                     *)
ReadBinaryFile(path) == IF path \in DOMAIN Disk THEN Disk[path] ELSE <<>>

HasImage(m) == m.role = "user" /\ (m.image_path # "" \/ m.image_bytes # <<>>)

(* The path has precedence over the bytes.                                 *)
ImageOf(m) == IF m.image_path # "" THEN ReadBinaryFile(m.image_path)
                                   ELSE m.image_bytes

(* The first user message with an image decides.                           *)
ExtractImageBase64(messages) ==
    LET with == {i \in DOMAIN messages : HasImage(messages[i])}
        data == ImageOf(messages[Min(with)])
    IN  IF with = {} THEN [ok |-> TRUE, image_b64 |-> <<>>]
        ELSE [ok |-> data # <<>>, image_b64 |-> Base64Encode(data)]

-----------------------------------------------------------------------------
(* The payload.  A member that is left out stands for what the server then *)
(* assumes: no thinking, no budget, no stop sequences (lines 432-456).     *)

Message(m, image_base64) ==
    [role |-> m.role, text |-> JsonEscape(m.content), image_url |-> image_base64]

BuildChatCompletionPayload(c, messages, image_base64, stream) ==
    [messages |-> [i \in DOMAIN messages |->
        Message(messages[i], IF i = Len(messages) /\ messages[i].role = "user"
                             THEN image_base64 ELSE <<>>)],
     max_tokens |-> c.max_tokens, temperature |-> c.temperature, top_p |-> c.top_p,
     enable_thinking |-> c.enable_thinking,
     reasoning_budget |-> IF c.enable_thinking /\ c.reasoning_budget > 0
                          THEN c.reasoning_budget ELSE 0,
     vision_history |-> c.history_policy,
     stop |-> [i \in DOMAIN c.stop_sequences |-> JsonEscape(c.stop_sequences[i])],
     stream |-> stream]

(* What the server makes of a payload, if its texts are JSON.              *)
Texts(p) == {p.messages[i].text : i \in DOMAIN p.messages} \cup Range(p.stop)
Parses(p) == \A t \in Texts(p) : JsonText(Posted(t)).ok

Understood(p) ==
    [p EXCEPT !.messages = [i \in DOMAIN @ |->
                  [role |-> @[i].role, text |-> JsonText(Posted(@[i].text)).text,
                   image |-> Base64Decode(@[i].image_url)]],
              !.stop = [i \in DOMAIN @ |-> JsonText(Posted(@[i])).text]]

(* Its answer to a chat.                                                   *)
Pair(key, value) == <<"quote", key, "quote", ":">> \o value
Text(value) == <<"quote">> \o JsonDump(value) \o <<"quote">>

Answer(a) ==
    Pair("role", Text(<<"assistant">>)) \o <<",">> \o Pair("content", Text(a.content))
    \o <<",">> \o Pair("created", a.created)
    \o <<",">> \o Pair("completion_tokens", <<"blank">> \o a.completion)
    \o <<",">> \o Pair("total_tokens", a.total) \o <<"}">>

-----------------------------------------------------------------------------
Init ==
    /\ given \in Given
    /\ op \in IF Len(given.chat) = 1 /\ given.chat[1].role = "user"
              THEN {"Generate", "GenerateAsync", "Chat"} ELSE {"Chat"}
    /\ fault \in Faults \cup {"none"}
    /\ pc = "start"
    /\ argv = <<>> /\ image = <<>> /\ payload = <<>> /\ file = "none"
    /\ served = <<>> /\ status = 0 /\ printed = <<>>
    /\ result = NoResult /\ told = <<>> /\ returned = "no"

(* GenerateAsync has a result object of its own, which only its callback   *)
(* sees; the call of the callback is over before it returns.               *)
Return(ok, value) ==
    /\ returned' = ok
    /\ pc' = "done"
    /\ IF op = "GenerateAsync"
       THEN told' = Append(told, [ok |-> ok, result |-> value]) /\ UNCHANGED result
       ELSE result' = value /\ UNCHANGED told

(* StartServerIfNeeded; its outcomes are the subject of ServerVlmModel.    *)
StartServer ==
    /\ pc = "start" /\ fault # "start"
    /\ argv' = <<ShellWords(BuildLlamaServerCommand(config))>>
    /\ pc' = "image"
    /\ UNCHANGED <<scenario, image, payload, file, served, status, printed, result, told, returned>>

StartServerFails ==
    /\ pc = "start" /\ fault = "start"
    /\ Return(FALSE, NoResult)
    /\ UNCHANGED <<scenario, argv, image, payload, file, served, status, printed>>

TakeImage ==
    /\ pc = "image"
    /\ ExtractImageBase64(chat).ok
    /\ image' = ExtractImageBase64(chat).image_b64
    /\ payload' = BuildChatCompletionPayload(config, chat, image', FALSE)
    /\ pc' = "mkstemp"
    /\ UNCHANGED <<scenario, argv, file, served, status, printed, result, told, returned>>

ImageUnreadable ==
    /\ pc = "image"
    /\ ~ExtractImageBase64(chat).ok
    /\ Return(FALSE, NoResult)
    /\ UNCHANGED <<scenario, argv, image, payload, file, served, status, printed>>

Mkstemp ==
    /\ pc = "mkstemp" /\ fault # "mkstemp"
    /\ file' = "empty"
    /\ pc' = "write"
    /\ UNCHANGED <<scenario, argv, image, payload, served, status, printed, result, told, returned>>

MkstempFails ==
    /\ pc = "mkstemp" /\ fault = "mkstemp"
    /\ Return(FALSE, NoResult)
    /\ UNCHANGED <<scenario, argv, image, payload, file, served, status, printed>>

(* The result of write() is not looked at.                                 *)
WritePayload ==
    /\ pc = "write"
    /\ file' = IF fault = "write" THEN "part" ELSE "whole"
    /\ pc' = "popen"
    /\ UNCHANGED <<scenario, argv, image, payload, served, status, printed, result, told, returned>>

(* Mutant: the early return does not remove the file.                      *)
PopenFailsAndLeaves ==
    /\ pc = "popen" /\ fault = "popen"
    /\ Return(FALSE, NoResult)
    /\ UNCHANGED <<scenario, argv, image, payload, file, served, status, printed>>

PopenFails ==
    /\ pc = "popen" /\ fault = "popen"
    /\ file' = "none"
    /\ Return(FALSE, NoResult)
    /\ UNCHANGED <<scenario, argv, image, payload, served, status, printed>>

Popen ==
    /\ pc = "popen" /\ fault # "popen"
    /\ pc' = "curl"
    /\ UNCHANGED <<scenario, argv, image, payload, file, served, status, printed, result, told, returned>>

(* The server answers a payload that it can parse.                         *)
Serve ==
    /\ pc = "curl" /\ fault # "refused"
    /\ file = "whole" /\ Parses(payload)
    /\ served' = <<Understood(payload)>>
    /\ IF fault = "cut" THEN printed' = <<>> /\ status' = 56
       ELSE printed' = Answer(given.answer) /\ status' = 0
    /\ pc' = "close"
    /\ UNCHANGED <<scenario, argv, image, payload, file, result, told, returned>>

(* curl -f: no server, or one that answers with an HTTP error.             *)
Refuse ==
    /\ pc = "curl"
    /\ fault = "refused" \/ file # "whole" \/ ~Parses(payload)
    /\ printed' = <<>> /\ status' = 22
    /\ pc' = "close"
    /\ UNCHANGED <<scenario, argv, image, payload, file, served, result, told, returned>>

(* pclose, unlink and the result.                                          *)
RequestFails ==
    /\ pc = "close" /\ status # 0
    /\ file' = "none"
    /\ Return(FALSE, NoResult)
    /\ UNCHANGED <<scenario, argv, image, payload, served, status, printed>>

Understand(response) ==
    LET content == StripThinkingBlocks(ExtractJsonString(response, "content"))
    IN  [text |-> content.text, reasoning_content |-> content.thinking,
         completion_tokens |-> ExtractJsonInt(response, "completion_tokens"),
         total_tokens |-> ExtractJsonInt(response, "total_tokens")]

(* Mutant: the status of curl is not looked at.                            *)
FinishAnyway ==
    /\ pc = "close"
    /\ file' = "none"
    /\ Return(TRUE, Understand(printed))
    /\ UNCHANGED <<scenario, argv, image, payload, served, status, printed>>

Finish ==
    /\ pc = "close" /\ status = 0
    /\ file' = "none"
    /\ Return(TRUE, Understand(printed))
    /\ UNCHANGED <<scenario, argv, image, payload, served, status, printed>>

Next ==
    \/ StartServer \/ StartServerFails
    \/ TakeImage \/ ImageUnreadable
    \/ Mkstemp \/ MkstempFails \/ WritePayload \/ Popen \/ PopenFails
    \/ Serve \/ Refuse \/ RequestFails \/ Finish

Spec == Init /\ [][Next]_vars

-----------------------------------------------------------------------------
(* What the server has been asked is what the caller and the configuration *)
(* say: every message with its role and its text, whatever characters it   *)
(* holds, the stop sequences, the limits, and on the last message, if it   *)
(* is the user's, the image of the first user message that has one.        *)
ServerSeesTheChat ==
    \A k \in DOMAIN served :
        LET seen == served[k]
            with == {i \in DOMAIN chat : HasImage(chat[i])}
            last == Len(chat)
        IN  /\ Len(seen.messages) = last
            /\ \A i \in DOMAIN chat :
                  /\ seen.messages[i].role = chat[i].role
                  /\ seen.messages[i].text = chat[i].content
                  /\ seen.messages[i].image =
                        IF i = last /\ chat[i].role = "user" /\ with # {}
                        THEN ImageOf(chat[Min(with)]) ELSE <<>>
            /\ seen.stop = config.stop_sequences
            /\ seen.max_tokens = config.max_tokens
            /\ seen.enable_thinking = config.enable_thinking
            /\ seen.vision_history = config.history_policy

(* llama-server was started with the settings of config_: each path, host  *)
(* and number is one word of the command line that sh -c has split, and    *)
(* options are there exactly when the configuration calls for them.        *)
ServerIsToldTheSettings == argv # <<>> => SaysTheConfig(argv[1], config)

(* The result of a call that returned true: text and thinking apart, as a  *)
(* reader of the answer would take them apart, and the token counts.  The  *)
(* server writes a control character as \u001b, which ExtractJsonString    *)
(* does not know (Legible), and a text that ends in the name of a count,   *)
(* right after its opening quote or one of its own, is taken for the count *)
(* (EndsAsKey); nothing else in a text can mislead the search.             *)
Legible(text) == "control" \notin Range(text)
EndsAsKey(text, key) ==
    /\ text # <<>> /\ Last(text) = key
    /\ Len(text) = 1 \/ text[Len(text) - 1] = "quote"

Answered == pc = "done" /\ returned = TRUE
Delivered == IF op = "GenerateAsync" THEN told[1].result ELSE result

AnswerIsUnderstood ==
    LET content == given.answer.content
        apart == ThinkingApart(content)
    IN  Answered =>
            /\ Legible(content) => /\ Delivered.text = apart.text
                                   /\ Delivered.reasoning_content = apart.thinking
            /\ ~EndsAsKey(content, "completion_tokens") =>
                   Delivered.completion_tokens = NumberOf(given.answer.completion)
            /\ ~EndsAsKey(content, "total_tokens") =>
                   Delivered.total_tokens = NumberOf(given.answer.total)

(* A call returns true exactly when nothing went wrong, the image could be *)
(* read, and no text holds a control character, which JsonEscape passes on *)
(* and no server accepts.  In particular an unchecked write() that wrote   *)
(* only a part never turns into an answer to something else.               *)
Sendable == /\ \A i \in DOMAIN chat : Legible(chat[i].content)
            /\ \A i \in DOMAIN config.stop_sequences :
                  Legible(config.stop_sequences[i])
Readable == LET with == {i \in DOMAIN chat : HasImage(chat[i])}
            IN  with # {} => ImageOf(chat[Min(with)]) # <<>>

TrueMeansAnswered ==
    pc = "done" => (returned = TRUE <=> fault = "none" /\ Sendable /\ Readable)

(* However the call ends, no payload file is left in /tmp, a failed call   *)
(* has not touched the caller's result, and GenerateAsync has called its   *)
(* callback exactly once, before it returned.                              *)
CallIsClean ==
    pc = "done" =>
        /\ file = "none"
        /\ (returned = FALSE => result = NoResult)
        /\ Len(told) = IF op = "GenerateAsync" THEN 1 ELSE 0
        /\ \A k \in DOMAIN told : told[k].ok = returned

(* "User messages may include image_path or image_bytes": an image that    *)
(* the server is shown belongs to the message it is attached to.           *)
ImageStaysWithItsMessage ==
    \A k \in DOMAIN served : \A i \in DOMAIN chat :
        served[k].messages[i].image # <<>> =>
            /\ HasImage(chat[i])
            /\ served[k].messages[i].image = ImageOf(chat[i])
=============================================================================
