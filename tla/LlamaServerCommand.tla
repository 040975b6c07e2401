-------------------------- MODULE LlamaServerCommand --------------------------
(***************************************************************************)
(* BuildLlamaServerCommand: the command line that `sh -c` runs to start    *)
(* llama-server, and what llama-server reads from it.  Strings of the      *)
(* configuration are sequences of symbols, the empty one included.         *)
(***************************************************************************)
EXTENDS TextCodecs

Flag(name) == <<"blank", name>>
With(name, value) == <<"blank", name, "blank">> \o value
Number(n) == <<ToString(n)>>

(* One option per vision model whose path is not empty.                    *)
Mmproj(config) ==
    FlattenSeq([i \in DOMAIN config.vision_model_paths |->
        IF config.vision_model_paths[i] = <<>> THEN <<>>
        ELSE With("--mmproj", ShellQuote(config.vision_model_paths[i]))])

SmtConfigDir(config) ==
    IF config.smt_config_dir # <<>> THEN config.smt_config_dir
                                    ELSE config.model_dir

Media(config) ==
    CASE config.media_backend = "smt" ->
            With("--smt-config-dir", ShellQuote(SmtConfigDir(config)))
      [] config.media_backend = "mtmd" -> Mmproj(config)
      [] config.media_backend = "auto" ->
            (IF config.smt_config_dir = <<>> THEN <<>>
             ELSE With("--smt-config-dir", ShellQuote(config.smt_config_dir)))
            \o Mmproj(config)

(* The loop over the paths can only set has_vision, which any element has  *)
(* already set: a list of nothing but empty paths has vision too.          *)
Vision(config) ==
    IF config.vision_model_paths = <<>> THEN <<>>
    ELSE With("--vision-backend", <<config.media_backend>>) \o Media(config)
         \o (IF config.media_path = <<>> THEN <<>>
             ELSE With("--media-path", ShellQuote(config.media_path)))

Reasoning(config) ==
    IF ~config.enable_thinking THEN With("--reasoning", <<"off">>)
    ELSE With("--reasoning", <<"on">>)
         \o (IF config.reasoning_budget > 0
             THEN With("--reasoning-budget", Number(config.reasoning_budget))
             ELSE <<>>)

BuildLlamaServerCommand(config) ==
    (IF config.cpu_affinity = <<>> THEN <<>>
     ELSE <<"taskset">> \o With("-c", ShellQuote(config.cpu_affinity)) \o <<"blank">>)
    \o <<"llama-server">>
    \o With("-m", ShellQuote(config.text_model_path))
    \o With("--port", Number(config.port))
    \o With("--ctx-size", Number(config.context_size))
    \o With("-t", Number(config.threads))
    \o With("-tb", Number(config.batch_threads))
    \o With("--host", ShellQuote(config.host))
    \o With("-ngl", Number(config.n_gpu_layers))
    \o Vision(config)
    \o (IF config.no_warmup THEN Flag("--no-warmup") ELSE <<>>)
    \o Reasoning(config)

-----------------------------------------------------------------------------
(* The reader: an option that takes a value takes the next word, whatever  *)
(* it is; every other word stands alone.                                   *)
ValueOptions == {"-m", "--port", "--ctx-size", "-t", "-tb", "--host", "-ngl", "-c",
                 "--vision-backend", "--mmproj", "--smt-config-dir", "--media-path",
                 "--reasoning", "--reasoning-budget"}
TakesValue(word) == Len(word) = 1 /\ word[1] \in ValueOptions

OptionStart == [pending |-> <<>>, options |-> <<>>]

OptionRead(r, word) ==
    CASE r.pending # <<>> ->
            [pending |-> <<>>,
             options |-> Append(r.options, [option |-> r.pending[1], value |-> word])]
      [] r.pending = <<>> /\ TakesValue(word) -> [r EXCEPT !.pending = <<word>>]
      [] OTHER -> [r EXCEPT !.options = Append(@, [option |-> word, value |-> <<>>])]

Options(argv) == FoldLeft(OptionRead, OptionStart, argv).options

Values(options, name) ==
    FlattenSeq([k \in DOMAIN options |->
        IF options[k].option = <<name>> THEN <<options[k].value>> ELSE <<>>])

When(condition, value) == IF condition THEN <<value>> ELSE <<>>
NotEmpty(paths) == FlattenSeq([i \in DOMAIN paths |-> When(paths[i] # <<>>, paths[i])])

(* argv asks for exactly what config says: each path arrives as one word,  *)
(* unchanged, and a vision option only when there is a vision model.       *)
SaysTheConfig(argv, config) ==
    LET read == Options(argv)
        vision == config.vision_model_paths # <<>>
        backend == config.media_backend
    IN  /\ Values(read, "-m") = <<config.text_model_path>>
        /\ Values(read, "--port") = <<Number(config.port)>>
        /\ Values(read, "--ctx-size") = <<Number(config.context_size)>>
        /\ Values(read, "-t") = <<Number(config.threads)>>
        /\ Values(read, "-tb") = <<Number(config.batch_threads)>>
        /\ Values(read, "--host") = <<config.host>>
        /\ Values(read, "-ngl") = <<Number(config.n_gpu_layers)>>
        /\ Values(read, "-c") = When(config.cpu_affinity # <<>>, config.cpu_affinity)
        /\ Values(read, "--vision-backend") = When(vision, <<backend>>)
        /\ Values(read, "--mmproj") =
               IF backend = "smt" THEN <<>>
               ELSE NotEmpty(config.vision_model_paths)
        /\ Values(read, "--smt-config-dir") =
               When(/\ vision
                    /\ \/ backend = "smt"
                       \/ (backend = "auto" /\ config.smt_config_dir # <<>>),
                    SmtConfigDir(config))
        /\ Values(read, "--media-path") =
               When(vision /\ config.media_path # <<>>, config.media_path)
        /\ Values(read, "--no-warmup") = When(config.no_warmup, <<>>)
        /\ Values(read, "--reasoning") =
               <<IF config.enable_thinking THEN <<"on">> ELSE <<"off">>>>
        /\ Values(read, "--reasoning-budget") =
               When(config.enable_thinking /\ config.reasoning_budget > 0,
                    Number(config.reasoning_budget))
=============================================================================
