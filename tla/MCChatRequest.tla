---------------------------- MODULE MCChatRequest ----------------------------
(***************************************************************************)
(* Instances of ChatRequest.  Settings, messages and answers do not        *)
(* influence one another, so each kind is varied against one plain value   *)
(* of the others.                                                          *)
(***************************************************************************)
EXTENDS ChatRequest

UpTo(S, n) == UNION {[1..k -> S] : k \in 0..n}

-----------------------------------------------------------------------------
(* Settings: paths with a blank or a quote, an option's name, or nothing.  *)
Paths == {<<>>, <<"--port">>, <<"a", "blank", "'", "b">>, <<"backslash", "'">>}

PlainConfig ==
    [text_model_path |-> <<"m">>, model_dir |-> <<"d">>,
     vision_model_paths |-> <<>>, media_backend |-> "smt",
     smt_config_dir |-> <<>>, media_path |-> <<>>, cpu_affinity |-> <<>>,
     host |-> <<"h">>, port |-> 8086, context_size |-> 4096, threads |-> 8,
     batch_threads |-> 4, n_gpu_layers |-> 0, no_warmup |-> TRUE,
     max_tokens |-> 150, temperature |-> "0.2", top_p |-> "0.95",
     enable_thinking |-> FALSE, reasoning_budget |-> -1,
     history_policy |-> "last", stop_sequences |-> <<>>]

MediaConfigs ==
    {[PlainConfig EXCEPT !.vision_model_paths = v, !.media_backend = b,
                         !.smt_config_dir = s, !.model_dir = <<"d", "blank", "e">>,
                         !.media_path = p] :
        v \in UpTo(Paths, 2), b \in {"smt", "mtmd", "auto"},
        s \in Paths, p \in {<<>>, <<"blank">>}}

OtherConfigs ==
    {[PlainConfig EXCEPT !.text_model_path = m, !.cpu_affinity = a, !.host = h,
                         !.no_warmup = w, !.enable_thinking = t,
                         !.reasoning_budget = r, !.stop_sequences = stop] :
        m \in Paths \ {<<>>}, a \in {<<>>, <<"0", "-", "3">>},
        h \in {<<>>, <<"h">>}, w \in BOOLEAN, t \in BOOLEAN, r \in {-1, 0, 64},
        stop \in {<<>>, <<<<"newline", "quote">>>>, <<<<"a">>, <<"control">>>>}}

-----------------------------------------------------------------------------
(* Messages.  Only user messages carry images: System and Assistant, which *)
(* make the others, take none.                                             *)
MCDisk == [one |-> <<255>>, three |-> <<0, 16, 131>>, four |-> <<16, 81, 135, 32>>,
           empty |-> <<>>]

Says(r, c) == [role |-> r, content |-> c, image_path |-> "", image_bytes |-> <<>>]
Shows(c, path, bytes) == [role |-> "user", content |-> c, image_path |-> path,
                          image_bytes |-> bytes]

Contents == {<<>>, <<"a">>, <<"quote", "backslash">>, <<"newline", "n">>,
             <<"backslash", "n">>, <<"a", "control">>}

Messages(C) ==
    {Says(r, c) : r \in {"system", "user", "assistant"}, c \in C}
    \cup {Shows(c, path, bytes) : c \in C, bytes \in {<<>>, <<7, 200>>},
             path \in {"", "one", "three", "four", "empty", "missing"}}

PlainChat == <<Says("user", <<"a">>)>>
Chats == {<<m>> : m \in Messages(Contents)}
         \cup {<<m, n>> : m \in Messages({<<"a">>}), n \in Messages(Contents)}
         \cup {<<Shows(<<"a">>, "one", <<>>), Says("assistant", <<"quote">>), m>> :
                  m \in Messages({<<"a">>})}

-----------------------------------------------------------------------------
(* Answers: every text of four symbols, and some that look like the JSON   *)
(* around them.                                                            *)
PlainAnswer == [content |-> <<"a">>, created |-> <<"7">>,
                completion |-> <<"1", "2">>, total |-> <<"3", "0">>]

Look(key) == <<"quote", key, "quote", ":", "1">>
Answers ==
    {[PlainAnswer EXCEPT !.content = c] :
        c \in UpTo({"a", "quote", "<think", "</think", ">"}, 4)
              \cup UpTo({"a", "quote", "backslash", "newline", "control"}, 2)
              \cup UpTo({"quote", "total_tokens", "completion_tokens"}, 3)
              \cup {Look("content"), Look("total_tokens"), Look("completion_tokens"),
                    <<"<think", ">", "a", "</think", ">", "quote",
                      "<think", ">", "newline", "</think", ">", "a">>}}

MCGiven ==
    {[config |-> c, chat |-> PlainChat, answer |-> PlainAnswer] :
        c \in MediaConfigs \cup OtherConfigs}
    \cup {[config |-> PlainConfig, chat |-> m, answer |-> PlainAnswer] : m \in Chats}
    \cup {[config |-> PlainConfig, chat |-> PlainChat, answer |-> a] : a \in Answers}
=============================================================================
