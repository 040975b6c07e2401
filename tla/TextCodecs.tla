------------------------------ MODULE TextCodecs ------------------------------
(***************************************************************************)
(* The text conversions of vlm_utils.cpp as operators over sequences of    *)
(* symbols, and for each the reader on the other side that it has to agree *)
(* with: a JSON parser, a shell, a base64 decoder.  A symbol is a          *)
(* character, or a word that these functions never look into: "<think" is  *)
(* one symbol, and so is the name of a JSON key.                           *)
(***************************************************************************)
EXTENDS Integers, SequencesExt

(* std::string::find from a position; 0 is npos.                           *)
Find(s, p, from) ==
    LET at == {i \in from..(Len(s) - Len(p) + 1) :
                  SubSeq(s, i, i + Len(p) - 1) = p}
    IN  IF at = {} THEN 0 ELSE Min(at)

From(s, i) == SubSeq(s, i, Len(s))

(* The first position from i on whose symbol is not in S.                  *)
SkipAll(s, i, S) == Min({j \in i..Len(s) : s[j] \notin S} \cup {Len(s) + 1})

-----------------------------------------------------------------------------
(* JSON.  "control" is any control character but newline, return and tab.  *)

Escape(c) == CASE c = "quote" -> <<"backslash", "quote">>
               [] c = "backslash" -> <<"backslash", "backslash">>
               [] c = "newline" -> <<"backslash", "n">>
               [] OTHER -> <<c>>

(* Mutant: a backslash is not escaped.                                     *)
JsonEscapeQuotes(value) ==
    FlattenSeq([i \in DOMAIN value |->
                   IF value[i] = "backslash" THEN <<value[i]>>
                                             ELSE Escape(value[i])])

JsonEscape(value) == FlattenSeq([i \in DOMAIN value |-> Escape(value[i])])

Unescape(c) == IF c = "n" THEN "newline" ELSE c

(* curl -d @file strips newlines.                                          *)
Posted(body) == FlattenSeq([i \in DOMAIN body |->
                    IF body[i] = "newline" THEN <<>> ELSE <<body[i]>>])

(* What a JSON parser makes of the text between two quotes.                *)
JsonStart == [ok |-> TRUE, escaped |-> FALSE, text |-> <<>>]

JsonRead(r, c) ==
    CASE r.escaped -> [ok |-> r.ok /\ c \in {"quote", "backslash", "n"},
                       escaped |-> FALSE, text |-> Append(r.text, Unescape(c))]
      [] ~r.escaped /\ c = "backslash" -> [r EXCEPT !.escaped = TRUE]
      [] OTHER -> [ok |-> r.ok /\ c \notin {"quote", "newline", "control"},
                   escaped |-> FALSE, text |-> Append(r.text, c)]

JsonText(body) ==
    LET end == FoldLeft(JsonRead, JsonStart, body)
    IN  [ok |-> end.ok /\ ~end.escaped, text |-> end.text]

(* How the server writes a string: like Escape, control characters by code. *)
JsonDump(value) ==
    FlattenSeq([i \in DOMAIN value |->
                   IF value[i] = "control" THEN <<"backslash", "u001b">>
                                           ELSE Escape(value[i])])

(* The first position of the value of a key, or 0.                         *)
ValueOf(json, key) ==
    LET pos == Find(json, <<"quote", key, "quote">>, 1)
        colon == IF pos = 0 THEN 0 ELSE Find(json, <<":">>, pos + 3)
    IN  IF colon = 0 THEN 0 ELSE SkipAll(json, colon + 1, {"blank"})

ExtractJsonString(json, key) ==
    LET start == ValueOf(json, key)
        read[i \in 1..(Len(json) + 2)] ==
            IF i > Len(json) \/ json[i] = "quote" THEN <<>>
            ELSE IF json[i] = "backslash" /\ i < Len(json)
                 THEN <<Unescape(json[i + 1])>> \o read[i + 2]
                 ELSE <<json[i]>> \o read[i + 1]
    IN  IF start = 0 \/ start > Len(json) THEN <<>>
        ELSE IF json[start] # "quote" THEN <<>> ELSE read[start + 1]

Digits == <<"0", "1", "2", "3", "4", "5", "6", "7", "8", "9">>
DigitOf(c) == (CHOOSE i \in DOMAIN Digits : Digits[i] = c) - 1
NumberOf(digits) == FoldLeft(LAMBDA v, c : v * 10 + DigitOf(c), 0, digits)

ExtractJsonInt(json, key) ==
    LET start == ValueOf(json, key)
        negative == start \in DOMAIN json /\ json[start] = "-"
        first == IF negative THEN start + 1 ELSE start
        digits == SubSeq(json, first, SkipAll(json, first, Range(Digits)) - 1)
    IN  IF start = 0 THEN 0
        ELSE IF negative THEN -NumberOf(digits) ELSE NumberOf(digits)

-----------------------------------------------------------------------------
(* Thinking blocks.                                                        *)

(* Mutant: only the first block is taken out.                              *)
StripFirstBlock(text) ==
    LET open == Find(text, <<"<think">>, 1)
        tagEnd == IF open = 0 THEN 0 ELSE Find(text, <<">">>, open)
        close == IF tagEnd = 0 THEN 0 ELSE Find(text, <<"</think">>, tagEnd + 1)
    IN  IF open = 0 THEN [text |-> text, thinking |-> <<>>]
        ELSE IF close = 0
             THEN [text |-> SubSeq(text, 1, open - 1), thinking |-> <<>>]
             ELSE [text |-> SubSeq(text, 1, open - 1) \o From(text, close + 2),
                   thinking |-> SubSeq(text, tagEnd + 1, close - 1)]

StripThinkingBlocks(text) ==
    LET strip[pos \in 1..(Len(text) + 2)] ==
            LET open == Find(text, <<"<think">>, pos)
                shown == SubSeq(text, pos, open - 1)
                tagEnd == IF open = 0 THEN 0 ELSE Find(text, <<">">>, open)
                close == IF tagEnd = 0 THEN 0
                         ELSE Find(text, <<"</think">>, tagEnd + 1)
                resume == IF close < Len(text) /\ text[close + 1] = ">"
                          THEN close + 2 ELSE close + 1
            IN  IF open = 0 THEN [text |-> From(text, pos), thinking |-> <<>>]
                ELSE IF close = 0 THEN [text |-> shown, thinking |-> <<>>]
                ELSE [text |-> shown \o strip[resume].text,
                      thinking |-> SubSeq(text, tagEnd + 1, close - 1)
                                       \o strip[resume].thinking]
    IN  strip[1]

(* The same text read symbol by symbol.  What follows a tag or a block     *)
(* that is never closed belongs neither to the text nor to the thinking.   *)
ThinkingStart == [in |-> "text", text |-> <<>>, block |-> <<>>, thinking |-> <<>>]

ThinkingRead(r, c) ==
    CASE r.in = "tag" -> IF c = ">" THEN [r EXCEPT !.in = "block", !.block = <<>>] ELSE r
      [] r.in = "block" -> IF c = "</think"
                           THEN [r EXCEPT !.in = "closing", !.thinking = @ \o r.block]
                           ELSE [r EXCEPT !.block = Append(@, c)]
      [] OTHER -> IF c = "<think" THEN [r EXCEPT !.in = "tag"]
                  ELSE IF r.in = "closing" /\ c = ">" THEN [r EXCEPT !.in = "text"]
                  ELSE [r EXCEPT !.in = "text", !.text = Append(@, c)]

ThinkingApart(text) ==
    LET end == FoldLeft(ThinkingRead, ThinkingStart, text)
    IN  [text |-> end.text, thinking |-> end.thinking]

-----------------------------------------------------------------------------
(* Base64: a symbol is its number in kTable, Pad is "=".                   *)

Pad == 64

FromBytes(a, b, c) == a * 65536 + b * 256 + c
ToBytes(n) == <<n \div 65536, (n \div 256) % 256, n % 256>>
FromSextets(x, y, z, w) == x * 262144 + y * 4096 + z * 64 + w
ToSextets(n) == <<n \div 262144, (n \div 4096) % 64, (n \div 64) % 64, n % 64>>

EncodeGroup(data, i) ==
    LET n == Len(data)
        at(j) == IF j <= n THEN data[j] ELSE 0
        q == ToSextets(FromBytes(at(i + 1), at(i + 2), at(i + 3)))
    IN  <<q[1], q[2], IF i + 2 <= n THEN q[3] ELSE Pad, IF i + 3 <= n THEN q[4] ELSE Pad>>

Base64Encode(data) ==
    FlattenSeq([k \in 1..((Len(data) + 2) \div 3) |-> EncodeGroup(data, 3 * (k - 1))])

DecodeGroup(s, i) ==
    LET v(j) == IF s[j] = Pad THEN 0 ELSE s[j]
        bytes == ToBytes(FromSextets(v(i + 1), v(i + 2), v(i + 3), v(i + 4)))
    IN  SubSeq(bytes, 1, IF s[i + 3] = Pad THEN 1
                         ELSE IF s[i + 4] = Pad THEN 2 ELSE 3)

Base64Decode(s) ==
    FlattenSeq([k \in 1..(Len(s) \div 4) |-> DecodeGroup(s, 4 * (k - 1))])

-----------------------------------------------------------------------------
(* The shell.                                                              *)

(* Mutant: quotes inside the value are left alone.                         *)
ShellQuotePlain(value) == <<"'">> \o value \o <<"'">>

ShellQuote(value) ==
    <<"'">> \o FlattenSeq([i \in DOMAIN value |->
                              IF value[i] = "'" THEN <<"'", "backslash", "'", "'">>
                                                ELSE <<value[i]>>]) \o <<"'">>

(* The words a POSIX shell sees in a command without other expansions.     *)
ShellStart == [words |-> <<>>, word |-> <<>>, open |-> FALSE, mode |-> "plain"]

ShellPut(r, c) == [r EXCEPT !.word = Append(@, c), !.open = TRUE]

ShellEnd(r) ==
    IF r.open THEN [r EXCEPT !.words = Append(@, r.word), !.word = <<>>, !.open = FALSE]
              ELSE r

ShellRead(r, c) ==
    CASE r.mode = "quoted" -> IF c = "'" THEN [r EXCEPT !.mode = "plain"]
                                         ELSE ShellPut(r, c)
      [] r.mode = "escaped" -> [ShellPut(r, c) EXCEPT !.mode = "plain"]
      [] r.mode = "plain" /\ c = "'" -> [r EXCEPT !.mode = "quoted", !.open = TRUE]
      [] r.mode = "plain" /\ c = "backslash" -> [r EXCEPT !.mode = "escaped"]
      [] r.mode = "plain" /\ c = "blank" -> ShellEnd(r)
      [] OTHER -> ShellPut(r, c)

ShellWords(command) == ShellEnd(FoldLeft(ShellRead, ShellStart, command)).words
=============================================================================
