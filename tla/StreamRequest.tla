---------------------------- MODULE StreamRequest ----------------------------
(***************************************************************************)
(* One streaming request of the server backend: StreamRequest in           *)
(* src/src/core/cpp/server_vlm_model.cpp with the curl process it reads    *)
(* from and the callback it feeds.  The answer is a sequence of lines, of  *)
(* which one fgets takes at most 4095 bytes: a longer one arrives in two   *)
(* parts.  A line is what the reader can tell apart: one that gives text   *)
(* (a delta), a "data: " line that gives none, any other line or the rest  *)
(* of a long one, and in each whether it holds the text "data: [DONE]",    *)
(* the end marker.                                                         *)
(***************************************************************************)
EXTENDS Integers, Sequences

CONSTANTS
    MaxLines,   \* bound on the lines of an answer (the model's own)
    PipeCap,    \* lines the pipe between curl and the reader can hold
    Faults      \* what may go wrong: see FaultKinds

FaultKinds == {"local",       \* mkstemp, write or popen fails
               "cut",         \* refused, reset, or --max-time 180 runs out
               "status",      \* the server answers with an HTTP error
               "longline",    \* a line does not fit the buffer
               "quote",       \* the answer itself speaks of "data: [DONE]"
               "stop"}        \* the consumer asks to stop

ASSUME StreamAssumption == /\ MaxLines \in Nat
                           /\ PipeCap \in Nat \ {0}
                           /\ Faults \subseteq FaultKinds

VARIABLES
    callback,      \* is there a callback at all
    pc,            \* where StreamRequest is
    tmp,           \* the payload file exists
    line,          \* the buffer fgets filled
    accumulated,   \* the text so far, as the numbers of its deltas
    heard,         \* deltas passed to the callback
    closed,        \* the callback was called with is_done
    stopped,       \* the callback returned false
    ret,           \* "none", "true" or "false"
    pipe,          \* lines written by curl and not yet read
    readEnd,       \* the reader's end of the pipe is open
    curl,          \* "none", "running", "ok" (exit 0) or "failed"
    sent,          \* deltas sent so far that the reader can find
    deltas,        \* history: all deltas sent so far
    long,          \* history: a line was longer than the buffer
    quoted,        \* history: a line that is not the end held its text
    lines,         \* lines curl has received so far
    finished,      \* the server has sent its end marker or its error body
    refused        \* the server answered with an HTTP error

reader == <<pc, tmp, line, accumulated, heard, closed, stopped, ret>>
writer == <<curl, sent, deltas, long, quoted, lines, finished, refused>>
vars   == <<callback, pc, tmp, line, accumulated, heard, closed, stopped, ret,
            pipe, readEnd, curl, sent, deltas, long, quoted, lines, finished,
            refused>>

Points == {"mkstemp", "write", "popen", "read", "parse", "call", "pclose",
           "unlink", "finish", "returned"}

(* What one fgets can return.  The deltas the reader can find are numbered; *)
(* the others are those that stand behind the text of the end marker.      *)
Line == [kind : {"delta"}, id : 1..MaxLines, marks : {FALSE}]
           \cup [kind : {"delta", "empty", "other"}, id : {0}, marks : BOOLEAN]

Delta(n)    == [kind |-> "delta", id |-> n, marks |-> FALSE]
Blank(k, m) == [kind |-> k, id |-> 0, marks |-> m]
NoLine      == Blank("other", FALSE)

Init ==
    /\ callback \in BOOLEAN
    /\ pc = "mkstemp" /\ tmp = FALSE /\ line = NoLine
    /\ accumulated = <<>> /\ heard = <<>>
    /\ closed = FALSE /\ stopped = FALSE /\ ret = "none"
    /\ pipe = <<>> /\ readEnd = FALSE
    /\ curl = "none" /\ sent = 0 /\ lines = 0
    /\ deltas = 0 /\ long = FALSE /\ quoted = FALSE
    /\ finished = FALSE /\ refused = FALSE

-----------------------------------------------------------------------------
(* The reader.                                                             *)

Mkstemp ==
    /\ pc = "mkstemp"
    /\ \/ tmp' = TRUE /\ pc' = "write" /\ UNCHANGED ret
       \/ "local" \in Faults /\ ret' = "false" /\ pc' = "returned" /\ UNCHANGED tmp
    /\ UNCHANGED <<callback, line, accumulated, heard, closed, stopped, pipe,
                   readEnd, writer>>

(* Mutant: a short write returns without unlinking the file.               *)
WriteLeavesFile ==
    /\ pc = "write"
    /\ \/ pc' = "popen" /\ UNCHANGED <<tmp, ret>>
       \/ /\ "local" \in Faults
          /\ UNCHANGED tmp /\ ret' = "false" /\ pc' = "returned"
    /\ UNCHANGED <<callback, line, accumulated, heard, closed, stopped, pipe,
                   readEnd, writer>>

(* write() of the payload, or popen(), fails: unlink and give up.          *)
WritePayload ==
    /\ pc = "write"
    /\ \/ pc' = "popen" /\ UNCHANGED <<tmp, ret>>
       \/ /\ "local" \in Faults
          /\ tmp' = FALSE /\ ret' = "false" /\ pc' = "returned"
    /\ UNCHANGED <<callback, line, accumulated, heard, closed, stopped, pipe,
                   readEnd, writer>>

Popen ==
    /\ pc = "popen"
    /\ \/ /\ curl' = "running" /\ readEnd' = TRUE /\ pc' = "read"
          /\ UNCHANGED <<tmp, ret>>
       \/ /\ "local" \in Faults
          /\ tmp' = FALSE /\ ret' = "false" /\ pc' = "returned"
          /\ UNCHANGED <<curl, readEnd>>
    /\ UNCHANGED <<callback, line, accumulated, heard, closed, stopped, pipe,
                   sent, deltas, long, quoted, lines, finished, refused>>

(* fgets: a line, or end of file once curl is gone and the pipe is empty.  *)
ReadLine ==
    /\ pc = "read" /\ pipe # <<>>
    /\ line' = Head(pipe)
    /\ pipe' = Tail(pipe)
    /\ pc' = "parse"
    /\ UNCHANGED <<callback, tmp, accumulated, heard, closed, stopped, ret,
                   readEnd, writer>>

EndOfFile ==
    /\ pc = "read" /\ pipe = <<>> /\ curl # "running"
    /\ pc' = "pclose"
    /\ UNCHANGED <<callback, tmp, line, accumulated, heard, closed, stopped,
                   ret, pipe, readEnd, writer>>

(* The loop is left at the first line that holds the text of the end       *)
(* marker, wherever it stands in the line; whatever the line says is lost. *)
EndMarker ==
    /\ pc = "parse" /\ line.marks
    /\ pc' = "pclose"
    /\ UNCHANGED <<callback, tmp, line, accumulated, heard, closed, stopped,
                   ret, pipe, readEnd, writer>>

(* A line that is not "data: " (a comment, an error body, the rest of a    *)
(* long line) and one without content are skipped.                         *)
SkipLine ==
    /\ pc = "parse" /\ ~line.marks /\ line.kind # "delta"
    /\ pc' = "read"
    /\ UNCHANGED <<callback, tmp, line, accumulated, heard, closed, stopped,
                   ret, pipe, readEnd, writer>>

(* A delta is appended to the text before the callback hears of it.        *)
Accumulate ==
    /\ pc = "parse" /\ ~line.marks /\ line.kind = "delta"
    /\ accumulated' = Append(accumulated, line.id)
    /\ pc' = IF callback THEN "call" ELSE "read"
    /\ UNCHANGED <<callback, tmp, line, heard, closed, stopped, ret, pipe,
                   readEnd, writer>>

(* Mutant: the callback gets the text so far instead of the new piece.     *)
CallWithText ==
    /\ pc = "call"
    /\ heard' = heard \o accumulated
    /\ \E cont \in BOOLEAN :
          /\ cont \/ "stop" \in Faults
          /\ pc' = IF cont THEN "read" ELSE "pclose"
          /\ stopped' = ~cont
    /\ UNCHANGED <<callback, tmp, line, accumulated, closed, ret, pipe,
                   readEnd, writer>>

Call ==
    /\ pc = "call"
    /\ heard' = Append(heard, line.id)
    /\ \E cont \in BOOLEAN :
          /\ cont \/ "stop" \in Faults
          /\ pc' = IF cont THEN "read" ELSE "pclose"
          /\ stopped' = ~cont
    /\ UNCHANGED <<callback, tmp, line, accumulated, closed, ret, pipe,
                   readEnd, writer>>

(* Mutant: curl is awaited first, with the pipe still open and unread.     *)
WaitFirst ==
    /\ pc = "pclose" /\ readEnd /\ curl # "running"
    /\ readEnd' = FALSE /\ pipe' = <<>>
    /\ UNCHANGED <<callback, reader, writer>>

(* pclose: the read end is closed first, and what is still in the pipe is  *)
(* lost ...                                                                *)
CloseReadEnd ==
    /\ pc = "pclose" /\ readEnd
    /\ readEnd' = FALSE /\ pipe' = <<>>
    /\ UNCHANGED <<callback, reader, writer>>

(* ... then curl's exit is awaited.                                        *)
WaitForCurl ==
    /\ pc = "pclose" /\ ~readEnd /\ curl # "running"
    /\ pc' = "unlink"
    /\ UNCHANGED <<callback, tmp, line, accumulated, heard, closed, stopped,
                   ret, pipe, readEnd, writer>>

Unlink ==
    /\ pc = "unlink"
    /\ tmp' = FALSE
    /\ pc' = "finish"
    /\ UNCHANGED <<callback, line, accumulated, heard, closed, stopped, ret,
                   pipe, readEnd, writer>>

(* Mutant: the exit status of curl is not looked at.                       *)
IgnoreStatus ==
    /\ pc = "finish"
    /\ closed' = callback
    /\ ret' = "true"
    /\ pc' = "returned"
    /\ UNCHANGED <<callback, tmp, line, accumulated, heard, stopped, pipe,
                   readEnd, writer>>

(* A failed curl is reported by the result alone; a good one by one more   *)
(* call, with is_done, even to a consumer that asked to stop.              *)
Finish ==
    /\ pc = "finish"
    /\ closed' = (callback /\ curl = "ok")
    /\ ret' = IF curl = "ok" THEN "true" ELSE "false"
    /\ pc' = "returned"
    /\ UNCHANGED <<callback, tmp, line, accumulated, heard, stopped, pipe,
                   readEnd, writer>>

-----------------------------------------------------------------------------
(* curl and the server behind it.                                          *)

(* A line arrives and is written to the pipe, for which there is room.     *)
Arrives(ls) ==
    /\ curl = "running" /\ readEnd /\ ~finished
    /\ Len(pipe) + Len(ls) <= PipeCap
    /\ pipe' = pipe \o ls
    /\ lines' = lines + 1

(* The next delta, numbered while the reader can still find it.            *)
NextDelta == Delta(IF quoted THEN 0 ELSE sent + 1)

Counted == sent' = IF quoted THEN sent ELSE sent + 1

DeltaArrives ==
    /\ lines < MaxLines
    /\ Arrives(<<NextDelta>>)
    /\ Counted
    /\ deltas' = deltas + 1
    /\ UNCHANGED <<callback, reader, readEnd, curl, long, quoted, finished,
                   refused>>

(* Of a long delta the first part gives some text or none; the rest, which *)
(* is skipped, may speak of the end marker.                                *)
LongDeltaArrives ==
    /\ "longline" \in Faults /\ lines < MaxLines
    /\ \E m \in BOOLEAN :
          /\ m => "quote" \in Faults
          /\ quoted' = (quoted \/ m)
          /\ \/ Arrives(<<NextDelta, Blank("other", m)>>) /\ Counted
             \/ Arrives(<<Blank("empty", FALSE), Blank("other", m)>>)
                /\ UNCHANGED sent
    /\ long' = TRUE /\ deltas' = deltas + 1
    /\ UNCHANGED <<callback, reader, readEnd, curl, finished, refused>>

(* A delta or another line with the text of the end marker inside.         *)
QuoteArrives ==
    /\ "quote" \in Faults /\ lines < MaxLines
    /\ \E k \in {"delta", "empty", "other"} :
          /\ Arrives(<<Blank(k, TRUE)>>)
          /\ deltas' = IF k = "delta" THEN deltas + 1 ELSE deltas
    /\ quoted' = TRUE
    /\ UNCHANGED <<callback, reader, readEnd, curl, sent, long, finished,
                   refused>>

OtherArrives ==
    /\ lines < MaxLines
    /\ \E k \in {"empty", "other"} : Arrives(<<Blank(k, FALSE)>>)
    /\ UNCHANGED <<callback, reader, readEnd, curl, sent, deltas, long, quoted,
                   finished, refused>>

MarkerArrives ==
    /\ Arrives(<<Blank("empty", TRUE)>>)
    /\ finished' = TRUE
    /\ UNCHANGED <<callback, reader, readEnd, curl, sent, deltas, long, quoted,
                   refused>>

(* Without -f an HTTP error is a body like any other.                      *)
ErrorBodyArrives ==
    /\ "status" \in Faults /\ lines = 0
    /\ Arrives(<<Blank("other", FALSE)>>)
    /\ finished' = TRUE /\ refused' = TRUE
    /\ UNCHANGED <<callback, reader, readEnd, curl, sent, deltas, long, quoted>>

CurlEnds ==
    /\ curl = "running" /\ finished
    /\ curl' = "ok"
    /\ UNCHANGED <<callback, reader, pipe, readEnd, sent, deltas, long, quoted,
                   lines, finished, refused>>

CurlCut ==
    /\ curl = "running" /\ "cut" \in Faults
    /\ curl' = "failed"
    /\ UNCHANGED <<callback, reader, pipe, readEnd, sent, deltas, long, quoted,
                   lines, finished, refused>>

(* More output for a reader that has left: EPIPE.                          *)
CurlBrokenPipe ==
    /\ curl = "running" /\ pc = "pclose" /\ ~readEnd /\ ~finished
    /\ curl' = "failed"
    /\ UNCHANGED <<callback, reader, pipe, readEnd, sent, deltas, long, quoted,
                   lines, finished, refused>>

(* The rest of the answer, with nothing to print, reaches its end.         *)
CurlEndsUnread ==
    /\ curl = "running" /\ pc = "pclose" /\ ~readEnd /\ ~finished
    /\ finished' = TRUE
    /\ UNCHANGED <<callback, reader, pipe, readEnd, curl, sent, deltas, long,
                   quoted, lines, refused>>

-----------------------------------------------------------------------------
Reads == \/ Mkstemp \/ WritePayload \/ Popen \/ ReadLine \/ EndOfFile
         \/ EndMarker \/ SkipLine \/ Accumulate \/ Call \/ CloseReadEnd
         \/ WaitForCurl \/ Unlink \/ Finish

(* The ways in which curl comes to an end.                                 *)
Ends == MarkerArrives \/ ErrorBodyArrives \/ CurlEnds \/ CurlCut
           \/ CurlBrokenPipe \/ CurlEndsUnread

Next == \/ Reads \/ Ends \/ DeltaArrives \/ LongDeltaArrives \/ QuoteArrives
        \/ OtherArrives

Spec == Init /\ [][Next]_vars

(* curl sits in a write to a pipe that is full and open: nothing, not even *)
(* --max-time, ends it there.                                              *)
Blocked == readEnd /\ Len(pipe) = PipeCap

(* Anywhere else it comes to an end: the server's, or --max-time.          *)
Fairness == WF_vars(Reads) /\ WF_vars(Ends /\ ~Blocked)

FairSpec == Spec /\ Fairness

-----------------------------------------------------------------------------
(* Whatever fails, a request that is over has removed its payload file and *)
(* left no curl process behind (each early return of StreamRequest).       *)
NothingLeft ==
    pc = "returned" => ~tmp /\ curl # "running" /\ ~readEnd

(* What true means to a consumer that did not stop: the server's answer    *)
(* reached its end, and every delta the reader can find is in the text and *)
(* was heard, in the order sent; a stream that was cut is never reported   *)
(* as a success.  It is the whole answer only if no line was longer than   *)
(* the buffer (the rest of the line is lost) and none held the text of the *)
(* end marker (that line and all that follow are lost, line 653); then     *)
(* true is returned all the same.                                          *)
TrueMeansWhole ==
    (ret = "true" /\ ~stopped) =>
        /\ finished
        /\ accumulated = [i \in 1..sent |-> i]
        /\ callback => heard = accumulated
        /\ ~long /\ ~quoted => sent = deltas

(* A stream ends: the call returns as long as the callback does.  A reader *)
(* that leaves early closes the pipe before it waits for curl, which may   *)
(* be blocked on it (pclose, line 691).                                    *)
StreamReturns == <>(pc = "returned")

(* An inference that the server refused is reported as a failure.          *)
RefusalFails == (pc = "returned" /\ refused) => ret = "false"

(* The consumer sees the stream StreamContract describes.                  *)
Contract == INSTANCE StreamContract WITH request <- 0
ContractSpec == Contract!Spec
=============================================================================
