---------------------------- MODULE ServerMetrics ----------------------------
(***************************************************************************)
(* metrics_ of the server backend and the caller's result objects.         *)
(* UpdateMetricsForRequest runs without mutex_ at the end of every         *)
(* successful request, so the updates of two threads interleave field by   *)
(* field (src/src/core/cpp/server_vlm_model.cpp).  Latencies are small     *)
(* numbers; a time to first token or a rate is 1 when it was measured and  *)
(* 0 when it is the constant 0.0.                                          *)
(***************************************************************************)
EXTENDS Integers

CONSTANTS
    Threads,
    Latencies,    \* positive latencies of requests
    MaxCalls      \* bound on the requests of all threads (the model's own)

ASSUME MetricsAssumption == /\ Latencies \subseteq Nat \ {0}
                            /\ MaxCalls \in Nat

VARIABLES
    total, last, avg, ttft, tokens, rate,   \* metrics_; avg is <<num, den>>
    pc, kind, lat, out, prev,               \* locals of each thread
    result,                                 \* each caller's result objects
    calls,                                  \* requests made so far
    \* History, for the properties: the requests completed so far, their
    \* latencies together, the last of them, whether two updates overlapped,
    \* what calls have filled each result object (see Mark), and what had when
    \* the request of a thread took it.
    completed, latSum, newest, overlap, filled, before

metrics == <<total, last, avg, ttft, tokens, rate>>
locals  == <<pc, kind, lat, out, prev, result, calls>>
history == <<completed, latSum, newest, overlap, filled, before>>
vars    == <<metrics, locals, history>>

Streams == {"GenerateStream", "ChatStream"}
Kinds   == {"Generate", "Chat"} \cup Streams

(* Generate and GenerateStream fill a VlmResult, the chats a VlmChatResult. *)
Holder(k) == IF k \in {"Generate", "GenerateStream"} THEN "VlmResult"
                                                     ELSE "VlmChatResult"
Holders == {"VlmResult", "VlmChatResult"}
Fresh   == [ttft |-> 0, rate |-> 0]

(* History of a result object that held by: it was filled by "nobody", by  *)
(* some "call", or "timed" by a ChatStream at least.                       *)
Mark(k, by) == IF k = "ChatStream" \/ by = "timed" THEN "timed" ELSE "call"

NoReport == [ttft |-> 0, tokens |-> -1, rate |-> 0]

Updating == {"count", "total", "latency", "average", "rest"}

Init ==
    /\ total = 0 /\ last = 0 /\ avg = <<0, 1>>
    /\ ttft = 0 /\ tokens = -1 /\ rate = 0
    /\ pc = [t \in Threads |-> "idle"]
    /\ kind = [t \in Threads |-> "Generate"]
    /\ lat = [t \in Threads |-> 0]
    /\ out = [t \in Threads |-> NoReport]
    /\ prev = [t \in Threads |-> 0]
    /\ calls = 0
    /\ result = [t \in Threads |-> [h \in Holders |-> Fresh]]
    /\ completed = 0 /\ latSum = 0 /\ overlap = FALSE
    /\ newest = [kind |-> "Generate", before |-> "nobody"]
    /\ filled = [t \in Threads |-> [h \in Holders |-> "nobody"]]
    /\ before = [t \in Threads |-> "nobody"]

-----------------------------------------------------------------------------
(* A request starts.                                                       *)
Call(t) ==
    /\ pc[t] = "idle" /\ calls < MaxCalls
    /\ calls' = calls + 1
    /\ \E k \in Kinds : kind' = [kind EXCEPT ![t] = k]
    /\ pc' = [pc EXCEPT ![t] = "running"]
    /\ UNCHANGED <<metrics, lat, out, prev, result, history>>

(* Back to the caller, who may keep the result object.                     *)
Return(t) ==
    /\ pc' = [pc EXCEPT ![t] = "idle"]
    /\ kind' = [kind EXCEPT ![t] = "Generate"]
    /\ lat' = [lat EXCEPT ![t] = 0]
    /\ out' = [out EXCEPT ![t] = NoReport]
    /\ prev' = [prev EXCEPT ![t] = 0]
    /\ before' = [before EXCEPT ![t] = "nobody"]
    /\ UNCHANGED <<calls, result, filled>>

(* The request fails: no result field and no metric is touched.            *)
Fail(t) ==
    /\ pc[t] = "running"
    /\ Return(t)
    /\ UNCHANGED <<metrics, completed, latSum, newest, overlap>>

(* The answer: n tokens (non-streaming) or n non-empty chunks (streaming). *)
(* Chat leaves ttft_ms alone, and nobody writes tokens_per_second when n   *)
(* is 0; yet the non-streaming calls report both fields to the metrics.    *)
Filled(k, n, r) ==
    [ttft |-> CASE k = "Generate" -> 0
                [] k = "Chat" -> r.ttft
                [] OTHER -> n,
     rate |-> IF n > 0 THEN 1 ELSE r.rate]

(* Mutant: the streaming calls report the time of the result's last use.   *)
ReportedUntimed(k, n, r) ==
    [ttft |-> IF k = "Generate" THEN 0 ELSE r.ttft, tokens |-> n, rate |-> n]

Reported(k, n, r) ==
    [ttft |-> Filled(k, n, r).ttft,
     tokens |-> n,
     rate |-> IF k \in {"Generate", "Chat"} THEN Filled(k, n, r).rate ELSE n]

(* The answer is there.  The caller passed the object of an earlier call   *)
(* again, or a new one, or a null pointer.                                 *)
Answer(t) ==
    /\ pc[t] = "running"
    /\ LET k == kind[t]
           h == Holder(k)
       IN  \E n \in {0, 1} :
              \/ \E new \in BOOLEAN :
                    LET r  == IF new THEN Fresh ELSE result[t][h]
                        by == IF new THEN "nobody" ELSE filled[t][h]
                    IN  /\ result' = [result EXCEPT ![t][h] = Filled(k, n, r)]
                        /\ out' = [out EXCEPT ![t] = Reported(k, n, r)]
                        /\ before' = [before EXCEPT ![t] = by]
                        /\ filled' = [filled EXCEPT ![t][h] = Mark(k, by)]
              \/ /\ out' = [out EXCEPT ![t] =
                            IF k \in Streams THEN Reported(k, n, Fresh) ELSE NoReport]
                 /\ UNCHANGED <<result, before, filled>>
    /\ \E l \in Latencies : lat' = [lat EXCEPT ![t] = l]
    /\ pc' = [pc EXCEPT ![t] = "count"]
    /\ overlap' = (overlap \/ \E u \in Threads \ {t} : pc[u] \in Updating)
    /\ UNCHANGED <<metrics, kind, prev, calls, completed, latSum, newest>>

-----------------------------------------------------------------------------
(* UpdateMetricsForRequest, field by field.                                *)

ReadCount(t) ==
    /\ pc[t] = "count"
    /\ prev' = [prev EXCEPT ![t] = total]
    /\ pc' = [pc EXCEPT ![t] = "total"]
    /\ UNCHANGED <<metrics, kind, lat, out, calls, result, history>>

WriteTotal(t) ==
    /\ pc[t] = "total"
    /\ total' = prev[t] + 1
    /\ pc' = [pc EXCEPT ![t] = "latency"]
    /\ UNCHANGED <<last, avg, ttft, tokens, rate, kind, lat, out, prev, calls,
                   result, history>>

WriteLatency(t) ==
    /\ pc[t] = "latency"
    /\ last' = lat[t]
    /\ pc' = [pc EXCEPT ![t] = "average"]
    /\ UNCHANGED <<total, avg, ttft, tokens, rate, kind, lat, out, prev, calls,
                   result, history>>

(* Mutant: the old average is weighted with the new count.                 *)
WriteAverageOffByOne(t) ==
    /\ pc[t] = "average"
    /\ avg' = <<avg[1] * total + lat[t] * avg[2], avg[2] * total>>
    /\ pc' = [pc EXCEPT ![t] = "rest"]
    /\ UNCHANGED <<total, last, ttft, tokens, rate, kind, lat, out, prev, calls,
                   result, history>>

(* total_requests is named again as the divisor: the build may load it     *)
(* again or use the value just stored.                                     *)
WriteAverage(t) ==
    /\ pc[t] = "average"
    /\ \E n \in {total, prev[t] + 1} :
          avg' = <<avg[1] * prev[t] + lat[t] * avg[2], avg[2] * n>>
    /\ pc' = [pc EXCEPT ![t] = "rest"]
    /\ UNCHANGED <<total, last, ttft, tokens, rate, kind, lat, out, prev, calls,
                   result, history>>

(* The three remaining fields; the request is complete.                    *)
WriteRest(t) ==
    /\ pc[t] = "rest"
    /\ ttft' = out[t].ttft /\ tokens' = out[t].tokens /\ rate' = out[t].rate
    /\ completed' = completed + 1
    /\ latSum' = latSum + lat[t]
    /\ newest' = [kind |-> kind[t], before |-> before[t]]
    /\ Return(t)
    /\ UNCHANGED <<total, last, avg, overlap>>

Update(t) == \/ ReadCount(t) \/ WriteTotal(t) \/ WriteLatency(t)
             \/ WriteAverage(t) \/ WriteRest(t)

Next == \E t \in Threads : Call(t) \/ Fail(t) \/ Answer(t) \/ Update(t)

Spec == Init /\ [][Next]_vars

-----------------------------------------------------------------------------
Quiet == \A t \in Threads : pc[t] \notin Updating

(* Requests may overlap freely: as long as no two of their updates do, the *)
(* count is the number of completed requests and the average their mean    *)
(* latency, without drift however many there are.                          *)
UndisturbedIsExact ==
    (Quiet /\ ~overlap) => /\ total = completed
                           /\ avg[1] * completed = latSum * avg[2]

(* A request reports what it measured.  After a stream the time and the    *)
(* rate are those of its own chunks.  A Generate reports no time to first  *)
(* token; a Chat (line 246) and, for an answer without tokens, the rate of *)
(* either, report what the caller's result object holds from an earlier    *)
(* call: there is a time only if a ChatStream filled that object before,   *)
(* although the docs promise 0.0 for every non-streaming call.             *)
TimedExactlyWhenStreamed ==
    (Quiet /\ ~overlap /\ completed > 0) =>
        IF newest.kind \in Streams
        THEN ttft = tokens /\ rate = tokens
        ELSE /\ ttft # 0 => newest.kind = "Chat" /\ newest.before = "timed"
             /\ rate # 0 => tokens > 0 \/ newest.before # "nobody"

=============================================================================
