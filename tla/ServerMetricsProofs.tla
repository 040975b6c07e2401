------------------------- MODULE ServerMetricsProofs -------------------------
(***************************************************************************)
(* Proofs about ServerMetrics, for any number of threads, requests and     *)
(* latencies.  The inductive invariant:                                    *)
(*   Typed    the numbers are natural numbers,                             *)
(*   Exact    while no two updates overlap, how far the only update has    *)
(*            come says what count and average are,                        *)
(*   Honest   a report says what its request measured or, of a call that   *)
(*            does not stream, what the result object held before.         *)
(***************************************************************************)
EXTENDS ServerMetrics, TLAPS

Points == {"idle", "running"} \cup Updating

Numbers == /\ total \in Nat /\ completed \in Nat /\ latSum \in Nat
           /\ avg \in Nat \X Nat
           /\ overlap \in BOOLEAN

Locals == /\ pc \in [Threads -> Points]
          /\ lat \in [Threads -> Nat]
          /\ prev \in [Threads -> Nat]

Typed == Numbers /\ Locals

(* The average stands for n requests that took s together.                 *)
Mean(n, s) == avg[1] * n = s * avg[2]

Counted == {"latency", "average", "rest"}

Alone == \A t, u \in Threads : pc[t] \in Updating /\ pc[u] \in Updating => t = u

Exact ==
    ~overlap =>
        /\ Alone
        /\ (\A t \in Threads : pc[t] \notin Counted) => total = completed
        /\ (\A t \in Threads : pc[t] # "rest") => Mean(completed, latSum)
        /\ \A t \in Threads :
              /\ pc[t] \in {"total", "latency", "average"} => prev[t] = completed
              /\ pc[t] \in Counted => total = completed + 1
              /\ pc[t] = "rest" => Mean(completed + 1, latSum + lat[t])

(* What a request of kind k may report that took an object held by.        *)
Agrees(k, by, r) ==
    IF k \in Streams
    THEN r.ttft = r.tokens /\ r.rate = r.tokens
    ELSE /\ r.ttft # 0 => k = "Chat" /\ by = "timed"
         /\ r.rate # 0 => r.tokens > 0 \/ by # "nobody"

(* What a result object h can hold that was filled by.                     *)
Carries(h, r, by) ==
    /\ r.ttft # 0 /\ h = "VlmChatResult" => by = "timed"
    /\ r.rate # 0 => by # "nobody"

Reports == [ttft : Int, tokens : Int, rate : Int]
Objects == [ttft : Int, rate : Int]
Marks   == {"nobody", "call", "timed"}

Honest ==
    /\ kind \in [Threads -> Kinds]
    /\ out \in [Threads -> Reports]
    /\ before \in [Threads -> Marks]
    /\ result \in [Threads -> [Holders -> Objects]]
    /\ filled \in [Threads -> [Holders -> Marks]]
    /\ \A t \in Threads, h \in Holders : Carries(h, result[t][h], filled[t][h])
    /\ \A t \in Threads : pc[t] \in Updating => Agrees(kind[t], before[t], out[t])
    /\ \A t \in Threads : pc[t] \notin Updating => before[t] = "nobody"
    /\ completed > 0 =>
          Agrees(newest.kind, newest.before,
                 [ttft |-> ttft, tokens |-> tokens, rate |-> rate])

-----------------------------------------------------------------------------
(* The new average is the mean of one request more.                        *)
LEMMA MeanGrows ==
    ASSUME NEW a \in Nat, NEW b \in Nat, NEW c \in Nat, NEW s \in Nat,
           NEW l \in Nat, a * c = s * b
    PROVE  (a * c + l * b) * (c + 1) = (s + l) * (b * (c + 1))
<1>1. a * c + l * b = (s + l) * b
  BY SMT
<1>2. (a * c + l * b) * (c + 1) = ((s + l) * b) * (c + 1)
  BY <1>1
<1>3. \A x, y, z \in Nat : (x * y) * z = x * (y * z)
  BY SMT
<1>4. s + l \in Nat /\ c + 1 \in Nat
  OBVIOUS
<1> QED BY <1>2, <1>3, <1>4

(* Before the first request everything is zero.                            *)
LEMMA InvInit == Init => Typed /\ Exact
<1> SUFFICES ASSUME Init
             PROVE  Typed /\ Exact
  OBVIOUS
<1>1. /\ avg \in Nat \X Nat /\ avg[1] = 0 /\ avg[2] = 1
      /\ total = 0 /\ completed = 0 /\ latSum = 0 /\ ~overlap
  BY DEF Init
<1>2. \A t \in Threads : pc[t] = "idle"
  BY DEF Init
<1>3. Locals
  BY DEF Init, Locals, Points
<1>4. Mean(completed, latSum)
  BY <1>1 DEF Mean
<1>5. overlap \in BOOLEAN
  BY DEF Init
<1> QED BY <1>1, <1>2, <1>3, <1>4, <1>5 DEF Typed, Numbers, Exact, Alone, Counted, Updating

(* Counters and locals stay natural numbers, overlaps included.            *)
LEMMA TypedStep ==
    ASSUME Typed, Next
    PROVE  Typed'
<1> USE MetricsAssumption DEF Typed, Numbers, Locals
<1>1. PICK t \in Threads : Call(t) \/ Fail(t) \/ Answer(t) \/ Update(t)
  BY DEF Next
<1>2. CASE Call(t)
  BY <1>2 DEF Call, Points, metrics, history
<1>3. CASE Fail(t)
  BY <1>3 DEF Fail, Return, Points, metrics, history
<1>4. CASE Answer(t)
  BY <1>4 DEF Answer, Points, Updating, metrics
<1>5. CASE ReadCount(t)
  BY <1>5 DEF ReadCount, Points, Updating, metrics, history
<1>6. CASE WriteTotal(t)
  BY <1>6 DEF WriteTotal, Points, Updating, history
<1>7. CASE WriteLatency(t)
  BY <1>7 DEF WriteLatency, Points, Updating, history
<1>8. CASE WriteAverage(t)
  <2>1. PICK n \in {total, prev[t] + 1} :
            avg' = <<avg[1] * prev[t] + lat[t] * avg[2], avg[2] * n>>
    BY <1>8 DEF WriteAverage
  <2>2. /\ avg[1] \in Nat /\ avg[2] \in Nat /\ prev[t] \in Nat
        /\ lat[t] \in Nat /\ n \in Nat
    BY <2>1
  <2>3. \A x, y \in Nat : x * y \in Nat /\ x + y \in Nat
    OBVIOUS
  <2>4. avg' \in Nat \X Nat
    BY <2>1, <2>2, <2>3
  <2> QED BY <1>8, <2>4 DEF WriteAverage, Points, Updating, history
<1>9. CASE WriteRest(t)
  BY <1>9 DEF WriteRest, Return, Points
<1> QED BY <1>1, <1>2, <1>3, <1>4, <1>5, <1>6, <1>7, <1>8, <1>9 DEF Update

(* A step of the only update keeps count and average where they belong.    *)
LEMMA ExactStep ==
    ASSUME Typed, Exact, Next
    PROVE  Exact'
<1> SUFFICES ASSUME ~overlap'
             PROVE  Exact'
  BY DEF Exact
<1> USE DEF Typed, Numbers, Locals, Mean
<1>1. PICK t \in Threads : Call(t) \/ Fail(t) \/ Answer(t) \/ Update(t)
  BY DEF Next
<1>2. ~overlap
  BY <1>1 DEF Call, Fail, Answer, Update, ReadCount, WriteTotal, WriteLatency,
     WriteAverage, WriteRest, history
<1>3. CASE Call(t)
  BY <1>2, <1>3 DEF Call, Exact, Alone, Counted, Updating, metrics, history
<1>4. CASE Fail(t)
  BY <1>2, <1>4 DEF Fail, Return, Exact, Alone, Counted, Updating, metrics, history
<1>5. CASE Answer(t)
  <2>1. /\ pc' = [pc EXCEPT ![t] = "count"] /\ pc[t] = "running"
        /\ \A u \in Threads \ {t} : pc[u] \notin Updating
        /\ \E l \in Latencies : lat' = [lat EXCEPT ![t] = l]
        /\ UNCHANGED <<metrics, prev, completed, latSum>>
    BY <1>5 DEF Answer
  <2> QED BY <1>2, <2>1 DEF Exact, Alone, Counted, Updating, metrics
<1>6. ASSUME pc[t] \in Updating
      PROVE  \A u \in Threads \ {t} : pc[u] \notin Updating
  BY <1>2, <1>6 DEF Exact, Alone
<1>7. CASE ReadCount(t)
  BY <1>2, <1>6, <1>7 DEF ReadCount, Exact, Alone, Counted, Updating, metrics, history
<1>8. CASE WriteTotal(t)
  BY <1>2, <1>6, <1>8 DEF WriteTotal, Exact, Alone, Counted, Updating, history
<1>9. CASE WriteLatency(t)
  BY <1>2, <1>6, <1>9 DEF WriteLatency, Exact, Alone, Counted, Updating, history
<1>10. CASE WriteAverage(t)
  <2>1. /\ pc[t] = "average" /\ pc' = [pc EXCEPT ![t] = "rest"]
        /\ UNCHANGED <<total, lat, prev, completed, latSum>>
    BY <1>10 DEF WriteAverage, history
  <2>2. \A u \in Threads \ {t} : pc[u] \notin Updating
    BY <1>6, <2>1 DEF Updating
  <2>3. prev[t] = completed /\ total = completed + 1 /\ Mean(completed, latSum)
    BY <1>2, <2>1, <2>2 DEF Exact, Counted, Updating
  <2>4. avg' = <<avg[1] * completed + lat[t] * avg[2], avg[2] * (completed + 1)>>
    BY <1>10, <2>3 DEF WriteAverage
  <2>5. /\ avg[1] \in Nat /\ avg[2] \in Nat /\ lat[t] \in Nat
        /\ completed \in Nat /\ latSum \in Nat
        /\ avg[1] * completed = latSum * avg[2]
    BY <2>3
  <2>6. (avg[1] * completed + lat[t] * avg[2]) * (completed + 1)
            = (latSum + lat[t]) * (avg[2] * (completed + 1))
    <3> DEFINE a == avg[1]
               b == avg[2]
               l == lat[t]
    <3>1. /\ a \in Nat /\ b \in Nat /\ l \in Nat /\ completed \in Nat
          /\ latSum \in Nat /\ a * completed = latSum * b
      BY <2>5
    <3> HIDE DEF a, b, l
    <3>2. (a * completed + l * b) * (completed + 1)
              = (latSum + l) * (b * (completed + 1))
      BY <3>1, MeanGrows
    <3> QED BY <3>2 DEF a, b, l
  <2>7. /\ avg'[1] = avg[1] * completed + lat[t] * avg[2]
        /\ avg'[2] = avg[2] * (completed + 1)
    BY <2>4
  <2>8. avg'[1] * (completed + 1) = (latSum + lat[t]) * avg'[2]
    BY <2>6, <2>7
  <2> HIDE DEF Mean
  <2>9. Mean(completed + 1, latSum + lat[t])'
    BY <2>1, <2>8 DEF Mean
  <2> QED BY <2>1, <2>2, <2>3, <2>9 DEF Exact, Alone, Counted, Updating
<1>11. CASE WriteRest(t)
  <2>1. /\ pc[t] = "rest" /\ pc' = [pc EXCEPT ![t] = "idle"]
        /\ completed' = completed + 1 /\ latSum' = latSum + lat[t]
        /\ UNCHANGED <<total, avg>>
        /\ prev' = [prev EXCEPT ![t] = 0] /\ lat' = [lat EXCEPT ![t] = 0]
    BY <1>11 DEF WriteRest, Return
  <2>2. \A u \in Threads \ {t} : pc[u] \notin Updating
    BY <1>6, <2>1 DEF Updating
  <2>3. total = completed + 1 /\ Mean(completed + 1, latSum + lat[t])
    BY <1>2, <2>1, <2>2 DEF Exact, Counted, Updating
  <2>4. \A u \in Threads : pc'[u] \notin Updating
    BY <2>1, <2>2 DEF Updating
  <2> HIDE DEF Mean
  <2>5. Mean(completed, latSum)'
    BY <2>1, <2>3 DEF Mean
  <2> QED BY <2>1, <2>3, <2>4, <2>5 DEF Exact, Alone, Counted, Updating
<1> QED BY <1>1, <1>3, <1>4, <1>5, <1>7, <1>8, <1>9, <1>10, <1>11 DEF Update

(* What an answer reports and leaves in the object it filled.              *)
LEMMA ReportAgrees ==
    ASSUME NEW k \in Kinds, NEW n \in {0, 1}, NEW r \in Objects, NEW by \in Marks,
           Carries(Holder(k), r, by)
    PROVE  /\ Holder(k) \in Holders
           /\ Reported(k, n, r) \in Reports
           /\ Agrees(k, by, Reported(k, n, r))
           /\ Filled(k, n, r) \in Objects
           /\ Mark(k, by) \in Marks
           /\ Carries(Holder(k), Filled(k, n, r), Mark(k, by))
<1> USE DEF Reported, Filled, Agrees, Carries, Streams, Reports, Objects, Marks,
        Holder, Holders, Mark
<1>1. CASE k = "Generate"
  BY <1>1
<1>2. CASE k = "Chat"
  BY <1>2
<1>3. CASE k = "GenerateStream"
  BY <1>3
<1>4. CASE k = "ChatStream"
  BY <1>4
<1> QED BY <1>1, <1>2, <1>3, <1>4 DEF Kinds

(* A new object carries nothing.                                           *)
LEMMA NothingCarried ==
    /\ Fresh \in Objects /\ "nobody" \in Marks
    /\ \A h \in Holders : Carries(h, Fresh, "nobody")
    /\ NoReport \in Reports
    /\ \A k \in {"Generate", "Chat"}, by \in Marks : Agrees(k, by, NoReport)
BY DEF Fresh, Objects, Marks, Carries, NoReport, Reports, Agrees, Streams

(* A time passes from one request into another's report only through the   *)
(* object of a Chat.                                                       *)
LEMMA HonestStep ==
    ASSUME Typed, Honest, Next
    PROVE  Honest'
<1> USE DEF Typed, Numbers, Locals, Honest
<1>1. PICK t \in Threads : Call(t) \/ Fail(t) \/ Answer(t) \/ Update(t)
  BY DEF Next
<1>2. "Generate" \in Kinds /\ "idle" \notin Updating /\ "running" \notin Updating
      /\ "count" \in Updating
  BY DEF Kinds, Updating
<1>3. ASSUME Return(t)
      PROVE  /\ UNCHANGED <<result, filled>>
             /\ kind' \in [Threads -> Kinds] /\ out' \in [Threads -> Reports]
             /\ before' \in [Threads -> Marks]
             /\ pc' = [pc EXCEPT ![t] = "idle"] /\ before'[t] = "nobody"
             /\ \A u \in Threads \ {t} : /\ kind'[u] = kind[u] /\ out'[u] = out[u]
                                         /\ before'[u] = before[u]
  BY <1>2, <1>3, NothingCarried DEF Return
<1>4. CASE Call(t)
  <2>1. PICK k \in Kinds : kind' = [kind EXCEPT ![t] = k]
    BY <1>4 DEF Call
  <2>2. /\ pc[t] = "idle" /\ pc' = [pc EXCEPT ![t] = "running"]
        /\ UNCHANGED <<metrics, out, result, history>>
    BY <1>4 DEF Call
  <2> QED BY <1>2, <2>1, <2>2 DEF metrics, history
<1>5. CASE Fail(t)
  <2>1. /\ pc[t] = "running" /\ Return(t)
        /\ UNCHANGED <<ttft, tokens, rate, completed, newest>>
    BY <1>5 DEF Fail, metrics
  <2> QED BY <1>2, <1>3, <2>1
<1>6. CASE Answer(t)
  <2> DEFINE k == kind[t]
             h == Holder(k)
  <2>1. /\ pc[t] = "running" /\ pc' = [pc EXCEPT ![t] = "count"]
        /\ UNCHANGED <<kind, ttft, tokens, rate, completed, newest>>
        /\ k \in Kinds /\ h \in Holders
    BY <1>6 DEF Answer, metrics, Holder, Holders
  <2>2. before[t] = "nobody"
    BY <1>2, <2>1
  <2>3. PICK n \in {0, 1} :
           \/ \E new \in BOOLEAN :
                 LET r  == IF new THEN Fresh ELSE result[t][h]
                     by == IF new THEN "nobody" ELSE filled[t][h]
                 IN  /\ result' = [result EXCEPT ![t][h] = Filled(k, n, r)]
                     /\ out' = [out EXCEPT ![t] = Reported(k, n, r)]
                     /\ before' = [before EXCEPT ![t] = by]
                     /\ filled' = [filled EXCEPT ![t][h] = Mark(k, by)]
           \/ /\ out' = [out EXCEPT ![t] =
                         IF k \in Streams THEN Reported(k, n, Fresh) ELSE NoReport]
              /\ UNCHANGED <<result, before, filled>>
    BY <1>6 DEF Answer
  <2> HIDE DEF k
  <2>4. CASE \E r \in Objects, by \in Marks :
               /\ Carries(h, r, by)
               /\ result' = [result EXCEPT ![t][h] = Filled(k, n, r)]
               /\ out' = [out EXCEPT ![t] = Reported(k, n, r)]
               /\ before' = [before EXCEPT ![t] = by]
               /\ filled' = [filled EXCEPT ![t][h] = Mark(k, by)]
    <3>1. PICK r \in Objects, by \in Marks :
               /\ Carries(h, r, by)
               /\ result' = [result EXCEPT ![t][h] = Filled(k, n, r)]
               /\ out' = [out EXCEPT ![t] = Reported(k, n, r)]
               /\ before' = [before EXCEPT ![t] = by]
               /\ filled' = [filled EXCEPT ![t][h] = Mark(k, by)]
      BY <2>4
    <3> DEFINE f == Filled(k, n, r)
               o == Reported(k, n, r)
               m == Mark(k, by)
    <3>2. /\ o \in Reports /\ Agrees(k, by, o) /\ f \in Objects
          /\ m \in Marks /\ Carries(h, f, m)
      BY <2>1, <3>1, ReportAgrees
    <3> HIDE DEF f, o, m, h
    <3>3. /\ result' \in [Threads -> [Holders -> Objects]]
          /\ filled' \in [Threads -> [Holders -> Marks]]
          /\ out' \in [Threads -> Reports] /\ before' \in [Threads -> Marks]
      BY <2>1, <3>1, <3>2 DEF f, o, m
    <3>4. \A u \in Threads, g \in Holders : Carries(g, result'[u][g], filled'[u][g])
      BY <2>1, <3>1, <3>2 DEF f, m
    <3>5. out'[t] = o /\ before'[t] = by
          /\ \A u \in Threads \ {t} : out'[u] = out[u] /\ before'[u] = before[u]
      BY <3>1 DEF o
    <3>6. \A u \in Threads : pc'[u] \in Updating => Agrees(kind'[u], before'[u], out'[u])
      BY <2>1, <3>2, <3>5 DEF k
    <3> QED BY <1>2, <2>1, <3>3, <3>4, <3>5, <3>6
  <2>5. CASE /\ out' = [out EXCEPT ![t] =
                         IF k \in Streams THEN Reported(k, n, Fresh) ELSE NoReport]
             /\ UNCHANGED <<result, before, filled>>
    <3>1. out'[t] \in Reports /\ Agrees(k, "nobody", out'[t])
      BY <2>1, <2>5, ReportAgrees, NothingCarried DEF Kinds
    <3>2. /\ out' \in [Threads -> Reports]
          /\ \A u \in Threads \ {t} : out'[u] = out[u]
      BY <2>5, <3>1
    <3>3. \A u \in Threads : pc'[u] \in Updating => Agrees(kind'[u], before'[u], out'[u])
      BY <2>1, <2>2, <2>5, <3>1, <3>2 DEF k
    <3> QED BY <1>2, <2>1, <2>5, <3>2, <3>3
  <2>6. ASSUME NEW new \in BOOLEAN
        PROVE  LET r  == IF new THEN Fresh ELSE result[t][h]
                   by == IF new THEN "nobody" ELSE filled[t][h]
               IN  r \in Objects /\ by \in Marks /\ Carries(h, r, by)
    BY <2>1, <2>6, NothingCarried
  <2> QED BY <2>3, <2>4, <2>5, <2>6
<1>7. CASE ReadCount(t)
  BY <1>7 DEF ReadCount, Updating, metrics, history
<1>8. CASE WriteTotal(t)
  BY <1>8 DEF WriteTotal, Updating, history
<1>9. CASE WriteLatency(t)
  BY <1>9 DEF WriteLatency, Updating, history
<1>10. CASE WriteAverage(t)
  BY <1>10 DEF WriteAverage, Updating, history
<1>11. CASE WriteRest(t)
  <2>1. /\ pc[t] = "rest" /\ Return(t)
        /\ ttft' = out[t].ttft /\ tokens' = out[t].tokens /\ rate' = out[t].rate
        /\ newest' = [kind |-> kind[t], before |-> before[t]]
        /\ completed' = completed + 1
    BY <1>11 DEF WriteRest
  <2>2. Agrees(kind[t], before[t], out[t])
    BY <2>1 DEF Updating
  <2>3. Agrees(newest'.kind, newest'.before,
               [ttft |-> ttft', tokens |-> tokens', rate |-> rate'])
    BY <2>1, <2>2 DEF Agrees
  <2> QED BY <1>2, <1>3, <2>1, <2>3
<1> QED BY <1>1, <1>4, <1>5, <1>6, <1>7, <1>8, <1>9, <1>10, <1>11 DEF Update

-----------------------------------------------------------------------------
(* The count and the average are exact however many requests overlap, as   *)
(* long as no two updates do: the hypothesis stands in the property.       *)
THEOREM CountIsExact == Spec => []UndisturbedIsExact
<1>1. Typed /\ Exact /\ [Next]_vars => (Typed /\ Exact)'
  <2> SUFFICES ASSUME Typed, Exact, [Next]_vars
               PROVE  (Typed /\ Exact)'
    OBVIOUS
  <2>1. CASE Next
    BY <2>1, TypedStep, ExactStep
  <2>2. CASE UNCHANGED vars
    BY <2>2 DEF vars, metrics, locals, history, Typed, Numbers, Locals, Exact,
       Alone, Mean
  <2> QED BY <2>1, <2>2
<1>2. Exact => UndisturbedIsExact
  BY DEF Exact, UndisturbedIsExact, Quiet, Counted, Updating, Mean
<1> QED BY InvInit, <1>1, <1>2, PTL DEF Spec

(* The last reported time was measured by the last request to complete, or *)
(* it is what a Chat found in a result object that a ChatStream filled     *)
(* before, however callers pass their objects on.                          *)
THEOREM TimesAreMeasured == Spec => []TimedExactlyWhenStreamed
<1>1. Init => Typed /\ Honest
  <2>1. Init => Typed
    BY InvInit
  <2>2. Init => Honest
    <3> SUFFICES ASSUME Init
                 PROVE  Honest
      OBVIOUS
    <3>1. "Generate" \in Kinds /\ "idle" \notin Updating
      BY DEF Kinds, Updating
    <3>2. /\ result \in [Threads -> [Holders -> Objects]]
          /\ filled \in [Threads -> [Holders -> Marks]]
      BY NothingCarried DEF Init
    <3>3. \A t \in Threads, h \in Holders : Carries(h, result[t][h], filled[t][h])
      BY NothingCarried DEF Init
    <3> QED BY <3>1, <3>2, <3>3, NothingCarried DEF Init, Honest
  <2> QED BY <2>1, <2>2
<1>2. Typed /\ Honest /\ [Next]_vars => (Typed /\ Honest)'
  <2> SUFFICES ASSUME Typed, Honest, [Next]_vars
               PROVE  (Typed /\ Honest)'
    OBVIOUS
  <2>1. CASE Next
    BY <2>1, TypedStep, HonestStep
  <2>2. CASE UNCHANGED vars
    BY <2>2 DEF vars, metrics, locals, history, Typed, Numbers, Locals, Honest
  <2> QED BY <2>1, <2>2
<1>3. Honest => TimedExactlyWhenStreamed
  BY DEF Honest, TimedExactlyWhenStreamed, Agrees
<1> QED BY <1>1, <1>2, <1>3, PTL DEF Spec
=============================================================================
