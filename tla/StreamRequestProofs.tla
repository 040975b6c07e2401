------------------------- MODULE StreamRequestProofs -------------------------
(***************************************************************************)
(* Proofs about StreamRequest, for every length of the answer, every       *)
(* capacity of the pipe and every set of faults.  The inductive invariant: *)
(*   Typed    the types, and the bound on the lines,                       *)
(*   Life     what exists at each point: file, pipe, curl, result,         *)
(*   Reading  the deltas from 1 to sent lie, in order and without a gap,   *)
(*            in the text, then in the buffer, then in the pipe, and what  *)
(*            has no number lies behind the text of the end marker,        *)
(*   Telling  the text and what the consumer heard are in step.            *)
(***************************************************************************)
EXTENDS StreamRequest, SequenceTheorems, TLAPS

Before == {"mkstemp", "write", "popen"}
After  == {"pclose", "unlink", "finish", "returned"}

Places == pc \in Points /\ ret \in {"none", "true", "false"}
              /\ curl \in {"none", "running", "ok", "failed"}

Flags == /\ callback \in BOOLEAN /\ tmp \in BOOLEAN /\ closed \in BOOLEAN
         /\ stopped \in BOOLEAN /\ readEnd \in BOOLEAN
         /\ finished \in BOOLEAN /\ refused \in BOOLEAN
         /\ long \in BOOLEAN /\ quoted \in BOOLEAN

Lines == line \in Line /\ pipe \in Seq(Line)

Texts == accumulated \in Seq(1..MaxLines) /\ heard \in Seq(1..MaxLines)

Count == /\ sent \in 0..MaxLines /\ lines \in 0..MaxLines + 1
         /\ deltas \in Nat /\ deltas <= lines
         /\ sent <= deltas /\ (~long /\ ~quoted => sent = deltas)
         /\ ~finished => lines <= MaxLines

Typed == Places /\ Flags /\ Lines /\ Texts /\ Count

Life ==
    /\ pc \in Before => curl = "none"
    /\ curl = "none" => /\ ~readEnd /\ pipe = <<>> /\ sent = 0
                        /\ pc \in Before \cup {"returned"}
    /\ pc \in {"read", "parse", "call"} => readEnd
    /\ pc \in {"unlink", "finish", "returned"} => ~readEnd /\ curl # "running"
    /\ pc \in {"mkstemp", "finish", "returned"} => ~tmp
    /\ pc # "returned" => ret = "none" /\ ~closed
    /\ stopped => pc \in After
    /\ ret = "true" => curl = "ok"
    /\ curl = "ok" => finished

IsPiece(l) == l.id # 0

(* The lines q hold the deltas n + 1 to m, in order and without a gap.     *)
Queue(q, n, m) ==
    /\ n <= m
    /\ \A i \in 1..Len(q) : IsPiece(q[i]) => q[i].id \in (n + 1)..m
    /\ \A i, j \in 1..Len(q) :
          i < j /\ IsPiece(q[i]) /\ IsPiece(q[j]) => q[i].id < q[j].id
    /\ \A k \in (n + 1)..m : \E i \in 1..Len(q) : IsPiece(q[i]) /\ q[i].id = k

(* A delta the reader would take although it has no number.                *)
Late(l) == l.kind = "delta" /\ ~IsPiece(l) /\ ~l.marks

(* In the lines q such a delta only lies behind the text of the end        *)
(* marker, which is there if it has been quoted.                           *)
Clear(q, quo) ==
    /\ \A j \in 1..Len(q) : Late(q[j]) => \E i \in 1..Len(q) : i < j /\ q[i].marks
    /\ quo => \E i \in 1..Len(q) : q[i].marks

NoPiece(q) == \A i \in 1..Len(q) : ~IsPiece(q[i])

(* Behind that text no delta has a number.                                 *)
Behind(q, over) ==
    \A i \in 1..Len(q) : q[i].marks =>
        over /\ \A j \in 1..Len(q) : i < j => ~IsPiece(q[j])

Over == quoted \/ finished

InOrder(s) == \A i \in 1..Len(s) : s[i] = i

Held == Len(accumulated)

Reading ==
    /\ pc \in Before \cup {"read", "call"} =>
           Queue(pipe, Held, sent) /\ Clear(pipe, quoted)
    /\ pc = "parse" /\ IsPiece(line) => line.id = Held + 1 /\ Queue(pipe, Held + 1, sent)
    /\ pc = "parse" /\ ~IsPiece(line) => Queue(pipe, Held, sent)
    /\ pc = "parse" /\ ~line.marks => Clear(pipe, quoted) /\ ~Late(line)
    /\ pc = "parse" /\ line.marks => Over /\ NoPiece(pipe)
    /\ Behind(pipe, Over)
    /\ (pc \in After /\ curl # "none" /\ ~stopped) =>
           Held = sent /\ (Over \/ curl = "failed")

Telling ==
    /\ InOrder(accumulated) /\ InOrder(heard)
    /\ pc = "call" => callback /\ line.id = Held /\ Len(heard) = Held - 1
    /\ callback /\ pc # "call" => Len(heard) = Held

IInv == Typed /\ Life /\ Reading /\ Telling

-----------------------------------------------------------------------------
(* Before the request has done anything the invariant holds.               *)
LEMMA InvInit == Init => IInv
<1> SUFFICES ASSUME Init
             PROVE  IInv
  OBVIOUS
<1>1. /\ Len(pipe) = 0 /\ Held = 0 /\ Len(heard) = 0
      /\ accumulated \in Seq(1..MaxLines) /\ heard \in Seq(1..MaxLines)
      /\ pipe \in Seq(Line)
  BY DEF Init, Held
<1>2. NoLine \in Line
  BY DEF NoLine, Blank, Line
<1>3. Typed
  <2>1. Places /\ Flags
    BY DEF Init, Places, Flags, Points
  <2>2. Lines /\ Texts
    BY <1>1, <1>2 DEF Init, Lines, Texts
  <2>3. Count
    BY StreamAssumption DEF Init, Count
  <2> QED BY <2>1, <2>2, <2>3 DEF Typed
<1>4. Life
  BY DEF Init, Life, Before, After
<1>5. Reading
  BY <1>1 DEF Init, Reading, Queue, Clear, Behind, Before, After
<1>6. Telling
  BY <1>1 DEF Init, Telling, InOrder, Held
<1> QED BY <1>3, <1>4, <1>5, <1>6 DEF IInv

(* A line of the answer, as the reader sees it.                            *)
LEMMA PieceHasNumber ==
    ASSUME NEW l \in Line, IsPiece(l)
    PROVE  l.id \in 1..MaxLines /\ l.kind = "delta" /\ ~l.marks
BY DEF Line, IsPiece

(* The deltas leave the queue in the order of their numbers.               *)
LEMMA QueueHead ==
    ASSUME NEW q \in Seq(Line), NEW n \in Nat, NEW m \in Nat,
           q # <<>>, Queue(q, n, m)
    PROVE  /\ IsPiece(Head(q)) => /\ Head(q).id = n + 1
                                  /\ Queue(Tail(q), n + 1, m)
           /\ ~IsPiece(Head(q)) => Queue(Tail(q), n, m)
<1>1. /\ Len(Tail(q)) = Len(q) - 1 /\ Len(q) \in Nat /\ Len(q) >= 1
      /\ \A i \in 1..Len(Tail(q)) : Tail(q)[i] = q[i + 1]
      /\ Head(q) = q[1]
  BY HeadTailProperties, EmptySeq
<1>2. \A i \in 1..Len(q) : q[i] \in Line
  BY ElementOfSeq
<1>3. \A i \in 1..Len(q) : IsPiece(q[i]) => q[i].id \in Nat
  BY <1>2, PieceHasNumber, StreamAssumption
<1>4. ASSUME IsPiece(Head(q))
      PROVE  Head(q).id = n + 1
  <2>1. Head(q).id \in (n + 1)..m
    BY <1>1, <1>4 DEF Queue
  <2>2. PICK i \in 1..Len(q) : IsPiece(q[i]) /\ q[i].id = n + 1
    BY <2>1 DEF Queue
  <2>3. i = 1
    <3>1. ASSUME i # 1
          PROVE  FALSE
      <4>1. 1 < i /\ 1 \in 1..Len(q)
        BY <1>1, <3>1
      <4>2. q[1].id < q[i].id
        BY <4>1, <2>2, <1>1, <1>4 DEF Queue
      <4> QED BY <4>2, <2>1, <2>2, <1>1
    <3> QED BY <3>1
  <2> QED BY <2>2, <2>3, <1>1
<1>5. ASSUME NEW a \in {n, n + 1}, a <= m,
             \A i \in 1..Len(Tail(q)) : IsPiece(Tail(q)[i]) => Tail(q)[i].id \in (a + 1)..m,
             \A k \in (a + 1)..m : ~(IsPiece(q[1]) /\ q[1].id = k)
      PROVE  Queue(Tail(q), a, m)
  <2>1. ASSUME NEW i \in 1..Len(Tail(q)), NEW j \in 1..Len(Tail(q)),
               i < j, IsPiece(Tail(q)[i]), IsPiece(Tail(q)[j])
        PROVE  Tail(q)[i].id < Tail(q)[j].id
    <3>1. /\ Tail(q)[i] = q[i + 1] /\ Tail(q)[j] = q[j + 1]
          /\ i + 1 \in 1..Len(q) /\ j + 1 \in 1..Len(q) /\ i + 1 < j + 1
      BY <1>1, <2>1
    <3> QED BY <3>1, <2>1 DEF Queue
  <2>2. ASSUME NEW k \in (a + 1)..m
        PROVE  \E i \in 1..Len(Tail(q)) : IsPiece(Tail(q)[i]) /\ Tail(q)[i].id = k
    <3>1. PICK i \in 1..Len(q) : IsPiece(q[i]) /\ q[i].id = k
      BY <1>5 DEF Queue
    <3>2. i # 1
      BY <1>5, <3>1
    <3>3. i - 1 \in 1..Len(Tail(q)) /\ Tail(q)[i - 1] = q[i]
      BY <1>1, <3>2
    <3> QED BY <3>1, <3>3
  <2> QED BY <1>5, <2>1, <2>2 DEF Queue
<1>6. ASSUME NEW i \in 1..Len(Tail(q)), IsPiece(Tail(q)[i])
      PROVE  /\ Tail(q)[i].id \in (n + 1)..m
             /\ IsPiece(Head(q)) => Head(q).id < Tail(q)[i].id
  <2>1. Tail(q)[i] = q[i + 1] /\ i + 1 \in 1..Len(q) /\ 1 \in 1..Len(q) /\ 1 < i + 1
    BY <1>1
  <2> QED BY <2>1, <1>1, <1>6 DEF Queue
<1>7. CASE IsPiece(Head(q))
  <2>1. Head(q).id = n + 1
    BY <1>4, <1>7
  <2>2. n + 1 <= m
    BY <2>1, <1>1, <1>7 DEF Queue
  <2>3. \A i \in 1..Len(Tail(q)) : IsPiece(Tail(q)[i]) => Tail(q)[i].id \in (n + 2)..m
    BY <1>6, <1>7, <2>1
  <2>4. Queue(Tail(q), n + 1, m)
    BY <1>5, <2>1, <2>2, <2>3, <1>1
  <2> QED BY <1>7, <2>1, <2>4
<1>8. CASE ~IsPiece(Head(q))
  BY <1>5, <1>6, <1>8, <1>1 DEF Queue
<1> QED BY <1>7, <1>8

(* A new line goes to the end of the queue.                                *)
LEMMA QueueAppend ==
    ASSUME NEW q \in Seq(Line), NEW n \in Nat, NEW m \in Nat, NEW l \in Line,
           Queue(q, n, m)
    PROVE  /\ q \o <<l>> \in Seq(Line)
           /\ IsPiece(l) /\ l.id = m + 1 => Queue(q \o <<l>>, n, m + 1)
           /\ ~IsPiece(l) => Queue(q \o <<l>>, n, m)
<1> DEFINE r == q \o <<l>>
<1>1. /\ r \in Seq(Line) /\ Len(q) \in Nat /\ Len(r) = Len(q) + 1
      /\ \A i \in 1..Len(q) : r[i] = q[i]
      /\ r[Len(q) + 1] = l
  OBVIOUS
<1> HIDE DEF r
<1>2. \A i \in 1..Len(r) : i \in 1..Len(q) \/ i = Len(q) + 1
  BY <1>1
<1>3. ASSUME NEW i \in 1..Len(q), IsPiece(q[i])
      PROVE  q[i].id \in (n + 1)..m
  BY <1>3 DEF Queue
<1>4. ASSUME NEW b \in {m, m + 1}, IsPiece(l) => l.id = b /\ b = m + 1,
             b = m + 1 => IsPiece(l)
      PROVE  Queue(r, n, b)
  <2>1. n <= b
    BY DEF Queue
  <2>2. ASSUME NEW i \in 1..Len(r), IsPiece(r[i])
        PROVE  r[i].id \in (n + 1)..b
    <3>1. CASE i \in 1..Len(q)
      BY <3>1, <2>2, <1>1, <1>3
    <3>2. CASE i = Len(q) + 1
      BY <3>2, <2>2, <2>1, <1>1, <1>4 DEF Queue
    <3> QED BY <3>1, <3>2, <1>2
  <2>3. ASSUME NEW i \in 1..Len(r), NEW j \in 1..Len(r), i < j,
               IsPiece(r[i]), IsPiece(r[j])
        PROVE  r[i].id < r[j].id
    <3>1. i \in 1..Len(q) /\ r[i] = q[i]
      BY <1>1, <1>2, <2>3
    <3>2. CASE j \in 1..Len(q)
      BY <3>1, <3>2, <2>3, <1>1 DEF Queue
    <3>3. CASE j = Len(q) + 1
      BY <3>1, <3>3, <2>3, <1>1, <1>3, <1>4
    <3> QED BY <3>2, <3>3, <1>2
  <2>4. ASSUME NEW k \in (n + 1)..b
        PROVE  \E i \in 1..Len(r) : IsPiece(r[i]) /\ r[i].id = k
    <3>1. CASE k \in (n + 1)..m
      <4>1. PICK i \in 1..Len(q) : IsPiece(q[i]) /\ q[i].id = k
        BY <3>1 DEF Queue
      <4> QED BY <4>1, <1>1
    <3>2. CASE k = m + 1
      BY <3>2, <1>1, <1>4
    <3> QED BY <3>1, <3>2
  <2> QED BY <2>1, <2>2, <2>3, <2>4 DEF Queue
<1>5. IsPiece(l) /\ l.id = m + 1 => Queue(r, n, m + 1)
  BY <1>4
<1>6. ~IsPiece(l) => Queue(r, n, m)
  BY <1>4
<1> QED BY <1>1, <1>5, <1>6 DEF r

(* Nothing is missing once the queue holds no delta.                       *)
LEMMA QueueEmpty ==
    ASSUME NEW q, NEW n \in Nat, NEW m \in Nat, NoPiece(q), Queue(q, n, m)
    PROVE  n = m
<1>1. ~(n + 1 \in (n + 1)..m)
  BY DEF Queue, NoPiece
<1> QED BY <1>1 DEF Queue

(* What the reader finds when it takes a line.                             *)
LEMMA SightHead ==
    ASSUME NEW q \in Seq(Line), q # <<>>, NEW quo \in BOOLEAN, NEW over \in BOOLEAN
    PROVE  /\ Clear(q, quo) /\ ~Head(q).marks => Clear(Tail(q), quo) /\ ~Late(Head(q))
           /\ Behind(q, over) => /\ Behind(Tail(q), over)
                                 /\ Head(q).marks => over /\ NoPiece(Tail(q))
<1>1. /\ Len(Tail(q)) = Len(q) - 1 /\ Len(q) \in Nat /\ Len(q) >= 1
      /\ \A i \in 1..Len(Tail(q)) : Tail(q)[i] = q[i + 1]
      /\ Head(q) = q[1]
  BY HeadTailProperties, EmptySeq
<1> DEFINE r == Tail(q)
<1>2. \A i \in 1..Len(r) : r[i] = q[i + 1] /\ i + 1 \in 1..Len(q)
  BY <1>1
<1>3. \A i \in 1..Len(q) : i # 1 => i - 1 \in 1..Len(r) /\ r[i - 1] = q[i]
  BY <1>1
<1>4. 1 \in 1..Len(q) /\ Head(q) = q[1]
  BY <1>1
<1> HIDE DEF r
<1>5. ASSUME Clear(q, quo), ~Head(q).marks
      PROVE  Clear(r, quo) /\ ~Late(Head(q))
  <2>1. \A i \in 1..Len(q) : q[i].marks => i # 1
    BY <1>4, <1>5
  <2>2. ASSUME NEW j \in 1..Len(r), Late(r[j])
        PROVE  \E i \in 1..Len(r) : i < j /\ r[i].marks
    <3>1. PICK i \in 1..Len(q) : i < j + 1 /\ q[i].marks
      BY <1>2, <1>5, <2>2 DEF Clear
    <3>2. i - 1 \in 1..Len(r) /\ r[i - 1] = q[i] /\ i - 1 < j
      BY <1>3, <2>1, <3>1
    <3> QED BY <3>1, <3>2
  <2>3. ASSUME quo
        PROVE  \E i \in 1..Len(r) : r[i].marks
    <3>1. PICK i \in 1..Len(q) : q[i].marks
      BY <1>5, <2>3 DEF Clear
    <3> QED BY <1>3, <2>1, <3>1
  <2>4. ~Late(Head(q))
    BY <1>4, <1>5 DEF Clear
  <2> QED BY <2>2, <2>3, <2>4 DEF Clear
<1>6. ASSUME Behind(q, over)
      PROVE  /\ Behind(r, over)
             /\ Head(q).marks => over /\ NoPiece(r)
  <2>1. ASSUME NEW i \in 1..Len(r), r[i].marks
        PROVE  over /\ \A j \in 1..Len(r) : i < j => ~IsPiece(r[j])
    <3>1. over /\ \A j \in 1..Len(q) : i + 1 < j => ~IsPiece(q[j])
      BY <1>2, <1>6, <2>1 DEF Behind
    <3> QED BY <1>2, <3>1
  <2>2. ASSUME Head(q).marks
        PROVE  over /\ NoPiece(r)
    <3>1. over /\ \A j \in 1..Len(q) : 1 < j => ~IsPiece(q[j])
      BY <1>4, <1>6, <2>2 DEF Behind
    <3>2. \A j \in 1..Len(r) : ~IsPiece(r[j])
      BY <1>2, <3>1
    <3> QED BY <3>1, <3>2 DEF NoPiece
  <2> QED BY <2>1, <2>2 DEF Behind
<1> QED BY <1>5, <1>6 DEF r

(* The line l follows s numbered deltas and makes them s2; quo and quo2    *)
(* say whether the end marker was quoted before and after it.              *)
Adds(l, quo, s, quo2, s2) ==
    /\ IsPiece(l) => ~quo /\ l.id = s + 1 /\ s2 = s + 1
    /\ ~IsPiece(l) => s2 = s
    /\ Late(l) => quo
    /\ quo2 => quo \/ l.marks
    /\ quo => quo2

(* What the reader will find when a line is added.                         *)
LEMMA SightGrows ==
    ASSUME NEW q \in Seq(Line), NEW l \in Line, NEW s \in Nat, NEW s2 \in Nat,
           NEW quo \in BOOLEAN, NEW quo2 \in BOOLEAN, NEW over \in BOOLEAN,
           Adds(l, quo, s, quo2, s2), quo2 \/ l.marks => over
    PROVE  /\ q \o <<l>> \in Seq(Line)
           /\ \A n \in Nat : Queue(q, n, s) => Queue(q \o <<l>>, n, s2)
           /\ Clear(q, quo) => Clear(q \o <<l>>, quo2)
           /\ Behind(q, quo) => Behind(q \o <<l>>, over)
           /\ quo /\ NoPiece(q) => NoPiece(q \o <<l>>)
<1> DEFINE r == q \o <<l>>
<1>1. /\ r \in Seq(Line) /\ Len(q) \in Nat /\ Len(r) = Len(q) + 1
      /\ \A i \in 1..Len(q) : r[i] = q[i]
      /\ r[Len(q) + 1] = l
  OBVIOUS
<1>2. \A n \in Nat : Queue(q, n, s) => Queue(r, n, s2)
  BY QueueAppend DEF Adds
<1> HIDE DEF r
<1>3. /\ \A i \in 1..Len(r) : i \in 1..Len(q) \/ i = Len(q) + 1
      /\ \A i \in 1..Len(q) : i \in 1..Len(r) /\ i < Len(q) + 1
      /\ Len(q) + 1 \in 1..Len(r)
  BY <1>1
<1>4. ASSUME Clear(q, quo)
      PROVE  Clear(r, quo2)
  <2>1. ASSUME NEW j \in 1..Len(r), Late(r[j])
        PROVE  \E i \in 1..Len(r) : i < j /\ r[i].marks
    <3>1. CASE j \in 1..Len(q)
      <4>1. PICK i \in 1..Len(q) : i < j /\ q[i].marks
        BY <1>1, <1>4, <2>1, <3>1 DEF Clear
      <4> QED BY <1>1, <1>3, <4>1
    <3>2. CASE j = Len(q) + 1
      <4>1. quo
        BY <1>1, <2>1, <3>2 DEF Adds
      <4>2. PICK i \in 1..Len(q) : q[i].marks
        BY <1>4, <4>1 DEF Clear
      <4> QED BY <1>1, <1>3, <3>2, <4>2
    <3> QED BY <1>3, <3>1, <3>2
  <2>2. ASSUME quo2
        PROVE  \E i \in 1..Len(r) : r[i].marks
    <3>1. CASE quo
      <4>1. PICK i \in 1..Len(q) : q[i].marks
        BY <1>4, <3>1 DEF Clear
      <4> QED BY <1>1, <1>3, <4>1
    <3>2. CASE l.marks
      BY <1>1, <1>3, <3>2
    <3> QED BY <2>2, <3>1, <3>2 DEF Adds
  <2> QED BY <2>1, <2>2 DEF Clear
<1>5. ASSUME Behind(q, quo)
      PROVE  Behind(r, over)
  <2> SUFFICES ASSUME NEW i \in 1..Len(r), r[i].marks
               PROVE  over /\ \A j \in 1..Len(r) : i < j => ~IsPiece(r[j])
    BY DEF Behind
  <2>1. CASE i \in 1..Len(q)
    <3>1. quo /\ \A j \in 1..Len(q) : i < j => ~IsPiece(q[j])
      BY <1>1, <1>5, <2>1 DEF Behind
    <3>2. over /\ ~IsPiece(l)
      BY <3>1 DEF Adds
    <3>3. ASSUME NEW j \in 1..Len(r), i < j
          PROVE  ~IsPiece(r[j])
      <4>1. CASE j \in 1..Len(q)
        BY <1>1, <3>1, <3>3, <4>1
      <4>2. CASE j = Len(q) + 1
        BY <1>1, <3>2, <4>2
      <4> QED BY <1>3, <4>1, <4>2
    <3> QED BY <3>2, <3>3
  <2>2. CASE i = Len(q) + 1
    <3>1. over
      BY <1>1, <2>2
    <3>2. \A j \in 1..Len(r) : ~(i < j)
      BY <1>1, <2>2
    <3> QED BY <3>1, <3>2
  <2> QED BY <1>3, <2>1, <2>2
<1>6. ASSUME quo, NoPiece(q)
      PROVE  NoPiece(r)
  <2>1. ~IsPiece(l)
    BY <1>6 DEF Adds
  <2>2. ASSUME NEW i \in 1..Len(r)
        PROVE  ~IsPiece(r[i])
    <3>1. CASE i \in 1..Len(q)
      BY <1>1, <1>6, <3>1 DEF NoPiece
    <3>2. CASE i = Len(q) + 1
      BY <1>1, <2>1, <3>2
    <3> QED BY <1>3, <3>1, <3>2
  <2> QED BY <2>2 DEF NoPiece
<1> QED BY <1>1, <1>2, <1>4, <1>5, <1>6 DEF r

(* Every step keeps the places, the result and the state of curl typed.    *)
LEMMA PlacesStep ==
    ASSUME Places, Next
    PROVE  Places'
<1> USE DEF Places
<1>1. CASE Mkstemp
  BY <1>1 DEF Mkstemp, writer, Points
<1>2. CASE WritePayload
  BY <1>2 DEF WritePayload, writer, Points
<1>3. CASE Popen
  BY <1>3 DEF Popen, Points
<1>4. CASE ReadLine
  BY <1>4 DEF ReadLine, writer, Points
<1>5. CASE EndOfFile \/ EndMarker \/ SkipLine
  BY <1>5 DEF EndOfFile, EndMarker, SkipLine, writer, Points
<1>6. CASE Accumulate
  BY <1>6 DEF Accumulate, writer, Points
<1>7. CASE Call
  BY <1>7 DEF Call, writer, Points
<1>8. CASE CloseReadEnd \/ WaitForCurl \/ Unlink \/ Finish
  BY <1>8 DEF CloseReadEnd, WaitForCurl, Unlink, Finish, reader, writer, Points
<1>9. CASE DeltaArrives \/ LongDeltaArrives \/ QuoteArrives
  BY <1>9 DEF DeltaArrives, LongDeltaArrives, QuoteArrives, Arrives, Counted, reader, Points
<1>10. CASE OtherArrives \/ MarkerArrives \/ ErrorBodyArrives
  BY <1>10 DEF OtherArrives, MarkerArrives, ErrorBodyArrives, Arrives, reader, Points
<1>11. CASE CurlEnds \/ CurlCut \/ CurlBrokenPipe \/ CurlEndsUnread
  BY <1>11 DEF CurlEnds, CurlCut, CurlBrokenPipe, CurlEndsUnread, reader, Points
<1> QED BY <1>1, <1>2, <1>3, <1>4, <1>5, <1>6, <1>7, <1>8, <1>9, <1>10, <1>11
        DEF Next, Reads, Ends

(* Every step keeps the flags Boolean.                                     *)
LEMMA FlagsStep ==
    ASSUME Flags, Next
    PROVE  Flags'
<1> USE DEF Flags
<1>1. CASE Mkstemp
  BY <1>1 DEF Mkstemp, writer
<1>2. CASE WritePayload
  BY <1>2 DEF WritePayload, writer
<1>3. CASE Popen
  BY <1>3 DEF Popen
<1>4. CASE ReadLine
  BY <1>4 DEF ReadLine, writer
<1>5. CASE EndOfFile \/ EndMarker \/ SkipLine
  BY <1>5 DEF EndOfFile, EndMarker, SkipLine, writer
<1>6. CASE Accumulate
  BY <1>6 DEF Accumulate, writer
<1>7. CASE Call
  BY <1>7 DEF Call, writer
<1>8. CASE CloseReadEnd \/ WaitForCurl \/ Unlink \/ Finish
  BY <1>8 DEF CloseReadEnd, WaitForCurl, Unlink, Finish, reader, writer
<1>9. CASE DeltaArrives \/ LongDeltaArrives \/ QuoteArrives
  BY <1>9 DEF DeltaArrives, LongDeltaArrives, QuoteArrives, Arrives, Counted, reader
<1>10. CASE OtherArrives \/ MarkerArrives \/ ErrorBodyArrives
  BY <1>10 DEF OtherArrives, MarkerArrives, ErrorBodyArrives, Arrives, reader
<1>11. CASE CurlEnds \/ CurlCut \/ CurlBrokenPipe \/ CurlEndsUnread
  BY <1>11 DEF CurlEnds, CurlCut, CurlBrokenPipe, CurlEndsUnread, reader
<1> QED BY <1>1, <1>2, <1>3, <1>4, <1>5, <1>6, <1>7, <1>8, <1>9, <1>10, <1>11
        DEF Next, Reads, Ends

(* No more deltas arrive than lines, and no more lines than the bound.     *)
LEMMA CountStep ==
    ASSUME Count, Flags, Next
    PROVE  Count'
<1> USE StreamAssumption DEF Count, Flags
<1>1. CASE Mkstemp
  BY <1>1 DEF Mkstemp, writer
<1>2. CASE WritePayload
  BY <1>2 DEF WritePayload, writer
<1>3. CASE Popen
  BY <1>3 DEF Popen
<1>4. CASE ReadLine
  BY <1>4 DEF ReadLine, writer
<1>5. CASE EndOfFile \/ EndMarker \/ SkipLine
  BY <1>5 DEF EndOfFile, EndMarker, SkipLine, writer
<1>6. CASE Accumulate
  BY <1>6 DEF Accumulate, writer
<1>7. CASE Call
  BY <1>7 DEF Call, writer
<1>8. CASE CloseReadEnd \/ WaitForCurl \/ Unlink \/ Finish
  BY <1>8 DEF CloseReadEnd, WaitForCurl, Unlink, Finish, reader, writer
<1>9. CASE DeltaArrives \/ LongDeltaArrives \/ QuoteArrives
  <2>1. /\ lines < MaxLines /\ lines' = lines + 1
        /\ finished' = finished
    BY <1>9 DEF DeltaArrives, LongDeltaArrives, QuoteArrives, Arrives
  <2>2. lines' \in 0..MaxLines
    BY <2>1
  <2>3. CASE DeltaArrives
    BY <2>3, <2>1, <2>2 DEF DeltaArrives, Counted
  <2>4. CASE LongDeltaArrives
    <3>1. deltas' = deltas + 1 /\ long' = TRUE
      BY <2>4 DEF LongDeltaArrives
    <3>2. sent' = sent \/ sent' = sent + 1
      BY <2>4, Zenon DEF LongDeltaArrives, Counted
    <3> QED BY <3>1, <3>2, <2>1, <2>2
  <2>5. CASE QuoteArrives
    <3>1. quoted' = TRUE /\ sent' = sent
      BY <2>5 DEF QuoteArrives
    <3>2. deltas' = deltas \/ deltas' = deltas + 1
      BY <2>5, Zenon DEF QuoteArrives
    <3> QED BY <3>1, <3>2, <2>1, <2>2
  <2> QED BY <1>9, <2>3, <2>4, <2>5
<1>10. CASE OtherArrives \/ MarkerArrives \/ ErrorBodyArrives
  BY <1>10 DEF OtherArrives, MarkerArrives, ErrorBodyArrives, Arrives, reader
<1>11. CASE CurlEnds \/ CurlCut \/ CurlBrokenPipe \/ CurlEndsUnread
  BY <1>11 DEF CurlEnds, CurlCut, CurlBrokenPipe, CurlEndsUnread, reader
<1> QED BY <1>1, <1>2, <1>3, <1>4, <1>5, <1>6, <1>7, <1>8, <1>9, <1>10, <1>11
        DEF Next, Reads, Ends

(* The text and what the consumer heard stay sequences of deltas.          *)
LEMMA TextsStep ==
    ASSUME Lines, Texts, Reading, Telling, Next
    PROVE  Texts'
<1> USE DEF Texts, Lines
<1>1. CASE Mkstemp
  BY <1>1 DEF Mkstemp, writer
<1>2. CASE WritePayload
  BY <1>2 DEF WritePayload, writer
<1>3. CASE Popen
  BY <1>3 DEF Popen
<1>4. CASE ReadLine
  BY <1>4 DEF ReadLine, writer
<1>5. CASE EndOfFile \/ EndMarker \/ SkipLine
  BY <1>5 DEF EndOfFile, EndMarker, SkipLine, writer
<1>6. CASE Accumulate
  <2>1. line.id \in 1..MaxLines
    <3>1. IsPiece(line)
      BY <1>6 DEF Accumulate, Reading, Late
    <3> QED BY <3>1, PieceHasNumber
  <2> QED BY <1>6, <2>1 DEF Accumulate
<1>7. CASE Call
  <2>1. /\ Held \in 1..Len(accumulated) /\ line.id = Held
        /\ accumulated[Held] = Held
    BY <1>7 DEF Call, Telling, InOrder, Held
  <2>2. line.id \in 1..MaxLines
    BY <2>1, ElementOfSeq
  <2> QED BY <1>7, <2>2 DEF Call
<1>8. CASE CloseReadEnd \/ WaitForCurl \/ Unlink \/ Finish
  BY <1>8 DEF CloseReadEnd, WaitForCurl, Unlink, Finish, reader, writer
<1>9. CASE DeltaArrives \/ LongDeltaArrives \/ QuoteArrives
  BY <1>9 DEF DeltaArrives, LongDeltaArrives, QuoteArrives, Arrives, Counted, reader
<1>10. CASE OtherArrives \/ MarkerArrives \/ ErrorBodyArrives
  BY <1>10 DEF OtherArrives, MarkerArrives, ErrorBodyArrives, Arrives, reader
<1>11. CASE CurlEnds \/ CurlCut \/ CurlBrokenPipe \/ CurlEndsUnread
  BY <1>11 DEF CurlEnds, CurlCut, CurlBrokenPipe, CurlEndsUnread, reader
<1> QED BY <1>1, <1>2, <1>3, <1>4, <1>5, <1>6, <1>7, <1>8, <1>9, <1>10, <1>11
        DEF Next, Reads, Ends

(* What curl writes are lines.                                             *)
LEMMA BlankIsLine ==
    /\ \A k \in {"delta", "empty", "other"}, m \in BOOLEAN :
          /\ Blank(k, m) \in Line /\ ~IsPiece(Blank(k, m))
          /\ Blank(k, m).kind = k /\ Blank(k, m).marks = m
    /\ \A n \in 0..MaxLines : Delta(n) \in Line
BY DEF Blank, Delta, Line, IsPiece

LEMMA NextIsLine ==
    ASSUME Count, lines < MaxLines
    PROVE  NextDelta \in Line
<1>1. sent + 1 \in 0..MaxLines /\ 0 \in 0..MaxLines
  BY StreamAssumption DEF Count
<1> QED BY <1>1, BlankIsLine DEF NextDelta

(* The buffer and the pipe hold lines.                                     *)
LEMMA LinesStep ==
    ASSUME Lines, Count, Next
    PROVE  Lines'
<1> USE StreamAssumption DEF Lines, Count
<1>1. CASE Mkstemp
  BY <1>1 DEF Mkstemp, writer
<1>2. CASE WritePayload
  BY <1>2 DEF WritePayload, writer
<1>3. CASE Popen
  BY <1>3 DEF Popen
<1>4. CASE ReadLine
  BY <1>4, HeadTailProperties DEF ReadLine
<1>5. CASE EndOfFile \/ EndMarker \/ SkipLine
  BY <1>5 DEF EndOfFile, EndMarker, SkipLine, writer
<1>6. CASE Accumulate
  BY <1>6 DEF Accumulate, writer
<1>7. CASE Call
  BY <1>7 DEF Call, writer
<1>8. CASE CloseReadEnd \/ WaitForCurl \/ Unlink \/ Finish
  BY <1>8, EmptySeq DEF CloseReadEnd, WaitForCurl, Unlink, Finish, reader, writer
<1>9. CASE DeltaArrives \/ LongDeltaArrives \/ QuoteArrives
  <2>1. NextDelta \in Line
    BY <1>9, NextIsLine DEF DeltaArrives, LongDeltaArrives, QuoteArrives
  <2>2. PICK l \in Line, m \in Line : Arrives(<<l>>) \/ Arrives(<<l, m>>)
    BY <1>9, <2>1, BlankIsLine DEF DeltaArrives, LongDeltaArrives, QuoteArrives
  <2>3. \A ls \in Seq(Line) : pipe \o ls \in Seq(Line)
    OBVIOUS
  <2>4. <<l>> \in Seq(Line) /\ <<l, m>> \in Seq(Line)
    OBVIOUS
  <2>5. pipe' \in Seq(Line)
    BY <2>2, <2>3, <2>4 DEF Arrives
  <2> QED BY <1>9, <2>5 DEF DeltaArrives, LongDeltaArrives, QuoteArrives, reader
<1>10. CASE OtherArrives \/ MarkerArrives \/ ErrorBodyArrives
  <2>1. PICK l \in Line : Arrives(<<l>>)
    BY <1>10, BlankIsLine DEF OtherArrives, MarkerArrives, ErrorBodyArrives
  <2>2. pipe \o <<l>> \in Seq(Line)
    OBVIOUS
  <2> QED BY <1>10, <2>1, <2>2
          DEF OtherArrives, MarkerArrives, ErrorBodyArrives, Arrives, reader
<1>11. CASE CurlEnds \/ CurlCut \/ CurlBrokenPipe \/ CurlEndsUnread
  BY <1>11 DEF CurlEnds, CurlCut, CurlBrokenPipe, CurlEndsUnread, reader
<1> QED BY <1>1, <1>2, <1>3, <1>4, <1>5, <1>6, <1>7, <1>8, <1>9, <1>10, <1>11
        DEF Next, Reads, Ends

(* File, pipe, curl and result exist at the points Life says.              *)
LEMMA LifeStep ==
    ASSUME Places, Flags, Life, Next
    PROVE  Life'
<1> USE DEF Life, Before, After
<1>1. CASE Mkstemp
  BY <1>1 DEF Mkstemp, writer, Places, Flags, Points
<1>2. CASE WritePayload
  BY <1>2 DEF WritePayload, writer, Places, Flags, Points
<1>3. CASE Popen
  BY <1>3 DEF Popen, Places, Flags, Points
<1>4. CASE ReadLine
  BY <1>4 DEF ReadLine, writer, Places, Flags, Points
<1>5. CASE EndOfFile \/ EndMarker \/ SkipLine
  BY <1>5 DEF EndOfFile, EndMarker, SkipLine, writer, Places, Flags, Points
<1>6. CASE Accumulate
  BY <1>6 DEF Accumulate, writer, Places, Flags, Points
<1>7. CASE Call
  BY <1>7 DEF Call, writer, Places, Flags, Points
<1>8. CASE CloseReadEnd \/ WaitForCurl \/ Unlink \/ Finish
  BY <1>8 DEF CloseReadEnd, WaitForCurl, Unlink, Finish, reader, writer, Places, Flags, Points
<1>9. CASE DeltaArrives \/ LongDeltaArrives \/ QuoteArrives
  <2>1. UNCHANGED <<reader, readEnd, curl, finished>>
    BY <1>9 DEF DeltaArrives, LongDeltaArrives, QuoteArrives
  <2>2. curl = "running" /\ readEnd
    BY <1>9 DEF DeltaArrives, LongDeltaArrives, QuoteArrives, Arrives
  <2> QED BY <2>1, <2>2 DEF reader
<1>10. CASE OtherArrives \/ MarkerArrives \/ ErrorBodyArrives
  BY <1>10 DEF OtherArrives, MarkerArrives, ErrorBodyArrives, Arrives, reader, Places, Flags, Points
<1>11. CASE CurlEnds \/ CurlCut \/ CurlBrokenPipe \/ CurlEndsUnread
  BY <1>11 DEF CurlEnds, CurlCut, CurlBrokenPipe, CurlEndsUnread, reader, Places, Flags, Points
<1> QED BY <1>1, <1>2, <1>3, <1>4, <1>5, <1>6, <1>7, <1>8, <1>9, <1>10, <1>11
        DEF Next, Reads, Ends

(* The text grows in order, and the consumer stays in step with it.        *)
LEMMA TellingStep ==
    ASSUME Flags, Lines, Texts, Life, Reading, Telling, Next
    PROVE  Telling'
<1> USE DEF Telling, Flags, Texts, Before, After, Life
<1>1. /\ Len(accumulated) \in Nat /\ Len(heard) \in Nat
  BY DEF Texts
<1>2. CASE Accumulate
  <2>1. line.id = Held + 1
    <3>1. IsPiece(line)
      BY <1>2 DEF Accumulate, Reading, Late
    <3> QED BY <1>2, <3>1 DEF Accumulate, Reading
  <2>2. /\ Len(accumulated') = Held + 1
        /\ \A i \in 1..Held : accumulated'[i] = accumulated[i]
        /\ accumulated'[Held + 1] = line.id
    BY <1>2 DEF Accumulate, Held
  <2>3. InOrder(accumulated)'
    BY <1>1, <2>1, <2>2 DEF InOrder, Held
  <2>4. heard' = heard /\ line' = line /\ callback' = callback
        /\ pc = "parse" /\ pc' = IF callback THEN "call" ELSE "read"
    BY <1>2 DEF Accumulate
  <2> QED BY <1>1, <2>1, <2>2, <2>3, <2>4 DEF InOrder, Held
<1>3. CASE Call
  <2>1. /\ Len(heard') = Len(heard) + 1
        /\ \A i \in 1..Len(heard) : heard'[i] = heard[i]
        /\ heard'[Len(heard) + 1] = line.id
    BY <1>3 DEF Call
  <2>2. accumulated' = accumulated /\ callback' = callback
        /\ pc = "call" /\ pc' # "call"
    BY <1>3 DEF Call
  <2> QED BY <1>1, <2>1, <2>2 DEF InOrder, Held
<1>4. CASE ~Accumulate /\ ~Call
  <2>1. UNCHANGED <<callback, accumulated, heard>>
    BY <1>4 DEF Next, Reads, Ends, Mkstemp, WritePayload, Popen, ReadLine,
       EndOfFile, EndMarker, SkipLine, CloseReadEnd, WaitForCurl, Unlink, Finish,
       MarkerArrives, ErrorBodyArrives, CurlEnds, CurlCut, CurlBrokenPipe,
       CurlEndsUnread, DeltaArrives, LongDeltaArrives,
       QuoteArrives, OtherArrives, reader
  <2>2. pc' # "call" \/ UNCHANGED <<pc, line>>
    BY <1>4 DEF Next, Reads, Ends, Mkstemp, WritePayload, Popen, ReadLine,
       EndOfFile, EndMarker, SkipLine, CloseReadEnd, WaitForCurl, Unlink, Finish,
       MarkerArrives, ErrorBodyArrives, CurlEnds, CurlCut, CurlBrokenPipe,
       CurlEndsUnread, DeltaArrives, LongDeltaArrives,
       QuoteArrives, OtherArrives, reader
  <2>3. pc = "call" => UNCHANGED pc
    BY <1>4 DEF Next, Reads, Ends, Mkstemp, WritePayload, Popen, ReadLine,
       EndOfFile, EndMarker, SkipLine, CloseReadEnd, WaitForCurl, Unlink, Finish,
       MarkerArrives, ErrorBodyArrives, CurlEnds, CurlCut, CurlBrokenPipe,
       CurlEndsUnread, DeltaArrives, LongDeltaArrives,
       QuoteArrives, OtherArrives, reader
  <2> QED BY <2>1, <2>2, <2>3 DEF InOrder, Held
<1> QED BY <1>2, <1>3, <1>4

(* What arrives while the answer is not finished keeps the order.          *)
LEMMA Arrival ==
    ASSUME Held \in Nat, sent \in Nat, Places, Flags, Life, Reading,
           curl = "running", ~finished,
           UNCHANGED <<pc, line, accumulated, stopped, curl>>,
           \A n \in Nat : Queue(pipe, n, sent) => Queue(pipe', n, sent'),
           Clear(pipe, quoted) => Clear(pipe', quoted'),
           Behind(pipe, quoted) => Behind(pipe', Over'),
           quoted /\ NoPiece(pipe) => NoPiece(pipe'),
           quoted => quoted' /\ sent' = sent
    PROVE  Reading'
<1>1. Held' = Held
  BY DEF Held
<1>2. pc \in After => stopped \/ quoted
  BY DEF Reading, Life, Before, After, Over
<1>3. pc \notin Before
  BY DEF Life
<1>4. (pc = "parse" /\ line.marks) => quoted
  BY DEF Reading, Over
<1>5. Behind(pipe', Over')
  <2>1. Over = quoted
    BY DEF Over, Flags
  <2> QED BY <2>1 DEF Reading
<1>6. quoted => Over'
  BY DEF Over
<1> HIDE DEF Held, Over
<1> QED BY <1>1, <1>2, <1>3, <1>4, <1>5, <1>6 DEF Reading

(* A line that arrives.                                                    *)
LEMMA ArrivesInOrder ==
    ASSUME Lines, Flags, Held \in Nat, sent \in Nat, sent' \in Nat, quoted' \in BOOLEAN,
           finished' \in BOOLEAN, Places, Life, Reading, curl = "running", ~finished,
           UNCHANGED <<pc, line, accumulated, stopped, curl>>,
           NEW l \in Line, pipe' = pipe \o <<l>>,
           Adds(l, quoted, sent, quoted', sent'), l.marks => Over'
    PROVE  Reading'
<1>1. /\ \A n \in Nat : Queue(pipe, n, sent) => Queue(pipe', n, sent')
      /\ Clear(pipe, quoted) => Clear(pipe', quoted')
      /\ Behind(pipe, quoted) => Behind(pipe', Over')
      /\ quoted /\ NoPiece(pipe) => NoPiece(pipe')
  <2> DEFINE over == Over'
  <2>1. over \in BOOLEAN /\ (quoted' \/ l.marks => over)
    BY DEF Over
  <2>2. pipe \in Seq(Line) /\ quoted \in BOOLEAN
    BY DEF Lines, Flags
  <2> HIDE DEF over
  <2>3. /\ \A n \in Nat : Queue(pipe, n, sent) => Queue(pipe \o <<l>>, n, sent')
        /\ Clear(pipe, quoted) => Clear(pipe \o <<l>>, quoted')
        /\ Behind(pipe, quoted) => Behind(pipe \o <<l>>, over)
        /\ quoted /\ NoPiece(pipe) => NoPiece(pipe \o <<l>>)
    BY <2>1, <2>2, SightGrows
  <2> QED BY <2>3 DEF over
<1>2. quoted => quoted' /\ sent' = sent
  BY DEF Adds
<1> QED BY <1>1, <1>2, Arrival

(* Two lines are appended one after the other.                             *)
LEMMA OneByOne ==
    ASSUME NEW S, NEW q \in Seq(S), NEW a \in S, NEW b \in S
    PROVE  q \o <<a, b>> = (q \o <<a>>) \o <<b>>
<1> DEFINE u == q \o <<a, b>>
           v == (q \o <<a>>) \o <<b>>
<1>1. /\ <<a, b>> \in Seq(S) /\ Len(<<a, b>>) = 2
      /\ <<a, b>>[1] = a /\ <<a, b>>[2] = b
  OBVIOUS
<1>2. /\ u \in Seq(S) /\ Len(u) = Len(q) + 2 /\ Len(q) \in Nat
      /\ \A i \in 1..Len(u) : u[i] = IF i <= Len(q) THEN q[i] ELSE <<a, b>>[i - Len(q)]
  BY <1>1
<1>3. /\ q \o <<a>> \in Seq(S) /\ Len(q \o <<a>>) = Len(q) + 1
      /\ \A i \in 1..Len(q) : (q \o <<a>>)[i] = q[i]
      /\ (q \o <<a>>)[Len(q) + 1] = a
  OBVIOUS
<1>4. /\ v \in Seq(S) /\ Len(v) = Len(q) + 2
      /\ \A i \in 1..Len(q) + 1 : v[i] = (q \o <<a>>)[i]
      /\ v[Len(q) + 2] = b
  BY <1>3
<1> HIDE DEF u, v
<1>5. \A i \in 1..Len(q) + 2 : u[i] = v[i]
  <2> SUFFICES ASSUME NEW i \in 1..Len(q) + 2
               PROVE  u[i] = v[i]
    OBVIOUS
  <2>1. CASE i \in 1..Len(q)
    BY <2>1, <1>2, <1>3, <1>4
  <2>2. CASE i = Len(q) + 1
    BY <2>2, <1>1, <1>2, <1>3, <1>4
  <2>3. CASE i = Len(q) + 2
    BY <2>3, <1>1, <1>2, <1>4
  <2> QED BY <2>1, <2>2, <2>3, <1>2
<1>6. u = v
  BY <1>2, <1>4, <1>5, SeqEqual
<1> QED BY <1>6 DEF u, v

(* A long line arrives in two parts.                                       *)
LEMMA ArrivesInParts ==
    ASSUME Lines, Flags, Held \in Nat, sent \in Nat, sent' \in Nat, quoted' \in BOOLEAN,
           finished' \in BOOLEAN, Places, Life, Reading, curl = "running", ~finished,
           UNCHANGED <<pc, line, accumulated, stopped, curl>>,
           NEW l \in Line, NEW m \in Line, pipe' = pipe \o <<l, m>>,
           Adds(l, quoted, sent, quoted, sent'), ~l.marks, ~IsPiece(m), ~Late(m),
           quoted' = (quoted \/ m.marks)
    PROVE  Reading'
<1> DEFINE q == pipe \o <<l>>
           r == q \o <<m>>
<1>0. pipe \in Seq(Line) /\ quoted \in BOOLEAN
  BY DEF Lines, Flags
<1>1. pipe' = r
  <2>1. pipe \o <<l, m>> = (pipe \o <<l>>) \o <<m>>
    BY ONLY <1>0, l \in Line, m \in Line, OneByOne
  <2> QED BY <2>1
<1>2. /\ q \in Seq(Line)
      /\ \A n \in Nat : Queue(pipe, n, sent) => Queue(q, n, sent')
      /\ Clear(pipe, quoted) => Clear(q, quoted)
      /\ Behind(pipe, quoted) => Behind(q, quoted)
      /\ quoted /\ NoPiece(pipe) => NoPiece(q)
  BY <1>0, SightGrows
<1> HIDE DEF q
<1>3. /\ \A n \in Nat : Queue(q, n, sent') => Queue(r, n, sent')
      /\ Clear(q, quoted) => Clear(r, quoted')
      /\ Behind(q, quoted) => Behind(r, Over')
      /\ quoted /\ NoPiece(q) => NoPiece(r)
  <2>1. Over' \in BOOLEAN /\ (quoted' \/ m.marks => Over')
    BY DEF Over
  <2>2. Adds(m, quoted, sent', quoted', sent')
    BY DEF Adds
  <2> QED BY <1>0, <1>2, <2>1, <2>2, SightGrows
<1> HIDE DEF r
<1>4. /\ \A n \in Nat : Queue(pipe, n, sent) => Queue(pipe', n, sent')
      /\ Clear(pipe, quoted) => Clear(pipe', quoted')
      /\ Behind(pipe, quoted) => Behind(pipe', Over')
      /\ quoted /\ NoPiece(pipe) => NoPiece(pipe')
  BY <1>1, <1>2, <1>3
<1>5. quoted => quoted' /\ sent' = sent
  BY DEF Adds
<1> QED BY <1>4, <1>5, Arrival

(* The next delta is the one the reader misses next, if it still reads.    *)
LEMMA NextDeltaAdds ==
    ASSUME Count, Flags, lines < MaxLines, Counted
    PROVE  Adds(NextDelta, quoted, sent, quoted, sent') /\ ~NextDelta.marks
<1>1. sent \in Nat /\ sent + 1 # 0
  BY DEF Count
<1>2. CASE quoted
  BY <1>1, <1>2 DEF Adds, NextDelta, Delta, Counted, IsPiece, Late
<1>3. CASE ~quoted
  BY <1>1, <1>3 DEF Adds, NextDelta, Delta, Counted, IsPiece, Late
<1> QED BY <1>2, <1>3

(* No step loses a delta, takes it twice or out of order.                  *)
LEMMA ReadingStep ==
    ASSUME Places, Flags, Lines, Texts, Count, Life, Reading, Next
    PROVE  Reading'
<1> USE DEF Reading, Before, After
<1>0. /\ pipe \in Seq(Line) /\ line \in Line /\ finished \in BOOLEAN
      /\ Held \in Nat /\ sent \in Nat /\ quoted \in BOOLEAN /\ Over \in BOOLEAN
  BY StreamAssumption DEF Lines, Texts, Count, Flags, Held, Over
<1>1. CASE Mkstemp
  BY <1>1 DEF Mkstemp, writer, Held, Over, Life
<1>2. CASE WritePayload
  BY <1>2 DEF WritePayload, writer, Held, Over, Life
<1>3. CASE Popen
  BY <1>3 DEF Popen, Held, Over, Life
<1>4. CASE ReadLine
  <2>1. /\ pipe # <<>> /\ line' = Head(pipe) /\ pipe' = Tail(pipe)
        /\ pc = "read" /\ pc' = "parse"
        /\ UNCHANGED <<accumulated, sent, quoted, finished>>
    BY <1>4 DEF ReadLine, writer
  <2>2. Queue(pipe, Held, sent) /\ Clear(pipe, quoted) /\ Behind(pipe, Over)
    BY <2>1
  <2>3. /\ IsPiece(Head(pipe)) => /\ Head(pipe).id = Held + 1
                                 /\ Queue(Tail(pipe), Held + 1, sent)
        /\ ~IsPiece(Head(pipe)) => Queue(Tail(pipe), Held, sent)
    BY <2>1, <2>2, <1>0, QueueHead
  <2>4. /\ ~Head(pipe).marks => Clear(Tail(pipe), quoted) /\ ~Late(Head(pipe))
        /\ Behind(Tail(pipe), Over)
        /\ Head(pipe).marks => Over /\ NoPiece(Tail(pipe))
    BY <2>1, <2>2, <1>0, SightHead
  <2>5. Held' = Held /\ Over' = Over
    BY <2>1 DEF Held, Over
  <2> HIDE DEF Before, After
  <2>6. pc' \notin Before \cup {"read", "call"} /\ pc' \notin After
    BY <2>1 DEF Before, After
  <2> QED BY <2>1, <2>3, <2>4, <2>5, <2>6
<1>5. CASE EndOfFile \/ EndMarker \/ SkipLine
  <2>1. CASE EndOfFile
    <3>1. NoPiece(pipe) /\ Queue(pipe, Held, sent)
      BY <2>1 DEF EndOfFile, NoPiece
    <3>2. Held = sent
      BY <3>1, <1>0, QueueEmpty
    <3> QED BY <2>1, <3>2, <1>0 DEF EndOfFile, writer, Held, Over, Life, Places
  <2>2. CASE EndMarker
    <3>1. pc = "parse" /\ ~IsPiece(line) /\ Over /\ NoPiece(pipe)
      BY <2>2, <1>0, PieceHasNumber DEF EndMarker
    <3>2. Held = sent
      BY <3>1, <1>0, QueueEmpty
    <3> QED BY <2>2, <3>1, <3>2 DEF EndMarker, writer, Held, Over
  <2>3. CASE SkipLine
    <3>1. pc = "parse" /\ ~line.marks /\ ~IsPiece(line)
      BY <2>3, <1>0, PieceHasNumber DEF SkipLine
    <3> QED BY <2>3, <3>1 DEF SkipLine, writer, Held, Over
  <2> QED BY <1>5, <2>1, <2>2, <2>3
<1>6. CASE Accumulate
  <2>1. /\ IsPiece(line) /\ line.id = Held + 1 /\ Queue(pipe, Held + 1, sent)
        /\ Clear(pipe, quoted)
    BY <1>6 DEF Accumulate, Late
  <2>2. Held' = Held + 1
    BY <1>6, <1>0 DEF Accumulate, Held
  <2> QED BY <1>6, <2>1, <2>2 DEF Accumulate, writer, Over
<1>7. CASE Call
  BY <1>7 DEF Call, writer, Held, Over
<1>8. CASE CloseReadEnd \/ WaitForCurl \/ Unlink \/ Finish
  <2>1. Len(<<>>) = 0
    OBVIOUS
  <2>2. pc' \in After /\ pc \in After /\ pipe' \in {pipe, <<>>}
        /\ UNCHANGED <<accumulated, stopped, writer>>
    BY <1>8 DEF CloseReadEnd, WaitForCurl, Unlink, Finish, reader
  <2>3. Behind(pipe', Over)
    BY <2>1, <2>2 DEF Behind
  <2> QED BY <2>2, <2>3 DEF writer, Held, Over
<1>9. CASE DeltaArrives \/ LongDeltaArrives \/ QuoteArrives
  <2>1. /\ curl = "running" /\ ~finished /\ lines < MaxLines
        /\ UNCHANGED <<pc, line, accumulated, stopped, curl, finished>>
        /\ sent' \in Nat /\ quoted' \in BOOLEAN /\ finished' \in BOOLEAN
    <3>1. /\ curl = "running" /\ ~finished /\ lines < MaxLines
          /\ UNCHANGED <<reader, curl, finished>>
      BY <1>9 DEF DeltaArrives, LongDeltaArrives, QuoteArrives, Arrives
    <3>2. quoted' \in BOOLEAN
      <4>1. CASE DeltaArrives
        BY <4>1, <1>0 DEF DeltaArrives
      <4>2. CASE LongDeltaArrives
        BY <4>2, <1>0, Zenon DEF LongDeltaArrives
      <4>3. CASE QuoteArrives
        BY <4>3 DEF QuoteArrives
      <4> QED BY <1>9, <4>1, <4>2, <4>3
    <3>3. sent' = sent \/ sent' = sent + 1
      BY <1>9, Zenon DEF DeltaArrives, LongDeltaArrives, QuoteArrives, Counted
    <3> QED BY <3>1, <3>2, <3>3, <1>0 DEF reader
  <2>2. NextDelta \in Line
    BY <2>1, NextIsLine
  <2>3. Counted => Adds(NextDelta, quoted, sent, quoted, sent') /\ ~NextDelta.marks
    BY <2>1, NextDeltaAdds
  <2> HIDE DEF Reading, Before, After
  <2>4. CASE DeltaArrives
    <3>1. /\ pipe' = pipe \o <<NextDelta>> /\ quoted' = quoted /\ Counted
      BY <2>4 DEF DeltaArrives, Arrives
    <3>2. Adds(NextDelta, quoted, sent, quoted', sent') /\ ~NextDelta.marks
      BY <2>3, <3>1
    <3> QED BY <1>0, <2>1, <2>2, <3>1, <3>2, ArrivesInOrder
  <2>5. CASE LongDeltaArrives
    <3>1. PICK m \in BOOLEAN :
              /\ quoted' = (quoted \/ m)
              /\ \/ Arrives(<<NextDelta, Blank("other", m)>>) /\ Counted
                 \/ Arrives(<<Blank("empty", FALSE), Blank("other", m)>>) /\ sent' = sent
      BY <2>5 DEF LongDeltaArrives
    <3> DEFINE b == Blank("other", m)
               e == Blank("empty", FALSE)
    <3>2. /\ b \in Line /\ ~IsPiece(b) /\ b.kind = "other" /\ b.marks = m
          /\ e \in Line /\ ~IsPiece(e) /\ e.kind = "empty" /\ e.marks = FALSE
      BY BlankIsLine
    <3> HIDE DEF b, e
    <3>3. ~Late(b) /\ ~Late(e) /\ quoted' = (quoted \/ b.marks)
      BY <3>1, <3>2 DEF Late
    <3>4. CASE Arrives(<<NextDelta, b>>) /\ Counted
      <4>1. pipe' = pipe \o <<NextDelta, b>>
        BY <3>4 DEF Arrives
      <4> QED BY <1>0, <2>1, <2>2, <2>3, <3>2, <3>3, <3>4, <4>1, ArrivesInParts
    <3>5. CASE Arrives(<<e, b>>) /\ sent' = sent
      <4>1. pipe' = pipe \o <<e, b>>
        BY <3>5 DEF Arrives
      <4>2. Adds(e, quoted, sent, quoted, sent')
        BY <3>2, <3>3, <3>5 DEF Adds
      <4> QED BY <1>0, <2>1, <3>2, <3>3, <4>1, <4>2, ArrivesInParts
    <3> QED BY <3>1, <3>4, <3>5 DEF b, e
  <2>6. CASE QuoteArrives
    <3>1. PICK k \in {"delta", "empty", "other"} : Arrives(<<Blank(k, TRUE)>>)
      BY <2>6 DEF QuoteArrives
    <3> DEFINE b == Blank(k, TRUE)
    <3>2. b \in Line /\ ~IsPiece(b) /\ b.marks = TRUE
      BY BlankIsLine
    <3>3. /\ pipe' = pipe \o <<b>>
          /\ quoted' = TRUE /\ sent' = sent
      BY <2>6, <3>1 DEF QuoteArrives, Arrives
    <3> HIDE DEF b
    <3>4. Adds(b, quoted, sent, quoted', sent') /\ Over'
      BY <3>2, <3>3 DEF Adds, Late, Over
    <3> QED BY <1>0, <2>1, <3>2, <3>3, <3>4, ArrivesInOrder
  <2> QED BY <1>9, <2>4, <2>5, <2>6
<1>10. CASE OtherArrives \/ MarkerArrives \/ ErrorBodyArrives
  <2>1. PICK l \in Line :
            /\ ~IsPiece(l) /\ ~Late(l) /\ Arrives(<<l>>)
            /\ l.marks => finished'
    <3>1. \A k \in {"empty", "other"}, m \in BOOLEAN :
              /\ Blank(k, m) \in Line /\ ~IsPiece(Blank(k, m))
              /\ ~Late(Blank(k, m)) /\ Blank(k, m).marks = m
      BY BlankIsLine DEF Late
    <3>2. CASE OtherArrives
      <4>1. PICK k \in {"empty", "other"} : Arrives(<<Blank(k, FALSE)>>)
        BY <3>2 DEF OtherArrives
      <4> QED BY <4>1, <3>1
    <3>3. CASE MarkerArrives
      BY <3>1, <3>3 DEF MarkerArrives
    <3>4. CASE ErrorBodyArrives
      BY <3>1, <3>4 DEF ErrorBodyArrives
    <3> QED BY <1>10, <3>2, <3>3, <3>4
  <2>2. /\ curl = "running" /\ ~finished /\ pipe' = pipe \o <<l>>
        /\ UNCHANGED <<pc, line, accumulated, stopped, curl, sent, quoted>>
        /\ finished' \in BOOLEAN
    BY <1>10, <2>1, <1>0
       DEF OtherArrives, MarkerArrives, ErrorBodyArrives, Arrives, reader
  <2>3. Adds(l, quoted, sent, quoted', sent') /\ (l.marks => Over')
    BY <2>1, <2>2 DEF Adds, Over
  <2> HIDE DEF Reading, Before, After
  <2> QED BY <1>0, <2>1, <2>2, <2>3, ArrivesInOrder
<1>11. CASE CurlEnds \/ CurlCut \/ CurlBrokenPipe \/ CurlEndsUnread
  <2>1. /\ UNCHANGED <<pc, line, accumulated, stopped, pipe, sent, quoted>>
        /\ finished => finished'
        /\ curl = "running" /\ curl' \in {"ok", "failed", "running"}
    BY <1>11 DEF CurlEnds, CurlCut, CurlBrokenPipe, CurlEndsUnread, reader
  <2>2. Over => Over'
    BY <2>1 DEF Over
  <2>3. Behind(pipe', Over')
    BY <2>1, <2>2 DEF Behind
  <2>4. Held' = Held
    BY <2>1 DEF Held
  <2> QED BY <2>1, <2>2, <2>3, <2>4
<1> QED BY <1>1, <1>2, <1>3, <1>4, <1>5, <1>6, <1>7, <1>8, <1>9, <1>10, <1>11
        DEF Next, Reads, Ends

(* The inductive invariant: types, what exists at each point, and where    *)
(* the deltas of the answer are.                                           *)
THEOREM Invariance == Spec => []IInv
<1>1. IInv /\ [Next]_vars => IInv'
  <2> SUFFICES ASSUME IInv, [Next]_vars
               PROVE  IInv'
    OBVIOUS
  <2>1. CASE Next
    <3>1. Places' /\ Flags' /\ Count'
      BY <2>1, PlacesStep, FlagsStep, CountStep DEF IInv, Typed
    <3>2. Lines' /\ Texts'
      BY <2>1, LinesStep, TextsStep DEF IInv, Typed
    <3>3. Life'
      BY <2>1, LifeStep DEF IInv, Typed
    <3>4. Reading'
      BY <2>1, ReadingStep DEF IInv, Typed
    <3>5. Telling'
      BY <2>1, TellingStep DEF IInv, Typed
    <3> QED BY <3>1, <3>2, <3>3, <3>4, <3>5 DEF IInv, Typed
  <2>2. CASE UNCHANGED vars
    BY <2>2 DEF vars, IInv, Typed, Places, Flags, Lines, Texts, Count, Life,
       Reading, Telling, Held, Over
  <2> QED BY <2>1, <2>2
<1> QED BY InvInit, <1>1, PTL DEF Spec

(* A request that is over has removed its payload file, closed its end of  *)
(* the pipe and seen curl exit, whichever of its steps failed.             *)
THEOREM RequestsCleanUp == Spec => []NothingLeft
<1>1. IInv => NothingLeft
  BY DEF IInv, Life, NothingLeft
<1> QED BY Invariance, <1>1, PTL

(* What a true result means, however curl, the pipe and the reader take    *)
(* turns: the answer up to the first line that holds the text of the end   *)
(* marker, less what was too long for the buffer; the whole of it only if  *)
(* no line did and none was.                                               *)
THEOREM NothingIsMissing == Spec => []TrueMeansWhole
<1>1. IInv => TrueMeansWhole
  <2> SUFFICES ASSUME IInv, ret = "true", ~stopped
               PROVE  /\ accumulated = [i \in 1..sent |-> i]
                      /\ callback => heard = accumulated
                      /\ finished
                      /\ ~long /\ ~quoted => sent = deltas
    BY DEF TrueMeansWhole
  <2>1. pc = "returned" /\ curl = "ok" /\ finished
    BY DEF IInv, Life
  <2>2. Held = sent
    BY <2>1 DEF IInv, Reading, After
  <2>3. /\ accumulated \in [1..Held -> 1..MaxLines] /\ Held \in Nat
        /\ accumulated \in Seq(1..MaxLines) /\ heard \in Seq(1..MaxLines)
    BY LenProperties DEF IInv, Typed, Texts, Held
  <2>4. accumulated = [i \in 1..sent |-> i]
    BY <2>2, <2>3 DEF IInv, Telling, InOrder, Held
  <2>5. ASSUME callback
        PROVE  heard = accumulated
    <3>1. Len(heard) = Len(accumulated)
      BY <2>1, <2>5 DEF IInv, Telling, Held
    <3>2. \A i \in 1..Len(heard) : heard[i] = accumulated[i]
      BY <3>1 DEF IInv, Telling, InOrder
    <3> QED BY <2>3, <3>1, <3>2, SeqEqual
  <2>6. ~long /\ ~quoted => sent = deltas
    BY DEF IInv, Typed, Count
  <2> QED BY <2>1, <2>4, <2>5, <2>6
<1> QED BY Invariance, <1>1, PTL

(* StreamRequest implements StreamContract: a call of the consumer is the  *)
(* next piece or the closing call, every other step is invisible to it.    *)
THEOREM Implements == Spec => ContractSpec
<1>1. Init => Contract!Init
  BY DEF Init, Contract!Init
<1>2. IInv /\ [Next]_vars => [Contract!Next]_(Contract!vars)
  <2> SUFFICES ASSUME IInv, [Next]_vars
               PROVE  Contract!Next \/ UNCHANGED <<heard, stopped, closed>>
    BY DEF Contract!vars
  <2>1. CASE Call
    <3>1. /\ pc = "call" /\ ~closed /\ ~stopped /\ line.id = Len(heard) + 1
      BY <2>1 DEF Call, IInv, Life, Telling, After, Typed, Texts, Held
    <3>2. /\ heard' = Append(heard, Len(heard) + 1)
          /\ stopped' \in BOOLEAN /\ UNCHANGED closed
      BY <2>1, <3>1 DEF Call
    <3> QED BY <3>1, <3>2 DEF Contract!Next, Contract!Piece
  <2>2. CASE Finish
    <3>1. ~closed /\ UNCHANGED <<heard, stopped>> /\ closed' \in BOOLEAN
      BY <2>2 DEF Finish, IInv, Life, Typed, Flags
    <3> QED BY <3>1 DEF Contract!Next, Contract!Close, IInv, Typed, Flags
  <2>3. CASE Next /\ ~Call /\ ~Finish
    BY <2>3 DEF Next, Reads, Ends, Mkstemp, WritePayload, Popen, ReadLine,
       EndOfFile, EndMarker, SkipLine, Accumulate, CloseReadEnd, WaitForCurl,
       Unlink, MarkerArrives, ErrorBodyArrives, CurlEnds, CurlCut,
       CurlBrokenPipe, CurlEndsUnread, DeltaArrives, LongDeltaArrives,
       QuoteArrives, OtherArrives, reader
  <2>4. CASE UNCHANGED vars
    BY <2>4 DEF vars
  <2> QED BY <2>1, <2>2, <2>3, <2>4
<1> QED BY <1>1, <1>2, Invariance, PTL DEF Spec, ContractSpec, Contract!Spec
=============================================================================
