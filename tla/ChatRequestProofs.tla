-------------------------- MODULE ChatRequestProofs --------------------------
(***************************************************************************)
(* Proofs about ChatRequest, for any settings, messages, images, answers   *)
(* and faults: llama-server is started with the settings it should have,   *)
(* it understands the chat that the caller has, a call returns true        *)
(* exactly when it has been answered and hands out what the answer says,   *)
(* and however it ends, it leaves nothing behind and tells its caller      *)
(* once.                                                                   *)
(*                                                                         *)
(* Most of it is about the conversions, for texts of any length: what a    *)
(* fold computes, symbol by symbol, and from this that a JSON parser reads *)
(* back what JsonEscape wrote, a base64 decoder what Base64Encode wrote,   *)
(* a shell the words that the command line was built from, and the         *)
(* searches of the service the members of the answer.                      *)
(* Induction is over a set of naturals or of sequences, so that no lemma   *)
(* takes an operator as a parameter; a fold is a function "run" that       *)
(* satisfies its recursive equations, and there is exactly one.            *)
(***************************************************************************)
EXTENDS ChatRequest, FiniteSetTheorems, SequenceTheorems, TLAPS

(* Induction over the naturals, for a set of them.                         *)
LEMMA SetInduction ==
    ASSUME NEW S, 0 \in S, \A n \in Nat : n \in S => n + 1 \in S
    PROVE  Nat \subseteq S
<1> DEFINE T == {n \in Nat : n \notin S}
           Below(n) == 0..(n - 1)
           F == {Below(n) : n \in T}
<1>1. SUFFICES ASSUME T # {}
               PROVE  FALSE
  OBVIOUS
<1>2. F \subseteq FiniteSubsetsOf(Nat)
  <2> SUFFICES ASSUME NEW n \in T
               PROVE  Below(n) \in FiniteSubsetsOf(Nat)
    OBVIOUS
  <2>1. 0 \in Int /\ n - 1 \in Int /\ Below(n) \subseteq Nat
    OBVIOUS
  <2>2. IsFiniteSet(0..(n - 1))
    BY ONLY <2>1, FS_Interval
  <2> QED BY <2>1, <2>2 DEF FiniteSubsetsOf
<1>3. PICK x \in F : \A y \in F : <<y, x>> \notin StrictSubsetOrdering(Nat)
  <2>1. F # {}
    BY <1>1
  <2>2. IsWellFoundedOn(StrictSubsetOrdering(Nat), FiniteSubsetsOf(Nat))
    BY FS_StrictSubsetOrderingWellFounded
  <2> HIDE DEF F
  <2> QED BY <1>2, <2>1, <2>2, WFMin
<1>4. PICK n \in T : x = Below(n)
  OBVIOUS
<1>5. n - 1 \in T
  OBVIOUS
<1>6. Below(n - 1) \in F /\ <<Below(n - 1), Below(n)>> \in StrictSubsetOrdering(Nat)
  <2>1. /\ Below(n - 1) \in SUBSET Nat /\ Below(n) \in SUBSET Nat
        /\ Below(n - 1) \subseteq Below(n)
    BY <1>5
  <2>2. n - 1 \in Below(n) /\ n - 1 \notin Below(n - 1)
    BY <1>5
  <2> HIDE DEF Below
  <2> QED BY <1>5, <2>1, <2>2 DEF StrictSubsetOrdering
<1> QED BY <1>3, <1>4, <1>6

(* Induction over sequences, from the front to the back.                   *)
LEMMA SeqInduction ==
    ASSUME NEW A, NEW S, <<>> \in S,
           \A s \in Seq(A), c \in A : s \in S => Append(s, c) \in S
    PROVE  Seq(A) \subseteq S
<1> DEFINE T == {n \in Nat : \A s \in Seq(A) : Len(s) = n => s \in S}
<1>1. 0 \in T
  BY EmptySeq
<1>2. ASSUME NEW n \in Nat, n \in T
      PROVE  n + 1 \in T
  <2> SUFFICES ASSUME NEW s \in Seq(A), Len(s) = n + 1
               PROVE  s \in S
    OBVIOUS
  <2>1. PICK r \in Seq(A), c \in A : s = Append(r, c)
    BY SequenceEmptyOrAppend, EmptySeq
  <2>2. Len(r) = n
    BY <2>1, AppendProperties, LenProperties
  <2> QED BY <1>2, <2>1, <2>2
<1>3. Nat \subseteq T
  <2> HIDE DEF T
  <2> QED BY <1>1, <1>2, SetInduction
<1> QED BY <1>3, LenProperties

LEMMA MaxIs ==
    ASSUME NEW S \in SUBSET Int, NEW m \in S, \A y \in S : m >= y
    PROVE  Max(S) = m
<1> DEFINE P(x) == \A y \in S : x >= y
<1>1. Max(S) = CHOOSE x \in S : P(x)
  BY DEF Max
<1>2. \E x \in S : P(x)
  OBVIOUS
<1>3. Max(S) \in S /\ P(Max(S))
  BY <1>1, <1>2, Zenon
<1>4. Max(S) >= m /\ m >= Max(S) /\ Max(S) \in Int
  BY <1>3
<1> QED BY <1>4

LEMMA MinIs ==
    ASSUME NEW S \in SUBSET Int, NEW m \in S, \A y \in S : m <= y
    PROVE  Min(S) = m
<1> DEFINE P(x) == \A y \in S : x <= y
<1>1. Min(S) = CHOOSE x \in S : P(x)
  BY DEF Min
<1>2. \E x \in S : P(x)
  OBVIOUS
<1>3. Min(S) \in S /\ P(Min(S))
  BY <1>1, <1>2, Zenon
<1>4. Min(S) >= m /\ m >= Min(S) /\ Min(S) \in Int
  BY <1>3
<1> QED BY <1>4

-----------------------------------------------------------------------------
(* Folds of a function f of a state in T and a symbol in A.                *)
Folding(T, A, f, base) == base \in T /\ f \in [T \X A -> T]

Recurs(f, base, s, g) ==
    g[0] = base /\ \A i \in 1..Len(s) : g[i] = f[<<g[i - 1], s[i]>>]

Run(T, f, base, s) ==
    (CHOOSE g \in [0..Len(s) -> T] : Recurs(f, base, s, g))[Len(s)]

(* The recursion over sets of positions by which FoldLeft is defined has a *)
(* solution.                                                               *)
Solves(s, base, f, it, n) ==
    \A x \in SUBSET (1..n) :
        IF x = {} THEN it[x] = base
        ELSE Max(x) \in x /\ it[x] = f[<<it[x \ {Max(x)}], s[Max(x)]>>]

Solvable(T, s, base, f, n) == \E it \in [SUBSET (1..n) -> T] : Solves(s, base, f, it, n)

LEMMA FoldExists ==
    ASSUME NEW T, NEW A, NEW base, NEW f, Folding(T, A, f, base), NEW s \in Seq(A)
    PROVE  Solvable(T, s, base, f, Len(s))
<1> DEFINE B == {n \in Nat : n <= Len(s) => Solvable(T, s, base, f, n)}
<1>0. Len(s) \in Nat
  BY LenProperties
<1>1. 0 \in B
  <2> DEFINE h == [x \in SUBSET (1..0) |-> base]
  <2>1. h \in [SUBSET (1..0) -> T]
    BY DEF Folding
  <2>2. \A x \in SUBSET (1..0) : x = {} /\ h[x] = base
    OBVIOUS
  <2> HIDE DEF h
  <2> QED BY <2>1, <2>2 DEF Solvable, Solves
<1>2. ASSUME NEW n \in Nat, n \in B
      PROVE  n + 1 \in B
  <2> SUFFICES ASSUME n + 1 <= Len(s)
               PROVE  Solvable(T, s, base, f, n + 1)
    OBVIOUS
  <2>1. n <= Len(s) /\ s[n + 1] \in A
    BY <1>0, ElementOfSeq
  <2>2. PICK g \in [SUBSET (1..n) -> T] : Solves(s, base, f, g, n)
    BY <1>2, <2>1 DEF Solvable
  <2> DEFINE h == [x \in SUBSET (1..n+1) |->
                     IF n + 1 \in x THEN f[<<g[x \ {n + 1}], s[n + 1]>>] ELSE g[x]]
  <2>3. h \in [SUBSET (1..n+1) -> T]
    <3> SUFFICES ASSUME NEW x \in SUBSET (1..n+1)
                 PROVE  (IF n + 1 \in x THEN f[<<g[x \ {n + 1}], s[n + 1]>>]
                                        ELSE g[x]) \in T
      OBVIOUS
    <3>1. x \ {n + 1} \in SUBSET (1..n)
      OBVIOUS
    <3>2. n + 1 \notin x => x \in SUBSET (1..n)
      OBVIOUS
    <3> QED BY <2>1, <3>1, <3>2 DEF Folding
  <2>4. ASSUME NEW x \in SUBSET (1..n+1)
        PROVE  IF x = {} THEN h[x] = base
               ELSE Max(x) \in x /\ h[x] = f[<<h[x \ {Max(x)}], s[Max(x)]>>]
    <3>1. CASE n + 1 \in x
      <4>1. Max(x) = n + 1
        BY <3>1, MaxIs
      <4>2. x \ {n + 1} \in SUBSET (1..n+1) /\ n + 1 \notin x \ {n + 1}
        OBVIOUS
      <4>3. h[x \ {n + 1}] = g[x \ {n + 1}]
        BY <4>2
      <4>4. h[x] = f[<<g[x \ {n + 1}], s[n + 1]>>]
        BY <3>1
      <4> HIDE DEF h
      <4> QED BY <3>1, <4>1, <4>3, <4>4
    <3>2. CASE n + 1 \notin x
      <4>1. x \in SUBSET (1..n)
        BY <3>2
      <4>2. x \ {Max(x)} \in SUBSET (1..n+1) /\ n + 1 \notin x \ {Max(x)}
        BY <3>2
      <4>3. h[x \ {Max(x)}] = g[x \ {Max(x)}]
        BY <4>2
      <4>4. h[x] = g[x]
        BY <3>2
      <4> HIDE DEF h
      <4> QED BY <2>2, <4>1, <4>3, <4>4 DEF Solves
    <3> QED BY <3>1, <3>2
  <2> HIDE DEF h
  <2> QED BY <2>3, <2>4 DEF Solvable, Solves
<1>3. Nat \subseteq B
  <2> HIDE DEF B
  <2> QED BY <1>1, <1>2, SetInduction
<1> QED BY <1>0, <1>3

LEMMA UpToIsInterval ==
    ASSUME NEW i \in Nat \ {0}
    PROVE  1..i # {} /\ Max(1..i) = i /\ (1..i) \ {i} = 1..(i - 1)
<1>1. 1..i \in SUBSET Int /\ i \in 1..i /\ \A y \in 1..i : i >= y
  OBVIOUS
<1>2. Max(1..i) = i
  BY <1>1, MaxIs
<1> QED BY <1>1, <1>2

LEMMA RunExists ==
    ASSUME NEW T, NEW A, NEW base, NEW f, Folding(T, A, f, base), NEW s \in Seq(A)
    PROVE  \E g \in [0..Len(s) -> T] : Recurs(f, base, s, g)
<1>0. Len(s) \in Nat
  BY LenProperties
<1>1. PICK it \in [SUBSET (1..Len(s)) -> T] : Solves(s, base, f, it, Len(s))
  BY FoldExists DEF Solvable
<1> DEFINE g == [i \in 0..Len(s) |-> it[1..i]]
<1>2. g \in [0..Len(s) -> T]
  <2>1. \A i \in 0..Len(s) : 1..i \in SUBSET (1..Len(s))
    BY <1>0
  <2> QED BY <2>1
<1>3. g[0] = base
  <2>1. g[0] = it[1..0] /\ 1..0 = {} /\ 1..0 \in SUBSET (1..Len(s))
    BY <1>0
  <2> HIDE DEF g
  <2> QED BY <1>1, <2>1 DEF Solves
<1>4. ASSUME NEW i \in 1..Len(s)
      PROVE  g[i] = f[<<g[i - 1], s[i]>>]
  <2>1. 1..i \in SUBSET (1..Len(s)) /\ 1..i # {} /\ Max(1..i) = i
        /\ (1..i) \ {i} = 1..(i - 1)
    <3>1. i \in Nat \ {0} /\ 1..i \in SUBSET (1..Len(s))
      BY <1>0
    <3> QED BY ONLY <3>1, UpToIsInterval
  <2>2. it[1..i] = f[<<it[1..(i - 1)], s[i]>>]
    <3> DEFINE x == 1..i
    <3>1. x \in SUBSET (1..Len(s)) /\ x # {} /\ Max(x) = i /\ x \ {i} = 1..(i - 1)
      BY <2>1
    <3> HIDE DEF x
    <3>2. it[x] = f[<<it[x \ {Max(x)}], s[Max(x)]>>]
      BY <1>1, <3>1 DEF Solves
    <3>3. it[x] = f[<<it[1..(i - 1)], s[i]>>]
      BY ONLY <3>1, <3>2
    <3> QED BY ONLY <3>3 DEF x
  <2>3. g[i] = it[1..i] /\ g[i - 1] = it[1..(i - 1)]
    BY <1>0
  <2> HIDE DEF g
  <2> QED BY <2>2, <2>3
<1> HIDE DEF g
<1> QED BY <1>2, <1>3, <1>4 DEF Recurs

(* The value after the last position is what any solution says.            *)
LEMMA RunIs ==
    ASSUME NEW T, NEW A, NEW base, NEW f, Folding(T, A, f, base), NEW s \in Seq(A),
           NEW g, g[0] = base,
           \A i \in 1..Len(s) : g[i - 1] \in T => g[i] = f[<<g[i - 1], s[i]>>]
    PROVE  Run(T, f, base, s) = g[Len(s)]
<1>0. Len(s) \in Nat
  BY LenProperties
<1> DEFINE h == CHOOSE h \in [0..Len(s) -> T] : Recurs(f, base, s, h)
<1>1. h \in [0..Len(s) -> T] /\ Recurs(f, base, s, h)
  BY RunExists, Zenon
<1>2. Run(T, f, base, s) = h[Len(s)]
  BY Zenon DEF Run
<1> HIDE DEF h
<1> DEFINE B == {n \in Nat : n <= Len(s) => h[n] = g[n]}
<1>3. 0 \in B
  BY <1>1 DEF Recurs
<1>4. ASSUME NEW n \in Nat, n \in B
      PROVE  n + 1 \in B
  <2> SUFFICES ASSUME n + 1 <= Len(s)
               PROVE  h[n + 1] = g[n + 1]
    OBVIOUS
  <2>1. n + 1 \in 1..Len(s) /\ (n + 1) - 1 = n /\ h[n] \in T /\ h[n] = g[n]
    BY <1>0, <1>1, <1>4
  <2>2. h[n + 1] = f[<<h[n], s[n + 1]>>] /\ g[n + 1] = f[<<g[n], s[n + 1]>>]
    BY <1>1, <2>1 DEF Recurs
  <2> QED BY <2>1, <2>2
<1>5. Nat \subseteq B
  <2> HIDE DEF B
  <2> QED BY <1>3, <1>4, SetInduction
<1> QED BY <1>0, <1>2, <1>5

LEMMA RunRecurs ==
    ASSUME NEW T, NEW A, NEW base, NEW f, Folding(T, A, f, base), NEW s \in Seq(A)
    PROVE  \E g \in [0..Len(s) -> T] :
              Recurs(f, base, s, g) /\ Run(T, f, base, s) = g[Len(s)]
<1>1. PICK g \in [0..Len(s) -> T] : Recurs(f, base, s, g)
  BY RunExists
<1>2. g[0] = base /\ \A i \in 1..Len(s) : g[i - 1] \in T => g[i] = f[<<g[i - 1], s[i]>>]
  BY <1>1 DEF Recurs
<1>3. Run(T, f, base, s) = g[Len(s)]
  BY <1>2, RunIs
<1> QED BY <1>1, <1>3

LEMMA RunType ==
    ASSUME NEW T, NEW A, NEW base, NEW f, Folding(T, A, f, base), NEW s \in Seq(A)
    PROVE  Run(T, f, base, s) \in T
<1>1. Len(s) \in 0..Len(s)
  BY LenProperties
<1> QED BY <1>1, RunRecurs

LEMMA RunEmpty ==
    ASSUME NEW T, NEW A, NEW base, NEW f, Folding(T, A, f, base)
    PROVE  Run(T, f, base, <<>>) = base
<1>1. \A e \in Seq(A) : Len(e) = 0 => Run(T, f, base, e) = base
  <2> SUFFICES ASSUME NEW e, e \in Seq(A)
               PROVE  Len(e) = 0 => Run(T, f, base, e) = base
    OBVIOUS
  <2>1. PICK g \in [0..Len(e) -> T] : Recurs(f, base, e, g) /\ Run(T, f, base, e) = g[Len(e)]
    BY RunRecurs
  <2> QED BY <2>1 DEF Recurs
<1> QED BY <1>1, EmptySeq

LEMMA RunAppend ==
    ASSUME NEW T, NEW A, NEW base, NEW f, Folding(T, A, f, base),
           NEW s \in Seq(A), NEW c \in A
    PROVE  Run(T, f, base, Append(s, c)) = f[<<Run(T, f, base, s), c>>]
<1> DEFINE n == Len(s)
           t == Append(s, c)
<1>0. s \in Seq(A) /\ n \in Nat /\ t \in Seq(A) /\ Len(t) = n + 1 /\ t[n + 1] = c
      /\ \A i \in 1..n : t[i] = s[i]
  BY LenProperties, AppendProperties
<1>1. PICK g \in [0..n -> T] : Recurs(f, base, s, g) /\ Run(T, f, base, s) = g[n]
  BY RunRecurs
<1>2. PICK h \in [0..Len(t) -> T] : Recurs(f, base, t, h) /\ Run(T, f, base, t) = h[Len(t)]
  BY <1>0, RunRecurs
<1>3. /\ h[0] = base
      /\ \A i \in 1..Len(s) : h[i - 1] \in T => h[i] = f[<<h[i - 1], s[i]>>]
  BY <1>0, <1>2 DEF Recurs
<1>4. Run(T, f, base, s) = h[n]
  BY <1>0, <1>3, RunIs
<1>5. h[n + 1] = f[<<h[n], c>>]
  BY <1>0, <1>2 DEF Recurs
<1> QED BY <1>0, <1>2, <1>4, <1>5

(* Any solution of the recursion of FoldLeft ends where Run ends.          *)
LEMMA FoldIsRun ==
    ASSUME NEW T, NEW A, NEW base, NEW f, Folding(T, A, f, base), NEW s \in Seq(A),
           NEW it, it[{}] = base,
           \A i \in 1..Len(s) : it[1..(i - 1)] \in T =>
              it[1..i] = f[<<it[1..(i - 1)], s[i]>>]
    PROVE  it[DOMAIN s] = Run(T, f, base, s)
<1>0. Len(s) \in Nat /\ DOMAIN s = 1..Len(s)
  BY LenProperties
<1> DEFINE g == [i \in 0..Len(s) |-> it[1..i]]
<1>1. \A i \in 0..Len(s) : g[i] = it[1..i]
  OBVIOUS
<1>2. g[0] = base
  <2>1. 1..0 = {} /\ 0 \in 0..Len(s)
    BY <1>0
  <2> HIDE DEF g
  <2> QED BY <1>1, <2>1
<1> HIDE DEF g
<1>3. ASSUME NEW i \in 1..Len(s), g[i - 1] \in T
      PROVE  g[i] = f[<<g[i - 1], s[i]>>]
  <2>1. g[i - 1] = it[1..(i - 1)] /\ g[i] = it[1..i]
    BY <1>0, <1>1
  <2> QED BY <1>3, <2>1
<1>4. Run(T, f, base, s) = g[Len(s)]
  BY <1>2, <1>3, RunIs
<1> QED BY <1>0, <1>1, <1>4

LEMMA RunConcat ==
    ASSUME NEW T, NEW A, NEW base, NEW f, Folding(T, A, f, base),
           NEW s \in Seq(A), NEW t \in Seq(A)
    PROVE  Run(T, f, base, s \o t) = Run(T, f, Run(T, f, base, s), t)
<1> DEFINE b == Run(T, f, base, s)
<1>0. Folding(T, A, f, b)
  BY RunType DEF Folding
<1> HIDE DEF b
<1> DEFINE S == {u \in Seq(A) : Run(T, f, base, s \o u) = Run(T, f, b, u)}
<1>1. <<>> \in S
  <2>1. Run(T, f, b, <<>>) = b
    BY <1>0, RunEmpty
  <2> QED BY <2>1, EmptySeq, ConcatEmptySeq DEF b
<1>2. ASSUME NEW u \in Seq(A), NEW c \in A, u \in S
      PROVE  Append(u, c) \in S
  <2> DEFINE v == s \o u
  <2>1. /\ s \o Append(u, c) = Append(v, c) /\ v \in Seq(A) /\ Append(u, c) \in Seq(A)
        /\ u \in Seq(A) /\ c \in A
    OBVIOUS
  <2> HIDE DEF v
  <2>2. Run(T, f, base, Append(v, c)) = f[<<Run(T, f, base, v), c>>]
    BY <2>1, RunAppend
  <2>3. Run(T, f, b, Append(u, c)) = f[<<Run(T, f, b, u), c>>]
    BY <1>0, <2>1, RunAppend
  <2> QED BY <1>2, <2>1, <2>2, <2>3 DEF v
<1>3. Seq(A) \subseteq S
  <2> HIDE DEF S
  <2> QED BY <1>1, <1>2, SeqInduction
<1> QED BY <1>3 DEF b
-----------------------------------------------------------------------------
Cat(B) == [p \in Seq(B) \X Seq(B) |-> p[1] \o p[2]]

LEMMA CatFolds == \A B : Folding(Seq(B), Seq(B), Cat(B), <<>>)
BY EmptySeq, ConcatProperties DEF Folding, Cat

LEMMA CatIs == \A B : \A s \in Seq(B) : \A t \in Seq(B) : Cat(B)[<<s, t>>] = s \o t
BY DEF Cat

(* FlattenSeq is a fold, too.                                              *)
LEMMA FlattenIsRun ==
    ASSUME NEW B, NEW ss, ss \in Seq(Seq(B))
    PROVE  FlattenSeq(ss) = Run(Seq(B), Cat(B), <<>>, ss)
<1>0. Len(ss) \in Nat /\ Folding(Seq(B), Seq(B), Cat(B), <<>>)
  BY LenProperties, CatFolds
<1> DEFINE T == Seq(B)
<1>3. /\ ss \in Seq(T) /\ <<>> \in T /\ \A t \in T : <<>> \o t = t
      /\ \A s \in T : \A t \in T : Cat(B)[<<s, t>>] = s \o t
      /\ \A i \in 1..Len(ss) : ss[i] \in T
  BY EmptySeq, ConcatEmptySeq, CatIs, ElementOfSeq
<1>1. CASE Len(ss) = 0
  <2>1. ss = <<>>
    BY <1>1, EmptySeq
  <2> QED BY <1>0, <1>1, <2>1, RunEmpty DEF FlattenSeq
<1>2. CASE Len(ss) # 0
  <2> DEFINE Eq(fl) == fl = [i \in 1..Len(ss) |->
                               IF i = 1 THEN ss[i] ELSE fl[i - 1] \o ss[i]]
  <2>1. PICK g \in [0..Len(ss) -> T] :
           Recurs(Cat(B), <<>>, ss, g) /\ Run(T, Cat(B), <<>>, ss) = g[Len(ss)]
    BY <1>0, RunRecurs
  <2> HIDE DEF T
  <2>2. ASSUME NEW i \in 1..Len(ss)
        PROVE  g[i] = g[i - 1] \o ss[i]
    <3>1. i - 1 \in 0..Len(ss)
      BY <1>0
    <3>2. g[i] = Cat(B)[<<g[i - 1], ss[i]>>]
      BY <2>1 DEF Recurs
    <3> QED BY <1>3, <3>1, <3>2
  <2>3. g[1] = ss[1]
    <3>1. 1 \in 1..Len(ss) /\ 1 - 1 = 0 /\ g[0] = <<>>
      BY <1>0, <1>2, <2>1 DEF Recurs
    <3>2. g[1] = g[1 - 1] \o ss[1]
      BY <2>2, <3>1, Zenon
    <3> QED BY <1>3, <3>1, <3>2
  <2>4. Eq([i \in 1..Len(ss) |-> g[i]])
    <3> DEFINE h == [i \in 1..Len(ss) |-> g[i]]
    <3> SUFFICES ASSUME NEW i \in 1..Len(ss)
                 PROVE  h[i] = IF i = 1 THEN ss[i] ELSE h[i - 1] \o ss[i]
      OBVIOUS
    <3>1. i # 1 => i - 1 \in 1..Len(ss)
      BY <1>0
    <3> QED BY <2>2, <2>3, <3>1
  <2> DEFINE fl == CHOOSE fl : Eq(fl)
  <2>5. FlattenSeq(ss) = fl[Len(ss)]
    BY <1>2, Zenon DEF FlattenSeq
  <2>6. Eq(fl)
    <3> HIDE DEF Eq
    <3> QED BY <2>4, Zenon
  <2> HIDE DEF fl
  <2>7. \A i \in 1..Len(ss) : fl[i] = IF i = 1 THEN ss[i] ELSE fl[i - 1] \o ss[i]
    BY <2>6, Zenon
  <2> DEFINE k == [i \in 0..Len(ss) |-> IF i = 0 THEN <<>> ELSE fl[i]]
  <2>8. k[0] = <<>> /\ \A i \in 1..Len(ss) : k[i] = fl[i]
    BY <1>0
  <2> HIDE DEF k, Eq
  <2>9. ASSUME NEW i \in 1..Len(ss), k[i - 1] \in T
        PROVE  k[i] = Cat(B)[<<k[i - 1], ss[i]>>]
    <3>1. Cat(B)[<<k[i - 1], ss[i]>>] = k[i - 1] \o ss[i]
      BY <1>3, <2>9
    <3>2. CASE i = 1
      <4>1. k[i - 1] = <<>> /\ k[i] = ss[i]
        BY <1>0, <1>2, <2>7, <2>8, <3>2
      <4> QED BY <1>3, <3>1, <4>1
    <3>3. CASE i # 1
      <4>1. i - 1 \in 1..Len(ss)
        BY <1>0, <3>3
      <4> QED BY <2>7, <2>8, <3>1, <3>3, <4>1
    <3> QED BY <3>2, <3>3
  <2>10. Run(T, Cat(B), <<>>, ss) = k[Len(ss)]
    BY <1>0, <1>3, <2>8, <2>9, RunIs DEF T
  <2>11. Len(ss) \in 1..Len(ss)
    BY <1>0, <1>2
  <2> QED BY <2>5, <2>8, <2>10, <2>11 DEF T
<1> QED BY <1>1, <1>2

LEMMA FlattenEmpty == FlattenSeq(<<>>) = <<>>
BY EmptySeq DEF FlattenSeq

LEMMA FlattenType ==
    ASSUME NEW B, NEW ss, ss \in Seq(Seq(B))
    PROVE  FlattenSeq(ss) \in Seq(B)
BY FlattenIsRun, CatFolds, RunType

LEMMA FlattenAppend ==
    ASSUME NEW B, NEW ss, ss \in Seq(Seq(B)), NEW t, t \in Seq(B)
    PROVE  FlattenSeq(Append(ss, t)) = FlattenSeq(ss) \o t
<1> DEFINE u == Append(ss, t)
           T == Seq(B)
<1>1. u \in Seq(T) /\ Folding(T, T, Cat(B), <<>>) /\ ss \in Seq(T) /\ t \in T
  BY CatFolds
<1> HIDE DEF T
<1>2. Run(T, Cat(B), <<>>, u) = Cat(B)[<<Run(T, Cat(B), <<>>, ss), t>>]
  BY <1>1, RunAppend
<1>3. Run(T, Cat(B), <<>>, ss) \in T
  BY <1>1, RunType
<1> QED BY <1>1, <1>2, <1>3, FlattenIsRun DEF T, Cat

(* The text that a symbol-by-symbol replacement makes.                     *)
Mapped(m, s) == [i \in DOMAIN s |-> m[s[i]]]

LEMMA MapType ==
    ASSUME NEW A, NEW C, NEW m, m \in [A -> C], NEW s, s \in Seq(A)
    PROVE  Mapped(m, s) \in Seq(C)
<1>1. DOMAIN s = 1..Len(s) /\ Len(s) \in Nat /\ \A i \in 1..Len(s) : s[i] \in A
  BY LenProperties, ElementOfSeq
<1> QED BY <1>1 DEF Mapped

LEMMA MapAppend ==
    ASSUME NEW A, NEW B, NEW m, m \in [A -> Seq(B)], NEW s, s \in Seq(A), NEW c, c \in A
    PROVE  FlattenSeq(Mapped(m, Append(s, c))) = FlattenSeq(Mapped(m, s)) \o m[c]
<1> DEFINE ss == Mapped(m, s)
           u == Append(s, c)
           uu == Mapped(m, u)
<1>1. u \in Seq(A) /\ ss \in Seq(Seq(B)) /\ uu \in Seq(Seq(B)) /\ m[c] \in Seq(B)
  <2> DEFINE T == Seq(B)
  <2>1. m \in [A -> T] /\ u \in Seq(A)
    OBVIOUS
  <2> HIDE DEF T, u
  <2>2. Mapped(m, s) \in Seq(T) /\ Mapped(m, u) \in Seq(T) /\ m[c] \in T
    BY <2>1, MapType
  <2> QED BY <2>1, <2>2 DEF T
<1>2. uu = Append(ss, m[c])
  <2>1. Append(ss, m[c]) \in Seq(Seq(B))
    BY <1>1
  <2>2. Len(uu) = Len(s) + 1 /\ Len(Append(ss, m[c])) = Len(s) + 1
    BY <1>1 DEF Mapped
  <2>3. \A i \in 1..Len(s) + 1 : uu[i] = Append(ss, m[c])[i]
    BY <1>1 DEF Mapped
  <2> HIDE DEF uu, ss
  <2> QED BY <1>1, <2>1, <2>2, <2>3, SeqEqual
<1> HIDE DEF ss, uu
<1>3. FlattenSeq(uu) = FlattenSeq(ss) \o m[c]
  BY <1>1, <1>2, FlattenAppend
<1> QED BY <1>3 DEF ss, uu

LEMMA MapAppends ==
    ASSUME NEW A, NEW m, m \in [A -> Seq(A)]
    PROVE  \A s \in Seq(A) : \A c \in A :
              FlattenSeq(Mapped(m, Append(s, c))) = FlattenSeq(Mapped(m, s)) \o m[c]
<1> DEFINE B == A
<1>1. m \in [A -> Seq(B)]
  OBVIOUS
<1> HIDE DEF B
<1> QED BY ONLY <1>1, MapAppend

LEMMA MapEmpty == \A m : FlattenSeq(Mapped(m, <<>>)) = <<>>
<1>1. \A m : Mapped(m, <<>>) = <<>>
  BY DEF Mapped
<1> QED BY <1>1, FlattenEmpty

LEMMA RangeOf == \A s : \A A : s \in Seq(A) => Range(s) = {s[i] : i \in 1..Len(s)}
BY LenProperties DEF Range

LEMMA RangeAppend ==
    ASSUME NEW A, NEW s, s \in Seq(A), NEW c, c \in A
    PROVE  Range(Append(s, c)) = Range(s) \cup {c}
<1> DEFINE u == Append(s, c)
<1>1. u \in Seq(A) /\ Len(u) = Len(s) + 1 /\ u[Len(s) + 1] = c /\ Len(s) \in Nat
      /\ \A i \in 1..Len(s) : u[i] = s[i]
  OBVIOUS
<1>2. Range(s) = {s[i] : i \in 1..Len(s)} /\ Range(u) = {u[i] : i \in 1..Len(s) + 1}
  BY <1>1, RangeOf
<1> HIDE DEF u
<1>3. {u[i] : i \in 1..Len(s) + 1} = {s[i] : i \in 1..Len(s)} \cup {c}
  BY <1>1
<1> QED BY <1>2, <1>3 DEF u
-----------------------------------------------------------------------------
(* JSON.  A is the set of symbols of the texts at hand.                    *)
JsonState(A) == [ok : BOOLEAN, escaped : BOOLEAN, text : Seq(A)]
JsonStep(A) == [p \in JsonState(A) \X A |-> JsonRead(p[1], p[2])]
Alphabet(A) == {"n", "newline", "quote", "backslash"} \subseteq A

LEMMA JsonStepIs ==
    ASSUME NEW A, Alphabet(A), NEW r \in JsonState(A), NEW c \in A
    PROVE  JsonStep(A)[<<r, c>>] = JsonRead(r, c) /\ JsonRead(r, c) \in JsonState(A)
<1>1. Unescape(c) \in A
  BY DEF Unescape, Alphabet
<1>2. Append(r.text, Unescape(c)) \in Seq(A) /\ Append(r.text, c) \in Seq(A)
  BY <1>1 DEF JsonState
<1>3. JsonRead(r, c) \in JsonState(A)
  BY <1>2 DEF JsonRead, JsonState
<1> QED BY <1>3 DEF JsonStep

LEMMA JsonFolds ==
    ASSUME NEW A, Alphabet(A)
    PROVE  Folding(JsonState(A), A, JsonStep(A), JsonStart)
<1>1. JsonStart \in JsonState(A)
  BY EmptySeq DEF JsonStart, JsonState
<1>2. JsonStep(A) \in [JsonState(A) \X A -> JsonState(A)]
  <2>1. \A p \in JsonState(A) \X A : JsonRead(p[1], p[2]) \in JsonState(A)
    BY JsonStepIs
  <2> QED BY <2>1 DEF JsonStep
<1> QED BY <1>1, <1>2 DEF Folding

JsonSeen(s) == FoldLeft(JsonRead, JsonStart, s)

LEMMA JsonIsRun ==
    ASSUME NEW A, Alphabet(A), NEW s, s \in Seq(A)
    PROVE  JsonSeen(s) = Run(JsonState(A), JsonStep(A), JsonStart, s)
<1> DEFINE T == JsonState(A)
           f == JsonStep(A)
           Eq(it) == it = [x \in SUBSET DOMAIN s |->
                             IF x = {} THEN JsonStart
                             ELSE JsonRead(it[x \ {Max(x)}], s[Max(x)])]
<1>0. Len(s) \in Nat /\ DOMAIN s = 1..Len(s) /\ \A i \in 1..Len(s) : s[i] \in A
  BY LenProperties, ElementOfSeq
<1>a. Folding(T, A, f, JsonStart)
  BY JsonFolds
<1>b. \A r \in T : \A c \in A : f[<<r, c>>] = JsonRead(r, c)
  BY JsonStepIs
<1> HIDE DEF T, f
<1>1. PICK g \in [SUBSET (1..Len(s)) -> T] : Solves(s, JsonStart, f, g, Len(s))
  BY <1>a, FoldExists DEF Solvable
<1>2. Eq(g)
  <2> SUFFICES ASSUME NEW x \in SUBSET (1..Len(s))
               PROVE  g[x] = IF x = {} THEN JsonStart
                             ELSE JsonRead(g[x \ {Max(x)}], s[Max(x)])
    BY <1>0
  <2>1. CASE x = {}
    BY <1>1, <2>1 DEF Solves
  <2>2. CASE x # {}
    <3>1. Max(x) \in x /\ g[x] = f[<<g[x \ {Max(x)}], s[Max(x)]>>]
      BY <1>1, <2>2 DEF Solves
    <3>2. g[x \ {Max(x)}] \in T /\ s[Max(x)] \in A
      BY <1>0, <3>1
    <3> QED BY <1>b, <2>2, <3>1, <3>2
  <2> QED BY <2>1, <2>2
<1> DEFINE it == CHOOSE it : Eq(it)
<1>3. FoldLeft(JsonRead, JsonStart, s) = it[DOMAIN s]
  BY Zenon DEF FoldLeft, MapThenFoldSet
<1>4. Eq(it)
  <2> HIDE DEF Eq
  <2> QED BY <1>2, Zenon
<1> HIDE DEF it
<1>5. \A x \in SUBSET (1..Len(s)) : it[x] = IF x = {} THEN JsonStart
                                           ELSE JsonRead(it[x \ {Max(x)}], s[Max(x)])
  BY <1>0, <1>4, Zenon
<1> HIDE DEF Eq
<1>6. it[{}] = JsonStart
  BY <1>5
<1>7. ASSUME NEW i \in 1..Len(s), it[1..(i - 1)] \in T
      PROVE  it[1..i] = f[<<it[1..(i - 1)], s[i]>>]
  <2>1. 1..i \in SUBSET (1..Len(s)) /\ 1..i # {} /\ Max(1..i) = i
        /\ (1..i) \ {i} = 1..(i - 1)
    <3>1. i \in Nat \ {0} /\ 1..i \in SUBSET (1..Len(s))
      BY <1>0
    <3> QED BY ONLY <3>1, UpToIsInterval
  <2>2. it[1..i] = JsonRead(it[1..(i - 1)], s[i])
    BY <1>5, <2>1
  <2> QED BY <1>0, <1>b, <1>7, <2>2
<1>8. it[DOMAIN s] = Run(T, f, JsonStart, s)
  BY <1>a, <1>6, <1>7, FoldIsRun
<1> QED BY <1>3, <1>8 DEF T, f, JsonSeen

LEMMA JsonEmpty == JsonSeen(<<>>) = JsonStart
<1> DEFINE A == {"n", "newline", "quote", "backslash"}
<1>1. Alphabet(A) /\ <<>> \in Seq(A)
  BY EmptySeq DEF Alphabet
<1> HIDE DEF A
<1> DEFINE T == JsonState(A)
           f == JsonStep(A)
<1>2. Folding(T, A, f, JsonStart)
  BY <1>1, JsonFolds
<1>3. \A s \in Seq(A) : JsonSeen(s) = Run(T, f, JsonStart, s)
  BY <1>1, JsonIsRun
<1>4. Run(T, f, JsonStart, <<>>) = JsonStart
  <2> HIDE DEF T, f
  <2> QED BY <1>2, RunEmpty
<1> QED BY <1>1, <1>3, <1>4

LEMMA JsonAppend ==
    ASSUME NEW A, Alphabet(A), NEW s, s \in Seq(A), NEW c, c \in A
    PROVE  /\ JsonSeen(s) \in JsonState(A)
           /\ JsonSeen(Append(s, c))
                 = JsonRead(JsonSeen(s), c)
<1> DEFINE T == JsonState(A)
           f == JsonStep(A)
           u == Append(s, c)
<1>1. Folding(T, A, f, JsonStart) /\ u \in Seq(A)
  BY JsonFolds
<1>2. Run(T, f, JsonStart, u) = f[<<Run(T, f, JsonStart, s), c>>]
  BY <1>1, RunAppend
<1>3. Run(T, f, JsonStart, s) \in T
  BY <1>1, RunType
<1>4. JsonSeen(u) = Run(T, f, JsonStart, u)
      /\ JsonSeen(s) = Run(T, f, JsonStart, s)
  BY <1>1, JsonIsRun
<1>5. f[<<Run(T, f, JsonStart, s), c>>] = JsonRead(Run(T, f, JsonStart, s), c)
  BY <1>3, JsonStepIs
<1> QED BY <1>2, <1>3, <1>4, <1>5
(* One symbol at a time.                                                   *)
LEMMA JsonEscapeSteps ==
    ASSUME NEW A, Alphabet(A)
    PROVE  /\ JsonEscape(<<>>) = <<>>
           /\ \A s \in Seq(A) : JsonEscape(s) \in Seq(A)
           /\ \A s \in Seq(A) : \A c \in A :
                 JsonEscape(Append(s, c)) = JsonEscape(s) \o Escape(c)
<1> DEFINE m == [c \in A |-> Escape(c)]
<1>1. m \in [A -> Seq(A)] /\ \A c \in A : m[c] = Escape(c)
  <2>1. \A c \in A : Escape(c) \in Seq(A)
    BY DEF Escape, Alphabet
  <2> QED BY <2>1
<1>2. ASSUME NEW s, s \in Seq(A)
      PROVE  JsonEscape(s) = FlattenSeq(Mapped(m, s))
  <2>1. DOMAIN s = 1..Len(s) /\ \A i \in 1..Len(s) : s[i] \in A
    BY <1>2, LenProperties, ElementOfSeq
  <2>2. [i \in DOMAIN s |-> Escape(s[i])] = Mapped(m, s)
    BY <2>1 DEF Mapped
  <2> QED BY <2>2, Zenon DEF JsonEscape
<1> HIDE DEF m
<1>3. ASSUME NEW s, s \in Seq(A), NEW c, c \in A
      PROVE  JsonEscape(Append(s, c)) = JsonEscape(s) \o Escape(c)
  <2> DEFINE u == Append(s, c)
  <2>1. u \in Seq(A)
    BY <1>3
  <2>2. FlattenSeq(Mapped(m, u)) = FlattenSeq(Mapped(m, s)) \o m[c]
    BY <1>1, <1>3, MapAppends
  <2> HIDE DEF u
  <2>3. JsonEscape(u) = JsonEscape(s) \o Escape(c)
    BY <1>1, <1>2, <1>3, <2>1, <2>2
  <2> QED BY <2>3 DEF u
<1>4. ASSUME NEW s, s \in Seq(A)
      PROVE  JsonEscape(s) \in Seq(A)
  BY <1>1, <1>2, <1>4, MapType, FlattenType
<1>5. JsonEscape(<<>>) = <<>>
  BY <1>2, EmptySeq, MapEmpty
<1> QED BY <1>3, <1>4, <1>5

LEMMA PostedSteps ==
    ASSUME NEW A
    PROVE  /\ Posted(<<>>) = <<>>
           /\ \A s \in Seq(A) : Posted(s) \in Seq(A)
           /\ \A s \in Seq(A) : \A c \in A : c # "newline" =>
                 Posted(Append(s, c)) = Append(Posted(s), c)
<1> DEFINE m == [c \in A |-> IF c = "newline" THEN <<>> ELSE <<c>>]
<1>1. m \in [A -> Seq(A)] /\ \A c \in A : c # "newline" => m[c] = <<c>>
  OBVIOUS
<1>2. ASSUME NEW s, s \in Seq(A)
      PROVE  Posted(s) = FlattenSeq(Mapped(m, s))
  <2>1. DOMAIN s = 1..Len(s) /\ \A i \in 1..Len(s) : s[i] \in A
    BY <1>2, LenProperties, ElementOfSeq
  <2>2. [i \in DOMAIN s |-> IF s[i] = "newline" THEN <<>> ELSE <<s[i]>>] = Mapped(m, s)
    BY <2>1 DEF Mapped
  <2> QED BY <2>2, Zenon DEF Posted
<1> HIDE DEF m
<1>3. ASSUME NEW s, s \in Seq(A)
      PROVE  Posted(s) \in Seq(A)
  BY <1>1, <1>2, <1>3, MapType, FlattenType
<1>4. ASSUME NEW s, s \in Seq(A), NEW c, c \in A, c # "newline"
      PROVE  Posted(Append(s, c)) = Append(Posted(s), c)
  <2> DEFINE u == Append(s, c)
  <2>1. u \in Seq(A)
    BY <1>4
  <2>2. FlattenSeq(Mapped(m, u)) = FlattenSeq(Mapped(m, s)) \o m[c]
    BY <1>1, <1>4, MapAppends
  <2> HIDE DEF u
  <2>3. Posted(u) = Posted(s) \o <<c>>
    BY <1>1, <1>2, <1>4, <2>1, <2>2
  <2> QED BY <1>3, <1>4, <2>3, AppendIsConcat DEF u
<1>5. Posted(<<>>) = <<>>
  BY <1>2, EmptySeq, MapEmpty
<1> QED BY <1>3, <1>4, <1>5

(* Escaping leaves nothing that curl would take out.                       *)
EscapesTo(c, y) == y \in {"quote", "backslash", "n"} /\ Unescape(y) = c
                   /\ Escape(c) = <<"backslash", y>>
Plain(c) == c \notin {"quote", "backslash", "newline"} /\ Escape(c) = <<c>>

LEMMA EscapeForms == \A c : Plain(c) \/ \E y \in {"quote", "backslash", "n"} : EscapesTo(c, y)
BY DEF Plain, EscapesTo, Escape, Unescape

(* Whatever text goes through JsonEscape and curl, a JSON parser reads it  *)
(* back, and accepts it if it has no control character.                    *)
LEMMA JsonRoundTrip ==
    ASSUME NEW A, Alphabet(A), NEW s, s \in Seq(A)
    PROVE  /\ JsonText(Posted(JsonEscape(s))).text = s
           /\ JsonText(Posted(JsonEscape(s))).ok <=> "control" \notin Range(s)
<1> DEFINE Sent(u) == Posted(JsonEscape(u))
           S == {u \in Seq(A) : /\ Sent(u) \in Seq(A)
                                /\ JsonSeen(Sent(u)) = [ok |-> "control" \notin Range(u),
                                                    escaped |-> FALSE, text |-> u]}
<1>1. <<>> \in S
  <2>1. Sent(<<>>) = <<>> /\ <<>> \in Seq(A)
    BY JsonEscapeSteps, PostedSteps, EmptySeq
  <2>2. Range(<<>>) = {}
    BY DEF Range
  <2> QED BY <2>1, <2>2, JsonEmpty DEF JsonStart
<1>2. ASSUME NEW u \in Seq(A), NEW c \in A, u \in S
      PROVE  Append(u, c) \in S
  <2> DEFINE e == JsonEscape(u)
             p == Posted(e)
             r == JsonSeen(p)
  <2>1. /\ e \in Seq(A) /\ p \in Seq(A)
        /\ r = [ok |-> "control" \notin Range(u), escaped |-> FALSE, text |-> u]
    BY <1>2, JsonEscapeSteps
  <2>2. Range(Append(u, c)) = Range(u) \cup {c} /\ Append(u, c) \in Seq(A)
    BY RangeAppend
  <2>3. JsonEscape(Append(u, c)) = e \o Escape(c)
    BY JsonEscapeSteps
  <2> HIDE DEF e, p, r
  <2>4. CASE Plain(c)
    <3>1. JsonEscape(Append(u, c)) = Append(e, c)
      BY <2>1, <2>3, <2>4, AppendIsConcat DEF Plain
    <3>2. Sent(Append(u, c)) = Append(p, c)
      BY <2>1, <2>4, <3>1, PostedSteps DEF Plain, p
    <3>3. JsonSeen(Append(p, c)) = JsonRead(r, c)
      BY <2>1, JsonAppend DEF r
    <3>4. JsonRead(r, c) = [ok |-> "control" \notin Range(u) /\ c # "control",
                            escaped |-> FALSE, text |-> Append(u, c)]
      BY <2>1, <2>4 DEF JsonRead, Plain
    <3>5. Append(p, c) \in Seq(A)
      BY <2>1
    <3> QED BY <2>2, <3>2, <3>3, <3>4, <3>5
  <2>5. ASSUME NEW y \in {"quote", "backslash", "n"}, EscapesTo(c, y)
        PROVE  Append(u, c) \in S
    <3> DEFINE b == "backslash"
    <3>0. b \in A /\ y \in A /\ b # "newline" /\ y # "newline"
      BY DEF Alphabet
    <3>1. JsonEscape(Append(u, c)) = Append(Append(e, b), y) /\ Append(e, b) \in Seq(A)
      BY <2>1, <2>3, <2>5, <3>0 DEF EscapesTo
    <3>2. Sent(Append(u, c)) = Append(Append(p, b), y)
      <4>1. Posted(Append(e, b)) = Append(p, b)
        BY <2>1, <3>0, PostedSteps DEF p
      <4> DEFINE eb == Append(e, b)
      <4> HIDE DEF eb, b
      <4>2. Posted(Append(eb, y)) = Append(Posted(eb), y)
        BY <3>0, <3>1, PostedSteps DEF eb
      <4> QED BY <3>1, <4>1, <4>2 DEF eb
    <3>3. Append(p, b) \in Seq(A) /\ Append(Append(p, b), y) \in Seq(A)
      BY <2>1, <3>0
    <3>4. JsonSeen(Append(p, b)) = JsonRead(r, b)
      BY <2>1, <3>0, JsonAppend DEF r
    <3>5. JsonSeen(Append(Append(p, b), y)) = JsonRead(JsonRead(r, b), y)
      <4> DEFINE pb == Append(p, b)
      <4> HIDE DEF pb, b
      <4>1. JsonSeen(Append(pb, y)) = JsonRead(JsonSeen(pb), y)
        <5>1. pb \in Seq(A) /\ y \in A
          BY <3>0, <3>3 DEF pb
        <5> QED BY ONLY Alphabet(A), <5>1, JsonAppend
      <4>2. JsonSeen(pb) = JsonRead(r, b)
        BY <3>4 DEF pb
      <4>3. JsonSeen(Append(pb, y)) = JsonRead(JsonRead(r, b), y)
        BY ONLY <4>1, <4>2
      <4> QED BY ONLY <4>3 DEF pb
    <3>6. JsonRead(r, b) = [ok |-> "control" \notin Range(u), escaped |-> TRUE, text |-> u]
      BY <2>1 DEF JsonRead
    <3>7. JsonRead(JsonRead(r, b), y) = [ok |-> "control" \notin Range(u),
                                         escaped |-> FALSE, text |-> Append(u, c)]
      BY <2>5, <3>6 DEF JsonRead, EscapesTo
    <3>8. c # "control"
      BY <2>5 DEF EscapesTo, Unescape
    <3> QED BY <2>2, <3>2, <3>3, <3>5, <3>7, <3>8
  <2> QED BY <2>4, <2>5, EscapeForms
<1>3. Seq(A) \subseteq S
  <2> HIDE DEF S
  <2> QED BY <1>1, <1>2, SeqInduction
<1>4. JsonSeen(Sent(s)) = [ok |-> "control" \notin Range(s), escaped |-> FALSE, text |-> s]
  BY <1>3
<1>5. JsonText(Sent(s)) = [ok |-> JsonSeen(Sent(s)).ok /\ ~JsonSeen(Sent(s)).escaped,
                           text |-> JsonSeen(Sent(s)).text]
  BY Zenon DEF JsonText, JsonSeen
<1> DEFINE t == Sent(s)
           r == JsonSeen(t)
           P == "control" \notin Range(s)
<1>6. JsonText(t) = [ok |-> r.ok /\ ~r.escaped, text |-> r.text]
      /\ r = [ok |-> P, escaped |-> FALSE, text |-> s] /\ P \in BOOLEAN
  BY <1>4, <1>5, Zenon
<1> HIDE DEF t, r
<1>7. JsonText(t).text = s /\ (JsonText(t).ok <=> P)
  <2> HIDE DEF P
  <2>1. r.ok = P /\ r.escaped = FALSE /\ r.text = s
    BY <1>6
  <2>2. JsonText(t) = [ok |-> P, text |-> s]
    BY <1>6, <2>1
  <2> QED BY <2>2
<1> QED BY <1>7 DEF t
-----------------------------------------------------------------------------
(* Base64.  First the numbers of one group of three bytes.                 *)
Byte == 0..255
Sextet == 0..64

LEMMA By64 ==
    ASSUME NEW n \in Nat
    PROVE  /\ n \div 64 \in Nat /\ n % 64 \in 0..63
           /\ n = (n \div 64) * 64 + (n % 64)
           /\ n \div 4096 = (n \div 64) \div 64
           /\ n \div 262144 = (n \div 4096) \div 64
<1>1. n \div 64 \in Nat /\ n % 64 \in 0..63
  OBVIOUS
<1>2. n = (n \div 64) * 64 + (n % 64)
  OBVIOUS
<1>3. n \div 4096 = (n \div 64) \div 64
  OBVIOUS
<1>4. n \div 262144 = (n \div 4096) \div 64
  OBVIOUS
<1> QED BY ONLY <1>1, <1>2, <1>3, <1>4

LEMMA Sextets ==
    ASSUME NEW t \in Nat, t < 16777216
    PROVE  /\ t \div 262144 \in 0..63 /\ (t \div 4096) % 64 \in 0..63
           /\ (t \div 64) % 64 \in 0..63 /\ t % 64 \in 0..63
           /\ (t \div 262144) * 262144 + ((t \div 4096) % 64) * 4096
                + ((t \div 64) % 64) * 64 + (t % 64) = t
<1> DEFINE u == t \div 64
           v == t \div 4096
           x == t \div 262144
           p == t % 64
           q == u % 64
           r == v % 64
<1>1. u \in Nat /\ p \in 0..63 /\ t = u * 64 + p /\ v = u \div 64 /\ x = v \div 64
  BY ONLY t \in Nat, By64
<1> HIDE DEF u, p
<1>2. u \div 64 \in Nat /\ q \in 0..63 /\ u = (u \div 64) * 64 + q
  BY ONLY <1>1, By64
<1> HIDE DEF v, q
<1>3. v \in Nat /\ u = v * 64 + q
  BY ONLY <1>1, <1>2
<1>4. v \div 64 \in Nat /\ r \in 0..63 /\ v = (v \div 64) * 64 + r
  BY ONLY <1>3, By64
<1> HIDE DEF x, r
<1>5. x \in Nat /\ v = x * 64 + r
  BY ONLY <1>1, <1>4
<1>6. x \in 0..63 /\ x * 262144 + r * 4096 + q * 64 + p = t
  BY ONLY t \in Nat, t < 16777216, <1>1, <1>2, <1>3, <1>4, <1>5
<1> QED BY ONLY <1>1, <1>2, <1>4, <1>6 DEF u, v, x, p, q, r

LEMMA GroupNumbers ==
    ASSUME NEW a \in Byte, NEW b \in Byte, NEW c \in Byte,
           NEW t, t = a * 65536 + b * 256 + c
    PROVE  /\ t \in Nat /\ t < 16777216
           /\ t \div 65536 = a /\ (t \div 256) % 256 = b /\ t % 256 = c
           /\ c = 0 => t % 64 = 0
           /\ b = 0 /\ c = 0 => (t \div 64) % 64 = 0
<1>1. t \in Nat /\ t < 16777216
  BY DEF Byte
<1>2. t \div 65536 = a
  BY DEF Byte
<1>3. t % 256 = c
  BY DEF Byte
<1>4. (t \div 256) % 256 = b
  <2>1. t \div 256 = a * 256 + b
    BY DEF Byte
  <2>2. (a * 256 + b) % 256 = b
    BY DEF Byte
  <2> QED BY ONLY <2>1, <2>2
<1>5. c = 0 => t % 64 = 0
  BY DEF Byte
<1>6. b = 0 /\ c = 0 => (t \div 64) % 64 = 0
  BY DEF Byte
<1> QED BY ONLY <1>1, <1>2, <1>3, <1>4, <1>5, <1>6

(* The same with the operators: six bits and eight bits are the same number. *)
LEMMA SextetsOfBytes ==
    ASSUME NEW a \in Byte, NEW b \in Byte, NEW c \in Byte,
           NEW q, q = ToSextets(FromBytes(a, b, c))
    PROVE  /\ \A j \in 1..4 : q[j] \in 0..63
           /\ ToBytes(FromSextets(q[1], q[2], q[3], q[4])) = <<a, b, c>>
           /\ (c = 0 => q[4] = 0) /\ (b = 0 /\ c = 0 => q[3] = 0)
<1> DEFINE t == a * 65536 + b * 256 + c
           x == t \div 262144
           y == (t \div 4096) % 64
           z == (t \div 64) % 64
           w == t % 64
<1>1. q = <<x, y, z, w>>
  BY DEF ToSextets, FromBytes
<1>2. /\ t \in Nat /\ t < 16777216
      /\ t \div 65536 = a /\ (t \div 256) % 256 = b /\ t % 256 = c
      /\ (c = 0 => w = 0) /\ (b = 0 /\ c = 0 => z = 0)
  BY ONLY a \in Byte, b \in Byte, c \in Byte, GroupNumbers
<1> HIDE DEF t
<1>3. /\ x \in 0..63 /\ y \in 0..63 /\ z \in 0..63 /\ w \in 0..63
      /\ x * 262144 + y * 4096 + z * 64 + w = t
  <2>1. t \in Nat /\ t < 16777216
    BY ONLY <1>2
  <2> QED BY ONLY <2>1, Sextets
<1> HIDE DEF x, y, z, w
<1>4. q[1] = x /\ q[2] = y /\ q[3] = z /\ q[4] = w
  BY ONLY <1>1
<1>5. FromSextets(q[1], q[2], q[3], q[4]) = t
  BY ONLY <1>3, <1>4 DEF FromSextets
<1>6. ToBytes(t) = <<a, b, c>>
  BY ONLY <1>2 DEF ToBytes
<1>7. \A j \in 1..4 : j = 1 \/ j = 2 \/ j = 3 \/ j = 4
  OBVIOUS
<1>8. \A j \in 1..4 : q[j] \in 0..63
  BY ONLY <1>3, <1>4, <1>7
<1> QED BY ONLY <1>2, <1>4, <1>5, <1>6, <1>8

LEMMA Slice ==
    ASSUME NEW A, NEW s, s \in Seq(A), NEW i \in Nat, NEW j \in Nat, i <= j, j <= Len(s)
    PROVE  /\ SubSeq(s, i + 1, j) \in Seq(A) /\ Len(SubSeq(s, i + 1, j)) = j - i
           /\ \A k \in 1..(j - i) : SubSeq(s, i + 1, j)[k] = s[i + k]
<1>1. Len(s) \in Nat /\ \A k \in 1..Len(s) : s[k] \in A
  BY LenProperties, ElementOfSeq
<1>2. i + 1 \in 1..Len(s) + 1 /\ j \in i..Len(s)
  BY <1>1
<1>3. Len(SubSeq(s, i + 1, j)) = j - i
  BY <1>1
<1>4. \A k \in 1..(j - i) : SubSeq(s, i + 1, j)[k] = s[i + k]
  BY <1>1
<1>5. SubSeq(s, i + 1, j) \in Seq(A)
  BY <1>1
<1> QED BY <1>3, <1>4, <1>5

LEMMA Prefix ==
    ASSUME NEW A, NEW s, s \in Seq(A), NEW m \in Nat, m <= Len(s)
    PROVE  /\ SubSeq(s, 1, m) \in Seq(A) /\ Len(SubSeq(s, 1, m)) = m
           /\ \A k \in 1..m : SubSeq(s, 1, m)[k] = s[k]
<1>1. Len(s) \in Nat /\ \A k \in 1..Len(s) : s[k] \in A
  BY LenProperties, ElementOfSeq
<1>2. Len(SubSeq(s, 1, m)) = m
  BY <1>1
<1>3. \A k \in 1..m : SubSeq(s, 1, m)[k] = s[k]
  BY <1>1
<1>4. SubSeq(s, 1, m) \in Seq(A)
  BY <1>1
<1> QED BY <1>2, <1>3, <1>4

(* The bytes of group k of a text of bytes.                                *)
Piece(data, i) == SubSeq(data, i + 1, IF i + 3 <= Len(data) THEN i + 3 ELSE Len(data))
ByteAt(data, j) == IF j <= Len(data) THEN data[j] ELSE 0

LEMMA EncodeGroupIs ==
    ASSUME NEW data, data \in Seq(Byte), NEW i \in Nat, i < Len(data)
    PROVE  LET n == Len(data)
               a == ByteAt(data, i + 1)
               b == ByteAt(data, i + 2)
               c == ByteAt(data, i + 3)
               q == ToSextets(FromBytes(a, b, c))
           IN  /\ a \in Byte /\ b \in Byte /\ c \in Byte
               /\ EncodeGroup(data, i) = <<q[1], q[2], IF i + 2 <= n THEN q[3] ELSE Pad,
                                                       IF i + 3 <= n THEN q[4] ELSE Pad>>
<1>1. Len(data) \in Nat /\ \A j \in 1..Len(data) : data[j] \in Byte
  BY LenProperties, ElementOfSeq
<1>2. \A j \in Nat \ {0} : ByteAt(data, j) \in Byte
  BY ONLY <1>1 DEF ByteAt, Byte
<1>3. i + 1 \in Nat \ {0} /\ i + 2 \in Nat \ {0} /\ i + 3 \in Nat \ {0}
  OBVIOUS
<1> QED BY ONLY <1>2, <1>3 DEF EncodeGroup, ByteAt

LEMMA EncodeGroupType ==
    ASSUME NEW data, data \in Seq(Byte), NEW i \in Nat, i < Len(data)
    PROVE  EncodeGroup(data, i) \in Seq(Sextet) /\ Len(EncodeGroup(data, i)) = 4
<1> DEFINE q == ToSextets(FromBytes(ByteAt(data, i + 1), ByteAt(data, i + 2),
                                    ByteAt(data, i + 3)))
           e == EncodeGroup(data, i)
<1>1. e = <<q[1], q[2], IF i + 2 <= Len(data) THEN q[3] ELSE Pad,
                        IF i + 3 <= Len(data) THEN q[4] ELSE Pad>>
      /\ \A j \in 1..4 : q[j] \in 0..63
  BY EncodeGroupIs, SextetsOfBytes
<1> HIDE DEF q, e
<1>2. q[1] \in Sextet /\ q[2] \in Sextet /\ q[3] \in Sextet /\ q[4] \in Sextet /\ Pad \in Sextet
  BY ONLY <1>1 DEF Sextet, Pad
<1>3. e \in Seq(Sextet) /\ Len(e) = 4
  BY ONLY <1>1, <1>2
<1> QED BY ONLY <1>3 DEF e

LEMMA GroupRoundTrip ==
    ASSUME NEW data, data \in Seq(Byte), NEW i \in Nat, i < Len(data), NEW s, NEW p \in Nat,
           \A j \in 1..4 : s[p + j] = EncodeGroup(data, i)[j]
    PROVE  DecodeGroup(s, p) = Piece(data, i)
<1> DEFINE n == Len(data)
           a == ByteAt(data, i + 1)
           b == ByteAt(data, i + 2)
           c == ByteAt(data, i + 3)
           q == ToSextets(FromBytes(a, b, c))
           v(j) == IF s[j] = Pad THEN 0 ELSE s[j]
           m == IF s[p + 3] = Pad THEN 1 ELSE IF s[p + 4] = Pad THEN 2 ELSE 3
<1>1. n \in Nat /\ (\A j \in 1..n : data[j] \in Byte)
      /\ a \in Byte /\ b \in Byte /\ c \in Byte
  BY LenProperties, ElementOfSeq, EncodeGroupIs
<1>2. EncodeGroup(data, i) = <<q[1], q[2], IF i + 2 <= n THEN q[3] ELSE Pad,
                                           IF i + 3 <= n THEN q[4] ELSE Pad>>
  BY EncodeGroupIs
<1>3. a = data[i + 1] /\ (i + 2 <= n => b = data[i + 2]) /\ (i + 3 <= n => c = data[i + 3])
      /\ (i + 2 > n => b = 0 /\ c = 0) /\ (i + 3 > n => c = 0)
  BY <1>1 DEF ByteAt
<1>4. DecodeGroup(s, p) = SubSeq(ToBytes(FromSextets(v(p + 1), v(p + 2), v(p + 3), v(p + 4))), 1, m)
  BY Zenon DEF DecodeGroup
<1> HIDE DEF a, b, c
<1>5. /\ \A j \in 1..4 : q[j] \in 0..63
      /\ ToBytes(FromSextets(q[1], q[2], q[3], q[4])) = <<a, b, c>>
      /\ (c = 0 => q[4] = 0) /\ (b = 0 /\ c = 0 => q[3] = 0)
  BY <1>1, SextetsOfBytes
<1> HIDE DEF q
<1>6. /\ s[p + 1] = q[1] /\ s[p + 2] = q[2]
      /\ s[p + 3] = IF i + 2 <= n THEN q[3] ELSE Pad
      /\ s[p + 4] = IF i + 3 <= n THEN q[4] ELSE Pad
  BY <1>2
<1>7. q[1] \in 0..63 /\ q[2] \in 0..63 /\ q[3] \in 0..63 /\ q[4] \in 0..63
  BY <1>5
<1>8. (s[p + 3] = Pad <=> i + 2 > n) /\ (s[p + 4] = Pad <=> i + 3 > n)
      /\ s[p + 1] # Pad /\ s[p + 2] # Pad
  <2>1. q[1] # Pad /\ q[2] # Pad /\ q[3] # Pad /\ q[4] # Pad
    BY ONLY <1>7 DEF Pad
  <2>2. n \in Nat /\ (i + 2 <= n <=> ~(i + 2 > n)) /\ (i + 3 <= n <=> ~(i + 3 > n))
    BY ONLY <1>1, i \in Nat
  <2> HIDE DEF n
  <2> QED BY ONLY <1>6, <2>1, <2>2
<1>9. m = IF i + 2 > n THEN 1 ELSE IF i + 3 > n THEN 2 ELSE 3
  BY ONLY <1>8
<1>10. v(p + 1) = q[1] /\ v(p + 2) = q[2] /\ v(p + 3) = q[3] /\ v(p + 4) = q[4]
  <2>1. n \in Nat /\ (i + 2 <= n \/ i + 2 > n) /\ (i + 3 <= n \/ i + 3 > n)
    BY ONLY <1>1, i \in Nat
  <2>2. (i + 2 > n => q[3] = 0) /\ (i + 3 > n => q[4] = 0)
    BY ONLY <1>3, <1>5
  <2> HIDE DEF n
  <2> QED BY ONLY <1>6, <1>8, <2>1, <2>2
<1> HIDE DEF v, m
<1>11. DecodeGroup(s, p) = SubSeq(<<a, b, c>>, 1, m)
  BY ONLY <1>4, <1>5, <1>10
<1>12. SubSeq(<<a, b, c>>, 1, m) = Piece(data, i)
  <2> DEFINE bs == <<a, b, c>>
             e == IF i + 3 <= n THEN i + 3 ELSE n
  <2>1. bs \in Seq(Byte) /\ Len(bs) = 3 /\ bs[1] = a /\ bs[2] = b /\ bs[3] = c
    BY <1>1
  <2> HIDE DEF bs
  <2>2. e \in Nat /\ e <= n /\ e - i = m /\ m \in 1..3
    BY <1>1, <1>9
  <2>3. Piece(data, i) = SubSeq(data, i + 1, e)
    BY DEF Piece
  <2> DEFINE l == SubSeq(bs, 1, m)
             r == SubSeq(data, i + 1, e)
  <2> HIDE DEF e
  <2>4. l \in Seq(Byte) /\ Len(l) = m /\ \A j \in 1..m : l[j] = bs[j]
    <3>1. m \in Nat /\ m <= Len(bs) /\ bs \in Seq(Byte)
      BY <2>1, <2>2
    <3>2. l = SubSeq(bs, 1, m)
      OBVIOUS
    <3> HIDE DEF l
    <3>3. SubSeq(bs, 1, m) \in Seq(Byte) /\ Len(SubSeq(bs, 1, m)) = m
          /\ \A k \in 1..m : SubSeq(bs, 1, m)[k] = bs[k]
      BY ONLY <3>1, Prefix
    <3> QED BY ONLY <3>2, <3>3
  <2>5. r \in Seq(Byte) /\ Len(r) = m /\ \A j \in 1..m : r[j] = data[i + j]
    <3>1. i <= e
      BY <2>2
    <3>2. e \in Nat /\ e <= Len(data) /\ e - i = m
      BY <2>2
    <3>3. /\ SubSeq(data, i + 1, e) \in Seq(Byte) /\ Len(SubSeq(data, i + 1, e)) = e - i
          /\ \A k \in 1..(e - i) : SubSeq(data, i + 1, e)[k] = data[i + k]
      BY ONLY data \in Seq(Byte), i \in Nat, <3>1, <3>2, Slice
    <3> QED BY ONLY <3>2, <3>3
  <2>6. \A j \in 1..m : bs[j] = data[i + j]
    <3>1. \A j \in 1..m : j = 1 \/ (j = 2 /\ m # 1) \/ (j = 3 /\ m = 3)
      BY <2>2
    <3>2. (m # 1 => i + 2 <= n) /\ (m = 3 => i + 3 <= n)
      BY <1>1, <1>9
    <3> QED BY <1>3, <2>1, <3>1, <3>2
  <2> HIDE DEF l, r
  <2>7. l = r
    BY <2>2, <2>4, <2>5, <2>6, SeqEqual
  <2> QED BY <2>3, <2>7 DEF l, r, bs
<1> QED BY <1>11, <1>12
LEMMA ConcatFacts ==
    ASSUME NEW A, NEW l, l \in Seq(A), NEW r, r \in Seq(A)
    PROVE  /\ l \o r \in Seq(A) /\ Len(l \o r) = Len(l) + Len(r)
           /\ \A k \in 1..Len(l) : (l \o r)[k] = l[k]
           /\ \A k \in 1..Len(r) : (l \o r)[Len(l) + k] = r[k]
<1>1. Len(l) \in Nat /\ Len(r) \in Nat
  OBVIOUS
<1>2. l \o r \in Seq(A) /\ Len(l \o r) = Len(l) + Len(r)
  OBVIOUS
<1>3. \A k \in 1..Len(l) : (l \o r)[k] = l[k]
  BY <1>1
<1>4. \A k \in 1..Len(r) : (l \o r)[Len(l) + k] = r[k]
  <2> SUFFICES ASSUME NEW k \in 1..Len(r)
               PROVE  (l \o r)[Len(l) + k] = r[k]
    OBVIOUS
  <2> DEFINE j == Len(l) + k
  <2>1. j \in 1..Len(l) + Len(r) /\ j > Len(l) /\ j - Len(l) = k
    BY <1>1
  <2> HIDE DEF j
  <2>2. (l \o r)[j] = r[j - Len(l)]
    BY <1>1, <2>1
  <2> QED BY <2>1, <2>2 DEF j
<1> QED BY <1>2, <1>3, <1>4

LEMMA SubSeqJoin ==
    ASSUME NEW A, NEW s, s \in Seq(A), NEW i \in Nat, NEW j \in Nat, i <= j, j <= Len(s)
    PROVE  SubSeq(s, 1, i) \o SubSeq(s, i + 1, j) = SubSeq(s, 1, j)
<1> DEFINE l == SubSeq(s, 1, i)
           r == SubSeq(s, i + 1, j)
           w == SubSeq(s, 1, j)
<1>1. l \in Seq(A) /\ Len(l) = i /\ \A k \in 1..i : l[k] = s[k]
  <2>1. i <= Len(s)
    OBVIOUS
  <2> QED BY <2>1, Prefix
<1>2. r \in Seq(A) /\ Len(r) = j - i /\ \A k \in 1..(j - i) : r[k] = s[i + k]
  BY Slice
<1>3. w \in Seq(A) /\ Len(w) = j /\ \A k \in 1..j : w[k] = s[k]
  BY Prefix
<1> HIDE DEF l, r, w
<1> DEFINE z == l \o r
<1>4. /\ z \in Seq(A) /\ Len(z) = Len(l) + Len(r)
      /\ \A k \in 1..Len(l) : z[k] = l[k]
      /\ \A k \in 1..Len(r) : z[Len(l) + k] = r[k]
  <2>1. l \in Seq(A) /\ r \in Seq(A)
    BY <1>1, <1>2
  <2> QED BY ONLY <2>1, ConcatFacts
<1> HIDE DEF z
<1>7. Len(z) = j
  BY <1>1, <1>2, <1>4
<1>5. \A k \in 1..j : z[k] = s[k]
  <2> SUFFICES ASSUME NEW k \in 1..j
               PROVE  z[k] = s[k]
    OBVIOUS
  <2>1. CASE k <= i
    BY <1>1, <1>4, <2>1
  <2>2. CASE k > i
    <3> DEFINE m == k - i
    <3>1. m \in 1..(j - i) /\ i + m = k
      BY <2>2
    <3> HIDE DEF m
    <3>2. z[i + m] = r[m] /\ r[m] = s[i + m]
      BY <1>1, <1>2, <1>4, <3>1
    <3> QED BY <3>1, <3>2
  <2> QED BY <2>1, <2>2
<1>6. z = w
  BY <1>3, <1>4, <1>5, <1>7, SeqEqual
<1> QED BY <1>6 DEF z, l, r, w

(* Groups of four put one after another are found at every fourth place.   *)
Quads(B) == {t \in Seq(B) : Len(t) = 4}

LEMMA FlattenQuads ==
    ASSUME NEW B, NEW ss, ss \in Seq(Quads(B))
    PROVE  /\ FlattenSeq(ss) \in Seq(B) /\ Len(FlattenSeq(ss)) = 4 * Len(ss)
           /\ \A k \in 1..Len(ss) : \A j \in 1..4 :
                 FlattenSeq(ss)[4 * (k - 1) + j] = ss[k][j]
<1> DEFINE T == Quads(B)
           Good(u) == /\ FlattenSeq(u) \in Seq(B) /\ Len(FlattenSeq(u)) = 4 * Len(u)
                      /\ \A k \in 1..Len(u) : \A j \in 1..4 :
                            FlattenSeq(u)[4 * (k - 1) + j] = u[k][j]
           S == {u \in Seq(T) : Good(u)}
<1>1. \A u \in Seq(T) : u \in Seq(Seq(B))
  <2> DEFINE V == Seq(B)
  <2>1. T \subseteq V
    BY DEF Quads
  <2> HIDE DEF T, V
  <2>2. \A u \in Seq(T) : u \in Seq(V)
    BY <2>1
  <2> QED BY <2>2 DEF V
<1>2. \A t \in T : t \in Seq(B) /\ Len(t) = 4
  BY DEF Quads
<1> HIDE DEF T
<1>3. <<>> \in S
  <2>1. <<>> \in Seq(T) /\ Len(<<>>) = 0 /\ <<>> \in Seq(B)
    OBVIOUS
  <2> DEFINE o == <<>>
  <2>2. FlattenSeq(o) = o /\ o \in Seq(T) /\ Len(o) = 0 /\ o \in Seq(B) /\ 1..Len(o) = {}
    BY <2>1, FlattenEmpty
  <2> HIDE DEF o
  <2>3. Good(o)
    BY <2>2
  <2> QED BY <2>2, <2>3 DEF o
<1>4. ASSUME NEW u \in Seq(T), NEW t \in T, u \in S
      PROVE  Append(u, t) \in S
  <2> DEFINE w == Append(u, t)
             f == FlattenSeq(u)
             g == FlattenSeq(w)
             n == Len(u)
  <2>1. n \in Nat /\ w \in Seq(T) /\ Len(w) = n + 1 /\ w[n + 1] = t
        /\ \A k \in 1..n : w[k] = u[k]
    OBVIOUS
  <2>2. g = f \o t
    <3>1. u \in Seq(Seq(B)) /\ t \in Seq(B)
      BY <1>1, <1>2
    <3> QED BY ONLY <3>1, FlattenAppend
  <2>3. f \in Seq(B) /\ Len(f) = 4 * n /\ t \in Seq(B) /\ Len(t) = 4
        /\ \A k \in 1..n : \A j \in 1..4 : f[4 * (k - 1) + j] = u[k][j]
    BY <1>2, <1>4
  <2> HIDE DEF w, f, g, n
  <2>4. g \in Seq(B) /\ Len(g) = 4 * (n + 1)
        /\ (\A i \in 1..4 * n : g[i] = f[i]) /\ (\A j \in 1..4 : g[4 * n + j] = t[j])
    <3>1. /\ g \in Seq(B) /\ Len(g) = Len(f) + Len(t)
          /\ \A k \in 1..Len(f) : g[k] = f[k]
          /\ \A k \in 1..Len(t) : g[Len(f) + k] = t[k]
      <4>1. f \in Seq(B) /\ t \in Seq(B)
        BY <2>3
      <4> DEFINE h == f \o t
      <4>2. /\ h \in Seq(B) /\ Len(h) = Len(f) + Len(t)
            /\ \A k \in 1..Len(f) : h[k] = f[k]
            /\ \A k \in 1..Len(t) : h[Len(f) + k] = t[k]
        BY ONLY <4>1, ConcatFacts
      <4> QED BY ONLY <2>2, <4>2
    <3> QED BY <2>1, <2>3, <3>1
  <2>5. ASSUME NEW k \in 1..n + 1, NEW j \in 1..4
        PROVE  g[4 * (k - 1) + j] = w[k][j]
    <3>1. CASE k = n + 1
      <4>1. 4 * (k - 1) + j = 4 * n + j
        BY <2>1, <3>1
      <4> QED BY <2>1, <2>4, <3>1, <4>1
    <3>2. CASE k # n + 1
      <4> DEFINE i == 4 * (k - 1) + j
      <4>1. k \in 1..n /\ i \in 1..4 * n
        BY <2>1, <3>2
      <4>2. f[i] = u[k][j]
        BY <2>3, <4>1
      <4> HIDE DEF i
      <4>3. g[i] = f[i] /\ w[k] = u[k]
        BY <2>1, <2>4, <4>1
      <4> QED BY <4>2, <4>3 DEF i
    <3> QED BY <3>1, <3>2
  <2> QED BY <2>1, <2>4, <2>5 DEF w, g
<1>5. Seq(T) \subseteq S
  <2> HIDE DEF S
  <2> QED BY <1>3, <1>4, SeqInduction
<1> QED BY <1>5 DEF T

(* The pieces put one after another are the whole.                         *)
LEMMA PiecesJoin ==
    ASSUME NEW data, data \in Seq(Byte), NEW g \in Nat, 3 * g <= Len(data) + 2,
           Len(data) <= 3 * g
    PROVE  FlattenSeq([k \in 1..g |-> Piece(data, 3 * (k - 1))]) = data
<1> DEFINE n == Len(data)
           cut(j) == IF 3 * j <= n THEN 3 * j ELSE n
           ps(j) == [k \in 1..j |-> Piece(data, 3 * (k - 1))]
           S == {j \in Nat : j <= g => FlattenSeq(ps(j)) = SubSeq(data, 1, cut(j))}
           T == Seq(Byte)
<1>1. n \in Nat
  OBVIOUS
<1>2. \A k \in 1..g : 3 * (k - 1) \in Nat /\ 3 * (k - 1) < n
  BY <1>1
<1>3. ASSUME NEW i \in Nat, i < n
      PROVE  Piece(data, i) \in T
  <2> DEFINE e == IF i + 3 <= n THEN i + 3 ELSE n
  <2>1. e \in Nat /\ i <= e /\ e <= n
    BY <1>1, <1>3
  <2>2. Piece(data, i) = SubSeq(data, i + 1, e)
    BY DEF Piece
  <2> HIDE DEF e
  <2> QED BY <2>1, <2>2, Slice
<1>4. ASSUME NEW j \in Nat, j <= g
      PROVE  ps(j) \in Seq(T)
  <2>1. \A k \in 1..j : Piece(data, 3 * (k - 1)) \in T
    BY <1>2, <1>3, <1>4
  <2> HIDE DEF T
  <2> QED BY <2>1
<1>5. 0 \in S
  <2>1. ps(0) = <<>>
    OBVIOUS
  <2>2. cut(0) = 0
    BY <1>1
  <2>3. SubSeq(data, 1, 0) = <<>>
    BY SubSeqEmpty
  <2> QED BY <2>1, <2>2, <2>3, FlattenEmpty
<1>6. ASSUME NEW j \in Nat, j \in S
      PROVE  j + 1 \in S
  <2> SUFFICES ASSUME j + 1 <= g
               PROVE  FlattenSeq(ps(j + 1)) = SubSeq(data, 1, cut(j + 1))
    OBVIOUS
  <2> DEFINE p == Piece(data, 3 * j)
             c == cut(j + 1)
  <2>1. 3 * j \in Nat /\ 3 * j < n /\ 3 * j + 3 = 3 * (j + 1) /\ j <= g /\ cut(j) = 3 * j
        /\ 3 * ((j + 1) - 1) = 3 * j
    BY <1>1
  <2>2. p \in T /\ p = SubSeq(data, 3 * j + 1, c) /\ 3 * j <= c /\ c <= n /\ c \in Nat
    <3>1. c = IF 3 * j + 3 <= n THEN 3 * j + 3 ELSE n
      BY <2>1
    <3>2. 3 * j <= c /\ c <= n /\ c \in Nat
      BY <1>1, <2>1, <3>1
    <3> HIDE DEF c
    <3>3. p \in T
      BY <1>3, <2>1
    <3>4. p = SubSeq(data, 3 * j + 1, c)
      BY ONLY <3>1 DEF Piece
    <3> QED BY <3>2, <3>3, <3>4
  <2>3. ps(j) \in Seq(T) /\ ps(j + 1) \in Seq(T)
    BY <1>4, <2>1
  <2>4. ps(j + 1) = Append(ps(j), p)
    <3> DEFINE a == ps(j)
               b == ps(j + 1)
               d == Append(a, p)
    <3>1. Len(a) = j /\ Len(b) = j + 1 /\ b[j + 1] = p
          /\ \A k \in 1..j : b[k] = a[k]
      BY <2>1
    <3>5. a \in Seq(T) /\ p \in T
      BY <2>2, <2>3
    <3> HIDE DEF a, b, T, p
    <3>2. d \in Seq(T) /\ Len(d) = j + 1 /\ d[j + 1] = p /\ \A k \in 1..j : d[k] = a[k]
      BY ONLY <3>1, <3>5, j \in Nat
    <3>3. \A k \in 1..j + 1 : k = j + 1 \/ k \in 1..j
      OBVIOUS
    <3> HIDE DEF d
    <3>4. b = d
      <4>1. b \in Seq(T)
        BY <2>3 DEF b
      <4> QED BY <3>1, <3>2, <3>3, <4>1, SeqEqual
    <3> QED BY <3>4 DEF a, b, d
  <2>5. FlattenSeq(ps(j + 1)) = FlattenSeq(ps(j)) \o p
    <3> DEFINE a == ps(j)
    <3>1. a \in Seq(Seq(Byte)) /\ p \in Seq(Byte)
      BY <2>2, <2>3
    <3> HIDE DEF a, p
    <3>2. FlattenSeq(Append(a, p)) = FlattenSeq(a) \o p
      BY ONLY <3>1, FlattenAppend
    <3> QED BY <2>4, <3>2 DEF a
  <2>6. FlattenSeq(ps(j)) = SubSeq(data, 1, 3 * j)
    BY <1>6, <2>1
  <2> DEFINE i == 3 * j
  <2>7. SubSeq(data, 1, i) \o SubSeq(data, i + 1, c) = SubSeq(data, 1, c)
    <3>1. i \in Nat /\ c \in Nat /\ i <= c /\ c <= Len(data)
      BY <2>1, <2>2
    <3> HIDE DEF i, c
    <3> QED BY <3>1, SubSeqJoin
  <2> QED BY <2>2, <2>5, <2>6, <2>7
<1>7. g \in S
  <2> HIDE DEF S
  <2>1. Nat \subseteq S
    BY <1>5, <1>6, SetInduction
  <2> QED BY <2>1
<1>8. cut(g) = n
  BY <1>1
<1>9. SubSeq(data, 1, n) = data
  BY SubSeqFull
<1>10. FlattenSeq(ps(g)) = SubSeq(data, 1, cut(g))
  BY <1>7
<1> QED BY <1>8, <1>9, <1>10

(* An image survives base64.                                               *)
LEMMA Base64RoundTrip ==
    ASSUME NEW data, data \in Seq(Byte)
    PROVE  Base64Decode(Base64Encode(data)) = data
<1> DEFINE n == Len(data)
           g == (n + 2) \div 3
           enc == [k \in 1..g |-> EncodeGroup(data, 3 * (k - 1))]
           e == FlattenSeq(enc)
           Q == Quads(Sextet)
<1>1. n \in Nat
  OBVIOUS
<1>2. g \in Nat /\ 3 * g <= n + 2 /\ n <= 3 * g
  BY <1>1
<1>3. Base64Encode(data) = e
  BY DEF Base64Encode
<1> HIDE DEF g
<1>4. \A k \in 1..g : 3 * (k - 1) \in Nat /\ 3 * (k - 1) < n
  BY <1>1, <1>2
<1>5. enc \in Seq(Q) /\ Len(enc) = g
  <2>1. \A k \in 1..g : EncodeGroup(data, 3 * (k - 1)) \in Q
    BY <1>4, EncodeGroupType DEF Quads
  <2> HIDE DEF Q
  <2> QED BY <1>2, <2>1
<1>6. Len(e) = 4 * g /\ \A k \in 1..g : \A j \in 1..4 :
                           e[4 * (k - 1) + j] = EncodeGroup(data, 3 * (k - 1))[j]
  <2>1. \A k \in 1..g : enc[k] = EncodeGroup(data, 3 * (k - 1))
    OBVIOUS
  <2> HIDE DEF enc
  <2>2. /\ Len(FlattenSeq(enc)) = 4 * Len(enc)
        /\ \A k \in 1..Len(enc) : \A j \in 1..4 :
              FlattenSeq(enc)[4 * (k - 1) + j] = enc[k][j]
    BY ONLY <1>5, FlattenQuads
  <2> QED BY <1>5, <2>1, <2>2
<1> HIDE DEF e
<1>7. Len(e) \div 4 = g
  BY <1>2, <1>6
<1>8. ASSUME NEW k \in 1..g
      PROVE  DecodeGroup(e, 4 * (k - 1)) = Piece(data, 3 * (k - 1))
  <2> DEFINE i == 3 * (k - 1)
             p == 4 * (k - 1)
  <2>1. i \in Nat /\ i < Len(data) /\ p \in Nat /\ \A j \in 1..4 : e[p + j] = EncodeGroup(data, i)[j]
    BY <1>4, <1>6
  <2> HIDE DEF i, p
  <2>2. DecodeGroup(e, p) = Piece(data, i)
    BY <2>1, GroupRoundTrip
  <2> QED BY <2>2 DEF i, p
<1>9. [k \in 1..g |-> DecodeGroup(e, 4 * (k - 1))] = [k \in 1..g |-> Piece(data, 3 * (k - 1))]
  BY <1>8
<1>10. Base64Decode(e) = FlattenSeq([k \in 1..g |-> DecodeGroup(e, 4 * (k - 1))])
  BY <1>7, Zenon DEF Base64Decode
<1>11. FlattenSeq([k \in 1..g |-> Piece(data, 3 * (k - 1))]) = data
  BY <1>2, PiecesJoin
<1> QED BY <1>3, <1>9, <1>10, <1>11
-----------------------------------------------------------------------------
(* The end of a call: where the payload file exists, and that nothing is   *)
(* told before the end.                                                    *)
Untold == told = <<>> /\ result = NoResult

Told == /\ file = "none" /\ returned \in BOOLEAN
        /\ IF op = "GenerateAsync"
           THEN result = NoResult /\ \E r : told = <<[ok |-> returned, result |-> r]>>
           ELSE told = <<>> /\ (returned = FALSE => result = NoResult)

Clean == /\ pc \in {"start", "image", "mkstemp"} => file = "none"
         /\ pc # "done" => Untold
         /\ pc = "done" => Told

(* The end of a call that has removed its file.                            *)
LEMMA ReturnTells ==
    ASSUME Untold, NEW ok \in BOOLEAN, NEW value, Return(ok, value),
           ok = FALSE => value = NoResult, file' = "none", op' = op
    PROVE  Clean'
<1>1. pc' = "done" /\ returned' = ok
  BY DEF Return
<1>2. CASE op = "GenerateAsync"
  <2>1. result' = NoResult /\ told' = <<[ok |-> ok, result |-> value]>>
    BY <1>2 DEF Return, Untold
  <2> QED BY <1>1, <1>2, <2>1 DEF Clean, Told
<1>3. CASE op # "GenerateAsync"
  <2>1. result' = value /\ told' = <<>>
    BY <1>3 DEF Return, Untold
  <2> QED BY <1>1, <1>3, <2>1 DEF Clean, Told
<1> QED BY <1>2, <1>3

(* Every step keeps the invariant.                                         *)
LEMMA CleanStep == Clean /\ [Next]_vars => Clean'
<1> SUFFICES ASSUME Clean, Next
             PROVE  Clean'
  BY DEF vars, scenario, Clean, Told, Untold
<1>1. CASE StartServer \/ TakeImage
  BY <1>1 DEF StartServer, TakeImage, Clean, Untold
<1>2. CASE StartServerFails
  BY <1>2, ReturnTells DEF StartServerFails, Clean, scenario
<1>3. CASE ImageUnreadable
  BY <1>3, ReturnTells DEF ImageUnreadable, Clean, scenario
<1>4. CASE MkstempFails
  BY <1>4, ReturnTells DEF MkstempFails, Clean, scenario
<1>5. CASE PopenFails
  BY <1>5, ReturnTells DEF PopenFails, Clean, scenario
<1>6. CASE RequestFails
  BY <1>6, ReturnTells DEF RequestFails, Clean, scenario
<1>7. CASE Finish
  BY <1>7, ReturnTells DEF Finish, Clean, scenario
<1>8. CASE Mkstemp \/ WritePayload \/ Popen
  BY <1>8 DEF Mkstemp, WritePayload, Popen, Clean, Untold
<1>9. CASE Serve \/ Refuse
  BY <1>9 DEF Serve, Refuse, Clean, Untold
<1> QED BY <1>1, <1>2, <1>3, <1>4, <1>5, <1>6, <1>7, <1>8, <1>9 DEF Next

(* However a call ends, no payload file is left, a failed call has not     *)
(* touched the caller's result, and GenerateAsync has called its callback  *)
(* exactly once, with the value that it returned.                          *)
THEOREM CallsAreClean == Spec => []CallIsClean
<1>1. Init => Clean
  BY DEF Init, Clean, Untold
<1>2. Clean => CallIsClean
  <2> SUFFICES ASSUME Clean, pc = "done"
               PROVE  /\ file = "none"
                      /\ (returned = FALSE => result = NoResult)
                      /\ Len(told) = IF op = "GenerateAsync" THEN 1 ELSE 0
                      /\ \A k \in DOMAIN told : told[k].ok = returned
    BY DEF CallIsClean
  <2>1. CASE op = "GenerateAsync"
    <3>1. PICK r : told = <<[ok |-> returned, result |-> r]>>
      BY <2>1 DEF Clean, Told
    <3>2. Len(told) = 1 /\ \A k \in DOMAIN told : told[k].ok = returned
      BY <3>1
    <3> QED BY <2>1, <3>2 DEF Clean, Told
  <2>2. CASE op # "GenerateAsync"
    BY <2>2 DEF Clean, Told
  <2> QED BY <2>1, <2>2
<1> QED BY <1>1, <1>2, CleanStep, PTL DEF Spec
LEMMA MinIn ==
    ASSUME NEW S, S \subseteq Nat, S # {}
    PROVE  Min(S) \in S /\ \A y \in S : Min(S) <= y
<1>1. PICK m \in S : \A y \in S : m <= y
  <2> SUFFICES ASSUME \A m \in S : \E y \in S : y < m
               PROVE  FALSE
    OBVIOUS
  <2> DEFINE T == {n \in Nat : \A y \in S : y >= n}
  <2>1. 0 \in T
    OBVIOUS
  <2>2. ASSUME NEW n \in Nat, n \in T
        PROVE  n + 1 \in T
    <3>1. n \notin S
      BY <2>2
    <3> QED BY <2>2, <3>1
  <2>3. Nat \subseteq T
    <3> HIDE DEF T
    <3> QED BY <2>1, <2>2, SetInduction
  <2>4. PICK y \in S : TRUE
    OBVIOUS
  <2>5. y + 1 \in T
    BY <2>3, <2>4
  <2> QED BY <2>4, <2>5
<1>2. Min(S) = m
  BY <1>1, MinIs
<1> QED BY <1>1, <1>2
-----------------------------------------------------------------------------
(* What a call sends, and what the server makes of it.                     *)
Prepared == ExtractImageBase64(chat)
Payload == BuildChatCompletionPayload(config, chat, Prepared.image_b64, FALSE)

(* The JSON text of a string, as the server reads it.                      *)
LEMMA StringIsRead ==
    ASSUME NEW s, IsString(s)
    PROVE  /\ JsonText(Posted(JsonEscape(s))).text = s
           /\ JsonText(Posted(JsonEscape(s))).ok <=> Legible(s)
<1> DEFINE A == Range(s) \cup {"n", "newline", "quote", "backslash"}
<1>1. s \in Seq(A) /\ Alphabet(A)
  <2>1. Range(s) \subseteq A
    OBVIOUS
  <2>2. s \in Seq(Range(s))
    BY DEF IsString
  <2>3. Alphabet(A)
    BY DEF Alphabet
  <2> HIDE DEF A
  <2> QED BY <2>1, <2>2, <2>3
<1> HIDE DEF A
<1> QED BY <1>1, JsonRoundTrip DEF Legible

LEMMA NothingIsNothing == Base64Decode(<<>>) = <<>>
<1>1. Len(<<>>) \div 4 = 0
  OBVIOUS
<1>2. [k \in 1..0 |-> DecodeGroup(<<>>, 4 * (k - 1))] = <<>>
  OBVIOUS
<1> QED BY <1>1, <1>2, FlattenEmpty DEF Base64Decode

LEMMA ChatIs ==
    ASSUME given \in Given
    PROVE  /\ DOMAIN chat = 1..Len(chat) /\ Len(chat) \in Nat
           /\ \A i \in DOMAIN chat : IsString(chat[i].content) /\ IsData(chat[i].image_bytes)
           /\ DOMAIN config.stop_sequences = 1..Len(config.stop_sequences)
           /\ \A i \in DOMAIN config.stop_sequences : IsString(config.stop_sequences[i])
<1>1. /\ chat \in Seq(Range(chat)) /\ config.stop_sequences \in Seq(Range(config.stop_sequences))
      /\ \A m \in Range(chat) : IsString(m.content) /\ IsData(m.image_bytes)
      /\ \A s \in Range(config.stop_sequences) : IsString(s)
  BY GivenAssumption DEF chat, config, IsString
<1>2. (\A i \in DOMAIN chat : chat[i] \in Range(chat))
      /\ \A i \in DOMAIN config.stop_sequences :
            config.stop_sequences[i] \in Range(config.stop_sequences)
  BY DEF Range
<1>3. DOMAIN chat = 1..Len(chat) /\ Len(chat) \in Nat
  BY <1>1, LenProperties
<1>4. DOMAIN config.stop_sequences = 1..Len(config.stop_sequences)
  BY <1>1, LenProperties
<1> QED BY <1>1, <1>2, <1>3, <1>4

WithImage == {i \in DOMAIN chat : HasImage(chat[i])}

LEMMA ImageIsData ==
    ASSUME given \in Given
    PROVE  /\ WithImage = {} => Prepared = [ok |-> TRUE, image_b64 |-> <<>>]
           /\ WithImage # {} =>
                 LET data == ImageOf(chat[Min(WithImage)])
                 IN  /\ data \in Seq(Byte)
                     /\ Prepared = [ok |-> data # <<>>, image_b64 |-> Base64Encode(data)]
<1> DEFINE data == ImageOf(chat[Min(WithImage)])
<1>1. Prepared = IF WithImage = {} THEN [ok |-> TRUE, image_b64 |-> <<>>]
                 ELSE [ok |-> data # <<>>, image_b64 |-> Base64Encode(data)]
  BY Zenon DEF Prepared, ExtractImageBase64, WithImage
<1>2. ASSUME WithImage # {}
      PROVE  data \in Seq(Byte)
  <2>1. WithImage \subseteq Nat
    BY ChatIs DEF WithImage
  <2>2. Min(WithImage) \in DOMAIN chat
    BY <1>2, <2>1, MinIn DEF WithImage
  <2> DEFINE m == chat[Min(WithImage)]
  <2>3. IsData(m.image_bytes)
    BY <2>2, ChatIs
  <2> HIDE DEF m
  <2>4. ImageOf(m) \in Seq(Byte)
    <3>1. \A path \in DOMAIN Disk : Disk[path] \in Seq(Byte)
      BY DiskAssumption DEF IsData, Byte
    <3>2. <<>> \in Seq(Byte) /\ m.image_bytes \in Seq(Byte)
      BY <2>3 DEF IsData, Byte
    <3> QED BY <3>1, <3>2 DEF ImageOf, ReadBinaryFile
  <2> QED BY <2>4 DEF m
<1> HIDE DEF data
<1> QED BY <1>1, <1>2 DEF data

LEMMA PayloadFields ==
    /\ Payload.messages = [i \in DOMAIN chat |->
            Message(chat[i], IF i = Len(chat) /\ chat[i].role = "user"
                             THEN Prepared.image_b64 ELSE <<>>)]
    /\ Payload.stop = [i \in DOMAIN config.stop_sequences |->
                            JsonEscape(config.stop_sequences[i])]
    /\ Payload.max_tokens = config.max_tokens
    /\ Payload.enable_thinking = config.enable_thinking
    /\ Payload.vision_history = config.history_policy
BY DEF Payload, BuildChatCompletionPayload

LEMMA UnderstoodFields ==
    /\ Understood(Payload).messages = [i \in DOMAIN chat |->
          [role |-> chat[i].role, text |-> JsonText(Posted(JsonEscape(chat[i].content))).text,
           image |-> Base64Decode(IF i = Len(chat) /\ chat[i].role = "user"
                                  THEN Prepared.image_b64 ELSE <<>>)]]
    /\ Understood(Payload).stop = [i \in DOMAIN config.stop_sequences |->
          JsonText(Posted(JsonEscape(config.stop_sequences[i]))).text]
    /\ Understood(Payload).max_tokens = config.max_tokens
    /\ Understood(Payload).enable_thinking = config.enable_thinking
    /\ Understood(Payload).vision_history = config.history_policy
<1> DEFINE p == Payload
           ms == p.messages
           read(i) == [role |-> ms[i].role, text |-> JsonText(Posted(ms[i].text)).text,
                       image |-> Base64Decode(ms[i].image_url)]
           stops == [i \in DOMAIN p.stop |-> JsonText(Posted(p.stop[i])).text]
           u == Understood(p)
           rs == [i \in DOMAIN ms |-> read(i)]
           b64(i) == IF i = Len(chat) /\ chat[i].role = "user"
                     THEN Prepared.image_b64 ELSE <<>>
<1>1. u = [p EXCEPT !.messages = rs, !.stop = stops]
  BY Zenon DEF Understood
<1>2. {"messages", "stop", "max_tokens", "enable_thinking", "vision_history"} \subseteq DOMAIN p
  BY DEF Payload, BuildChatCompletionPayload
<1>3. DOMAIN ms = DOMAIN chat /\ \A i \in DOMAIN chat :
         ms[i] = [role |-> chat[i].role, text |-> JsonEscape(chat[i].content),
                  image_url |-> b64(i)]
  BY PayloadFields DEF Message
<1>4. DOMAIN p.stop = DOMAIN config.stop_sequences
      /\ \A i \in DOMAIN p.stop : p.stop[i] = JsonEscape(config.stop_sequences[i])
  BY PayloadFields
<1> HIDE DEF p
<1> HIDE DEF rs, stops, u, b64
<1>5. /\ u.messages = rs /\ u.stop = stops /\ u.max_tokens = p.max_tokens
      /\ u.enable_thinking = p.enable_thinking /\ u.vision_history = p.vision_history
  BY <1>1, <1>2
<1>6. rs = [i \in DOMAIN chat |->
          [role |-> chat[i].role, text |-> JsonText(Posted(JsonEscape(chat[i].content))).text,
           image |-> Base64Decode(b64(i))]]
  <2>1. ASSUME NEW i \in DOMAIN chat
        PROVE  read(i) = [role |-> chat[i].role,
                          text |-> JsonText(Posted(JsonEscape(chat[i].content))).text,
                          image |-> Base64Decode(b64(i))]
    <3> DEFINE m == ms[i]
    <3>1. m = [role |-> chat[i].role, text |-> JsonEscape(chat[i].content),
               image_url |-> b64(i)]
      BY <1>3
    <3>2. read(i) = [role |-> m.role, text |-> JsonText(Posted(m.text)).text,
                     image |-> Base64Decode(m.image_url)]
      OBVIOUS
    <3> HIDE DEF m, read
    <3>3. m.role = chat[i].role /\ m.text = JsonEscape(chat[i].content)
          /\ m.image_url = b64(i)
      BY ONLY <3>1
    <3> QED BY ONLY <3>2, <3>3
  <2> HIDE DEF read
  <2> QED BY <1>3, <2>1 DEF rs
<1>7. stops = [i \in DOMAIN config.stop_sequences |->
                  JsonText(Posted(JsonEscape(config.stop_sequences[i]))).text]
  BY <1>4 DEF stops
<1> QED BY <1>5, <1>6, <1>7, PayloadFields DEF p, u, b64

(* The payload of a call, understood, is what the caller asked.            *)
Seen(seen) ==
    LET with == {i \in DOMAIN chat : HasImage(chat[i])}
        last == Len(chat)
    IN  /\ Len(seen.messages) = last
        /\ \A i \in DOMAIN chat :
              /\ seen.messages[i].role = chat[i].role
              /\ seen.messages[i].text = chat[i].content
              /\ seen.messages[i].image =
                    IF i = last /\ chat[i].role = "user" /\ with # {}
                    THEN ImageOf(chat[Min(with)]) ELSE <<>>
        /\ seen.stop = config.stop_sequences
        /\ seen.max_tokens = config.max_tokens
        /\ seen.enable_thinking = config.enable_thinking
        /\ seen.vision_history = config.history_policy

LEMMA PayloadIsSeen ==
    ASSUME given \in Given
    PROVE  Seen(Understood(Payload))
<1> DEFINE u == Understood(Payload)
           data == ImageOf(chat[Min(WithImage)])
           b64(i) == IF i = Len(chat) /\ chat[i].role = "user"
                     THEN Prepared.image_b64 ELSE <<>>
<1>1. DOMAIN chat = 1..Len(chat) /\ Len(chat) \in Nat
      /\ \A i \in DOMAIN chat : IsString(chat[i].content)
  BY ChatIs
<1>2. u.messages = [i \in DOMAIN chat |->
          [role |-> chat[i].role, text |-> JsonText(Posted(JsonEscape(chat[i].content))).text,
           image |-> Base64Decode(b64(i))]]
  BY UnderstoodFields
<1>3. Base64Decode(Prepared.image_b64) = IF WithImage # {} THEN data ELSE <<>>
  <2>1. CASE WithImage = {}
    BY <2>1, ImageIsData, NothingIsNothing
  <2>2. CASE WithImage # {}
    <3>1. data \in Seq(Byte) /\ Prepared = [ok |-> data # <<>>, image_b64 |-> Base64Encode(data)]
      BY <2>2, ImageIsData
    <3> HIDE DEF data
    <3> QED BY <2>2, <3>1, Base64RoundTrip
  <2> QED BY <2>1, <2>2
<1>4. Len(u.messages) = Len(chat)
  <2> DEFINE ms == u.messages
  <2>1. DOMAIN ms = 1..Len(chat)
    BY <1>1, <1>2
  <2> HIDE DEF ms
  <2> QED BY <1>1, <2>1 DEF ms
<1>5. ASSUME NEW i \in DOMAIN chat
      PROVE  /\ u.messages[i].role = chat[i].role
             /\ u.messages[i].text = chat[i].content
             /\ u.messages[i].image =
                   IF i = Len(chat) /\ chat[i].role = "user" /\ WithImage # {}
                   THEN data ELSE <<>>
  <2>1. u.messages[i] = [role |-> chat[i].role,
                         text |-> JsonText(Posted(JsonEscape(chat[i].content))).text,
                         image |-> Base64Decode(b64(i))]
    BY <1>2
  <2>2. JsonText(Posted(JsonEscape(chat[i].content))).text = chat[i].content
    BY <1>1, StringIsRead
  <2>3. Base64Decode(b64(i)) = IF i = Len(chat) /\ chat[i].role = "user" /\ WithImage # {}
                               THEN data ELSE <<>>
    BY <1>3, NothingIsNothing
  <2> HIDE DEF u, data, b64
  <2> QED BY <2>1, <2>2, <2>3
<1>6. u.stop = config.stop_sequences
  <2>1. \A i \in DOMAIN config.stop_sequences :
           JsonText(Posted(JsonEscape(config.stop_sequences[i]))).text = config.stop_sequences[i]
    BY ChatIs, StringIsRead
  <2>2. u.stop = [i \in DOMAIN config.stop_sequences |-> config.stop_sequences[i]]
    BY <2>1, UnderstoodFields
  <2>3. config.stop_sequences \in Seq(Range(config.stop_sequences))
    BY GivenAssumption DEF config, IsString
  <2> QED BY <2>2, <2>3
<1>7. /\ u.max_tokens = config.max_tokens /\ u.enable_thinking = config.enable_thinking
      /\ u.vision_history = config.history_policy
  BY UnderstoodFields
<1> HIDE DEF u
<1> QED BY <1>4, <1>5, <1>6, <1>7 DEF Seen, WithImage, u

(* The server accepts the payload of a call exactly when it is sendable.   *)
LEMMA ParsesIffSendable ==
    ASSUME given \in Given
    PROVE  Parses(Payload) <=> Sendable
<1> DEFINE Ok(s) == JsonText(Posted(JsonEscape(s))).ok
           stop == config.stop_sequences
<1>1. /\ \A i \in DOMAIN chat : Ok(chat[i].content) <=> Legible(chat[i].content)
      /\ \A i \in DOMAIN stop : Ok(stop[i]) <=> Legible(stop[i])
  BY ChatIs, StringIsRead
<1>2. /\ DOMAIN Payload.messages = DOMAIN chat
      /\ \A i \in DOMAIN chat : Payload.messages[i].text = JsonEscape(chat[i].content)
  BY PayloadFields DEF Message
<1>3. DOMAIN Payload.stop = DOMAIN stop
      /\ \A i \in DOMAIN stop : Payload.stop[i] = JsonEscape(stop[i])
  BY PayloadFields
<1>4. Texts(Payload) = {JsonEscape(chat[i].content) : i \in DOMAIN chat}
                       \cup {JsonEscape(stop[i]) : i \in DOMAIN stop}
  BY <1>2, <1>3 DEF Texts, Range
<1>5. Parses(Payload) <=> /\ \A i \in DOMAIN chat : Ok(chat[i].content)
                          /\ \A i \in DOMAIN stop : Ok(stop[i])
  BY <1>4, Zenon DEF Parses
<1> HIDE DEF Ok, stop
<1> QED BY <1>1, <1>5 DEF Sendable, stop

LEMMA OkIffReadable ==
    ASSUME given \in Given
    PROVE  Prepared.ok <=> Readable
<1>1. Readable <=> (WithImage # {} => ImageOf(chat[Min(WithImage)]) # <<>>)
  BY Zenon DEF Readable, WithImage
<1> DEFINE data == ImageOf(chat[Min(WithImage)])
<1>2. (WithImage = {} => Prepared = [ok |-> TRUE, image_b64 |-> <<>>])
      /\ (WithImage # {} => Prepared = [ok |-> data # <<>>, image_b64 |-> Base64Encode(data)])
  BY ImageIsData
<1> HIDE DEF data
<1>3. (WithImage = {} => Prepared.ok) /\ (WithImage # {} => (Prepared.ok <=> data # <<>>))
  <2> DEFINE some == data # <<>>
  <2>1. some \in BOOLEAN
    OBVIOUS
  <2>2. CASE WithImage = {}
    BY <1>2, <2>2
  <2>3. CASE WithImage # {}
    <3>1. Prepared = [ok |-> some, image_b64 |-> Base64Encode(data)]
      BY <1>2, <2>3
    <3> HIDE DEF some
    <3>2. Prepared.ok = some
      BY ONLY <3>1
    <3> QED BY <2>3, <3>2 DEF some
  <2> QED BY <2>2, <2>3
<1> QED BY <1>1, <1>3 DEF data

-----------------------------------------------------------------------------
(* The invariant: a payload is the payload of this call, the server has    *)
(* understood this payload or nothing, and the steps that are behind tell  *)
(* which faults are not there.                                             *)
AfterImage == {"mkstemp", "write", "popen", "curl", "close"}
AfterFile == {"write", "popen", "curl", "close"}
AfterWrite == {"popen", "curl", "close"}

Asked ==
    /\ given \in Given
    /\ pc \in AfterImage => payload = Payload
    /\ served = <<>> \/ served = <<Understood(Payload)>>

AllWell == fault = "none" /\ Parses(Payload) /\ Prepared.ok

Truthful ==
    /\ fault \in FaultKinds \cup {"none"}
    /\ pc \in {"start", "image", "done"} \cup AfterImage
    /\ pc = "image" \/ pc \in AfterImage => fault # "start"
    /\ pc \in AfterImage => Prepared.ok
    /\ pc \in AfterFile => fault # "mkstemp"
    /\ pc \in AfterWrite => (file = "whole" <=> fault # "write")
    /\ pc \in {"curl", "close"} => fault # "popen"
    /\ pc = "close" => (status = 0 <=> AllWell)
    /\ pc = "done" => (returned = TRUE <=> AllWell)

LEMMA AskedStep == Asked /\ [Next]_vars => Asked'
<1> SUFFICES ASSUME Asked, [Next]_vars
             PROVE  Asked'
  OBVIOUS
<1>1. given' = given
  BY DEF Next, vars, scenario, StartServer, StartServerFails, TakeImage, ImageUnreadable,
         Mkstemp, MkstempFails, WritePayload, Popen, PopenFails, Serve, Refuse,
         RequestFails, Finish
<1>2. Payload' = Payload /\ Understood(Payload)' = Understood(Payload)
  BY <1>1 DEF Payload, Prepared, config, chat
<1>3. CASE TakeImage
  BY <1>1, <1>2, <1>3 DEF TakeImage, Asked, Payload, Prepared
<1>4. CASE Serve
  BY <1>1, <1>2, <1>4 DEF Serve, Asked, AfterImage
<1>5. CASE Mkstemp \/ WritePayload \/ Popen \/ Refuse
  BY <1>1, <1>2, <1>5 DEF Mkstemp, WritePayload, Popen, Refuse, Asked, AfterImage
<1>6. CASE StartServer
  BY <1>1, <1>2, <1>6 DEF StartServer, Asked, AfterImage
<1>7. CASE StartServerFails \/ ImageUnreadable \/ MkstempFails \/ PopenFails
           \/ RequestFails \/ Finish
  BY <1>1, <1>2, <1>7 DEF StartServerFails, ImageUnreadable, MkstempFails, PopenFails,
         RequestFails, Finish, Return, Asked, AfterImage
<1>8. CASE UNCHANGED vars
  BY <1>1, <1>2, <1>8 DEF vars, Asked
<1> QED BY <1>3, <1>4, <1>5, <1>6, <1>7, <1>8 DEF Next

LEMMA TruthfulStep == Asked /\ Truthful /\ [Next]_vars => Truthful'
<1> SUFFICES ASSUME Asked, Truthful, [Next]_vars
             PROVE  Truthful'
  OBVIOUS
<1>1. given' = given /\ fault' = fault
  BY DEF Next, vars, scenario, StartServer, StartServerFails, TakeImage, ImageUnreadable,
         Mkstemp, MkstempFails, WritePayload, Popen, PopenFails, Serve, Refuse,
         RequestFails, Finish
<1>2. Prepared' = Prepared /\ AllWell' = AllWell /\ AllWell \in BOOLEAN
  BY <1>1 DEF AllWell, Payload, Prepared, config, chat
<1> USE <1>1, <1>2 DEF Truthful, AfterImage, AfterFile, AfterWrite
<1>3. CASE StartServer
  BY <1>3 DEF StartServer
<1>4. CASE StartServerFails
  BY <1>4 DEF StartServerFails, Return, AllWell
<1>5. CASE TakeImage
  BY <1>5 DEF TakeImage, Prepared
<1>6. CASE ImageUnreadable
  BY <1>6 DEF ImageUnreadable, Return, AllWell, Prepared
<1>7. CASE Mkstemp
  BY <1>7 DEF Mkstemp
<1>8. CASE MkstempFails
  BY <1>8 DEF MkstempFails, Return, AllWell
<1>9. CASE WritePayload
  BY <1>9 DEF WritePayload
<1>10. CASE Popen
  BY <1>10 DEF Popen
<1>11. CASE PopenFails
  BY <1>11 DEF PopenFails, Return, AllWell
<1>12. CASE Serve
  <2>1. payload = Payload
    BY <1>12 DEF Serve, Asked
  <2> QED BY <1>12, <2>1 DEF Serve, AllWell, FaultKinds
<1>13. CASE Refuse
  <2>1. payload = Payload
    BY <1>13 DEF Refuse, Asked
  <2> QED BY <1>13, <2>1 DEF Refuse, AllWell
<1>14. CASE RequestFails
  BY <1>14 DEF RequestFails, Return
<1>15. CASE Finish
  BY <1>15 DEF Finish, Return
<1>16. CASE UNCHANGED vars
  BY <1>16 DEF vars
<1> QED BY <1>3, <1>4, <1>5, <1>6, <1>7, <1>8, <1>9, <1>10, <1>11, <1>12, <1>13, <1>14,
           <1>15, <1>16 DEF Next

(* Whatever the texts, the images and the faults: the server understands   *)
(* the chat that the caller has, the image of its first message with one   *)
(* on its last, and the limits of the configuration, or it understands     *)
(* nothing.                                                                *)
THEOREM ServerIsAskedTheChat == Spec => []ServerSeesTheChat
<1>1. Init => Asked
  BY DEF Init, Asked, AfterImage
<1>2. Asked => ServerSeesTheChat
  <2> SUFFICES ASSUME Asked, NEW k \in DOMAIN served
               PROVE  Seen(served[k])
    BY Zenon DEF ServerSeesTheChat, Seen
  <2>1. served = <<Understood(Payload)>>
    BY DEF Asked
  <2>2. k = 1 /\ served[1] = Understood(Payload)
    BY <2>1
  <2> QED BY <2>2, PayloadIsSeen DEF Asked
<1> QED BY <1>1, <1>2, AskedStep, PTL DEF Spec

(* A call returns true exactly when nothing went wrong, the image could be *)
(* read and no text holds a control character.                             *)
THEOREM CallsAreTruthful == Spec => []TrueMeansAnswered
<1>1. Init => Asked /\ Truthful
  BY FaultsAssumption DEF Init, Asked, Truthful, AfterImage, AfterFile, AfterWrite
<1>2. Asked /\ Truthful => TrueMeansAnswered
  BY ParsesIffSendable, OkIffReadable DEF Asked, Truthful, AllWell, TrueMeansAnswered
<1> QED BY <1>1, <1>2, AskedStep, TruthfulStep, PTL DEF Spec
-----------------------------------------------------------------------------
(* The shell.  A walk over a text, from any state.                         *)
ShellState(A) ==
    [words : Seq(Seq(A)), word : Seq(A), open : BOOLEAN, mode : {"plain", "quoted", "escaped"}]
ShellStep(A) == [p \in ShellState(A) \X A |-> ShellRead(p[1], p[2])]
Walk(A, r, s) == Run(ShellState(A), ShellStep(A), r, s)

LEMMA ShellStepIs ==
    ASSUME NEW A, NEW r \in ShellState(A), NEW c \in A
    PROVE  ShellStep(A)[<<r, c>>] = ShellRead(r, c) /\ ShellRead(r, c) \in ShellState(A)
<1>1. /\ Append(r.word, c) \in Seq(A) /\ <<>> \in Seq(A)
      /\ Append(r.words, r.word) \in Seq(Seq(A))
  BY EmptySeq DEF ShellState
<1>2. ShellPut(r, c) \in ShellState(A) /\ ShellEnd(r) \in ShellState(A)
  BY <1>1 DEF ShellState, ShellPut, ShellEnd
<1>3. ShellRead(r, c) \in ShellState(A)
  BY <1>2 DEF ShellRead, ShellState
<1> QED BY <1>3 DEF ShellStep

LEMMA ShellFoldsFrom ==
    ASSUME NEW A, NEW r \in ShellState(A)
    PROVE  Folding(ShellState(A), A, ShellStep(A), r)
<1>1. \A p \in ShellState(A) \X A : ShellRead(p[1], p[2]) \in ShellState(A)
  BY ShellStepIs
<1> QED BY <1>1 DEF Folding, ShellStep

LEMMA ShellFolds ==
    ASSUME NEW A
    PROVE  Folding(ShellState(A), A, ShellStep(A), ShellStart)
<1>1. ShellStart \in ShellState(A)
  BY EmptySeq DEF ShellStart, ShellState
<1> QED BY <1>1, ShellFoldsFrom

ShellSeen(s) == FoldLeft(ShellRead, ShellStart, s)

LEMMA ShellIsRun ==
    ASSUME NEW A, NEW s, s \in Seq(A)
    PROVE  ShellSeen(s) = Run(ShellState(A), ShellStep(A), ShellStart, s)
<1> DEFINE T == ShellState(A)
           f == ShellStep(A)
           Eq(it) == it = [x \in SUBSET DOMAIN s |->
                             IF x = {} THEN ShellStart
                             ELSE ShellRead(it[x \ {Max(x)}], s[Max(x)])]
<1>0. Len(s) \in Nat /\ DOMAIN s = 1..Len(s) /\ \A i \in 1..Len(s) : s[i] \in A
  BY LenProperties, ElementOfSeq
<1>a. Folding(T, A, f, ShellStart)
  BY ShellFolds
<1>b. \A r \in T : \A c \in A : f[<<r, c>>] = ShellRead(r, c)
  BY ShellStepIs
<1> HIDE DEF T, f
<1>1. PICK g \in [SUBSET (1..Len(s)) -> T] : Solves(s, ShellStart, f, g, Len(s))
  BY <1>a, FoldExists DEF Solvable
<1>2. Eq(g)
  <2> SUFFICES ASSUME NEW x \in SUBSET (1..Len(s))
               PROVE  g[x] = IF x = {} THEN ShellStart
                             ELSE ShellRead(g[x \ {Max(x)}], s[Max(x)])
    BY <1>0
  <2>1. CASE x = {}
    BY <1>1, <2>1 DEF Solves
  <2>2. CASE x # {}
    <3>1. Max(x) \in x /\ g[x] = f[<<g[x \ {Max(x)}], s[Max(x)]>>]
      BY <1>1, <2>2 DEF Solves
    <3>2. g[x \ {Max(x)}] \in T /\ s[Max(x)] \in A
      BY <1>0, <3>1
    <3> QED BY <1>b, <2>2, <3>1, <3>2
  <2> QED BY <2>1, <2>2
<1> DEFINE it == CHOOSE it : Eq(it)
<1>3. FoldLeft(ShellRead, ShellStart, s) = it[DOMAIN s]
  BY Zenon DEF FoldLeft, MapThenFoldSet
<1>4. Eq(it)
  <2> HIDE DEF Eq
  <2> QED BY <1>2, Zenon
<1> HIDE DEF it
<1>5. \A x \in SUBSET (1..Len(s)) : it[x] = IF x = {} THEN ShellStart
                                           ELSE ShellRead(it[x \ {Max(x)}], s[Max(x)])
  BY <1>0, <1>4, Zenon
<1> HIDE DEF Eq
<1>6. it[{}] = ShellStart
  BY <1>5
<1>7. ASSUME NEW i \in 1..Len(s), it[1..(i - 1)] \in T
      PROVE  it[1..i] = f[<<it[1..(i - 1)], s[i]>>]
  <2>1. 1..i \in SUBSET (1..Len(s)) /\ 1..i # {} /\ Max(1..i) = i
        /\ (1..i) \ {i} = 1..(i - 1)
    <3>1. i \in Nat \ {0} /\ 1..i \in SUBSET (1..Len(s))
      BY <1>0
    <3> QED BY ONLY <3>1, UpToIsInterval
  <2>2. it[1..i] = ShellRead(it[1..(i - 1)], s[i])
    BY <1>5, <2>1
  <2> QED BY <1>0, <1>b, <1>7, <2>2
<1>8. it[DOMAIN s] = Run(T, f, ShellStart, s)
  BY <1>a, <1>6, <1>7, FoldIsRun
<1> QED BY <1>3, <1>8 DEF T, f, ShellSeen

LEMMA WalkSteps ==
    ASSUME NEW A, NEW r, r \in ShellState(A)
    PROVE  /\ Walk(A, r, <<>>) = r
           /\ \A s \in Seq(A) : Walk(A, r, s) \in ShellState(A)
           /\ \A s \in Seq(A) : \A c \in A :
                 Walk(A, r, Append(s, c)) = ShellRead(Walk(A, r, s), c)
           /\ \A c \in A : Walk(A, r, <<c>>) = ShellRead(r, c)
           /\ \A s \in Seq(A) : \A t \in Seq(A) :
                 Walk(A, r, s \o t) = Walk(A, Walk(A, r, s), t)
<1> DEFINE T == ShellState(A)
           f == ShellStep(A)
<1>1. Folding(T, A, f, r) /\ \A q \in T : \A c \in A : f[<<q, c>>] = ShellRead(q, c)
  BY ShellFoldsFrom, ShellStepIs
<1> HIDE DEF T, f
<1>2. Run(T, f, r, <<>>) = r /\ \A s \in Seq(A) : Run(T, f, r, s) \in T
  BY <1>1, RunEmpty, RunType
<1>3. ASSUME NEW s, s \in Seq(A), NEW c, c \in A
      PROVE  Run(T, f, r, Append(s, c)) = ShellRead(Run(T, f, r, s), c)
  <2>1. Run(T, f, r, Append(s, c)) = f[<<Run(T, f, r, s), c>>]
    BY ONLY <1>1, <1>3, RunAppend
  <2> QED BY <1>1, <1>2, <1>3, <2>1
<1>4. ASSUME NEW c, c \in A
      PROVE  Run(T, f, r, <<c>>) = ShellRead(r, c)
  <2>1. <<>> \in Seq(A) /\ Append(<<>>, c) = <<c>>
    BY <1>4, EmptySeq
  <2>2. Run(T, f, r, Append(<<>>, c)) = ShellRead(Run(T, f, r, <<>>), c)
    BY <1>3, <1>4, <2>1
  <2> QED BY <1>2, <2>1, <2>2
<1>5. ASSUME NEW s, s \in Seq(A), NEW t, t \in Seq(A)
      PROVE  Run(T, f, r, s \o t) = Run(T, f, Run(T, f, r, s), t)
  BY ONLY <1>1, <1>5, RunConcat
<1> QED BY <1>2, <1>3, <1>4, <1>5 DEF Walk, T, f

(* Where a word may end: the next blank, or the end of the command, leaves *)
(* the words ws.                                                           *)
Between(ws) == [words |-> ws, word |-> <<>>, open |-> FALSE, mode |-> "plain"]
Inside(ws, w, mode) == [words |-> ws, word |-> w, open |-> TRUE, mode |-> mode]
Stands(A, r, ws) == /\ r \in ShellState(A) /\ r.mode = "plain"
                    /\ ShellEnd(r) = Between(ws)

LEMMA InsideStands ==
    ASSUME NEW A, NEW ws, ws \in Seq(Seq(A)), NEW w, w \in Seq(A)
    PROVE  /\ \A mode \in {"plain", "quoted", "escaped"} : Inside(ws, w, mode) \in ShellState(A)
           /\ Between(ws) \in ShellState(A)
           /\ Stands(A, Inside(ws, w, "plain"), Append(ws, w))
           /\ Stands(A, Between(ws), ws)
BY EmptySeq DEF Inside, Between, ShellState, Stands, ShellEnd

(* A piece of a command says ws: after it the shell has seen the words ws  *)
(* more.                                                                   *)
Says(A, c, ws) ==
    /\ c \in Seq(A) /\ ws \in Seq(Seq(A))
    /\ \A us \in Seq(Seq(A)) : \A r \in ShellState(A) :
          Stands(A, r, us) => Stands(A, Walk(A, r, c), us \o ws)

LEMMA SaysNothing ==
    ASSUME NEW A
    PROVE  Says(A, <<>>, <<>>)
<1>1. <<>> \in Seq(A) /\ <<>> \in Seq(Seq(A)) /\ \A us \in Seq(Seq(A)) : us \o <<>> = us
  BY EmptySeq, ConcatEmptySeq
<1> QED BY <1>1, WalkSteps DEF Says

LEMMA SaysBoth ==
    ASSUME NEW A, NEW c, NEW ws, Says(A, c, ws), NEW d, NEW vs, Says(A, d, vs)
    PROVE  Says(A, c \o d, ws \o vs)
<1> DEFINE W == Seq(A)
<1>1. c \in Seq(A) /\ d \in Seq(A) /\ ws \in Seq(W) /\ vs \in Seq(W)
  BY DEF Says
<1>2. c \o d \in Seq(A) /\ ws \o vs \in Seq(W)
  BY <1>1
<1>3. ASSUME NEW us, us \in Seq(W), NEW r, r \in ShellState(A), Stands(A, r, us)
      PROVE  Stands(A, Walk(A, r, c \o d), us \o (ws \o vs))
  <2>1. Stands(A, Walk(A, r, c), us \o ws) /\ Walk(A, r, c) \in ShellState(A)
    BY <1>1, <1>3, WalkSteps DEF Says
  <2>2. us \o ws \in Seq(W)
    BY <1>1, <1>3
  <2>3. Stands(A, Walk(A, Walk(A, r, c), d), (us \o ws) \o vs)
    BY <2>1, <2>2 DEF Says
  <2>4. Walk(A, r, c \o d) = Walk(A, Walk(A, r, c), d)
    BY <1>1, <1>3, WalkSteps
  <2>5. (us \o ws) \o vs = us \o (ws \o vs)
    <3>1. us \in Seq(W) /\ ws \in Seq(W) /\ vs \in Seq(W)
      BY <1>1, <1>3
    <3> HIDE DEF W
    <3> QED BY ONLY <3>1
  <2> QED BY <2>3, <2>4, <2>5
<1> QED BY <1>2, <1>3 DEF Says

(* A word, written so that it is one, after a blank.                       *)
Writes(A, c, w) ==
    /\ c \in Seq(A) /\ w \in Seq(A)
    /\ \A us \in Seq(Seq(A)) : Stands(A, Walk(A, Between(us), c), Append(us, w))

LEMMA SaysWord ==
    ASSUME NEW A, "blank" \in A, NEW c, NEW w, Writes(A, c, w)
    PROVE  Says(A, <<"blank">> \o c, <<w>>)
<1> DEFINE W == Seq(A)
           b == <<"blank">>
<1>1. c \in Seq(A) /\ w \in W /\ b \in Seq(A) /\ b \o c \in Seq(A) /\ <<w>> \in Seq(W)
  BY DEF Writes
<1>2. ASSUME NEW us, us \in Seq(W), NEW r, r \in ShellState(A), Stands(A, r, us)
      PROVE  Stands(A, Walk(A, r, b \o c), us \o <<w>>)
  <2>1. Walk(A, r, b) = ShellRead(r, "blank")
    BY <1>2, WalkSteps
  <2>2. ShellRead(r, "blank") = Between(us)
    BY <1>2 DEF Stands, ShellRead
  <2>3. Walk(A, r, b \o c) = Walk(A, Walk(A, r, b), c)
    <3>1. b \in Seq(A) /\ c \in Seq(A) /\ r \in ShellState(A)
      BY <1>1, <1>2
    <3> HIDE DEF b
    <3> QED BY ONLY <3>1, WalkSteps
  <2>4. Stands(A, Walk(A, Between(us), c), Append(us, w))
    BY <1>2 DEF Writes
  <2>5. Append(us, w) = us \o <<w>>
    BY <1>1, <1>2, AppendIsConcat
  <2> QED BY <2>1, <2>2, <2>3, <2>4, <2>5
<1> QED BY <1>1, <1>2 DEF Says

LEMMA WritesBare ==
    ASSUME NEW A, NEW x \in A, x \notin ShellSymbols
    PROVE  Writes(A, <<x>>, <<x>>)
<1>1. <<x>> \in Seq(A)
  OBVIOUS
<1>2. ASSUME NEW us \in Seq(Seq(A))
      PROVE  Stands(A, Walk(A, Between(us), <<x>>), Append(us, <<x>>))
  <2>1. Between(us) \in ShellState(A) /\ Stands(A, Inside(us, <<x>>, "plain"), Append(us, <<x>>))
    BY <1>1, InsideStands
  <2>2. Walk(A, Between(us), <<x>>) = ShellRead(Between(us), x)
    BY <2>1, WalkSteps
  <2>3. ShellRead(Between(us), x) = Inside(us, <<x>>, "plain")
    <3>1. ShellRead(Between(us), x) = ShellPut(Between(us), x)
      BY DEF ShellRead, Between, ShellSymbols
    <3>2. Append(<<>>, x) = <<x>>
      OBVIOUS
    <3> QED BY <3>1, <3>2 DEF ShellPut, Between, Inside
  <2> QED BY <2>1, <2>2, <2>3
<1> QED BY <1>1, <1>2 DEF Writes

(* Between quotes: the shell is inside a word that has grown by u.         *)
Shells(A) == {"'", "backslash", "blank"} \subseteq A

Quotes(A, m) ==
    /\ m \in [A -> Seq(A)]
    /\ \A c \in A : m[c] = IF c = "'" THEN <<"'", "backslash", "'", "'">> ELSE <<c>>

LEMMA QuotedIs ==
    ASSUME NEW A, Shells(A)
    PROVE  \E m : Quotes(A, m) /\ \A u \in Seq(A) :
              ShellQuote(u) = <<"'">> \o FlattenSeq(Mapped(m, u)) \o <<"'">>
<1> DEFINE m == [c \in A |-> IF c = "'" THEN <<"'", "backslash", "'", "'">> ELSE <<c>>]
<1>1. m \in [A -> Seq(A)]
  <2>1. "'" \in A /\ "backslash" \in A
    BY DEF Shells
  <2>2. <<"'", "backslash", "'", "'">> \in Seq(A) /\ \A c \in A : <<c>> \in Seq(A)
    BY <2>1
  <2> QED BY <2>2
<1>2. \A c \in A : m[c] = IF c = "'" THEN <<"'", "backslash", "'", "'">> ELSE <<c>>
  OBVIOUS
<1>3. ASSUME NEW v, v \in Seq(A)
      PROVE  ShellQuote(v) = <<"'">> \o FlattenSeq(Mapped(m, v)) \o <<"'">>
  <2>1. DOMAIN v = 1..Len(v) /\ \A i \in 1..Len(v) : v[i] \in A
    BY <1>3, LenProperties, ElementOfSeq
  <2>2. [i \in DOMAIN v |-> IF v[i] = "'" THEN <<"'", "backslash", "'", "'">> ELSE <<v[i]>>]
           = Mapped(m, v)
    BY <2>1 DEF Mapped
  <2> QED BY <2>2, Zenon DEF ShellQuote
<1> HIDE DEF m
<1> QED BY <1>1, <1>2, <1>3 DEF Quotes

LEMMA InsideQuotes ==
    ASSUME NEW A, Shells(A), NEW m, Quotes(A, m), NEW ws, ws \in Seq(Seq(A)), NEW v, v \in Seq(A)
    PROVE  /\ FlattenSeq(Mapped(m, v)) \in Seq(A)
           /\ Walk(A, Inside(ws, <<>>, "quoted"), FlattenSeq(Mapped(m, v)))
                 = Inside(ws, v, "quoted")
<1> DEFINE Flat(u) == FlattenSeq(Mapped(m, u))
           r == Inside(ws, <<>>, "quoted")
           S == {u \in Seq(A) : Flat(u) \in Seq(A) /\ Walk(A, r, Flat(u)) = Inside(ws, u, "quoted")}
<1>0. r \in ShellState(A)
  BY InsideStands, EmptySeq
<1>q. m \in [A -> Seq(A)]
      /\ \A c \in A : m[c] = IF c = "'" THEN <<"'", "backslash", "'", "'">> ELSE <<c>>
  BY DEF Quotes
<1>1. <<>> \in S
  <2>1. Flat(<<>>) = <<>> /\ <<>> \in Seq(A) /\ r = Inside(ws, <<>>, "quoted")
    BY MapEmpty, EmptySeq
  <2> HIDE DEF r
  <2>2. Walk(A, r, <<>>) = r
    BY ONLY <1>0, WalkSteps
  <2> QED BY <2>1, <2>2
<1>2. ASSUME NEW u \in Seq(A), NEW c \in A, u \in S
      PROVE  Append(u, c) \in S
  <2> DEFINE f == Flat(u)
             q == Inside(ws, u, "quoted")
             t == Append(u, c)
  <2>1. f \in Seq(A) /\ Walk(A, r, f) = q /\ t \in Seq(A) /\ m[c] \in Seq(A)
    BY <1>2, <1>q
  <2>2. Flat(t) = f \o m[c]
    BY <1>q, MapAppends
  <2>3. q \in ShellState(A) /\ f \o m[c] \in Seq(A)
    BY <2>1, InsideStands
  <2> HIDE DEF f, r
  <2>4. Walk(A, r, f \o m[c]) = Walk(A, q, m[c])
    BY ONLY <1>0, <2>1, WalkSteps
  <2>5. Walk(A, q, m[c]) = Inside(ws, t, "quoted")
    <3>1. CASE c # "'"
      <4>1. m[c] = <<c>> /\ ShellRead(q, c) = ShellPut(q, c)
        BY <1>q, <3>1 DEF ShellRead, Inside
      <4>2. Walk(A, q, <<c>>) = ShellRead(q, c)
        BY <2>3, WalkSteps
      <4> QED BY <4>1, <4>2 DEF ShellPut, Inside
    <3>2. CASE c = "'"
      <4> DEFINE q1 == Inside(ws, u, "plain")
                 q2 == Inside(ws, u, "escaped")
                 q3 == Inside(ws, t, "plain")
                 q4 == Inside(ws, t, "quoted")
                 b == "backslash"
                 s1 == <<c>>
                 s2 == Append(s1, b)
                 s3 == Append(s2, c)
                 s4 == Append(s3, c)
      <4>1. /\ s1 \in Seq(A) /\ s2 \in Seq(A) /\ s3 \in Seq(A)
            /\ c \in A /\ b \in A
        BY <3>2 DEF Shells
      <4>7. m[c] = s4
        BY <1>q, <3>2
      <4>2. /\ ShellRead(q, c) = q1 /\ ShellRead(q1, b) = q2
            /\ ShellRead(q2, c) = q3 /\ ShellRead(q3, c) = q4
        BY <3>2 DEF ShellRead, ShellPut, Inside
      <4> HIDE DEF q, q1, q2, q3, q4, b, s1, s2, s3, s4
      <4>3. Walk(A, q, s1) = ShellRead(q, c)
        BY ONLY <2>3, <4>1, WalkSteps DEF s1
      <4>4. Walk(A, q, s2) = ShellRead(Walk(A, q, s1), b)
        BY ONLY <2>3, <4>1, WalkSteps DEF s2
      <4>5. Walk(A, q, s3) = ShellRead(Walk(A, q, s2), c)
        BY ONLY <2>3, <4>1, WalkSteps DEF s3
      <4>6. Walk(A, q, s4) = ShellRead(Walk(A, q, s3), c)
        BY ONLY <2>3, <4>1, WalkSteps DEF s4
      <4> QED BY <4>2, <4>3, <4>4, <4>5, <4>6, <4>7 DEF q4
    <3> QED BY <3>1, <3>2
  <2> QED BY <2>1, <2>2, <2>3, <2>4, <2>5 DEF f
<1>3. Seq(A) \subseteq S
  <2> HIDE DEF S
  <2> QED BY <1>1, <1>2, SeqInduction
<1> QED BY <1>3

(* Whatever is in it, a quoted text is one word, and this text.            *)
LEMMA WritesQuoted ==
    ASSUME NEW A, Shells(A), NEW v, v \in Seq(A)
    PROVE  Writes(A, ShellQuote(v), v)
<1>1. PICK m : /\ Quotes(A, m)
               /\ \A u \in Seq(A) :
                     ShellQuote(u) = <<"'">> \o FlattenSeq(Mapped(m, u)) \o <<"'">>
  BY QuotedIs, Zenon
<1> DEFINE f == FlattenSeq(Mapped(m, v))
           q == <<"'">>
           quoted == q \o f
<1>2. f \in Seq(A) /\ \A us \in Seq(Seq(A)) :
                         Walk(A, Inside(us, <<>>, "quoted"), f) = Inside(us, v, "quoted")
  <2>1. ASSUME NEW us, us \in Seq(Seq(A))
        PROVE  f \in Seq(A) /\ Walk(A, Inside(us, <<>>, "quoted"), f) = Inside(us, v, "quoted")
    BY <1>1, <2>1, InsideQuotes
  <2>2. <<>> \in Seq(Seq(A))
    BY EmptySeq
  <2> HIDE DEF f
  <2> QED BY <2>1, <2>2
<1> HIDE DEF f
<1>3. /\ q \in Seq(A) /\ quoted \in Seq(A) /\ quoted \o q \in Seq(A)
      /\ ShellQuote(v) = quoted \o q /\ "'" \in A
  BY <1>1, <1>2 DEF Shells, f
<1>4. ASSUME NEW us, us \in Seq(Seq(A))
      PROVE  Stands(A, Walk(A, Between(us), quoted \o q), Append(us, v))
  <2> DEFINE r == Between(us)
             r1 == Inside(us, <<>>, "quoted")
             r2 == Inside(us, v, "quoted")
             r3 == Inside(us, v, "plain")
  <2>1. /\ r \in ShellState(A) /\ r1 \in ShellState(A) /\ r2 \in ShellState(A)
        /\ Stands(A, r3, Append(us, v))
    BY <1>4, InsideStands, EmptySeq
  <2>2. ShellRead(r, "'") = r1 /\ ShellRead(r2, "'") = r3
    BY DEF ShellRead, Between, Inside
  <2> HIDE DEF r, r1, r2, r3, quoted
  <2>3. Walk(A, r, q) = r1 /\ Walk(A, r2, q) = r3
    BY <1>3, <2>1, <2>2, WalkSteps
  <2> HIDE DEF q
  <2>4. Walk(A, r, quoted) = Walk(A, Walk(A, r, q), f)
    BY ONLY <1>2, <1>3, <2>1, WalkSteps DEF quoted
  <2>5. Walk(A, r1, f) = r2
    BY <1>2, <1>4 DEF r1, r2
  <2>6. Walk(A, r, quoted \o q) = Walk(A, Walk(A, r, quoted), q)
    BY ONLY <1>3, <2>1, WalkSteps
  <2>7. Walk(A, r, quoted \o q) = r3
    BY ONLY <2>3, <2>4, <2>5, <2>6
  <2> QED BY <2>1, <2>7 DEF r
<1> QED BY <1>3, <1>4 DEF Writes
-----------------------------------------------------------------------------
(* The options.  A is the set of words.                                    *)
Heard(A) == [option : A, value : A]
OptionState(A) == [pending : Seq(A), options : Seq(Heard(A))]
OptionStep(A) == [p \in OptionState(A) \X A |-> OptionRead(p[1], p[2])]

LEMMA OptionStepIs ==
    ASSUME NEW A, <<>> \in A, NEW r \in OptionState(A), NEW c \in A
    PROVE  OptionStep(A)[<<r, c>>] = OptionRead(r, c) /\ OptionRead(r, c) \in OptionState(A)
<1>1. OptionRead(r, c) \in OptionState(A)
  <2>1. r.pending \in Seq(A) /\ r.options \in Seq(Heard(A)) /\ <<>> \in Seq(A)
    BY EmptySeq DEF OptionState
  <2>2. CASE r.pending # <<>>
    <3> DEFINE h == [option |-> r.pending[1], value |-> c]
    <3>1. r.pending[1] \in A
      BY <2>1, <2>2, EmptySeq, ElementOfSeq, LenProperties
    <3>2. Append(r.options, h) \in Seq(Heard(A))
      <4>1. h \in Heard(A)
        BY <3>1 DEF Heard
      <4> HIDE DEF h
      <4> QED BY <2>1, <4>1
    <3>3. OptionRead(r, c) = [pending |-> <<>>, options |-> Append(r.options, h)]
      BY <2>2 DEF OptionRead
    <3> HIDE DEF h
    <3> QED BY <2>1, <3>2, <3>3 DEF OptionState
  <2>3. CASE r.pending = <<>> /\ TakesValue(c)
    <3>1. OptionRead(r, c) = [r EXCEPT !.pending = <<c>>] /\ <<c>> \in Seq(A)
      BY <2>3 DEF OptionRead
    <3> QED BY <3>1 DEF OptionState
  <2>4. CASE r.pending = <<>> /\ ~TakesValue(c)
    <3> DEFINE h == [option |-> c, value |-> <<>>]
    <3>1. Append(r.options, h) \in Seq(Heard(A))
      <4>1. h \in Heard(A)
        BY DEF Heard
      <4> HIDE DEF h
      <4> QED BY <2>1, <4>1
    <3>2. OptionRead(r, c) = [r EXCEPT !.options = Append(r.options, h)]
      BY <2>4 DEF OptionRead
    <3> HIDE DEF h
    <3> QED BY <3>1, <3>2 DEF OptionState
  <2> QED BY <2>2, <2>3, <2>4
<1> QED BY <1>1 DEF OptionStep

LEMMA OptionFoldsFrom ==
    ASSUME NEW A, <<>> \in A, NEW r \in OptionState(A)
    PROVE  Folding(OptionState(A), A, OptionStep(A), r)
<1>1. \A p \in OptionState(A) \X A : OptionRead(p[1], p[2]) \in OptionState(A)
  BY OptionStepIs
<1> QED BY <1>1 DEF Folding, OptionStep

LEMMA OptionFolds ==
    ASSUME NEW A, <<>> \in A
    PROVE  Folding(OptionState(A), A, OptionStep(A), OptionStart)
<1>1. OptionStart \in OptionState(A)
  BY EmptySeq DEF OptionStart, OptionState
<1> QED BY <1>1, OptionFoldsFrom

Listen(A, r, ws) == Run(OptionState(A), OptionStep(A), r, ws)

OptionSeen(s) == FoldLeft(OptionRead, OptionStart, s)

LEMMA OptionIsRun ==
    ASSUME NEW A, <<>> \in A, NEW s, s \in Seq(A)
    PROVE  OptionSeen(s) = Run(OptionState(A), OptionStep(A), OptionStart, s)
<1> DEFINE T == OptionState(A)
           f == OptionStep(A)
           Eq(it) == it = [x \in SUBSET DOMAIN s |->
                             IF x = {} THEN OptionStart
                             ELSE OptionRead(it[x \ {Max(x)}], s[Max(x)])]
<1>0. Len(s) \in Nat /\ DOMAIN s = 1..Len(s) /\ \A i \in 1..Len(s) : s[i] \in A
  BY LenProperties, ElementOfSeq
<1>a. Folding(T, A, f, OptionStart)
  BY OptionFolds
<1>b. \A r \in T : \A c \in A : f[<<r, c>>] = OptionRead(r, c)
  BY OptionStepIs
<1> HIDE DEF T, f
<1>1. PICK g \in [SUBSET (1..Len(s)) -> T] : Solves(s, OptionStart, f, g, Len(s))
  BY <1>a, FoldExists DEF Solvable
<1>2. Eq(g)
  <2> SUFFICES ASSUME NEW x \in SUBSET (1..Len(s))
               PROVE  g[x] = IF x = {} THEN OptionStart
                             ELSE OptionRead(g[x \ {Max(x)}], s[Max(x)])
    BY <1>0
  <2>1. CASE x = {}
    BY <1>1, <2>1 DEF Solves
  <2>2. CASE x # {}
    <3>1. Max(x) \in x /\ g[x] = f[<<g[x \ {Max(x)}], s[Max(x)]>>]
      BY <1>1, <2>2 DEF Solves
    <3>2. g[x \ {Max(x)}] \in T /\ s[Max(x)] \in A
      BY <1>0, <3>1
    <3> QED BY <1>b, <2>2, <3>1, <3>2
  <2> QED BY <2>1, <2>2
<1> DEFINE it == CHOOSE it : Eq(it)
<1>3. FoldLeft(OptionRead, OptionStart, s) = it[DOMAIN s]
  BY Zenon DEF FoldLeft, MapThenFoldSet
<1>4. Eq(it)
  <2> HIDE DEF Eq
  <2> QED BY <1>2, Zenon
<1> HIDE DEF it
<1>5. \A x \in SUBSET (1..Len(s)) : it[x] = IF x = {} THEN OptionStart
                                           ELSE OptionRead(it[x \ {Max(x)}], s[Max(x)])
  BY <1>0, <1>4, Zenon
<1> HIDE DEF Eq
<1>6. it[{}] = OptionStart
  BY <1>5
<1>7. ASSUME NEW i \in 1..Len(s), it[1..(i - 1)] \in T
      PROVE  it[1..i] = f[<<it[1..(i - 1)], s[i]>>]
  <2>1. 1..i \in SUBSET (1..Len(s)) /\ 1..i # {} /\ Max(1..i) = i
        /\ (1..i) \ {i} = 1..(i - 1)
    <3>1. i \in Nat \ {0} /\ 1..i \in SUBSET (1..Len(s))
      BY <1>0
    <3> QED BY ONLY <3>1, UpToIsInterval
  <2>2. it[1..i] = OptionRead(it[1..(i - 1)], s[i])
    BY <1>5, <2>1
  <2> QED BY <1>0, <1>b, <1>7, <2>2
<1>8. it[DOMAIN s] = Run(T, f, OptionStart, s)
  BY <1>a, <1>6, <1>7, FoldIsRun
<1> QED BY <1>3, <1>8 DEF T, f, OptionSeen

(* A list of words reads as the options os, wherever it stands.            *)
Waiting(os) == [pending |-> <<>>, options |-> os]
Reads(A, ws, os) ==
    /\ ws \in Seq(A) /\ os \in Seq(Heard(A))
    /\ \A ps \in Seq(Heard(A)) :
          Listen(A, Waiting(ps), ws) = Waiting(ps \o os)

LEMMA WaitingIs ==
    ASSUME NEW A, <<>> \in A, NEW os, os \in Seq(Heard(A))
    PROVE  Waiting(os) \in OptionState(A)
           /\ Folding(OptionState(A), A, OptionStep(A), Waiting(os))
<1>1. Waiting(os) \in OptionState(A)
  BY EmptySeq DEF Waiting, OptionState
<1> QED BY <1>1, OptionFoldsFrom

LEMMA ReadsNothing ==
    ASSUME NEW A, <<>> \in A
    PROVE  Reads(A, <<>>, <<>>)
<1>1. ASSUME NEW ps, ps \in Seq(Heard(A))
      PROVE  Listen(A, Waiting(ps), <<>>) = Waiting(ps \o <<>>)
  <2> DEFINE T == OptionState(A)
             f == OptionStep(A)
             r == Waiting(ps)
  <2>1. Folding(T, A, f, r)
    BY <1>1, WaitingIs
  <2>2. ps \o <<>> = ps
    BY <1>1, ConcatEmptySeq
  <2> HIDE DEF T, f, r
  <2>3. Run(T, f, r, <<>>) = r
    BY ONLY <2>1, RunEmpty
  <2> QED BY <2>2, <2>3 DEF T, f, r, Listen
<1> QED BY <1>1, EmptySeq DEF Reads

LEMMA ReadsBoth ==
    ASSUME NEW A, <<>> \in A, NEW ws, NEW os, Reads(A, ws, os), NEW vs, NEW qs, Reads(A, vs, qs)
    PROVE  Reads(A, ws \o vs, os \o qs)
<1> DEFINE H == Heard(A)
<1>1. ws \in Seq(A) /\ vs \in Seq(A) /\ os \in Seq(H) /\ qs \in Seq(H)
  BY DEF Reads
<1>2. ASSUME NEW ps, ps \in Seq(H)
      PROVE  Listen(A, Waiting(ps), ws \o vs) = Waiting(ps \o (os \o qs))
  <2> DEFINE r == Waiting(ps)
             T == OptionState(A)
             f == OptionStep(A)
  <2>1. Folding(T, A, f, r)
    BY <1>2, WaitingIs
  <2>2. ps \o os \in Seq(H) /\ ps \o (os \o qs) = (ps \o os) \o qs
    BY ONLY <1>1, <1>2
  <2>3. Listen(A, r, ws) = Waiting(ps \o os)
    BY <1>2 DEF Reads
  <2>4. Listen(A, Waiting(ps \o os), vs) = Waiting((ps \o os) \o qs)
    BY <2>2 DEF Reads
  <2> HIDE DEF T, f, r
  <2>5. Run(T, f, r, ws \o vs) = Run(T, f, Run(T, f, r, ws), vs)
    BY ONLY <1>1, <2>1, RunConcat
  <2>6. Listen(A, r, ws \o vs) = Listen(A, Listen(A, r, ws), vs)
    BY <2>5 DEF Listen, T, f
  <2> QED BY <2>2, <2>3, <2>4, <2>6 DEF r
<1>3. ws \o vs \in Seq(A) /\ os \o qs \in Seq(H)
  BY ONLY <1>1
<1> QED BY <1>2, <1>3 DEF Reads

LEMMA TwoIs ==
    ASSUME NEW A, NEW c, c \in A, NEW d, d \in A
    PROVE  Append(<<c>>, d) = <<c, d>> /\ <<c>> \o <<d>> = <<c, d>>
<1> DEFINE s == Append(<<c>>, d)
           t == <<c, d>>
<1>1. /\ s \in Seq(A) /\ Len(s) = 2 /\ s[1] = c /\ s[2] = d
      /\ t \in Seq(A) /\ Len(t) = 2 /\ t[1] = c /\ t[2] = d
  OBVIOUS
<1>2. <<c>> \o <<d>> = s
  <2>1. <<c>> \in Seq(A)
    OBVIOUS
  <2> QED BY <2>1, AppendIsConcat
<1> HIDE DEF s, t
<1>3. s = t
  BY <1>1, SeqEqual
<1> QED BY <1>2, <1>3 DEF s, t

(* The next word is read.                                                  *)
LEMMA ListenSteps ==
    ASSUME NEW A, <<>> \in A, NEW r, r \in OptionState(A)
    PROVE  /\ \A c \in A : Listen(A, r, <<c>>) = OptionRead(r, c)
           /\ \A c \in A : \A d \in A :
                 Listen(A, r, <<c, d>>) = OptionRead(OptionRead(r, c), d)
<1> DEFINE T == OptionState(A)
           f == OptionStep(A)
<1>1. Folding(T, A, f, r) /\ \A q \in T : \A c \in A : f[<<q, c>>] = OptionRead(q, c)
  BY OptionFoldsFrom, OptionStepIs
<1> HIDE DEF T, f
<1>2. Run(T, f, r, <<>>) = r /\ \A s \in Seq(A) : Run(T, f, r, s) \in T
  BY <1>1, RunEmpty, RunType
<1>3. ASSUME NEW s, s \in Seq(A), NEW d, d \in A
      PROVE  Run(T, f, r, Append(s, d)) = OptionRead(Run(T, f, r, s), d)
  <2>1. Run(T, f, r, Append(s, d)) = f[<<Run(T, f, r, s), d>>]
    BY ONLY <1>1, <1>3, RunAppend
  <2> QED BY <1>1, <1>2, <1>3, <2>1
<1>4. ASSUME NEW c, c \in A
      PROVE  Run(T, f, r, <<c>>) = OptionRead(r, c)
  <2>1. <<>> \in Seq(A) /\ Append(<<>>, c) = <<c>>
    BY <1>4, EmptySeq
  <2>2. Run(T, f, r, Append(<<>>, c)) = OptionRead(Run(T, f, r, <<>>), c)
    BY <1>3, <1>4, <2>1
  <2> QED BY <1>2, <2>1, <2>2
<1>5. ASSUME NEW c, c \in A, NEW d, d \in A
      PROVE  Run(T, f, r, <<c, d>>) = OptionRead(OptionRead(r, c), d)
  <2>1. <<c>> \in Seq(A)
    BY <1>5
  <2>2. Append(<<c>>, d) = <<c, d>>
    BY ONLY <1>5, TwoIs
  <2>3. Run(T, f, r, Append(<<c>>, d)) = OptionRead(Run(T, f, r, <<c>>), d)
    BY <1>3, <1>5, <2>1
  <2> QED BY <1>4, <1>5, <2>2, <2>3
<1> QED BY <1>4, <1>5 DEF Listen, T, f

LEMMA ReadsOption ==
    ASSUME NEW A, <<>> \in A, NEW n, n \in ValueOptions, <<n>> \in A, NEW v, v \in A
    PROVE  Reads(A, <<<<n>>, v>>, <<[option |-> <<n>>, value |-> v]>>)
<1> DEFINE h == [option |-> <<n>>, value |-> v]
           ws == <<<<n>>, v>>
<1>1. h \in Heard(A) /\ ws \in Seq(A)
  BY DEF Heard
<1>2. ASSUME NEW ps, ps \in Seq(Heard(A))
      PROVE  Listen(A, Waiting(ps), ws) = Waiting(ps \o <<h>>)
  <2> DEFINE r == Waiting(ps)
  <2>1. r \in OptionState(A)
    BY <1>2, WaitingIs
  <2>2. OptionRead(r, <<n>>) = [pending |-> <<<<n>>>>, options |-> ps]
    BY DEF OptionRead, Waiting, TakesValue
  <2>3. OptionRead([pending |-> <<<<n>>>>, options |-> ps], v) = Waiting(Append(ps, h))
    BY DEF OptionRead, Waiting
  <2> HIDE DEF r
  <2>4. Listen(A, r, <<<<n>>, v>>) = OptionRead(OptionRead(r, <<n>>), v)
    <3> DEFINE c == <<n>>
    <3>1. c \in A
      OBVIOUS
    <3> HIDE DEF c
    <3>2. Listen(A, r, <<c, v>>) = OptionRead(OptionRead(r, c), v)
      BY <2>1, <3>1, ListenSteps
    <3> QED BY <3>2 DEF c
  <2>5. Append(ps, h) = ps \o <<h>>
    BY <1>1, <1>2, AppendIsConcat
  <2> QED BY <2>2, <2>3, <2>4, <2>5 DEF r
<1>3. <<h>> \in Seq(Heard(A))
  BY <1>1
<1> HIDE DEF h
<1> QED BY <1>1, <1>2, <1>3 DEF Reads, h

LEMMA ReadsAlone ==
    ASSUME NEW A, <<>> \in A, NEW x, x \notin ValueOptions, <<x>> \in A
    PROVE  Reads(A, <<<<x>>>>, <<[option |-> <<x>>, value |-> <<>>]>>)
<1> DEFINE h == [option |-> <<x>>, value |-> <<>>]
           ws == <<<<x>>>>
<1>1. h \in Heard(A) /\ ws \in Seq(A)
  BY DEF Heard
<1>2. ASSUME NEW ps, ps \in Seq(Heard(A))
      PROVE  Listen(A, Waiting(ps), ws) = Waiting(ps \o <<h>>)
  <2> DEFINE r == Waiting(ps)
  <2>1. r \in OptionState(A)
    BY <1>2, WaitingIs
  <2>2. OptionRead(r, <<x>>) = Waiting(Append(ps, h))
    BY DEF OptionRead, Waiting, TakesValue
  <2> HIDE DEF r
  <2>3. Listen(A, r, <<<<x>>>>) = OptionRead(r, <<x>>)
    BY <2>1, ListenSteps
  <2>4. Append(ps, h) = ps \o <<h>>
    BY <1>1, <1>2, AppendIsConcat
  <2> QED BY <2>2, <2>3, <2>4 DEF r
<1>3. <<h>> \in Seq(Heard(A))
  BY <1>1
<1> HIDE DEF h
<1> QED BY <1>1, <1>2, <1>3 DEF Reads, h
-----------------------------------------------------------------------------
(* What the options give for a name.                                       *)
MapsTo(A, B, m) == m \in [A -> Seq(B)]
Flat(m, s) == FlattenSeq(Mapped(m, s))

LEMMA FlatSteps ==
    ASSUME NEW A, NEW B, NEW m, MapsTo(A, B, m)
    PROVE  /\ Flat(m, <<>>) = <<>>
           /\ \A s \in Seq(A) : Flat(m, s) \in Seq(B)
           /\ \A c \in A : m[c] \in Seq(B) /\ Flat(m, <<c>>) = m[c]
           /\ \A s \in Seq(A) : \A c \in A : Flat(m, Append(s, c)) = Flat(m, s) \o m[c]
<1>0. m \in [A -> Seq(B)]
  BY DEF MapsTo
<1>1. Flat(m, <<>>) = <<>>
  BY MapEmpty DEF Flat
<1>2. ASSUME NEW s, s \in Seq(A)
      PROVE  Flat(m, s) \in Seq(B)
  <2> DEFINE T == Seq(B)
             ss == Mapped(m, s)
  <2>1. m \in [A -> T]
    BY <1>0
  <2> HIDE DEF T
  <2>2. ss \in Seq(T)
    BY ONLY <1>2, <2>1, MapType
  <2> HIDE DEF ss
  <2>3. FlattenSeq(ss) \in Seq(B)
    BY ONLY <2>2, FlattenType DEF T
  <2> QED BY <2>3 DEF Flat, ss
<1>3. ASSUME NEW s, s \in Seq(A), NEW c, c \in A
      PROVE  Flat(m, Append(s, c)) = Flat(m, s) \o m[c]
  BY ONLY <1>0, <1>3, MapAppend DEF Flat
<1>4. ASSUME NEW c, c \in A
      PROVE  m[c] \in Seq(B) /\ Flat(m, <<c>>) = m[c]
  <2>1. m[c] \in Seq(B) /\ <<>> \in Seq(A) /\ Append(<<>>, c) = <<c>>
    BY <1>0, <1>4, EmptySeq
  <2>2. Flat(m, Append(<<>>, c)) = Flat(m, <<>>) \o m[c]
    BY <1>3, <1>4, <2>1
  <2> QED BY <1>1, <2>1, <2>2, ConcatEmptySeq
<1> QED BY <1>1, <1>2, <1>3, <1>4

LEMMA FlatConcat ==
    ASSUME NEW A, NEW B, NEW m, MapsTo(A, B, m)
    PROVE  \A s \in Seq(A) : \A t \in Seq(A) : Flat(m, s \o t) = Flat(m, s) \o Flat(m, t)
<1> SUFFICES ASSUME NEW s, s \in Seq(A)
             PROVE  \A t \in Seq(A) : Flat(m, s \o t) = Flat(m, s) \o Flat(m, t)
  OBVIOUS
<1> DEFINE S == {u \in Seq(A) : Flat(m, s \o u) = Flat(m, s) \o Flat(m, u)}
<1>1. <<>> \in S
  <2>1. s \o <<>> = s /\ Flat(m, <<>>) = <<>> /\ <<>> \in Seq(A) /\ Flat(m, s) \in Seq(B)
    BY FlatSteps, EmptySeq, ConcatEmptySeq
  <2> QED BY <2>1, ConcatEmptySeq
<1>2. ASSUME NEW u \in Seq(A), NEW c \in A, u \in S
      PROVE  Append(u, c) \in S
  <2> DEFINE su == s \o u
             v == Append(u, c)
  <2>1. s \o v = Append(su, c) /\ su \in Seq(A) /\ v \in Seq(A)
    OBVIOUS
  <2>2. Flat(m, su) = Flat(m, s) \o Flat(m, u)
    BY <1>2
  <2> HIDE DEF su
  <2>3. Flat(m, Append(su, c)) = Flat(m, su) \o m[c]
    BY <2>1, FlatSteps
  <2> DEFINE x == Flat(m, s)
             y == Flat(m, u)
             z == m[c]
  <2>4. x \in Seq(B) /\ y \in Seq(B) /\ z \in Seq(B)
    BY FlatSteps
  <2>6. Flat(m, Append(u, c)) = y \o z
    BY FlatSteps
  <2> HIDE DEF x, y, z
  <2>5. (x \o y) \o z = x \o (y \o z)
    BY ONLY <2>4
  <2> QED BY <2>1, <2>2, <2>3, <2>5, <2>6 DEF x, y, z
<1>3. Seq(A) \subseteq S
  <2> HIDE DEF S
  <2> QED BY <1>1, <1>2, SeqInduction
<1> QED BY <1>3

Opt(name, value) == <<[option |-> <<name>>, value |-> value]>>

LEMMA ValuesAre ==
    ASSUME NEW A, NEW n
    PROVE  /\ Values(<<>>, n) = <<>>
           /\ \A os \in Seq(Heard(A)) : Values(os, n) \in Seq(A)
           /\ \A os \in Seq(Heard(A)) : \A ps \in Seq(Heard(A)) :
                 Values(os \o ps, n) = Values(os, n) \o Values(ps, n)
           /\ \A h \in Heard(A) : Values(<<h>>, n) = IF h.option = <<n>> THEN <<h.value>> ELSE <<>>
<1> DEFINE H == Heard(A)
           m == [h \in H |-> IF h.option = <<n>> THEN <<h.value>> ELSE <<>>]
<1>1. MapsTo(H, A, m)
  BY EmptySeq DEF Heard, MapsTo
<1>a. \A h \in H : m[h] = IF h.option = <<n>> THEN <<h.value>> ELSE <<>>
  OBVIOUS
<1>2. ASSUME NEW os, os \in Seq(H)
      PROVE  Values(os, n) = Flat(m, os)
  <2>1. DOMAIN os = 1..Len(os) /\ \A i \in 1..Len(os) : os[i] \in H
    BY <1>2, LenProperties, ElementOfSeq
  <2> HIDE DEF H
  <2>2. [k \in DOMAIN os |-> IF os[k].option = <<n>> THEN <<os[k].value>> ELSE <<>>]
           = Mapped(m, os)
    BY <2>1 DEF Mapped
  <2> QED BY <2>2, Zenon DEF Values, Flat
<1> HIDE DEF m, H
<1>3. Values(<<>>, n) = <<>>
  BY <1>1, <1>2, EmptySeq, FlatSteps
<1>4. ASSUME NEW os, os \in Seq(H)
      PROVE  Values(os, n) \in Seq(A)
  BY <1>1, <1>2, <1>4, FlatSteps
<1>5. ASSUME NEW os, os \in Seq(H), NEW ps, ps \in Seq(H)
      PROVE  Values(os \o ps, n) = Values(os, n) \o Values(ps, n)
  <2> DEFINE u == os \o ps
  <2>1. u \in Seq(H)
    BY <1>5
  <2>2. Flat(m, u) = Flat(m, os) \o Flat(m, ps)
    BY ONLY <1>1, <1>5, FlatConcat
  <2> HIDE DEF u
  <2>3. Values(u, n) = Flat(m, u)
    BY <1>2, <2>1
  <2>4. Values(os, n) = Flat(m, os) /\ Values(ps, n) = Flat(m, ps)
    BY <1>2, <1>5
  <2>5. Values(u, n) = Values(os, n) \o Values(ps, n)
    BY ONLY <2>2, <2>3, <2>4, Zenon
  <2> QED BY <2>5 DEF u
<1>6. ASSUME NEW h, h \in H
      PROVE  Values(<<h>>, n) = m[h]
  <2>1. <<h>> \in Seq(H)
    BY <1>6
  <2>2. Flat(m, <<h>>) = m[h]
    BY ONLY <1>1, <1>6, FlatSteps
  <2> QED BY <1>2, <2>1, <2>2
<1> QED BY <1>a, <1>3, <1>4, <1>5, <1>6 DEF H
-----------------------------------------------------------------------------
(* What a piece of the command tells llama-server: the values of every     *)
(* option, in their order.                                                 *)
Names == ValueOptions \cup {"--no-warmup"}
Silent == [f \in Names |-> <<>>]
Only(n, v) == [f \in Names |-> IF f = n THEN <<v>> ELSE <<>>]
Join(u, v) == [f \in Names |-> u[f] \o v[f]]

Gives(A, os, vals) == os \in Seq(Heard(Seq(A))) /\ vals = [f \in Names |-> Values(os, f)]

LEMMA GivesBoth ==
    ASSUME NEW A, NEW os, NEW u, Gives(A, os, u), NEW ps, NEW v, Gives(A, ps, v)
    PROVE  Gives(A, os \o ps, Join(u, v))
<1> DEFINE H == Heard(Seq(A))
           W == Seq(A)
           qs == os \o ps
<1>1. os \in Seq(H) /\ ps \in Seq(H) /\ u = [f \in Names |-> Values(os, f)]
      /\ v = [f \in Names |-> Values(ps, f)]
  BY DEF Gives
<1>2. \A f : Values(qs, f) = Values(os, f) \o Values(ps, f)
  <2>1. os \in Seq(Heard(W)) /\ ps \in Seq(Heard(W))
    BY <1>1
  <2> HIDE DEF W
  <2> QED BY ONLY <2>1, ValuesAre
<1>3. qs \in Seq(H)
  BY <1>1
<1> HIDE DEF qs
<1>4. Join(u, v) = [f \in Names |-> Values(qs, f)]
  BY <1>1, <1>2 DEF Join
<1> QED BY <1>3, <1>4 DEF Gives, qs

LEMMA GivesNothing == \A A : Gives(A, <<>>, Silent)
<1> SUFFICES ASSUME NEW A
             PROVE  Gives(A, <<>>, Silent)
  OBVIOUS
<1>1. \A f : Values(<<>>, f) = <<>>
  BY ValuesAre
<1>2. Silent = [f \in Names |-> Values(<<>>, f)]
  BY <1>1 DEF Silent
<1> QED BY <1>2, EmptySeq DEF Gives

LEMMA GivesOption ==
    ASSUME NEW A, NEW n, <<n>> \in Seq(A), NEW v, v \in Seq(A)
    PROVE  Gives(A, Opt(n, v), Only(n, v))
<1> DEFINE W == Seq(A)
           h == [option |-> <<n>>, value |-> v]
<1>1. h \in Heard(W) /\ h.option = <<n>> /\ h.value = v /\ \A f : (<<n>> = <<f>> <=> f = n)
  BY DEF Heard
<1>2. Opt(n, v) = <<h>>
  BY DEF Opt
<1> HIDE DEF W, h
<1>3. \A f : Values(<<h>>, f) = IF h.option = <<f>> THEN <<h.value>> ELSE <<>>
  BY ONLY <1>1, ValuesAre
<1>4. \A f : Values(<<h>>, f) = IF f = n THEN <<v>> ELSE <<>>
  BY <1>1, <1>3
<1>5. Only(n, v) = [f \in Names |-> Values(<<h>>, f)]
  BY <1>4 DEF Only
<1>6. <<h>> \in Seq(Heard(W))
  BY <1>1
<1> QED BY <1>2, <1>5, <1>6 DEF Gives, W

Tells(A, c, vals) ==
    \E ws, os : Says(A, c, ws) /\ Reads(Seq(A), ws, os) /\ Gives(A, os, vals)

LEMMA NoWord == \A A : <<>> \in Seq(A)
BY EmptySeq

LEMMA TellsNothing == \A A : Tells(A, <<>>, Silent)
<1> SUFFICES ASSUME NEW A
             PROVE  Tells(A, <<>>, Silent)
  OBVIOUS
<1>1. Reads(Seq(A), <<>>, <<>>)
  BY NoWord, ReadsNothing
<1> QED BY <1>1, SaysNothing, GivesNothing DEF Tells

LEMMA TellsBoth ==
    ASSUME NEW A, NEW c, NEW u, Tells(A, c, u), NEW d, NEW v, Tells(A, d, v)
    PROVE  Tells(A, c \o d, Join(u, v))
<1> DEFINE W == Seq(A)
<1>0. <<>> \in W
  BY NoWord
<1>1. PICK ws, os : Says(A, c, ws) /\ Reads(W, ws, os) /\ Gives(A, os, u)
  BY DEF Tells
<1>2. PICK vs, ps : Says(A, d, vs) /\ Reads(W, vs, ps) /\ Gives(A, ps, v)
  BY DEF Tells
<1>3. Says(A, c \o d, ws \o vs)
  BY ONLY <1>1, <1>2, SaysBoth
<1>4. Gives(A, os \o ps, Join(u, v))
  BY ONLY <1>1, <1>2, GivesBoth
<1> HIDE DEF W
<1>5. Reads(W, ws \o vs, os \o ps)
  BY ONLY <1>0, <1>1, <1>2, ReadsBoth
<1> DEFINE x == ws \o vs
           y == os \o ps
<1>6. Says(A, c \o d, x) /\ Reads(Seq(A), x, y) /\ Gives(A, y, Join(u, v))
  BY <1>3, <1>4, <1>5 DEF W
<1> HIDE DEF x, y
<1> QED BY <1>6 DEF Tells

LEMMA TellsOption ==
    ASSUME NEW A, Shells(A), NEW n, n \in ValueOptions, n \in A, n \notin ShellSymbols,
           NEW q, NEW v, Writes(A, q, v)
    PROVE  Tells(A, With(n, q), Only(n, v))
<1> DEFINE W == Seq(A)
           bl == <<"blank">>
           name == bl \o <<n>>
           value == bl \o q
           word == <<n>>
<1>0. /\ "blank" \in A /\ word \in W /\ v \in W /\ q \in W /\ <<>> \in W /\ name \in W /\ bl \in W
      /\ <<word>> \in Seq(W)
  BY NoWord DEF Shells, Writes
<1>1. With(n, q) = name \o value
  <2>1. name = <<"blank", n>>
    BY ONLY <1>0, n \in A, TwoIs
  <2>2. <<"blank", n>> \o bl = <<"blank", n, "blank">>
    <3> DEFINE s == <<"blank", n>> \o bl
               t == <<"blank", n, "blank">>
    <3>1. /\ s \in Seq(A) /\ Len(s) = 3 /\ s[1] = "blank" /\ s[2] = n /\ s[3] = "blank"
          /\ t \in Seq(A) /\ Len(t) = 3 /\ t[1] = "blank" /\ t[2] = n /\ t[3] = "blank"
      BY <1>0
    <3> HIDE DEF s, t
    <3>2. s = t
      BY <3>1, SeqEqual
    <3> QED BY <3>2 DEF s, t
  <2> HIDE DEF name, bl, value
  <2>3. (name \o bl) \o q = name \o (bl \o q)
    <3>1. name \in Seq(A) /\ bl \in Seq(A) /\ q \in Seq(A)
      BY <1>0
    <3> HIDE DEF W, word
    <3> QED BY ONLY <3>1
  <2> QED BY <2>1, <2>2, <2>3 DEF With, value
<1>2. Says(A, name, <<word>>)
  <2>1. Writes(A, word, word)
    BY WritesBare
  <2> QED BY <1>0, <2>1, SaysWord
<1>3. Says(A, value, <<v>>)
  BY <1>0, SaysWord
<1> HIDE DEF name, value, word
<1>4. Says(A, name \o value, <<word>> \o <<v>>)
  BY ONLY <1>2, <1>3, SaysBoth
<1>5. <<word>> \o <<v>> = <<word, v>>
  BY ONLY <1>0, TwoIs
<1>6. Reads(W, <<word, v>>, Opt(n, v))
  <2> HIDE DEF W
  <2>1. Reads(W, <<<<n>>, v>>, <<[option |-> <<n>>, value |-> v]>>)
    BY ONLY <1>0, n \in ValueOptions, ReadsOption DEF word
  <2> QED BY <2>1 DEF word, Opt
<1>7. Gives(A, Opt(n, v), Only(n, v))
  BY <1>0, GivesOption DEF word
<1> QED BY <1>1, <1>4, <1>5, <1>6, <1>7 DEF Tells

(* A word that takes no value.                                             *)
LEMMA TellsFlag ==
    ASSUME NEW A, Shells(A), NEW n, n \notin ValueOptions, n \in A, n \notin ShellSymbols
    PROVE  Tells(A, <<"blank">> \o <<n>>, Only(n, <<>>))
<1> DEFINE W == Seq(A)
           word == <<n>>
<1>0. "blank" \in A /\ word \in W /\ <<>> \in W
  BY NoWord DEF Shells
<1>1. Says(A, <<"blank">> \o word, <<word>>)
  <2>1. Writes(A, word, word)
    BY WritesBare
  <2> QED BY <1>0, <2>1, SaysWord
<1>2. Reads(W, <<word>>, Opt(n, <<>>))
  <2> HIDE DEF W
  <2>1. Reads(W, <<<<n>>>>, <<[option |-> <<n>>, value |-> <<>>]>>)
    BY ONLY <1>0, n \notin ValueOptions, ReadsAlone
  <2> QED BY <2>1 DEF Opt
<1>3. Gives(A, Opt(n, <<>>), Only(n, <<>>))
  BY <1>0, GivesOption
<1> HIDE DEF word
<1> QED BY <1>1, <1>2, <1>3 DEF Tells, word
-----------------------------------------------------------------------------
(* A command from its beginning.                                           *)
Starts(A, c, vals) ==
    \E ws, os : /\ c \in Seq(A) /\ ws \in Seq(Seq(A)) /\ Stands(A, Walk(A, Between(<<>>), c), ws)
                /\ Reads(Seq(A), ws, os) /\ Gives(A, os, vals)

LEMMA StartsWord ==
    ASSUME NEW A, NEW n, n \notin ValueOptions, n \in A, n \notin ShellSymbols
    PROVE  Starts(A, <<n>>, Only(n, <<>>))
<1> DEFINE W == Seq(A)
           word == <<n>>
           none == <<>>
           ws == Append(none, word)
<1>0. word \in W /\ <<>> \in W /\ none \in Seq(W) /\ ws = <<word>> /\ ws \in Seq(W)
  BY NoWord, EmptySeq
<1>1. Stands(A, Walk(A, Between(none), word), ws)
  <2>1. Writes(A, word, word)
    BY WritesBare
  <2> HIDE DEF ws, none
  <2> QED BY <1>0, <2>1 DEF Writes, ws
<1>2. Reads(W, <<word>>, Opt(n, <<>>))
  <2> HIDE DEF W
  <2>1. Reads(W, <<<<n>>>>, <<[option |-> <<n>>, value |-> <<>>]>>)
    BY ONLY <1>0, n \notin ValueOptions, ReadsAlone
  <2> QED BY <2>1 DEF Opt
<1>3. Gives(A, Opt(n, <<>>), Only(n, <<>>))
  BY <1>0, GivesOption
<1> HIDE DEF word, ws
<1> QED BY <1>0, <1>1, <1>2, <1>3 DEF Starts, word

LEMMA StartsBoth ==
    ASSUME NEW A, NEW c, NEW u, Starts(A, c, u), NEW d, NEW v, Tells(A, d, v)
    PROVE  Starts(A, c \o d, Join(u, v))
<1> DEFINE W == Seq(A)
           r == Between(<<>>)
<1>0. <<>> \in W /\ r \in ShellState(A)
  <2>1. <<>> \in Seq(Seq(A))
    BY EmptySeq
  <2> QED BY <2>1, NoWord, InsideStands
<1>1. PICK ws, os : /\ c \in Seq(A) /\ ws \in Seq(W) /\ Stands(A, Walk(A, r, c), ws)
                    /\ Reads(W, ws, os) /\ Gives(A, os, u)
  BY DEF Starts
<1>2. PICK vs, ps : Says(A, d, vs) /\ Reads(W, vs, ps) /\ Gives(A, ps, v)
  BY DEF Tells
<1> HIDE DEF r
<1>3. Stands(A, Walk(A, r, c \o d), ws \o vs)
  <2>1. d \in Seq(A) /\ Walk(A, r, c) \in ShellState(A)
    BY <1>1, <1>2 DEF Says, Stands
  <2>2. Stands(A, Walk(A, Walk(A, r, c), d), ws \o vs)
    BY <1>1, <1>2, <2>1 DEF Says
  <2>3. Walk(A, r, c \o d) = Walk(A, Walk(A, r, c), d)
    BY ONLY <1>0, <1>1, <2>1, WalkSteps
  <2> QED BY <2>2, <2>3
<1>4. c \o d \in Seq(A) /\ ws \o vs \in Seq(W)
  BY <1>1, <1>2 DEF Says
<1>5. Gives(A, os \o ps, Join(u, v))
  BY ONLY <1>1, <1>2, GivesBoth
<1> HIDE DEF W
<1>6. Reads(W, ws \o vs, os \o ps)
  BY ONLY <1>0, <1>1, <1>2, ReadsBoth
<1> DEFINE x == ws \o vs
           y == os \o ps
           e == c \o d
<1>7. /\ e \in Seq(A) /\ x \in Seq(Seq(A)) /\ Stands(A, Walk(A, Between(<<>>), e), x)
      /\ Reads(Seq(A), x, y) /\ Gives(A, y, Join(u, v))
  BY <1>3, <1>4, <1>5, <1>6 DEF W, r
<1> HIDE DEF x, y, e
<1>8. Starts(A, e, Join(u, v))
  BY <1>7 DEF Starts
<1> QED BY <1>8 DEF e

(* What the shell and llama-server make of it.                             *)
LEMMA StartsRead ==
    ASSUME NEW A, NEW c, NEW vals, Starts(A, c, vals)
    PROVE  \A f \in Names : Values(Options(ShellWords(c)), f) = vals[f]
<1> DEFINE W == Seq(A)
           none == <<>>
<1>1. PICK ws, os : /\ c \in Seq(A) /\ ws \in Seq(W) /\ Stands(A, Walk(A, Between(none), c), ws)
                    /\ Reads(W, ws, os) /\ Gives(A, os, vals)
  BY DEF Starts
<1>2. ShellWords(c) = ws
  <2>1. ShellSeen(c) = Walk(A, Between(none), c)
    BY <1>1, ShellIsRun DEF Walk, Between, ShellStart
  <2>2. ShellWords(c) = ShellEnd(ShellSeen(c)).words
    BY Zenon DEF ShellWords, ShellSeen
  <2>3. ShellEnd(Walk(A, Between(none), c)) = Between(ws)
    BY <1>1 DEF Stands
  <2> QED BY <2>1, <2>2, <2>3 DEF Between
<1>3. Options(ws) = os
  <2>0. <<>> \in W
    BY NoWord
  <2> HIDE DEF W
  <2>1. OptionSeen(ws) = Listen(W, Waiting(none), ws)
    BY <1>1, <2>0, OptionIsRun DEF Listen, Waiting, OptionStart
  <2>2. none \in Seq(Heard(W)) /\ os \in Seq(Heard(W))
    BY <1>1, EmptySeq DEF Reads
  <2>3. Listen(W, Waiting(none), ws) = Waiting(none \o os)
    BY <1>1, <2>2 DEF Reads
  <2>4. none \o os = os
    BY <2>2, ConcatEmptySeq
  <2>5. Options(ws) = OptionSeen(ws).options
    BY Zenon DEF Options, OptionSeen
  <2> QED BY <2>1, <2>3, <2>4, <2>5 DEF Waiting
<1> QED BY <1>1, <1>2, <1>3 DEF Gives
-----------------------------------------------------------------------------
(* The command line of a configuration c whose symbols are in A.           *)
Fits(A, c) ==
    /\ Shells(A) /\ Names \cup {"taskset", "llama-server", "on", "off"} \subseteq A
    /\ ConfigWords(c) \subseteq A \ ShellSymbols
    /\ ConfigStrings(c) \subseteq Seq(A)
    /\ c.vision_model_paths \in Seq(Seq(A))
    /\ c.media_backend \in {"smt", "mtmd", "auto"}
    /\ c.no_warmup \in BOOLEAN /\ c.enable_thinking \in BOOLEAN

LEMMA NamesAre == Names \cap ShellSymbols = {} /\ "--no-warmup" \notin ValueOptions
                  /\ ValueOptions \subseteq Names
BY DEF Names, ValueOptions, ShellSymbols

LEMMA TellsQuoted ==
    ASSUME NEW A, NEW c, Fits(A, c), NEW n, n \in ValueOptions, NEW v, v \in Seq(A)
    PROVE  Tells(A, With(n, ShellQuote(v)), Only(n, v))
<1>1. Shells(A) /\ n \in A /\ n \notin ShellSymbols
  BY NamesAre DEF Fits
<1>2. Writes(A, ShellQuote(v), v)
  BY <1>1, WritesQuoted
<1> QED BY <1>1, <1>2, TellsOption

LEMMA TellsBare ==
    ASSUME NEW A, NEW c, Fits(A, c), NEW n, n \in ValueOptions,
           NEW x, x \in A, x \notin ShellSymbols
    PROVE  Tells(A, With(n, <<x>>), Only(n, <<x>>))
<1>1. Shells(A) /\ n \in A /\ n \notin ShellSymbols
  BY NamesAre DEF Fits
<1>2. Writes(A, <<x>>, <<x>>)
  BY WritesBare
<1> DEFINE q == <<x>>
<1> HIDE DEF q
<1>3. Tells(A, With(n, q), Only(n, q))
  BY <1>1, <1>2, TellsOption DEF q
<1> QED BY <1>3 DEF q

LEMMA TellsNumber ==
    ASSUME NEW A, NEW c, Fits(A, c), NEW n, n \in ValueOptions, NEW k, k \in ConfigNumbers(c)
    PROVE  Tells(A, With(n, Number(k)), Only(n, Number(k)))
<1>1. ToString(k) \in A /\ ToString(k) \notin ShellSymbols
  BY DEF Fits, ConfigWords
<1> QED BY <1>1, TellsBare DEF Number

(* --mmproj, once for each path that is not empty.                         *)
Projector(path) == IF path = <<>> THEN <<>> ELSE With("--mmproj", ShellQuote(path))
Projectors(paths) == FlattenSeq([i \in DOMAIN paths |-> Projector(paths[i])])
Projected(paths) == [f \in Names |-> IF f = "--mmproj" THEN NotEmpty(paths) ELSE <<>>]

LEMMA ProjectorsGrow ==
    ASSUME NEW A, NEW c, Fits(A, c)
    PROVE  /\ Projectors(<<>>) = <<>> /\ NotEmpty(<<>>) = <<>>
           /\ \A s \in Seq(Seq(A)) : NotEmpty(s) \in Seq(Seq(A))
           /\ \A s \in Seq(Seq(A)) : \A p \in Seq(A) :
                 /\ Projectors(Append(s, p)) = Projectors(s) \o Projector(p)
                 /\ NotEmpty(Append(s, p)) = NotEmpty(s) \o When(p # <<>>, p)
<1> DEFINE W == Seq(A)
           m == [p \in W |-> Projector(p)]
           n == [p \in W |-> When(p # <<>>, p)]
<1>1. MapsTo(W, A, m)
  <2>1. ASSUME NEW p \in W, p # <<>>
        PROVE  With("--mmproj", ShellQuote(p)) \in Seq(A)
    <3>1. "--mmproj" \in ValueOptions
      BY DEF ValueOptions
    <3>2. Tells(A, With("--mmproj", ShellQuote(p)), Only("--mmproj", p))
      BY <2>1, <3>1, TellsQuoted
    <3> QED BY <3>2 DEF Tells, Says
  <2>2. \A p \in W : Projector(p) \in Seq(A)
    BY <2>1, EmptySeq DEF Projector
  <2> QED BY <2>2 DEF MapsTo
<1>2. MapsTo(W, W, n)
  <2>1. \A p \in W : When(p # <<>>, p) \in Seq(W)
    BY EmptySeq DEF When
  <2> QED BY <2>1 DEF MapsTo
<1>3. \A p \in W : m[p] = Projector(p) /\ n[p] = When(p # <<>>, p)
  OBVIOUS
<1>4. ASSUME NEW s, s \in Seq(W)
      PROVE  Projectors(s) = Flat(m, s) /\ NotEmpty(s) = Flat(n, s)
  <2>1. DOMAIN s = 1..Len(s) /\ \A i \in 1..Len(s) : s[i] \in W
    BY <1>4, LenProperties, ElementOfSeq
  <2> HIDE DEF W
  <2>2. /\ [i \in DOMAIN s |-> Projector(s[i])] = Mapped(m, s)
        /\ [i \in DOMAIN s |-> When(s[i] # <<>>, s[i])] = Mapped(n, s)
    BY <2>1 DEF Mapped
  <2> QED BY <2>2, Zenon DEF Projectors, NotEmpty, Flat
<1> HIDE DEF m, n, W
<1>5. ASSUME NEW s, s \in Seq(W), NEW p, p \in W
      PROVE  /\ Projectors(Append(s, p)) = Projectors(s) \o Projector(p)
             /\ NotEmpty(Append(s, p)) = NotEmpty(s) \o When(p # <<>>, p)
  <2> DEFINE t == Append(s, p)
  <2>1. t \in Seq(W)
    BY <1>5
  <2>2. Flat(m, t) = Flat(m, s) \o m[p]
    BY ONLY <1>1, <1>5, FlatSteps
  <2>3. Flat(n, t) = Flat(n, s) \o n[p]
    BY ONLY <1>2, <1>5, FlatSteps
  <2> HIDE DEF t
  <2>4. /\ Projectors(t) = Flat(m, t) /\ Projectors(s) = Flat(m, s)
        /\ NotEmpty(t) = Flat(n, t) /\ NotEmpty(s) = Flat(n, s)
    BY <1>4, <1>5, <2>1
  <2>5. m[p] = Projector(p) /\ n[p] = When(p # <<>>, p)
    BY <1>3, <1>5
  <2>6. Projectors(t) = Projectors(s) \o Projector(p)
        /\ NotEmpty(t) = NotEmpty(s) \o When(p # <<>>, p)
    BY ONLY <2>2, <2>3, <2>4, <2>5, Zenon
  <2> QED BY <2>6 DEF t
<1>6. Projectors(<<>>) = <<>> /\ NotEmpty(<<>>) = <<>>
  <2>1. <<>> \in Seq(W)
    BY EmptySeq
  <2>2. Flat(m, <<>>) = <<>> /\ Flat(n, <<>>) = <<>>
    BY <1>1, <1>2, FlatSteps
  <2> QED BY <1>4, <2>1, <2>2
<1>7. ASSUME NEW s, s \in Seq(W)
      PROVE  NotEmpty(s) \in Seq(W)
  <2>1. Flat(n, s) \in Seq(W)
    BY ONLY <1>2, <1>7, FlatSteps
  <2> QED BY <1>4, <1>7, <2>1
<1> QED BY <1>5, <1>6, <1>7 DEF W

LEMMA TellsProjectors ==
    ASSUME NEW A, NEW c, Fits(A, c), NEW paths, paths \in Seq(Seq(A))
    PROVE  Tells(A, Projectors(paths), Projected(paths))
<1> DEFINE W == Seq(A)
           S == {s \in Seq(W) : Tells(A, Projectors(s), Projected(s))}
<1>1. <<>> \in S
  <2>1. Projectors(<<>>) = <<>> /\ Projected(<<>>) = Silent /\ <<>> \in Seq(W)
    BY ProjectorsGrow, EmptySeq DEF Projected, Silent
  <2> QED BY <2>1, TellsNothing
<1>2. ASSUME NEW s \in Seq(W), NEW p \in W, s \in S
      PROVE  Append(s, p) \in S
  <2> DEFINE t == Append(s, p)
             n == NotEmpty(s)
             m == NotEmpty(t)
  <2>0. Tells(A, Projectors(s), Projected(s)) /\ t \in Seq(W) /\ p \in Seq(A)
    BY <1>2
  <2>1. /\ Projectors(Append(s, p)) = Projectors(s) \o Projector(p)
        /\ NotEmpty(Append(s, p)) = NotEmpty(s) \o When(p # <<>>, p)
        /\ NotEmpty(s) \in Seq(Seq(A))
    BY ONLY Fits(A, c), s \in Seq(Seq(A)), p \in Seq(A), ProjectorsGrow
  <2>2. Projectors(t) = Projectors(s) \o Projector(p)
    BY <2>1
  <2>3. m = n \o When(p # <<>>, p) /\ n \in Seq(W)
    BY <2>1
  <2>4. /\ Projected(s) = [f \in Names |-> IF f = "--mmproj" THEN n ELSE <<>>]
        /\ Projected(t) = [f \in Names |-> IF f = "--mmproj" THEN m ELSE <<>>]
    BY DEF Projected
  <2> HIDE DEF t, n, m, W
  <2>5. CASE p = <<>>
    <3>1. Projector(p) = <<>> /\ When(p # <<>>, p) = <<>>
      BY <2>5 DEF Projector, When
    <3>2. Tells(A, Projectors(s) \o <<>>, Join(Projected(s), Silent))
      BY <2>0, TellsNothing, TellsBoth
    <3>3. m = n
      BY <2>3, <3>1, ConcatEmptySeq
    <3>4. n \o <<>> = n /\ <<>> \o <<>> = <<>>
      BY <2>3, ConcatEmptySeq
    <3>5. Join(Projected(s), Silent) = Projected(t)
      BY <2>4, <3>3, <3>4 DEF Join, Silent
    <3>6. Tells(A, Projectors(t), Projected(t))
      BY ONLY <2>2, <3>1, <3>2, <3>5, Zenon
    <3> QED BY <2>0, <3>6 DEF t
  <2>6. CASE p # <<>>
    <3>1. Projector(p) = With("--mmproj", ShellQuote(p)) /\ When(p # <<>>, p) = <<p>>
      BY <2>6 DEF Projector, When
    <3>2. "--mmproj" \in ValueOptions
      BY DEF ValueOptions
    <3>3. Tells(A, With("--mmproj", ShellQuote(p)), Only("--mmproj", p))
      BY <2>0, <3>2, TellsQuoted
    <3>4. Tells(A, Projectors(s) \o Projector(p), Join(Projected(s), Only("--mmproj", p)))
      <4>1. Tells(A, Projector(p), Only("--mmproj", p))
        BY <3>1, <3>3
      <4> QED BY <2>0, <4>1, TellsBoth
    <3>5. m = n \o <<p>> /\ <<>> \o <<>> = <<>>
      <4>1. m = n \o <<p>>
        BY <2>3, <3>1
      <4> QED BY <4>1, EmptySeq, ConcatEmptySeq
    <3>6. Join(Projected(s), Only("--mmproj", p)) = Projected(t)
      BY <2>4, <3>5 DEF Join, Only
    <3>7. Tells(A, Projectors(t), Projected(t))
      BY ONLY <2>2, <3>4, <3>6, Zenon
    <3> QED BY <2>0, <3>7 DEF t
  <2> QED BY <2>5, <2>6
<1>3. Seq(W) \subseteq S
  <2> HIDE DEF S
  <2> QED BY <1>1, <1>2, SeqInduction
<1> QED BY <1>3
-----------------------------------------------------------------------------
(* What the configuration c asks of each option, and of those in D only.   *)
Settings(c) ==
    LET vision == c.vision_model_paths # <<>>
    IN  [f \in Names |->
            CASE f = "-m" -> <<c.text_model_path>>
              [] f = "--port" -> <<Number(c.port)>>
              [] f = "--ctx-size" -> <<Number(c.context_size)>>
              [] f = "-t" -> <<Number(c.threads)>>
              [] f = "-tb" -> <<Number(c.batch_threads)>>
              [] f = "--host" -> <<c.host>>
              [] f = "-ngl" -> <<Number(c.n_gpu_layers)>>
              [] f = "-c" -> When(c.cpu_affinity # <<>>, c.cpu_affinity)
              [] f = "--vision-backend" -> When(vision, <<c.media_backend>>)
              [] f = "--mmproj" -> IF c.media_backend = "smt" THEN <<>>
                                   ELSE NotEmpty(c.vision_model_paths)
              [] f = "--smt-config-dir" ->
                    When(/\ vision
                         /\ \/ c.media_backend = "smt"
                            \/ (c.media_backend = "auto" /\ c.smt_config_dir # <<>>),
                         SmtConfigDir(c))
              [] f = "--media-path" -> When(vision /\ c.media_path # <<>>, c.media_path)
              [] f = "--no-warmup" -> When(c.no_warmup, <<>>)
              [] f = "--reasoning" -> <<IF c.enable_thinking THEN <<"on">> ELSE <<"off">>>>
              [] f = "--reasoning-budget" ->
                    When(c.enable_thinking /\ c.reasoning_budget > 0,
                         Number(c.reasoning_budget))]

Known(g, D) == [f \in Names |-> IF f \in D THEN g[f] ELSE <<>>]
Lists(A, g) == \A f \in Names : g[f] \in Seq(Seq(A))

(* A piece of the command that says all there is to say of the options D.  *)
Part(A, c, piece, D) == Tells(A, piece, Known(Settings(c), D))
Begins(A, c, piece, D) == Starts(A, piece, Known(Settings(c), D))

LEMMA SettingsAre ==
    ASSUME NEW c
    PROVE  /\ Settings(c)["-m"] = <<c.text_model_path>>
           /\ Settings(c)["--port"] = <<Number(c.port)>>
           /\ Settings(c)["--ctx-size"] = <<Number(c.context_size)>>
           /\ Settings(c)["-t"] = <<Number(c.threads)>>
           /\ Settings(c)["-tb"] = <<Number(c.batch_threads)>>
           /\ Settings(c)["--host"] = <<c.host>>
           /\ Settings(c)["-ngl"] = <<Number(c.n_gpu_layers)>>
           /\ Settings(c)["-c"] = When(c.cpu_affinity # <<>>, c.cpu_affinity)
           /\ Settings(c)["--vision-backend"] =
                 When(c.vision_model_paths # <<>>, <<c.media_backend>>)
           /\ Settings(c)["--mmproj"] = IF c.media_backend = "smt" THEN <<>>
                                        ELSE NotEmpty(c.vision_model_paths)
           /\ Settings(c)["--smt-config-dir"] =
                 When(/\ c.vision_model_paths # <<>>
                      /\ \/ c.media_backend = "smt"
                         \/ (c.media_backend = "auto" /\ c.smt_config_dir # <<>>),
                      SmtConfigDir(c))
           /\ Settings(c)["--media-path"] =
                 When(c.vision_model_paths # <<>> /\ c.media_path # <<>>, c.media_path)
           /\ Settings(c)["--no-warmup"] = When(c.no_warmup, <<>>)
           /\ Settings(c)["--reasoning"] =
                 <<IF c.enable_thinking THEN <<"on">> ELSE <<"off">>>>
           /\ Settings(c)["--reasoning-budget"] =
                 When(c.enable_thinking /\ c.reasoning_budget > 0, Number(c.reasoning_budget))
BY DEF Settings, Names, ValueOptions

LEMMA KnownJoins ==
    ASSUME NEW A, NEW g, Lists(A, g), NEW D, NEW E, D \cap E = {}
    PROVE  Join(Known(g, D), Known(g, E)) = Known(g, D \cup E)
<1>1. \A f \in Names : <<>> \o g[f] = g[f] /\ g[f] \o <<>> = g[f]
  BY ConcatEmptySeq DEF Lists
<1>2. <<>> \o <<>> = <<>>
  BY EmptySeq, ConcatEmptySeq
<1> QED BY <1>1, <1>2 DEF Join, Known

LEMMA PartBoth ==
    ASSUME NEW A, NEW c, Lists(A, Settings(c)), NEW x, NEW D, Part(A, c, x, D),
           NEW y, NEW E, Part(A, c, y, E), D \cap E = {}
    PROVE  Part(A, c, x \o y, D \cup E)
BY TellsBoth, KnownJoins DEF Part

LEMMA BeginsBoth ==
    ASSUME NEW A, NEW c, Lists(A, Settings(c)), NEW x, NEW D, Begins(A, c, x, D),
           NEW y, NEW E, Part(A, c, y, E), D \cap E = {}
    PROVE  Begins(A, c, x \o y, D \cup E)
BY StartsBoth, KnownJoins DEF Part, Begins

(* An option that is not asked for.                                        *)
LEMMA PartNothing ==
    ASSUME NEW A, NEW c, NEW D, \A f \in D : Settings(c)[f] = <<>>
    PROVE  Part(A, c, <<>>, D)
<1>1. Known(Settings(c), D) = Silent
  BY DEF Known, Silent
<1> QED BY <1>1, TellsNothing DEF Part

LEMMA KnownOne ==
    ASSUME NEW c, NEW n, NEW v, Settings(c)[n] = <<v>>
    PROVE  Known(Settings(c), {n}) = Only(n, v)
BY DEF Known, Only

LEMMA PartQuoted ==
    ASSUME NEW A, NEW c, Fits(A, c), NEW n, n \in ValueOptions, NEW v, v \in Seq(A),
           Settings(c)[n] = <<v>>
    PROVE  Part(A, c, With(n, ShellQuote(v)), {n})
<1>1. Tells(A, With(n, ShellQuote(v)), Only(n, v))
  BY TellsQuoted
<1>2. Known(Settings(c), {n}) = Only(n, v)
  BY KnownOne
<1> QED BY <1>1, <1>2 DEF Part

LEMMA PartBare ==
    ASSUME NEW A, NEW c, Fits(A, c), NEW n, n \in ValueOptions,
           NEW x, x \in A, x \notin ShellSymbols, Settings(c)[n] = <<<<x>>>>
    PROVE  Part(A, c, With(n, <<x>>), {n})
<1> DEFINE v == <<x>>
<1>1. Tells(A, With(n, v), Only(n, v))
  BY TellsBare
<1>0. Settings(c)[n] = <<v>>
  OBVIOUS
<1> HIDE DEF v
<1>2. Known(Settings(c), {n}) = Only(n, v)
  BY <1>0, KnownOne
<1>3. Part(A, c, With(n, v), {n})
  BY <1>1, <1>2 DEF Part
<1> QED BY <1>3 DEF v

LEMMA PartNumber ==
    ASSUME NEW A, NEW c, Fits(A, c), NEW n, n \in ValueOptions, NEW k, k \in ConfigNumbers(c),
           Settings(c)[n] = <<Number(k)>>
    PROVE  Part(A, c, With(n, Number(k)), {n})
<1>1. ToString(k) \in A /\ ToString(k) \notin ShellSymbols
  BY DEF Fits, ConfigWords
<1> QED BY <1>1, PartBare DEF Number
-----------------------------------------------------------------------------
(* The pieces of the command.                                              *)
LEMMA StringsFit ==
    ASSUME NEW A, NEW c, Fits(A, c)
    PROVE  /\ c.text_model_path \in Seq(A) /\ c.host \in Seq(A)
           /\ c.cpu_affinity \in Seq(A) /\ c.media_path \in Seq(A)
           /\ c.smt_config_dir \in Seq(A) /\ SmtConfigDir(c) \in Seq(A)
           /\ \A k \in ConfigNumbers(c) : Number(k) \in Seq(A)
           /\ <<c.media_backend>> \in Seq(A) /\ c.media_backend \notin ShellSymbols
           /\ <<"on">> \in Seq(A) /\ <<"off">> \in Seq(A) /\ <<>> \in Seq(A)
           /\ NotEmpty(c.vision_model_paths) \in Seq(Seq(A))
<1>1. /\ c.text_model_path \in Seq(A) /\ c.host \in Seq(A)
      /\ c.cpu_affinity \in Seq(A) /\ c.media_path \in Seq(A)
      /\ c.smt_config_dir \in Seq(A) /\ SmtConfigDir(c) \in Seq(A)
  BY DEF Fits, ConfigStrings, SmtConfigDir
<1>2. \A k \in ConfigNumbers(c) : ToString(k) \in A
  BY DEF Fits, ConfigWords
<1>3. \A k \in ConfigNumbers(c) : Number(k) \in Seq(A)
  BY <1>2 DEF Number
<1>4. /\ <<c.media_backend>> \in Seq(A) /\ c.media_backend \notin ShellSymbols
      /\ <<"on">> \in Seq(A) /\ <<"off">> \in Seq(A) /\ <<>> \in Seq(A)
  BY NoWord DEF Fits, ConfigWords
<1>5. NotEmpty(c.vision_model_paths) \in Seq(Seq(A))
  BY ProjectorsGrow DEF Fits
<1> QED BY <1>1, <1>3, <1>4, <1>5

LEMMA SettingsLists ==
    ASSUME NEW A, NEW c, Fits(A, c)
    PROVE  Lists(A, Settings(c))
<1> DEFINE W == Seq(A)
           g == Settings(c)
<1>1. \A b, v : v \in W => When(b, v) \in Seq(W)
  BY EmptySeq DEF When
<1>2. \A v \in W : <<v>> \in Seq(W)
  OBVIOUS
<1>3. <<>> \in Seq(W)
  BY EmptySeq
<1>4. ConfigNumbers(c) = {c.port, c.context_size, c.threads, c.batch_threads,
                          c.n_gpu_layers, c.reasoning_budget}
  BY DEF ConfigNumbers
<1>5. /\ c.text_model_path \in W /\ c.host \in W /\ c.cpu_affinity \in W /\ c.media_path \in W
      /\ SmtConfigDir(c) \in W /\ <<c.media_backend>> \in W
      /\ <<"on">> \in W /\ <<"off">> \in W /\ <<>> \in W
      /\ NotEmpty(c.vision_model_paths) \in Seq(W)
      /\ \A k \in ConfigNumbers(c) : Number(k) \in W
  BY StringsFit
<1> HIDE DEF W
<1>n. /\ Number(c.port) \in W /\ Number(c.context_size) \in W /\ Number(c.threads) \in W
      /\ Number(c.batch_threads) \in W /\ Number(c.n_gpu_layers) \in W
      /\ Number(c.reasoning_budget) \in W
  BY <1>4, <1>5
<1>6. /\ <<c.text_model_path>> \in Seq(W) /\ <<c.host>> \in Seq(W)
      /\ <<Number(c.port)>> \in Seq(W) /\ <<Number(c.context_size)>> \in Seq(W)
      /\ <<Number(c.threads)>> \in Seq(W) /\ <<Number(c.batch_threads)>> \in Seq(W)
      /\ <<Number(c.n_gpu_layers)>> \in Seq(W)
      /\ <<IF c.enable_thinking THEN <<"on">> ELSE <<"off">>>> \in Seq(W)
  BY <1>2, <1>5, <1>n
<1>7. /\ When(c.cpu_affinity # <<>>, c.cpu_affinity) \in Seq(W)
      /\ When(c.vision_model_paths # <<>>, <<c.media_backend>>) \in Seq(W)
      /\ (IF c.media_backend = "smt" THEN <<>> ELSE NotEmpty(c.vision_model_paths)) \in Seq(W)
      /\ When(/\ c.vision_model_paths # <<>>
              /\ \/ c.media_backend = "smt"
                 \/ (c.media_backend = "auto" /\ c.smt_config_dir # <<>>),
              SmtConfigDir(c)) \in Seq(W)
      /\ When(c.vision_model_paths # <<>> /\ c.media_path # <<>>, c.media_path) \in Seq(W)
      /\ When(c.no_warmup, <<>>) \in Seq(W)
      /\ When(c.enable_thinking /\ c.reasoning_budget > 0, Number(c.reasoning_budget))
            \in Seq(W)
  BY <1>1, <1>3, <1>5, <1>n
<1>8. /\ g["-m"] \in Seq(W) /\ g["--port"] \in Seq(W) /\ g["--ctx-size"] \in Seq(W)
      /\ g["-t"] \in Seq(W) /\ g["-tb"] \in Seq(W) /\ g["--host"] \in Seq(W)
      /\ g["-ngl"] \in Seq(W) /\ g["-c"] \in Seq(W)
      /\ g["--vision-backend"] \in Seq(W) /\ g["--mmproj"] \in Seq(W)
      /\ g["--smt-config-dir"] \in Seq(W) /\ g["--media-path"] \in Seq(W)
      /\ g["--no-warmup"] \in Seq(W) /\ g["--reasoning"] \in Seq(W)
      /\ g["--reasoning-budget"] \in Seq(W)
  BY <1>6, <1>7, SettingsAre, Zenon
<1> HIDE DEF g
<1>9. \A f \in Names : g[f] \in Seq(W)
  BY <1>8 DEF Names, ValueOptions
<1> QED BY <1>9 DEF Lists, W, g

LEMMA PartMmproj ==
    ASSUME NEW A, NEW c, Fits(A, c), c.media_backend # "smt"
    PROVE  Part(A, c, Mmproj(c), {"--mmproj"})
<1>1. Mmproj(c) = Projectors(c.vision_model_paths)
  BY Zenon DEF Mmproj, Projectors, Projector
<1>2. c.vision_model_paths \in Seq(Seq(A))
  BY DEF Fits
<1>3. Tells(A, Projectors(c.vision_model_paths), Projected(c.vision_model_paths))
  BY <1>2, TellsProjectors
<1>4. Settings(c)["--mmproj"] = NotEmpty(c.vision_model_paths)
  BY SettingsAre
<1>5. Known(Settings(c), {"--mmproj"}) = Projected(c.vision_model_paths)
  BY <1>4 DEF Known, Projected
<1> QED BY <1>1, <1>3, <1>5 DEF Part

LEMMA PartMedia ==
    ASSUME NEW A, NEW c, Fits(A, c), c.vision_model_paths # <<>>
    PROVE  Part(A, c, Media(c), {"--smt-config-dir", "--mmproj"})
<1> DEFINE dir == "--smt-config-dir"
<1>0. dir \in ValueOptions /\ dir # "--mmproj"
  BY DEF ValueOptions
<1>1. c.media_backend \in {"smt", "mtmd", "auto"}
  BY DEF Fits
<1>2. /\ SmtConfigDir(c) \in Seq(A) /\ Lists(A, Settings(c))
  BY StringsFit, SettingsLists
<1>3. CASE c.media_backend = "smt"
  <2>1. Media(c) = With("--smt-config-dir", ShellQuote(SmtConfigDir(c)))
    BY <1>3 DEF Media
  <2>2. Settings(c)["--smt-config-dir"] = <<SmtConfigDir(c)>> /\ Settings(c)["--mmproj"] = <<>>
    BY <1>3, SettingsAre DEF When
  <2> HIDE DEF dir
  <2>3. Part(A, c, With(dir, ShellQuote(SmtConfigDir(c))), {dir})
    BY <1>0, <1>2, <2>2, PartQuoted DEF dir
  <2>4. Known(Settings(c), {dir}) = Known(Settings(c), {dir, "--mmproj"})
    BY <2>2 DEF Known
  <2> QED BY <2>1, <2>3, <2>4 DEF Part, dir
<1>4. CASE c.media_backend = "mtmd"
  <2>1. Media(c) = Mmproj(c)
    BY <1>4 DEF Media
  <2>2. Part(A, c, Mmproj(c), {"--mmproj"})
    BY <1>4, PartMmproj
  <2>3. Settings(c)["--smt-config-dir"] = <<>>
    BY <1>4, SettingsAre DEF When
  <2>4. Known(Settings(c), {"--mmproj"}) = Known(Settings(c), {dir, "--mmproj"})
    BY <2>3 DEF Known
  <2> QED BY <2>1, <2>2, <2>4 DEF Part
<1>5. CASE c.media_backend = "auto"
  <2> DEFINE x == IF c.smt_config_dir = <<>> THEN <<>>
                  ELSE With("--smt-config-dir", ShellQuote(c.smt_config_dir))
  <2>1. Media(c) = x \o Mmproj(c)
    BY <1>5 DEF Media
  <2>2. Part(A, c, Mmproj(c), {"--mmproj"})
    BY <1>5, PartMmproj
  <2>3. Part(A, c, x, {"--smt-config-dir"})
    <3>1. CASE c.smt_config_dir = <<>>
      <4>1. Settings(c)["--smt-config-dir"] = <<>>
        BY <1>5, <3>1, SettingsAre DEF When
      <4>2. \A f \in {"--smt-config-dir"} : Settings(c)[f] = <<>>
        BY <4>1
      <4>3. x = <<>>
        BY <3>1
      <4> QED BY <4>2, <4>3, PartNothing
    <3>2. CASE c.smt_config_dir # <<>>
      <4>1. SmtConfigDir(c) = c.smt_config_dir
        BY <3>2 DEF SmtConfigDir
      <4>2. Settings(c)["--smt-config-dir"] = <<c.smt_config_dir>>
        BY <1>5, <3>2, <4>1, SettingsAre DEF When
      <4>3. x = With("--smt-config-dir", ShellQuote(c.smt_config_dir))
        BY <3>2
      <4> HIDE DEF dir, x
      <4>4. Part(A, c, With(dir, ShellQuote(c.smt_config_dir)), {dir})
        BY <1>0, <1>2, <4>1, <4>2, PartQuoted DEF dir
      <4> QED BY <4>3, <4>4 DEF dir
    <3> QED BY <3>1, <3>2
  <2> HIDE DEF x
  <2>4. Part(A, c, x \o Mmproj(c), {"--smt-config-dir"} \cup {"--mmproj"})
    <3>1. {"--smt-config-dir"} \cap {"--mmproj"} = {}
      OBVIOUS
    <3> DEFINE D == {"--smt-config-dir"}
               E == {"--mmproj"}
    <3>2. Part(A, c, x, D) /\ Part(A, c, Mmproj(c), E) /\ D \cap E = {}
      BY <2>2, <2>3, <3>1
    <3> HIDE DEF D, E
    <3>3. Part(A, c, x \o Mmproj(c), D \cup E)
      BY <1>2, <3>2, PartBoth
    <3> QED BY <3>3 DEF D, E
  <2>5. {"--smt-config-dir"} \cup {"--mmproj"} = {"--smt-config-dir", "--mmproj"}
    OBVIOUS
  <2> QED BY <2>1, <2>4, <2>5
<1> QED BY <1>1, <1>3, <1>4, <1>5
LEMMA PartVision ==
    ASSUME NEW A, NEW c, Fits(A, c)
    PROVE  Part(A, c, Vision(c),
                {"--vision-backend", "--smt-config-dir", "--mmproj", "--media-path"})
<1> DEFINE D == {"--vision-backend"}
           E == {"--smt-config-dir", "--mmproj"}
           F == {"--media-path"}
           all == {"--vision-backend", "--smt-config-dir", "--mmproj", "--media-path"}
<1>0. D \cap E = {} /\ (D \cup E) \cap F = {} /\ (D \cup E) \cup F = all
  OBVIOUS
<1>1. Lists(A, Settings(c))
  BY SettingsLists
<1>2. CASE c.vision_model_paths = <<>>
  <2>1. NotEmpty(c.vision_model_paths) = <<>>
    BY <1>2, ProjectorsGrow
  <2>2. \A f \in all : Settings(c)[f] = <<>>
    <3>1. /\ Settings(c)["--vision-backend"] = <<>> /\ Settings(c)["--smt-config-dir"] = <<>>
          /\ Settings(c)["--mmproj"] = <<>> /\ Settings(c)["--media-path"] = <<>>
      BY <1>2, <2>1, SettingsAre DEF When
    <3> QED BY <3>1
  <2>3. Vision(c) = <<>>
    BY <1>2 DEF Vision
  <2> QED BY <2>2, <2>3, PartNothing
<1>3. CASE c.vision_model_paths # <<>>
  <2> DEFINE x == With("--vision-backend", <<c.media_backend>>)
             y == IF c.media_path = <<>> THEN <<>>
                  ELSE With("--media-path", ShellQuote(c.media_path))
  <2>1. Vision(c) = (x \o Media(c)) \o y
    BY <1>3 DEF Vision
  <2>2. Part(A, c, x, D)
    <3>1. Settings(c)["--vision-backend"] = <<<<c.media_backend>>>>
      BY <1>3, SettingsAre DEF When
    <3>2. "--vision-backend" \in ValueOptions
      BY DEF ValueOptions
    <3>3. c.media_backend \in A /\ c.media_backend \notin ShellSymbols
      BY DEF Fits, ConfigWords
    <3> QED BY <3>1, <3>2, <3>3, PartBare
  <2>3. Part(A, c, Media(c), E)
    BY <1>3, PartMedia
  <2>4. Part(A, c, y, F)
    <3>1. CASE c.media_path = <<>>
      <4>1. Settings(c)["--media-path"] = <<>>
        BY <3>1, SettingsAre DEF When
      <4>2. \A f \in F : Settings(c)[f] = <<>>
        BY <4>1
      <4>3. y = <<>>
        BY <3>1
      <4> QED BY <4>2, <4>3, PartNothing
    <3>2. CASE c.media_path # <<>>
      <4>1. Settings(c)["--media-path"] = <<c.media_path>>
        BY <1>3, <3>2, SettingsAre DEF When
      <4>2. "--media-path" \in ValueOptions /\ c.media_path \in Seq(A)
        BY StringsFit DEF ValueOptions
      <4>3. Part(A, c, With("--media-path", ShellQuote(c.media_path)), F)
        BY <4>1, <4>2, PartQuoted
      <4>4. y = With("--media-path", ShellQuote(c.media_path))
        BY <3>2
      <4> HIDE DEF y
      <4> QED BY <4>3, <4>4
    <3> QED BY <3>1, <3>2
  <2> HIDE DEF x, y, D, E, F, all
  <2>5. Part(A, c, x \o Media(c), D \cup E)
    BY <1>0, <1>1, <2>2, <2>3, PartBoth
  <2> DEFINE z == x \o Media(c)
             DE == D \cup E
  <2>6. Part(A, c, z, DE) /\ DE \cap F = {}
    BY <1>0, <2>5
  <2> HIDE DEF z, DE
  <2>7. Part(A, c, z \o y, DE \cup F)
    BY <1>1, <2>4, <2>6, PartBoth
  <2> QED BY <1>0, <2>1, <2>7 DEF z, DE, all
<1> QED BY <1>2, <1>3

LEMMA PartWarmup ==
    ASSUME NEW A, NEW c, Fits(A, c)
    PROVE  Part(A, c, IF c.no_warmup THEN Flag("--no-warmup") ELSE <<>>, {"--no-warmup"})
<1> DEFINE n == "--no-warmup"
<1>0. n \in A /\ n \notin ShellSymbols /\ n \notin ValueOptions /\ Shells(A)
  BY NamesAre DEF Fits, Names
<1>1. CASE ~c.no_warmup
  <2>1. Settings(c)["--no-warmup"] = <<>>
    BY <1>1, SettingsAre DEF When
  <2>2. \A f \in {n} : Settings(c)[f] = <<>>
    BY <2>1
  <2>3. Part(A, c, <<>>, {n})
    BY <2>2, PartNothing
  <2> QED BY <1>1, <2>3
<1>2. CASE c.no_warmup
  <2>1. Settings(c)["--no-warmup"] = <<<<>>>>
    BY <1>2, SettingsAre DEF When
  <2> HIDE DEF n
  <2>2. Tells(A, <<"blank">> \o <<n>>, Only(n, <<>>))
    BY <1>0, TellsFlag
  <2>3. "blank" \in A
    BY <1>0 DEF Shells
  <2>4. <<"blank">> \o <<n>> = <<"blank", n>>
    BY ONLY <1>0, <2>3, TwoIs
  <2>5. Known(Settings(c), {n}) = Only(n, <<>>)
    BY <2>1, KnownOne DEF n
  <2>6. Part(A, c, Flag(n), {n})
    BY <2>2, <2>4, <2>5 DEF Part, Flag
  <2> QED BY <1>2, <2>6 DEF n
<1> QED BY <1>1, <1>2

LEMMA PartReasoning ==
    ASSUME NEW A, NEW c, Fits(A, c)
    PROVE  Part(A, c, Reasoning(c), {"--reasoning", "--reasoning-budget"})
<1> DEFINE D == {"--reasoning"}
           E == {"--reasoning-budget"}
           off == With("--reasoning", <<"off">>)
           on == With("--reasoning", <<"on">>)
           budget == IF c.reasoning_budget > 0
                     THEN With("--reasoning-budget", Number(c.reasoning_budget)) ELSE <<>>
<1>0. /\ D \cap E = {} /\ D \cup E = {"--reasoning", "--reasoning-budget"}
      /\ "--reasoning" \in ValueOptions /\ "--reasoning-budget" \in ValueOptions
  BY DEF ValueOptions
<1>1. Lists(A, Settings(c)) /\ "on" \in A /\ "off" \in A
      /\ "on" \notin ShellSymbols /\ "off" \notin ShellSymbols
  BY SettingsLists DEF Fits, ShellSymbols
<1>2. CASE ~c.enable_thinking
  <2>1. Settings(c)["--reasoning"] = <<<<"off">>>> /\ Settings(c)["--reasoning-budget"] = <<>>
    BY <1>2, SettingsAre DEF When
  <2>2. Part(A, c, off, D)
    BY <1>0, <1>1, <2>1, PartBare
  <2>3. Known(Settings(c), D) = Known(Settings(c), {"--reasoning", "--reasoning-budget"})
    BY <2>1 DEF Known
  <2>4. Reasoning(c) = off
    BY <1>2 DEF Reasoning
  <2> HIDE DEF off, D
  <2> QED BY <2>2, <2>3, <2>4 DEF Part
<1>3. CASE c.enable_thinking
  <2>1. Settings(c)["--reasoning"] = <<<<"on">>>>
    BY <1>3, SettingsAre
  <2>2. Part(A, c, on, D)
    BY <1>0, <1>1, <2>1, PartBare
  <2>3. Part(A, c, budget, E)
    <3>1. CASE ~(c.reasoning_budget > 0)
      <4>1. Settings(c)["--reasoning-budget"] = <<>>
        BY <3>1, SettingsAre DEF When
      <4>2. \A f \in E : Settings(c)[f] = <<>>
        BY <4>1
      <4>3. budget = <<>>
        BY <3>1
      <4> QED BY <4>2, <4>3, PartNothing
    <3>2. CASE c.reasoning_budget > 0
      <4>1. Settings(c)["--reasoning-budget"] = <<Number(c.reasoning_budget)>>
        BY <1>3, <3>2, SettingsAre DEF When
      <4>2. c.reasoning_budget \in ConfigNumbers(c)
        BY DEF ConfigNumbers
      <4>3. Part(A, c, With("--reasoning-budget", Number(c.reasoning_budget)), E)
        BY <1>0, <4>1, <4>2, PartNumber
      <4>4. budget = With("--reasoning-budget", Number(c.reasoning_budget))
        BY <3>2
      <4> HIDE DEF budget
      <4> QED BY <4>3, <4>4
    <3> QED BY <3>1, <3>2
  <2>4. Reasoning(c) = on \o budget
    BY <1>3 DEF Reasoning
  <2> HIDE DEF on, budget, D, E
  <2>5. Part(A, c, on \o budget, D \cup E)
    BY <1>0, <1>1, <2>2, <2>3, PartBoth
  <2> QED BY <1>0, <2>4, <2>5
<1> QED BY <1>2, <1>3

(* The program, run by taskset if it is bound to CPUs.                     *)
Program(c) ==
    (IF c.cpu_affinity = <<>> THEN <<>>
     ELSE <<"taskset">> \o With("-c", ShellQuote(c.cpu_affinity)) \o <<"blank">>)
    \o <<"llama-server">>

LEMMA ProgramBegins ==
    ASSUME NEW A, NEW c, Fits(A, c)
    PROVE  Begins(A, c, Program(c), {"-c"})
<1> DEFINE g == Settings(c)
           n == "llama-server"
           t == "taskset"
           D == {"-c"}
           none == {}
<1>0. /\ n \in A /\ t \in A /\ n \notin ShellSymbols /\ t \notin ShellSymbols
      /\ n \notin ValueOptions /\ t \notin ValueOptions /\ n \notin Names /\ t \notin Names
      /\ "-c" \in ValueOptions /\ Shells(A) /\ "blank" \in A
  BY DEF Fits, Shells, ShellSymbols, ValueOptions, Names
<1>1. Lists(A, g) /\ c.cpu_affinity \in Seq(A)
  BY SettingsLists, StringsFit
<1> HIDE DEF n, t
<1>2. Only(n, <<>>) = Known(g, none) /\ Only(t, <<>>) = Known(g, none)
  BY <1>0 DEF Only, Known
<1>3. Starts(A, <<n>>, Only(n, <<>>)) /\ Starts(A, <<t>>, Only(t, <<>>))
  BY <1>0, StartsWord
<1>4. Begins(A, c, <<n>>, none) /\ Begins(A, c, <<t>>, none)
  BY <1>2, <1>3 DEF Begins
<1>5. CASE c.cpu_affinity = <<>>
  <2>1. g["-c"] = <<>>
    BY <1>5, SettingsAre DEF When
  <2>2. Known(g, none) = Known(g, D)
    BY <2>1 DEF Known
  <2>3. Program(c) = <<>> \o <<n>>
    BY <1>5 DEF Program, n
  <2>4. Program(c) = <<n>>
    BY <1>0, <2>3, ConcatEmptySeq
  <2> QED BY <1>4, <2>2, <2>4 DEF Begins
<1>6. CASE c.cpu_affinity # <<>>
  <2> DEFINE w == With("-c", ShellQuote(c.cpu_affinity))
             b == <<"blank">>
             tw == <<t>> \o w
             bn == b \o <<n>>
  <2>1. g["-c"] = <<c.cpu_affinity>>
    BY <1>6, SettingsAre DEF When
  <2>2. Part(A, c, w, D)
    BY <1>0, <1>1, <2>1, PartQuoted
  <2>3. Program(c) = (<<t>> \o w \o b) \o <<n>>
    BY <1>6 DEF Program, n, t
  <2>4. Part(A, c, bn, none)
    <3>1. Tells(A, <<"blank">> \o <<n>>, Only(n, <<>>))
      BY <1>0, TellsFlag
    <3> QED BY <1>2, <3>1 DEF Part
  <2>5. tw \in Seq(A)
    <3>1. Tells(A, w, Known(Settings(c), D))
      BY <2>2 DEF Part
    <3>2. w \in Seq(A)
      BY <3>1 DEF Tells, Says
    <3> HIDE DEF w
    <3> QED BY <1>0, <3>2
  <2> HIDE DEF w, D, none
  <2>6. Begins(A, c, tw, D)
    <3>1. none \cap D = {} /\ none \cup D = D
      BY DEF none
    <3>2. Begins(A, c, <<t>> \o w, none \cup D)
      BY <1>1, <1>4, <2>2, <3>1, BeginsBoth
    <3> QED BY <3>1, <3>2
  <2>7. Program(c) = tw \o bn
    <3>1. b \in Seq(A) /\ <<n>> \in Seq(A) /\ tw \in Seq(A)
      BY <1>0, <2>5
    <3>2. Program(c) = (tw \o b) \o <<n>>
      BY <2>3
    <3> DEFINE q == <<n>>
    <3> HIDE DEF tw, b, q
    <3>3. (tw \o b) \o q = tw \o (b \o q)
      BY <3>1 DEF q
    <3> QED BY <3>2, <3>3 DEF q
  <2>8. Begins(A, c, tw \o bn, D)
    <3>1. D \cap none = {} /\ D \cup none = D
      BY DEF none
    <3> HIDE DEF tw, bn
    <3>2. Begins(A, c, tw \o bn, D \cup none)
      BY <1>1, <2>4, <2>6, <3>1, BeginsBoth
    <3> QED BY <3>1, <3>2
  <2> QED BY <2>7, <2>8 DEF D
<1> QED BY <1>5, <1>6
-----------------------------------------------------------------------------
(* The whole of it.                                                        *)
LEMMA CommandBegins ==
    ASSUME NEW A, NEW c, Fits(A, c)
    PROVE  Begins(A, c, BuildLlamaServerCommand(c), Names)
<1> DEFINE c0 == Program(c)
           y1 == With("-m", ShellQuote(c.text_model_path))
           y2 == With("--port", Number(c.port))
           y3 == With("--ctx-size", Number(c.context_size))
           y4 == With("-t", Number(c.threads))
           y5 == With("-tb", Number(c.batch_threads))
           y6 == With("--host", ShellQuote(c.host))
           y7 == With("-ngl", Number(c.n_gpu_layers))
           y8 == Vision(c)
           y9 == (IF c.no_warmup THEN Flag("--no-warmup") ELSE <<>>)
           y10 == Reasoning(c)
           c1 == c0 \o y1
           c2 == c1 \o y2
           c3 == c2 \o y3
           c4 == c3 \o y4
           c5 == c4 \o y5
           c6 == c5 \o y6
           c7 == c6 \o y7
           c8 == c7 \o y8
           c9 == c8 \o y9
           c10 == c9 \o y10
           D0 == {"-c"}
           E1 == {"-m"}
           E2 == {"--port"}
           E3 == {"--ctx-size"}
           E4 == {"-t"}
           E5 == {"-tb"}
           E6 == {"--host"}
           E7 == {"-ngl"}
           E8 == {"--vision-backend", "--smt-config-dir", "--mmproj", "--media-path"}
           E9 == {"--no-warmup"}
           E10 == {"--reasoning", "--reasoning-budget"}
           D1 == D0 \cup E1
           D2 == D1 \cup E2
           D3 == D2 \cup E3
           D4 == D3 \cup E4
           D5 == D4 \cup E5
           D6 == D5 \cup E6
           D7 == D6 \cup E7
           D8 == D7 \cup E8
           D9 == D8 \cup E9
           D10 == D9 \cup E10
<1>1. BuildLlamaServerCommand(c) = c10
  BY DEF BuildLlamaServerCommand, Program
<1>2. D10 = Names
  BY DEF Names, ValueOptions
<1>3. /\ D0 \cap E1 = {}
      /\ D1 \cap E2 = {}
      /\ D2 \cap E3 = {}
      /\ D3 \cap E4 = {}
      /\ D4 \cap E5 = {}
      /\ D5 \cap E6 = {}
      /\ D6 \cap E7 = {}
      /\ D7 \cap E8 = {}
      /\ D8 \cap E9 = {}
      /\ D9 \cap E10 = {}
  OBVIOUS
<1>4. /\ {"-m", "--host", "--port", "--ctx-size", "-t", "-tb", "-ngl"} \subseteq ValueOptions
      /\ {c.port, c.context_size, c.threads, c.batch_threads, c.n_gpu_layers}
            \subseteq ConfigNumbers(c)
  BY DEF ValueOptions, ConfigNumbers
<1>5. c.text_model_path \in Seq(A) /\ c.host \in Seq(A) /\ Lists(A, Settings(c))
  BY StringsFit, SettingsLists
<1>6. /\ Part(A, c, y1, E1) /\ Part(A, c, y6, E6)
  BY <1>4, <1>5, SettingsAre, PartQuoted
<1>7. /\ Part(A, c, y2, E2)
      /\ Part(A, c, y3, E3)
      /\ Part(A, c, y4, E4)
      /\ Part(A, c, y5, E5)
      /\ Part(A, c, y7, E7)
  BY <1>4, SettingsAre, PartNumber
<1>8. Part(A, c, y8, E8) /\ Part(A, c, y9, E9) /\ Part(A, c, y10, E10)
  BY PartVision, PartWarmup, PartReasoning
<1>9. Begins(A, c, c0, D0)
  BY ProgramBegins
<1> HIDE DEF y1, E1, y2, E2, y3, E3, y4, E4, y5, E5, y6, E6, y7, E7, y8, E8, y9, E9, y10, E10, c0, D0
<1>10. Begins(A, c, c1, D1)
  BY <1>3, <1>5, <1>6, <1>9, BeginsBoth
<1> HIDE DEF c1, D1
<1>11. Begins(A, c, c2, D2)
  BY <1>3, <1>5, <1>7, <1>10, BeginsBoth
<1> HIDE DEF c2, D2
<1>12. Begins(A, c, c3, D3)
  BY <1>3, <1>5, <1>7, <1>11, BeginsBoth
<1> HIDE DEF c3, D3
<1>13. Begins(A, c, c4, D4)
  BY <1>3, <1>5, <1>7, <1>12, BeginsBoth
<1> HIDE DEF c4, D4
<1>14. Begins(A, c, c5, D5)
  BY <1>3, <1>5, <1>7, <1>13, BeginsBoth
<1> HIDE DEF c5, D5
<1>15. Begins(A, c, c6, D6)
  BY <1>3, <1>5, <1>6, <1>14, BeginsBoth
<1> HIDE DEF c6, D6
<1>16. Begins(A, c, c7, D7)
  BY <1>3, <1>5, <1>7, <1>15, BeginsBoth
<1> HIDE DEF c7, D7
<1>17. Begins(A, c, c8, D8)
  BY <1>3, <1>5, <1>8, <1>16, BeginsBoth
<1> HIDE DEF c8, D8
<1>18. Begins(A, c, c9, D9)
  BY <1>3, <1>5, <1>8, <1>17, BeginsBoth
<1> HIDE DEF c9, D9
<1>19. Begins(A, c, c10, D10)
  BY <1>3, <1>5, <1>8, <1>18, BeginsBoth
<1> QED BY <1>1, <1>2, <1>19

LEMMA CommandSaysTheConfig ==
    ASSUME NEW A, NEW c, Fits(A, c)
    PROVE  SaysTheConfig(ShellWords(BuildLlamaServerCommand(c)), c)
<1> DEFINE words == ShellWords(BuildLlamaServerCommand(c))
<1>1. Starts(A, BuildLlamaServerCommand(c), Known(Settings(c), Names))
  BY CommandBegins DEF Begins
<1>2. \A f \in Names : Values(Options(words), f) = Known(Settings(c), Names)[f]
  BY <1>1, StartsRead
<1> HIDE DEF words
<1>3. \A f \in Names : Values(Options(words), f) = Settings(c)[f]
  BY <1>2 DEF Known
<1>4. \A f \in {"-m", "--port", "--ctx-size", "-t", "-tb", "--host", "-ngl", "-c",
                "--vision-backend", "--mmproj", "--smt-config-dir", "--media-path",
                "--no-warmup", "--reasoning", "--reasoning-budget"} :
          Values(Options(words), f) = Settings(c)[f]
  BY <1>3 DEF Names, ValueOptions
<1>5. SaysTheConfig(words, c)
  BY <1>4, SettingsAre, Zenon DEF SaysTheConfig
<1> QED BY <1>5 DEF words

LEMMA GivenFits ==
    ASSUME NEW g, g \in Given
    PROVE  \E A : Fits(A, g.config)
<1> DEFINE c == g.config
           U == UNION {Range(s) : s \in ConfigStrings(c)}
           A == U \cup ConfigWords(c) \cup Names \cup ShellSymbols
                \cup {"on", "off", "taskset", "llama-server"}
<1>1. /\ \A s \in ConfigStrings(c) : s \in Seq(Range(s))
      /\ c.vision_model_paths \in Seq(Range(c.vision_model_paths))
      /\ ConfigWords(c) \cap ShellSymbols = {}
      /\ c.media_backend \in {"smt", "mtmd", "auto"}
      /\ c.no_warmup \in BOOLEAN /\ c.enable_thinking \in BOOLEAN
  BY GivenAssumption DEF IsString
<1>2. /\ Names \subseteq A /\ ShellSymbols \subseteq A
      /\ {"on", "off", "taskset", "llama-server"} \subseteq A
      /\ ConfigWords(c) \subseteq A \ ShellSymbols
      /\ \A s \in ConfigStrings(c) : Range(s) \subseteq A
  <2>1. \A s \in ConfigStrings(c) : Range(s) \subseteq U
    OBVIOUS
  <2> HIDE DEF U, c
  <2> QED BY <1>1, <2>1
<1>3. Range(c.vision_model_paths) \subseteq ConfigStrings(c)
  BY DEF ConfigStrings
<1> HIDE DEF A, U, c
<1>4. ConfigStrings(c) \subseteq Seq(A)
  <2>1. ASSUME NEW s \in ConfigStrings(c)
        PROVE  s \in Seq(A)
    <3>1. s \in Seq(Range(s)) /\ Range(s) \subseteq A
      BY <1>1, <1>2
    <3> QED BY <3>1
  <2> QED BY <2>1
<1>5. c.vision_model_paths \in Seq(Seq(A))
  <2>1. Range(c.vision_model_paths) \subseteq Seq(A)
    BY <1>3, <1>4
  <2> DEFINE R == Range(c.vision_model_paths)
             W == Seq(A)
             p == c.vision_model_paths
  <2>2. p \in Seq(R) /\ R \subseteq W
    BY <1>1, <2>1
  <2> HIDE DEF R, W, p
  <2>3. p \in Seq(W)
    BY <2>2
  <2> QED BY <2>3 DEF W, p
<1>6. Shells(A)
  BY <1>2 DEF Shells, ShellSymbols
<1>7. Fits(A, c)
  BY <1>1, <1>2, <1>4, <1>5, <1>6 DEF Fits
<1> QED BY <1>7 DEF c

Commanded ==
    /\ given \in Given
    /\ argv = <<>> \/ argv = <<ShellWords(BuildLlamaServerCommand(config))>>

LEMMA CommandedStep == Commanded /\ [Next]_vars => Commanded'
<1> SUFFICES ASSUME Commanded, [Next]_vars
             PROVE  Commanded'
  OBVIOUS
<1>1. given' = given /\ config' = config
  BY DEF Next, vars, scenario, config, StartServer, StartServerFails, TakeImage,
         ImageUnreadable, Mkstemp, MkstempFails, WritePayload, Popen, PopenFails, Serve,
         Refuse, RequestFails, Finish
<1>2. CASE StartServer
  BY <1>1, <1>2 DEF StartServer, Commanded
<1>3. CASE UNCHANGED argv
  BY <1>1, <1>3 DEF Commanded
<1>4. StartServer \/ UNCHANGED argv
  BY DEF Next, vars, scenario, StartServerFails, TakeImage,
         ImageUnreadable, Mkstemp, MkstempFails, WritePayload, Popen, PopenFails, Serve,
         Refuse, RequestFails, Finish
<1> QED BY <1>2, <1>3, <1>4

(* llama-server is started with the settings of config_, whatever its      *)
(* paths, host and CPU list hold: what sh -c makes of the command line of  *)
(* BuildLlamaServerCommand has each of them as one word, unchanged, after  *)
(* its option, and has options exactly where the configuration asks.       *)
THEOREM SettingsAreTold == Spec => []ServerIsToldTheSettings
<1>1. Init => Commanded
  BY DEF Init, Commanded
<1>2. Commanded => ServerIsToldTheSettings
  <2> SUFFICES ASSUME Commanded, argv # <<>>
               PROVE  SaysTheConfig(argv[1], config)
    BY DEF ServerIsToldTheSettings
  <2>1. PICK A : Fits(A, config)
    BY GivenFits DEF Commanded, config
  <2>2. SaysTheConfig(ShellWords(BuildLlamaServerCommand(config)), config)
    BY <2>1, CommandSaysTheConfig
  <2>3. argv[1] = ShellWords(BuildLlamaServerCommand(config))
    BY DEF Commanded
  <2> QED BY <2>2, <2>3
<1> QED BY <1>1, <1>2, CommandedStep, PTL DEF Spec
-----------------------------------------------------------------------------
(* Searches.                                                               *)
LEMMA FindOne ==
    ASSUME NEW A, NEW s, s \in Seq(A), NEW x, NEW from, from \in Nat \ {0}, NEW f,
           f = Find(s, <<x>>, from)
    PROVE  /\ f \in Nat
           /\ f = 0 => \A i \in from..Len(s) : s[i] # x
           /\ f # 0 => /\ f \in from..Len(s) /\ s[f] = x
                       /\ \A i \in from..(f - 1) : s[i] # x
<1> DEFINE at == {i \in from..(Len(s) - Len(<<x>>) + 1) :
                     SubSeq(s, i, i + Len(<<x>>) - 1) = <<x>>}
           here == {i \in from..Len(s) : s[i] = x}
<1>0. Len(s) \in Nat /\ Len(<<x>>) = 1
  BY LenProperties
<1>1. ASSUME NEW i \in from..Len(s)
      PROVE  SubSeq(s, i, i + Len(<<x>>) - 1) = <<x>> <=> s[i] = x
  <2>1. i + Len(<<x>>) - 1 = i
    BY <1>0
  <2>2. SubSeq(s, i, i) = <<s[i]>>
    <3> DEFINE t == SubSeq(s, i, i)
               u == <<s[i]>>
    <3>0. i \in 1..Len(s)
      BY <1>0
    <3>1. s[i] \in A
      BY <3>0, ElementOfSeq
    <3>2. t \in Seq(A) /\ Len(t) = 1 /\ t[1] = s[i]
      BY ONLY s \in Seq(A), <3>0
    <3>3. u \in Seq(A) /\ Len(u) = 1 /\ u[1] = s[i]
      BY <3>1
    <3> HIDE DEF t, u
    <3>4. t = u
      <4>1. Len(t) = Len(u) /\ \A k \in 1..Len(t) : t[k] = u[k]
        BY <3>2, <3>3
      <4> QED BY <3>2, <3>3, <4>1, SeqEqual
    <3> QED BY <3>4 DEF t, u
  <2> QED BY <2>1, <2>2
<1>2. at = here
  BY <1>0, <1>1
<1>3. f = IF at = {} THEN 0 ELSE Min(at)
  BY Zenon DEF Find
<1> HIDE DEF at
<1>4. here \subseteq Nat
  BY <1>0
<1>5. here # {} => Min(here) \in here /\ \A y \in here : Min(here) <= y
  BY <1>4, MinIn
<1>6. CASE here = {}
  BY <1>2, <1>3, <1>6
<1>7. CASE here # {}
  <2>1. f \in here /\ \A y \in here : f <= y
    BY <1>2, <1>3, <1>5, <1>7
  <2> QED BY <1>0, <2>1
<1> QED BY <1>6, <1>7

(* Three symbols from position i on.                                       *)
Three(s, i, x, y, z) == s[i] = x /\ s[i + 1] = y /\ s[i + 2] = z

LEMMA FindThree ==
    ASSUME NEW A, NEW s, s \in Seq(A), NEW x, x \in A, NEW y, y \in A, NEW z, z \in A,
           NEW f, f \in 1..(Len(s) - 2), Three(s, f, x, y, z),
           \A i \in 1..(f - 1) : ~Three(s, i, x, y, z)
    PROVE  Find(s, <<x, y, z>>, 1) = f
<1> DEFINE p == <<x, y, z>>
           at == {i \in 1..(Len(s) - Len(p) + 1) : SubSeq(s, i, i + Len(p) - 1) = p}
<1>0. Len(s) \in Nat /\ p \in Seq(A) /\ Len(p) = 3 /\ p[1] = x /\ p[2] = y /\ p[3] = z
  BY LenProperties
<1>1. ASSUME NEW i \in 1..(Len(s) - 2)
      PROVE  SubSeq(s, i, i + Len(p) - 1) = p <=> Three(s, i, x, y, z)
  <2> DEFINE t == SubSeq(s, i, i + 2)
  <2>1. i + Len(p) - 1 = i + 2
    BY <1>0
  <2>2. t \in Seq(A) /\ Len(t) = 3 /\ t[1] = s[i] /\ t[2] = s[i + 1] /\ t[3] = s[i + 2]
    BY <1>0
  <2> HIDE DEF t, p
  <2>3. t = p <=> t[1] = p[1] /\ t[2] = p[2] /\ t[3] = p[3]
    <3>1. ASSUME t[1] = p[1] /\ t[2] = p[2] /\ t[3] = p[3]
          PROVE  t = p
      <4>1. Len(t) = Len(p) /\ \A k \in 1..Len(t) : t[k] = p[k]
        BY <1>0, <2>2, <3>1
      <4> QED BY <1>0, <2>2, <4>1, SeqEqual
    <3> QED BY <3>1
  <2> QED BY <1>0, <2>1, <2>2, <2>3 DEF Three, t
<1> HIDE DEF p
<1>2. f \in at /\ \A i \in at : f <= i
  <2>1. Len(s) - Len(p) + 1 = Len(s) - 2
    BY <1>0
  <2>2. \A i : i \in at <=> i \in 1..(Len(s) - 2) /\ Three(s, i, x, y, z)
    BY <1>1, <2>1
  <2> HIDE DEF at
  <2>3. ASSUME NEW i \in at
        PROVE  f <= i
    <3>1. i \in 1..(Len(s) - 2) /\ Three(s, i, x, y, z)
      BY <2>2
    <3>2. i \notin 1..(f - 1)
      BY <3>1
    <3> QED BY <1>0, <3>1, <3>2
  <2> QED BY <2>2, <2>3
<1>3. at \in SUBSET Int
  BY <1>0
<1>4. Min(at) = f
  BY <1>2, <1>3, MinIs
<1>5. Find(s, p, 1) = IF at = {} THEN 0 ELSE Min(at)
  BY Zenon DEF Find
<1> QED BY <1>2, <1>4, <1>5 DEF p

LEMMA SkipIs ==
    ASSUME NEW A, NEW s, s \in Seq(A), NEW i, i \in Nat \ {0}, NEW S,
           NEW e, e \in i..(Len(s) + 1), \A j \in i..(e - 1) : s[j] \in S,
           e <= Len(s) => s[e] \notin S
    PROVE  SkipAll(s, i, S) = e
<1> DEFINE T == {j \in i..Len(s) : s[j] \notin S} \cup {Len(s) + 1}
<1>0. Len(s) \in Nat
  BY LenProperties
<1>1. T \in SUBSET Int /\ e \in T /\ \A j \in T : e <= j
  BY <1>0
<1>2. Min(T) = e
  BY <1>1, MinIs
<1> QED BY <1>2, Zenon DEF SkipAll
-----------------------------------------------------------------------------
(* A function on 1..N whose value at a position is taken from a later one. *)
Chain(N, V, stop, a, next, h) ==
    /\ N \in Nat /\ a \in [1..N -> V] /\ h \in [(1..N) \X V -> V]
    /\ \A i \in (1..N) \ stop : next[i] \in 1..N /\ next[i] > i

Chained(N, stop, a, next, h, g, n) ==
    \A i \in 1..N : i > n => g[i] = IF i \in stop THEN a[i] ELSE h[<<i, g[next[i]]>>]

LEMMA ChainExists ==
    ASSUME NEW N, NEW V, NEW stop, NEW a, NEW next, NEW h, Chain(N, V, stop, a, next, h)
    PROVE  \E g \in [1..N -> V] :
              \A i \in 1..N : g[i] = IF i \in stop THEN a[i] ELSE h[<<i, g[next[i]]>>]
<1>0. /\ N \in Nat /\ a \in [1..N -> V] /\ h \in [(1..N) \X V -> V]
      /\ \A i \in (1..N) \ stop : next[i] \in 1..N /\ next[i] > i
  BY DEF Chain
<1> DEFINE B == {k \in Nat : k <= N =>
                    \E g \in [1..N -> V] : Chained(N, stop, a, next, h, g, N - k)}
<1>1. 0 \in B
  <2>1. Chained(N, stop, a, next, h, a, N - 0)
    BY <1>0 DEF Chained
  <2> QED BY <1>0, <2>1
<1>2. ASSUME NEW k \in Nat, k \in B
      PROVE  k + 1 \in B
  <2> SUFFICES ASSUME k + 1 <= N
               PROVE  \E g \in [1..N -> V] : Chained(N, stop, a, next, h, g, N - (k + 1))
    OBVIOUS
  <2>1. PICK g \in [1..N -> V] : Chained(N, stop, a, next, h, g, N - k)
    BY <1>0, <1>2
  <2> DEFINE m == N - k
             v == IF m \in stop THEN a[m] ELSE h[<<m, g[next[m]]>>]
             d == [g EXCEPT ![m] = v]
  <2>2. m \in 1..N /\ N - (k + 1) = m - 1 /\ m \in Int
    BY <1>0
  <2>3. v \in V
    <3>1. CASE m \in stop
      BY <1>0, <2>2, <3>1
    <3>2. CASE m \notin stop
      <4>1. next[m] \in 1..N
        BY <1>0, <2>2, <3>2
      <4>2. <<m, g[next[m]]>> \in (1..N) \X V
        BY <2>2, <4>1
      <4> QED BY <1>0, <3>2, <4>2
    <3> QED BY <3>1, <3>2
  <2>4. /\ d \in [1..N -> V] /\ d[m] = v /\ \A i \in 1..N : i # m => d[i] = g[i]
    BY <2>2, <2>3
  <2>5. ASSUME NEW i \in 1..N, i > m - 1
        PROVE  d[i] = IF i \in stop THEN a[i] ELSE h[<<i, d[next[i]]>>]
    <3>1. i \notin stop => d[next[i]] = g[next[i]]
      <4> SUFFICES ASSUME i \notin stop
                   PROVE  d[next[i]] = g[next[i]]
        OBVIOUS
      <4>1. next[i] \in 1..N /\ next[i] > i
        BY <1>0
      <4> HIDE DEF d, m
      <4> QED BY <2>2, <2>4, <2>5, <4>1
    <3>2. CASE i = m
      <4> HIDE DEF d
      <4> QED BY <2>4, <3>1, <3>2
    <3>3. CASE i # m
      <4>1. i > m
        BY <2>2, <2>5, <3>3
      <4>2. g[i] = IF i \in stop THEN a[i] ELSE h[<<i, g[next[i]]>>]
        BY <2>1, <4>1 DEF Chained
      <4> HIDE DEF d, m
      <4> QED BY <2>4, <3>1, <3>3, <4>2
    <3> QED BY <3>2, <3>3
  <2> HIDE DEF d, m
  <2>6. Chained(N, stop, a, next, h, d, N - (k + 1))
    BY <2>2, <2>5 DEF Chained
  <2> QED BY <2>4, <2>6
<1>3. Nat \subseteq B
  <2> HIDE DEF B
  <2> QED BY <1>1, <1>2, SetInduction
<1>4. N - N = 0 /\ N <= N /\ N \in B
  <2>1. N \in B
    BY <1>0, <1>3
  <2> HIDE DEF B
  <2> QED BY <1>0, <2>1
<1>5. PICK g \in [1..N -> V] : Chained(N, stop, a, next, h, g, N - N)
  BY <1>0, <1>4
<1> QED BY <1>4, <1>5 DEF Chained
-----------------------------------------------------------------------------
(* A piece p of s, after off symbols.                                      *)
Here(s, off, p) ==
    /\ off \in Nat /\ off + Len(p) <= Len(s)
    /\ \A i \in 1..Len(p) : s[off + i] = p[i]

LEMMA HereAll == \A A : \A s \in Seq(A) : Here(s, 0, s)
BY LenProperties DEF Here

LEMMA ConcatIs ==
    ASSUME NEW A, NEW p, p \in Seq(A), NEW q, q \in Seq(A), NEW r, r = p \o q
    PROVE  /\ r \in Seq(A) /\ Len(p) \in Nat /\ Len(q) \in Nat
           /\ Len(r) = Len(p) + Len(q)
           /\ \A i \in 1..Len(p) : r[i] = p[i]
           /\ \A i \in 1..Len(q) : r[Len(p) + i] = q[i]
<1>1. Len(p) \in Nat /\ Len(q) \in Nat
  BY LenProperties
<1> QED BY <1>1, ConcatProperties

LEMMA HereBoth ==
    ASSUME NEW A, NEW s, NEW off, NEW p, p \in Seq(A), NEW q, q \in Seq(A), Here(s, off, p \o q)
    PROVE  Here(s, off, p) /\ Here(s, off + Len(p), q)
<1> DEFINE r == p \o q
<1>1. /\ Len(p) \in Nat /\ Len(q) \in Nat /\ Len(r) = Len(p) + Len(q)
      /\ \A i \in 1..Len(p) : r[i] = p[i]
      /\ \A i \in 1..Len(q) : r[Len(p) + i] = q[i]
  BY ConcatIs
<1>2. Here(s, off, r)
  OBVIOUS
<1> HIDE DEF r
<1>3. /\ off \in Nat /\ off + Len(r) <= Len(s) /\ \A i \in 1..Len(r) : s[off + i] = r[i]
  BY <1>2 DEF Here
<1>4. Len(s) >= off + Len(p) + Len(q) \/ ~(Len(s) >= off + Len(p))
  BY <1>1, <1>3
<1>5. \A i \in 1..Len(p) : s[off + i] = p[i]
  BY <1>1, <1>3
<1>6. \A i \in 1..Len(q) : s[(off + Len(p)) + i] = q[i]
  <2> SUFFICES ASSUME NEW i \in 1..Len(q)
               PROVE  s[(off + Len(p)) + i] = q[i]
    OBVIOUS
  <2>1. Len(p) + i \in 1..Len(r) /\ (off + Len(p)) + i = off + (Len(p) + i)
    BY <1>1, <1>3
  <2> QED BY <1>1, <1>3, <2>1
<1>7. off + Len(p) <= Len(s) /\ (off + Len(p)) + Len(q) <= Len(s)
  BY <1>1, <1>3
<1> QED BY <1>1, <1>3, <1>5, <1>6, <1>7 DEF Here

LEMMA PrefixGrows ==
    ASSUME NEW A, NEW s, s \in Seq(A), NEW k, k \in Nat, k < Len(s)
    PROVE  /\ SubSeq(s, 1, k) \in Seq(A) /\ s[k + 1] \in A
           /\ SubSeq(s, 1, k + 1) = Append(SubSeq(s, 1, k), s[k + 1])
           /\ SubSeq(s, k + 1, Len(s)) = <<s[k + 1]>> \o SubSeq(s, k + 2, Len(s))
           /\ SubSeq(s, k + 2, Len(s)) \in Seq(A)
<1>0. Len(s) \in Nat /\ s[k + 1] \in A
  BY LenProperties, ElementOfSeq
<1> DEFINE p == SubSeq(s, 1, k)
           q == SubSeq(s, 1, k + 1)
           u == SubSeq(s, k + 1, Len(s))
           v == SubSeq(s, k + 2, Len(s))
           t == Append(p, s[k + 1])
           w == <<s[k + 1]>> \o v
<1>1. p \in Seq(A) /\ q \in Seq(A) /\ u \in Seq(A) /\ v \in Seq(A)
  BY <1>0
<1>2. /\ Len(p) = k /\ Len(q) = k + 1 /\ Len(u) = Len(s) - k /\ Len(v) = Len(s) - (k + 1)
      /\ \A i \in 1..k : p[i] = s[i]
      /\ \A i \in 1..(k + 1) : q[i] = s[i]
      /\ \A i \in 1..(Len(s) - k) : u[i] = s[k + i]
      /\ \A i \in 1..(Len(s) - (k + 1)) : v[i] = s[(k + 1) + i]
  BY <1>0
<1> HIDE DEF p, q, u, v
<1>3. /\ t \in Seq(A) /\ Len(t) = k + 1 /\ t[k + 1] = s[k + 1]
      /\ \A i \in 1..k : t[i] = s[i]
  BY <1>0, <1>1, <1>2
<1>4. /\ w \in Seq(A) /\ Len(w) = Len(s) - k /\ w[1] = s[k + 1]
      /\ \A i \in 1..(Len(s) - (k + 1)) : w[1 + i] = s[(k + 1) + i]
  <2> DEFINE x == <<s[k + 1]>>
             n == Len(s) - (k + 1)
  <2>1. x \in Seq(A) /\ Len(x) = 1 /\ x[1] = s[k + 1]
    BY <1>0
  <2>2. n \in Nat /\ Len(v) = n /\ 1 + n = Len(s) - k
    BY <1>0, <1>2
  <2>3. w = x \o v
    OBVIOUS
  <2> HIDE DEF x, n, w
  <2>4. /\ w \in Seq(A) /\ Len(w) = 1 + n /\ w[1] = x[1]
        /\ \A i \in 1..n : w[1 + i] = v[i]
    <3>1. /\ w \in Seq(A) /\ Len(w) = Len(x) + Len(v)
          /\ \A i \in 1..Len(x) : w[i] = x[i]
          /\ \A i \in 1..Len(v) : w[Len(x) + i] = v[i]
      <4>1. x \in Seq(A) /\ v \in Seq(A) /\ w = x \o v
        BY <1>1, <2>1, <2>3
      <4> QED BY ONLY <4>1, ConcatIs
    <3> QED BY <2>1, <2>2, <3>1
  <2> QED BY <1>2, <2>1, <2>2, <2>4 DEF n
<1> HIDE DEF t, w
<1>5. q = t
  <2>1. Len(q) = Len(t) /\ \A i \in 1..Len(q) : q[i] = t[i]
    BY <1>2, <1>3
  <2> QED BY <1>1, <1>3, <2>1, SeqEqual
<1>6. u = w
  <2>1. ASSUME NEW i \in 1..(Len(s) - k)
        PROVE  u[i] = w[i]
    <3>1. CASE i = 1
      BY <1>0, <1>2, <1>4, <3>1
    <3>2. CASE i # 1
      <4>1. i - 1 \in 1..(Len(s) - (k + 1)) /\ 1 + (i - 1) = i /\ (k + 1) + (i - 1) = k + i
        BY <1>0, <3>2
      <4> DEFINE j == i - 1
      <4>2. w[1 + j] = s[(k + 1) + j]
        BY <1>4, <4>1
      <4>3. u[i] = s[k + i]
        BY <1>2
      <4> QED BY <4>1, <4>2, <4>3
    <3> QED BY <3>1, <3>2
  <2>2. Len(u) = Len(w) /\ \A i \in 1..Len(u) : u[i] = w[i]
    BY <1>2, <1>4, <2>1
  <2> QED BY <1>1, <1>4, <2>2, SeqEqual
<1> QED BY <1>0, <1>1, <1>5, <1>6 DEF p, q, u, v, t, w

-----------------------------------------------------------------------------
(* How the server writes a text.                                           *)
Dumped(c) == IF c = "control" THEN <<"backslash", "u001b">> ELSE Escape(c)
Dumps(A) == {"backslash", "quote", "newline", "n", "u001b"} \subseteq A

LEMMA DumpSteps ==
    ASSUME NEW A, Dumps(A)
    PROVE  /\ JsonDump(<<>>) = <<>>
           /\ \A s \in Seq(A) : JsonDump(s) \in Seq(A)
           /\ \A c \in A : Dumped(c) \in Seq(A) /\ JsonDump(<<c>>) = Dumped(c)
           /\ \A s \in Seq(A) : \A c \in A : JsonDump(Append(s, c)) = JsonDump(s) \o Dumped(c)
           /\ \A s \in Seq(A) : \A t \in Seq(A) : JsonDump(s \o t) = JsonDump(s) \o JsonDump(t)
<1> DEFINE m == [c \in A |-> Dumped(c)]
<1>1. MapsTo(A, A, m)
  <2>1. \A c \in A : Dumped(c) \in Seq(A)
    BY DEF Dumped, Escape, Dumps
  <2> QED BY <2>1 DEF MapsTo
<1>2. \A c \in A : m[c] = Dumped(c)
  OBVIOUS
<1>3. ASSUME NEW s, s \in Seq(A)
      PROVE  JsonDump(s) = Flat(m, s)
  <2>1. DOMAIN s = 1..Len(s) /\ \A i \in 1..Len(s) : s[i] \in A
    BY <1>3, LenProperties, ElementOfSeq
  <2>2. [i \in DOMAIN s |-> IF s[i] = "control" THEN <<"backslash", "u001b">>
                                                ELSE Escape(s[i])] = Mapped(m, s)
    BY <2>1, Zenon DEF Mapped, Dumped
  <2> QED BY <2>2, Zenon DEF JsonDump, Flat
<1> HIDE DEF m
<1>4. JsonDump(<<>>) = <<>>
  BY <1>1, <1>3, EmptySeq, FlatSteps
<1>5. ASSUME NEW s, s \in Seq(A)
      PROVE  JsonDump(s) \in Seq(A)
  BY <1>1, <1>3, <1>5, FlatSteps
<1>6. ASSUME NEW c, c \in A
      PROVE  Dumped(c) \in Seq(A) /\ JsonDump(<<c>>) = Dumped(c)
  <2>1. <<c>> \in Seq(A)
    BY <1>6
  <2>2. Flat(m, <<c>>) = m[c] /\ m[c] \in Seq(A)
    BY ONLY <1>1, <1>6, FlatSteps
  <2> QED BY <1>2, <1>3, <1>6, <2>1, <2>2
<1>7. ASSUME NEW s, s \in Seq(A), NEW c, c \in A
      PROVE  JsonDump(Append(s, c)) = JsonDump(s) \o Dumped(c)
  <2> DEFINE u == Append(s, c)
  <2>1. u \in Seq(A)
    BY <1>7
  <2>2. Flat(m, u) = Flat(m, s) \o m[c]
    BY ONLY <1>1, <1>7, FlatSteps
  <2> HIDE DEF u
  <2>3. JsonDump(u) = Flat(m, u) /\ JsonDump(s) = Flat(m, s) /\ m[c] = Dumped(c)
    BY <1>2, <1>3, <1>7, <2>1
  <2>4. JsonDump(u) = JsonDump(s) \o Dumped(c)
    BY ONLY <2>2, <2>3, Zenon
  <2> QED BY <2>4 DEF u
<1>8. ASSUME NEW s, s \in Seq(A), NEW t, t \in Seq(A)
      PROVE  JsonDump(s \o t) = JsonDump(s) \o JsonDump(t)
  <2> DEFINE u == s \o t
  <2>1. u \in Seq(A)
    BY <1>8
  <2>2. Flat(m, u) = Flat(m, s) \o Flat(m, t)
    BY ONLY <1>1, <1>8, FlatConcat
  <2> HIDE DEF u
  <2>3. JsonDump(u) = Flat(m, u) /\ JsonDump(s) = Flat(m, s) /\ JsonDump(t) = Flat(m, t)
    BY <1>3, <1>8, <2>1
  <2>4. JsonDump(u) = JsonDump(s) \o JsonDump(t)
    BY ONLY <2>2, <2>3, Zenon
  <2> QED BY <2>4 DEF u
<1> QED BY <1>4, <1>5, <1>6, <1>7, <1>8

(* The first k symbols of a text, written, and the next one after them.    *)
FrontOf(s, k) == JsonDump(SubSeq(s, 1, k))

LEMMA FrontIs ==
    ASSUME NEW A, Dumps(A), NEW s, s \in Seq(A)
    PROVE  /\ FrontOf(s, 0) = <<>> /\ FrontOf(s, Len(s)) = JsonDump(s)
           /\ \A k \in 0..Len(s) : FrontOf(s, k) \in Seq(A)
<1>1. Len(s) \in Nat
  BY LenProperties
<1>2. SubSeq(s, 1, 0) = <<>> /\ SubSeq(s, 1, Len(s)) = s
  <2>1. SubSeq(s, 1, 0) = <<>>
    BY <1>1
  <2> DEFINE t == SubSeq(s, 1, Len(s))
  <2>2. t \in Seq(A) /\ Len(t) = Len(s) /\ \A i \in 1..Len(s) : t[i] = s[i]
    BY <1>1
  <2> HIDE DEF t
  <2>3. t = s
    BY <2>2, SeqEqual
  <2> QED BY <2>1, <2>3 DEF t
<1>3. \A k \in 0..Len(s) : SubSeq(s, 1, k) \in Seq(A)
  BY <1>1
<1> QED BY <1>2, <1>3, DumpSteps DEF FrontOf

LEMMA FrontGrows ==
    ASSUME NEW A, Dumps(A), NEW s, s \in Seq(A), NEW k, k \in Nat, k < Len(s)
    PROVE  /\ FrontOf(s, k + 1) = FrontOf(s, k) \o Dumped(s[k + 1])
           /\ Len(FrontOf(s, k)) \in Nat /\ Len(Dumped(s[k + 1])) \in Nat
           /\ Len(FrontOf(s, k + 1)) = Len(FrontOf(s, k)) + Len(Dumped(s[k + 1]))
           /\ Here(JsonDump(s), Len(FrontOf(s, k)), Dumped(s[k + 1]))
<1> DEFINE p == SubSeq(s, 1, k)
           q == SubSeq(s, k + 1, Len(s))
           v == SubSeq(s, k + 2, Len(s))
           c == s[k + 1]
<1>0. Len(s) \in Nat
  BY LenProperties
<1>1. /\ p \in Seq(A) /\ c \in A /\ v \in Seq(A) /\ <<c>> \in Seq(A)
      /\ SubSeq(s, 1, k + 1) = Append(p, c) /\ q = <<c>> \o v
  <2>1. /\ p \in Seq(A) /\ c \in A /\ v \in Seq(A)
        /\ SubSeq(s, 1, k + 1) = Append(p, c) /\ q = <<c>> \o v
    BY PrefixGrows
  <2> QED BY <2>1
<1>2. s = p \o q
  <2>1. q \in Seq(A) /\ p \in Seq(A)
    BY <1>0
  <2>2. /\ Len(p) = k /\ Len(q) = Len(s) - k
        /\ \A i \in 1..k : p[i] = s[i]
        /\ \A j \in 1..(Len(s) - k) : q[j] = s[k + j]
    BY <1>0
  <2> HIDE DEF p, q
  <2> DEFINE t == p \o q
  <2>3. /\ t \in Seq(A) /\ Len(t) = Len(s)
        /\ \A i \in 1..Len(s) : t[i] = s[i]
    <3>0. /\ t \in Seq(A) /\ Len(t) = Len(p) + Len(q)
          /\ \A i \in 1..Len(p) : t[i] = p[i]
          /\ \A i \in 1..Len(q) : t[Len(p) + i] = q[i]
      BY <2>1, ConcatIs
    <3> HIDE DEF t
    <3>1. Len(t) = Len(s)
      BY <1>0, <2>2, <3>0
    <3>2. ASSUME NEW i \in 1..Len(s)
          PROVE  t[i] = s[i]
      <4>1. CASE i <= k
        <5>1. i \in 1..k
          BY <1>0, <4>1
        <5> QED BY <2>2, <3>0, <5>1
      <4>2. CASE i > k
        <5> DEFINE j == i - k
        <5>1. j \in 1..(Len(s) - k) /\ k + j = i
          BY <1>0, <4>2
        <5> HIDE DEF j
        <5>2. t[k + j] = q[j]
          BY <2>2, <3>0, <5>1
        <5>3. q[j] = s[k + j]
          BY <2>2, <5>1
        <5> QED BY <5>1, <5>2, <5>3
      <4> QED BY <1>0, <4>1, <4>2
    <3> QED BY <3>0, <3>1, <3>2
  <2> HIDE DEF t
  <2>4. t = s
    BY <2>3, SeqEqual
  <2> QED BY <2>4 DEF t
<1> HIDE DEF p, q, v, c
<1> DEFINE x == JsonDump(p)
           y == Dumped(c)
           z == JsonDump(v)
<1>3. x \in Seq(A) /\ y \in Seq(A) /\ z \in Seq(A)
  BY <1>1, DumpSteps
<1>4. JsonDump(Append(p, c)) = x \o y
  BY <1>1, DumpSteps
<1>5. JsonDump(q) = y \o z
  <2>1. JsonDump(<<c>> \o v) = JsonDump(<<c>>) \o z /\ JsonDump(<<c>>) = y
    BY <1>1, DumpSteps
  <2> QED BY <1>1, <2>1
<1>6. JsonDump(s) = x \o (y \o z)
  <2>1. q \in Seq(A)
    BY <1>1
  <2>2. JsonDump(p \o q) = x \o JsonDump(q)
    BY <1>1, <2>1, DumpSteps
  <2> QED BY <1>2, <1>5, <2>2
<1> HIDE DEF x, y, z
<1>7. Len(x) \in Nat /\ Len(y) \in Nat /\ Len(x \o y) = Len(x) + Len(y)
  BY <1>3
<1>8. Here(JsonDump(s), Len(x), y)
  <2> DEFINE w == y \o z
  <2>1. w \in Seq(A) /\ x \o w \in Seq(A)
    BY <1>3
  <2>2. Here(x \o w, 0, x \o w)
    BY <2>1, HereAll
  <2>3. Here(x \o w, 0 + Len(x), w)
    BY ONLY <1>3, <2>1, <2>2, HereBoth
  <2>4. 0 + Len(x) = Len(x)
    BY <1>7
  <2>5. Here(x \o w, Len(x), y)
    BY ONLY <1>3, <2>3, <2>4, HereBoth
  <2> QED BY <1>6, <2>5
<1>9. FrontOf(s, k) = x /\ FrontOf(s, k + 1) = x \o y
  BY <1>1, <1>4 DEF FrontOf, p, x
<1> QED BY <1>7, <1>8, <1>9 DEF c, y
-----------------------------------------------------------------------------
(* ExtractJsonString: what it reads from a position on.                    *)
ReadAt(json, read, i) ==
    IF i > Len(json) \/ json[i] = "quote" THEN <<>>
    ELSE IF json[i] = "backslash" /\ i < Len(json)
         THEN <<Unescape(json[i + 1])>> \o read[i + 2]
         ELSE <<json[i]>> \o read[i + 1]

Reading(json, read) == read = [i \in 1..(Len(json) + 2) |-> ReadAt(json, read, i)]
Reader(json) == CHOOSE read : Reading(json, read)

LEMMA ReaderIs ==
    ASSUME NEW A, "newline" \in A, NEW json, json \in Seq(A)
    PROVE  \A i \in 1..(Len(json) + 2) : Reader(json)[i] = ReadAt(json, Reader(json), i)
<1> DEFINE N == Len(json) + 2
           V == Seq(A)
           esc(i) == json[i] = "backslash" /\ i < Len(json)
           stop == {i \in 1..N : i > Len(json) \/ json[i] = "quote"}
           sym(i) == IF esc(i) THEN Unescape(json[i + 1]) ELSE json[i]
           next == [i \in 1..N |-> IF esc(i) THEN i + 2 ELSE i + 1]
           a == [i \in 1..N |-> <<>>]
           h == [p \in (1..N) \X V |-> IF p[1] \in stop THEN p[2] ELSE <<sym(p[1])>> \o p[2]]
<1>0. Len(json) \in Nat /\ \A i \in 1..Len(json) : json[i] \in A
  BY LenProperties, ElementOfSeq
<1>1. a \in [1..N -> V]
  BY EmptySeq
<1>2. ASSUME NEW i \in (1..N) \ stop
      PROVE  next[i] \in 1..N /\ next[i] > i /\ sym(i) \in A
  <2>1. i \in 1..Len(json)
    BY <1>0
  <2>2. sym(i) \in A
    BY <1>0, <2>1 DEF Unescape
  <2>3. next[i] = IF esc(i) THEN i + 2 ELSE i + 1
    OBVIOUS
  <2> QED BY <1>0, <2>1, <2>2, <2>3
<1>3. h \in [(1..N) \X V -> V]
  <2>1. ASSUME NEW p \in (1..N) \X V
        PROVE  (IF p[1] \in stop THEN p[2] ELSE <<sym(p[1])>> \o p[2]) \in V
    <3>1. p[1] \in 1..N /\ p[2] \in V
      OBVIOUS
    <3>2. p[1] \notin stop => sym(p[1]) \in A
      BY <1>2, <3>1
    <3> HIDE DEF stop, sym
    <3>3. p[1] \notin stop => <<sym(p[1])>> \o p[2] \in V
      BY <3>1, <3>2
    <3> QED BY <3>1, <3>3
  <2> QED BY <2>1
<1>4. \A i \in 1..N : \A v \in V : i \notin stop => h[<<i, v>>] = <<sym(i)>> \o v
  OBVIOUS
<1>5. \A i \in 1..N : a[i] = <<>> /\ next[i] = IF esc(i) THEN i + 2 ELSE i + 1
  OBVIOUS
<1>6. \A i \in 1..N : i \in stop <=> i > Len(json) \/ json[i] = "quote"
  OBVIOUS
<1> HIDE DEF N, V, stop, next, a, h
<1>7. Chain(N, V, stop, a, next, h)
  BY <1>0, <1>1, <1>2, <1>3 DEF Chain, N
<1>8. PICK g \in [1..N -> V] :
          \A i \in 1..N : g[i] = IF i \in stop THEN a[i] ELSE h[<<i, g[next[i]]>>]
  BY <1>7, ChainExists
<1>9. ASSUME NEW i \in 1..N
      PROVE  g[i] = ReadAt(json, g, i)
  <2>1. CASE i \in stop
    BY <1>5, <1>6, <1>8, <2>1 DEF ReadAt
  <2>2. CASE i \notin stop
    <3>1. next[i] \in 1..N
      BY <1>2, <2>2
    <3>2. g[i] = <<sym(i)>> \o g[next[i]]
      BY <1>4, <1>8, <2>2, <3>1
    <3>3. ReadAt(json, g, i) = <<sym(i)>> \o g[next[i]]
      BY <1>5, <1>6, <2>2 DEF ReadAt
    <3> QED BY <3>2, <3>3
  <2> QED BY <2>1, <2>2
<1>10. Reading(json, g)
  BY <1>9 DEF Reading, N
<1>11. Reading(json, Reader(json))
  BY <1>10, Zenon DEF Reader
<1> QED BY <1>11, Zenon DEF Reading

LEMMA ExtractIs ==
    ASSUME NEW json, NEW key, NEW start, start = ValueOf(json, key),
           start # 0, ~(start > Len(json)), json[start] = "quote"
    PROVE  ExtractJsonString(json, key) = Reader(json)[start + 1]
BY Zenon DEF ExtractJsonString, Reader, Reading, ReadAt

(* A text that the server has written comes back.                          *)
LEMMA TextComesBack ==
    ASSUME NEW A, Dumps(A), NEW json, json \in Seq(A), NEW s, s \in Seq(A), Legible(s),
           NEW off, off \in Nat, Here(json, off, JsonDump(s)),
           off + Len(JsonDump(s)) + 1 <= Len(json),
           json[off + Len(JsonDump(s)) + 1] = "quote"
    PROVE  Reader(json)[off + 1] = s
<1> DEFINE n == Len(s)
           R == Reader(json)
           D == JsonDump(s)
           at(k) == off + Len(FrontOf(s, k)) + 1
           P(k) == R[at(k)] = SubSeq(s, k + 1, n)
           B == {j \in Nat : j <= n => P(n - j)}
<1>0. n \in Nat /\ Len(json) \in Nat /\ Len(D) \in Nat /\ D \in Seq(A)
  BY LenProperties, DumpSteps
<1>1. \A i \in 1..(Len(json) + 2) : R[i] = ReadAt(json, R, i)
  BY ReaderIs DEF Dumps
<1>2. 0 \in B
  <2>1. at(n) = off + Len(D) + 1
    BY FrontIs
  <2>2. R[at(n)] = <<>>
    <3>1. at(n) \in 1..(Len(json) + 2) /\ json[at(n)] = "quote"
      BY <1>0, <2>1
    <3> HIDE DEF at, R
    <3> QED BY <1>1, <3>1 DEF ReadAt
  <2>3. SubSeq(s, n + 1, n) = <<>>
    BY <1>0
  <2>4. n - 0 = n
    BY <1>0
  <2> HIDE DEF P, R, at
  <2>5. P(n)
    BY <2>2, <2>3 DEF P
  <2> QED BY <2>4, <2>5
<1>3. ASSUME NEW j \in Nat, j \in B
      PROVE  j + 1 \in B
  <2> SUFFICES ASSUME j + 1 <= n
               PROVE  P(n - (j + 1))
    OBVIOUS
  <2> DEFINE k == n - (j + 1)
             c == s[k + 1]
             i == at(k)
             rest == SubSeq(s, k + 2, n)
  <2>0. k \in Nat /\ k < n /\ n - j = k + 1
    BY <1>0
  <2>1. R[at(k + 1)] = rest
    <3>1. P(k + 1)
      BY <1>3, <2>0
    <3>2. (k + 1) + 1 = k + 2
      BY <2>0
    <3> QED BY <3>1, <3>2
  <2> HIDE DEF k
  <2>2. /\ SubSeq(s, k + 1, n) = <<c>> \o rest /\ c \in A
    BY <2>0, PrefixGrows
  <2>3. c # "control"
    <3>1. c \in Range(s)
      <4>1. k + 1 \in 1..Len(s) /\ DOMAIN s = 1..Len(s)
        BY <1>0, <2>0, LenProperties
      <4> QED BY <4>1 DEF Range
    <3> QED BY <3>1 DEF Legible
  <2> DEFINE f == Len(FrontOf(s, k))
             w == Len(Dumped(c))
  <2>4. /\ f \in Nat /\ w \in Nat /\ Len(FrontOf(s, k + 1)) = f + w
        /\ Here(D, f, Dumped(c))
    BY <2>0, FrontGrows
  <2>5. /\ i = off + f + 1 /\ at(k + 1) = i + w /\ i \in Nat
        /\ f + w <= Len(D) /\ i + w <= Len(json)
    <3>1. f + w <= Len(D)
      BY <2>4 DEF Here
    <3>0. off + Len(D) + 1 <= Len(json)
      OBVIOUS
    <3> HIDE DEF w, D
    <3>2. i = off + f + 1 /\ at(k + 1) = off + (f + w) + 1
      BY <2>4
    <3> HIDE DEF f, at, i
    <3> QED BY <1>0, <2>4, <3>0, <3>1, <3>2
  <2>6. ASSUME NEW m \in 1..w
        PROVE  json[off + f + m] = Dumped(c)[m]
    <3>1. D[f + m] = Dumped(c)[m]
      BY <2>4 DEF Here
    <3> HIDE DEF w, f, D
    <3>2. f + m \in 1..Len(D) /\ off + (f + m) = off + f + m
      BY <1>0, <2>4, <2>5
    <3>3. json[off + (f + m)] = D[f + m]
      BY <3>2 DEF Here, D
    <3> QED BY <3>1, <3>2, <3>3
  <2>7. i \in 1..(Len(json) + 2)
    BY <1>0, <2>5
  <2> DEFINE t == at(k + 1)
  <2>8. R[i] = ReadAt(json, R, i) /\ t = i + w /\ R[t] = rest
    <3>1. t = i + w
      BY <2>5
    <3> HIDE DEF t, i, R
    <3> QED BY <1>1, <2>1, <2>7, <3>1 DEF t
  <2>9. R[i] = <<c>> \o rest
    <3>1. CASE c \in {"quote", "backslash", "newline"}
      <4> DEFINE x == IF c = "newline" THEN "n" ELSE c
      <4>1. Dumped(c) = <<"backslash", x>> /\ Unescape(x) = c
        BY <2>3, <3>1 DEF Dumped, Escape, Unescape
      <4>2. w = 2 /\ Dumped(c)[1] = "backslash" /\ Dumped(c)[2] = x
        BY <4>1
      <4> HIDE DEF w, x
      <4>3. json[off + f + 1] = "backslash" /\ json[off + f + 2] = x
        BY <2>6, <4>2
      <4>4. off + f + 1 = i /\ off + f + 2 = i + 1 /\ i < Len(json) /\ ~(i > Len(json))
            /\ t = i + 2
        BY <1>0, <2>4, <2>5, <2>8, <4>2
      <4>5. json[i] = "backslash" /\ json[i + 1] = x
        BY <4>3, <4>4
      <4> HIDE DEF f, i, t, R
      <4>6. R[i] = <<Unescape(x)>> \o R[i + 2]
        BY <2>8, <4>4, <4>5 DEF ReadAt
      <4> QED BY <2>8, <4>1, <4>4, <4>6
    <3>2. CASE c \notin {"quote", "backslash", "newline"}
      <4>1. Dumped(c) = <<c>>
        BY <2>3, <3>2 DEF Dumped, Escape
      <4>2. w = 1 /\ Dumped(c)[1] = c
        BY <4>1
      <4> HIDE DEF w
      <4>3. json[off + f + 1] = c
        BY <2>6, <4>2
      <4>4. off + f + 1 = i /\ ~(i > Len(json)) /\ t = i + 1
        BY <1>0, <2>4, <2>5, <2>8, <4>2
      <4>5. json[i] = c
        BY <4>3, <4>4
      <4> HIDE DEF f, i, t, R, c
      <4>6. R[i] = <<json[i]>> \o R[i + 1]
        BY <2>8, <3>2, <4>4, <4>5 DEF ReadAt
      <4> QED BY <2>8, <4>4, <4>5, <4>6
    <3> QED BY <3>1, <3>2
  <2> HIDE DEF R, i, at
  <2>10. P(k)
    BY <2>2, <2>9 DEF P, i
  <2> QED BY <2>10 DEF k
<1>4. Nat \subseteq B
  <2> HIDE DEF B
  <2> QED BY <1>2, <1>3, SetInduction
<1>5. P(0)
  <2>1. n \in B /\ n - n = 0
    BY <1>0, <1>4
  <2> HIDE DEF P
  <2> QED BY <1>0, <2>1
<1>6. at(0) = off + 1
  <2>1. FrontOf(s, 0) = <<>>
    BY FrontIs
  <2> QED BY <2>1
<1>7. SubSeq(s, 1, n) = s
  <2> DEFINE t == SubSeq(s, 1, n)
  <2>1. t \in Seq(A) /\ Len(t) = Len(s) /\ \A i \in 1..Len(s) : t[i] = s[i]
    BY <1>0
  <2> HIDE DEF t
  <2>2. t = s
    BY <2>1, SeqEqual
  <2> QED BY <2>2 DEF t
<1>8. R[at(0)] = SubSeq(s, 0 + 1, n)
  BY <1>5
<1> QED BY <1>6, <1>7, <1>8
-----------------------------------------------------------------------------
(* Where a key can be taken for one in a text that the server has written. *)
LEMMA DumpedIs ==
    \A c : \/ c \notin {"control", "quote", "backslash", "newline"} /\ Dumped(c) = <<c>>
           \/ \E x \in {"quote", "backslash", "n", "u001b"} :
                 Dumped(c) = <<"backslash", x>> /\ (x = "quote" => c = "quote")
BY DEF Dumped, Escape

LEMMA DumpedEnds ==
    ASSUME NEW c
    PROVE  /\ Len(Dumped(c)) \in {1, 2} /\ Len(Dumped(c)) \in Nat \ {0}
           /\ \A x : x \notin {"backslash", "n", "u001b"} /\ Dumped(c)[Len(Dumped(c))] = x
                    => c = x /\ (x # "quote" => Len(Dumped(c)) = 1)
           /\ \A m \in 1..Len(Dumped(c)) :
                 Dumped(c)[m] = "quote" => m = 2 /\ Dumped(c)[1] = "backslash"
<1>1. CASE c \notin {"control", "quote", "backslash", "newline"} /\ Dumped(c) = <<c>>
  <2>1. Len(Dumped(c)) = 1 /\ Dumped(c)[1] = c
    BY <1>1
  <2> QED BY <1>1, <2>1
<1>2. ASSUME NEW x \in {"quote", "backslash", "n", "u001b"},
             Dumped(c) = <<"backslash", x>> /\ (x = "quote" => c = "quote")
      PROVE  /\ Len(Dumped(c)) \in {1, 2} /\ Len(Dumped(c)) \in Nat \ {0}
             /\ \A y : y \notin {"backslash", "n", "u001b"} /\ Dumped(c)[Len(Dumped(c))] = y
                      => c = y /\ (y # "quote" => Len(Dumped(c)) = 1)
             /\ \A m \in 1..Len(Dumped(c)) :
                   Dumped(c)[m] = "quote" => m = 2 /\ Dumped(c)[1] = "backslash"
  <2>1. Len(Dumped(c)) = 2 /\ Dumped(c)[1] = "backslash" /\ Dumped(c)[2] = x
    BY <1>2
  <2> QED BY <1>2, <2>1
<1> QED BY <1>1, <1>2, DumpedIs

(* A quote comes after a backslash.                                        *)
Shielded(d) == \A m \in 1..Len(d) : d[m] = "quote" => m > 1 /\ d[m - 1] = "backslash"

LEMMA DumpsShield ==
    ASSUME NEW A, Dumps(A), NEW s, s \in Seq(A)
    PROVE  Shielded(JsonDump(s))
<1> DEFINE S == {u \in Seq(A) : Shielded(JsonDump(u))}
<1>1. <<>> \in S
  <2>1. JsonDump(<<>>) = <<>> /\ <<>> \in Seq(A)
    BY DumpSteps, EmptySeq
  <2> QED BY <2>1 DEF Shielded
<1>2. ASSUME NEW u \in Seq(A), NEW c \in A, u \in S
      PROVE  Append(u, c) \in S
  <2> DEFINE x == JsonDump(u)
             y == Dumped(c)
             z == x \o y
  <2>0. Append(u, c) \in Seq(A) /\ Shielded(x)
    BY <1>2
  <2>1. x \in Seq(A) /\ y \in Seq(A) /\ JsonDump(Append(u, c)) = z
    <3>1. x \in Seq(A) /\ y \in Seq(A)
      BY DumpSteps
    <3>2. JsonDump(Append(u, c)) = x \o y
      BY DumpSteps
    <3> QED BY <3>1, <3>2
  <2>2. /\ Len(x) \in Nat /\ Len(y) \in Nat /\ Len(z) = Len(x) + Len(y)
        /\ \A i \in 1..Len(x) : z[i] = x[i]
        /\ \A i \in 1..Len(y) : z[Len(x) + i] = y[i]
    BY <2>1, ConcatIs
  <2>3. ASSUME NEW m \in 1..Len(y), y[m] = "quote"
        PROVE  m = 2 /\ y[1] = "backslash"
    BY <2>3, DumpedEnds
  <2> HIDE DEF x, y, z
  <2>4. ASSUME NEW m \in 1..Len(z), z[m] = "quote"
        PROVE  m > 1 /\ z[m - 1] = "backslash"
    <3>1. CASE m <= Len(x)
      <4>1. m \in 1..Len(x)
        BY <2>2, <3>1
      <4>2. x[m] = "quote"
        BY <2>2, <2>4, <4>1
      <4>3. m > 1 /\ x[m - 1] = "backslash"
        BY <2>0, <4>1, <4>2 DEF Shielded
      <4>4. m - 1 \in 1..Len(x)
        BY <2>2, <4>1, <4>3
      <4> QED BY <2>2, <4>3, <4>4
    <3>2. CASE m > Len(x)
      <4> DEFINE k == m - Len(x)
      <4>1. k \in 1..Len(y) /\ Len(x) + k = m
        BY <2>2, <3>2
      <4> HIDE DEF k
      <4>2. y[k] = "quote"
        BY <2>2, <2>4, <4>1
      <4>3. k = 2 /\ y[1] = "backslash"
        BY <2>3, <4>1, <4>2
      <4>4. z[Len(x) + 1] = "backslash" /\ m - 1 = Len(x) + 1 /\ m > 1
        BY <2>2, <4>1, <4>3
      <4> QED BY <4>4
    <3> QED BY <2>2, <3>1, <3>2
  <2>5. Shielded(z)
    BY <2>4 DEF Shielded
  <2> QED BY <2>0, <2>1, <2>5
<1>3. Seq(A) \subseteq S
  <2> HIDE DEF S
  <2> QED BY <1>1, <1>2, SeqInduction
<1> QED BY <1>3

(* The last symbol of a text, written.                                     *)
LEMMA FrontEnds ==
    ASSUME NEW A, Dumps(A), NEW s, s \in Seq(A), NEW k, k \in Nat, k < Len(s),
           NEW x, x \notin {"backslash", "n", "u001b"},
           FrontOf(s, k + 1)[Len(FrontOf(s, k + 1))] = x
    PROVE  /\ s[k + 1] = x
           /\ x # "quote" => Len(FrontOf(s, k + 1)) = Len(FrontOf(s, k)) + 1
           /\ Len(FrontOf(s, k + 1)) \in Nat \ {0}
           /\ \A i \in 1..Len(FrontOf(s, k)) : FrontOf(s, k + 1)[i] = FrontOf(s, k)[i]
<1> DEFINE p == FrontOf(s, k)
           y == Dumped(s[k + 1])
           z == FrontOf(s, k + 1)
<1>0. Len(s) \in Nat /\ s[k + 1] \in A
  BY LenProperties, ElementOfSeq
<1>1. p \in Seq(A) /\ y \in Seq(A) /\ z = p \o y
  <2>1. k \in 0..Len(s)
    BY <1>0
  <2> QED BY <1>0, <2>1, FrontIs, FrontGrows, DumpSteps
<1>2. Len(y) \in {1, 2} /\ (y[Len(y)] = x => s[k + 1] = x /\ (x # "quote" => Len(y) = 1))
  BY DumpedEnds
<1> HIDE DEF p, y, z
<1>3. /\ Len(p) \in Nat /\ Len(z) = Len(p) + Len(y)
      /\ \A i \in 1..Len(p) : z[i] = p[i]
      /\ \A i \in 1..Len(y) : z[Len(p) + i] = y[i]
  BY ONLY <1>1, ConcatIs
<1>3a. Len(y) \in Nat \ {0}
  BY DumpedEnds DEF y
<1>4. z[Len(z)] = y[Len(y)]
  <2>1. Len(y) \in 1..Len(y)
    BY <1>3a
  <2> QED BY <1>3, <2>1
<1>5. z[Len(z)] = x
  BY DEF z
<1>6. s[k + 1] = x /\ (x # "quote" => Len(y) = 1)
  BY <1>2, <1>4, <1>5
<1>7. (x # "quote" => Len(z) = Len(p) + 1) /\ Len(z) \in Nat \ {0}
  <2> DEFINE i == Len(p)
             j == Len(y)
             l == Len(z)
  <2>1. i \in Nat /\ j \in Nat \ {0} /\ l = i + j /\ (x # "quote" => j = 1)
    BY <1>3, <1>3a, <1>6
  <2> HIDE DEF i, j, l
  <2>2. (x # "quote" => l = i + 1) /\ l \in Nat \ {0}
    BY ONLY <2>1
  <2> QED BY <2>2 DEF i, l
<1> QED BY <1>3, <1>6, <1>7 DEF p, z

LEMMA KeyInDump ==
    ASSUME NEW A, Dumps(A), NEW s, s \in Seq(A),
           NEW key, key \notin {"backslash", "quote", "n", "u001b"},
           NEW m, m \in 1..Len(JsonDump(s)), JsonDump(s)[m] = key,
           m < Len(JsonDump(s)) => JsonDump(s)[m + 1] = "quote",
           m > 1 => JsonDump(s)[m - 1] = "quote"
    PROVE  EndsAsKey(s, key)
<1> DEFINE n == Len(s)
           D == JsonDump(s)
<1>0. n \in Nat /\ Len(D) \in Nat
  BY LenProperties, DumpSteps
<1>1. m = Len(D)
  <2> SUFFICES ASSUME m < Len(D)
               PROVE  FALSE
    BY <1>0
  <2>1. Shielded(D) /\ m + 1 \in 1..Len(D) /\ D[m + 1] = "quote" /\ (m + 1) - 1 = m
    BY <1>0, DumpsShield
  <2>2. D[m] = "backslash"
    BY <2>1 DEF Shielded
  <2> QED BY <2>2
<1>2. n # 0
  <2> SUFFICES ASSUME n = 0
               PROVE  FALSE
    OBVIOUS
  <2>1. FrontOf(s, 0) = <<>> /\ FrontOf(s, n) = D
    BY FrontIs
  <2>2. Len(D) = 0
    BY <2>1
  <2> QED BY <1>1, <2>2
<1> DEFINE k == n - 1
<1>3. k \in Nat /\ k < n /\ k + 1 = n
  BY <1>0, <1>2
<1>4. FrontOf(s, n) = D
  BY FrontIs
<1> HIDE DEF k, D
<1>5. /\ s[n] = key /\ Len(D) = Len(FrontOf(s, k)) + 1
      /\ \A i \in 1..Len(FrontOf(s, k)) : D[i] = FrontOf(s, k)[i]
  <2>1. D[Len(D)] = key
    BY <1>1 DEF D
  <2>2. FrontOf(s, k + 1)[Len(FrontOf(s, k + 1))] = key
    BY <1>3, <1>4, <2>1
  <2>3. /\ s[k + 1] = key /\ Len(FrontOf(s, k + 1)) = Len(FrontOf(s, k)) + 1
        /\ \A i \in 1..Len(FrontOf(s, k)) : FrontOf(s, k + 1)[i] = FrontOf(s, k)[i]
    BY <1>3, <2>2, FrontEnds
  <2> QED BY <1>3, <1>4, <2>3
<1>6. CASE n = 1
  <2>1. Last(s) = key
    BY <1>5, Zenon DEF Last
  <2>2. s # <<>>
    <3>1. Len(s) # Len(<<>>)
      BY <1>6
    <3> QED BY <3>1
  <2> QED BY <1>6, <2>1, <2>2 DEF EndsAsKey
<1>7. CASE n # 1
  <2> DEFINE j == n - 2
             F == FrontOf(s, k)
  <2>1. j \in Nat /\ j < n /\ j + 1 = k /\ n - 1 = k
    BY <1>0, <1>2, <1>3, <1>7
  <2>2. Len(F) \in Nat
    <3>1. k \in 0..n
      BY <1>0, <1>3
    <3> QED BY <3>1, FrontIs, LenProperties
  <2>3. Len(F) > 0
    <3>1. Len(F) = Len(FrontOf(s, j)) + Len(Dumped(s[j + 1])) /\ Len(FrontOf(s, j)) \in Nat
      BY <2>1, FrontGrows
    <3>2. Len(Dumped(s[j + 1])) \in {1, 2}
      BY DumpedEnds
    <3>3. Len(F) = Len(FrontOf(s, j)) + Len(Dumped(s[j + 1]))
      BY <2>1, <3>1
    <3> DEFINE a == Len(FrontOf(s, j))
               b == Len(Dumped(s[j + 1]))
    <3>4. a \in Nat /\ (b = 1 \/ b = 2) /\ Len(F) = a + b
      BY <3>1, <3>2, <3>3
    <3> HIDE DEF F, j, a, b
    <3> QED BY <3>4
  <2>4. F[Len(F)] = "quote"
    <3>1. m > 1 /\ m - 1 = Len(F)
      BY <1>1, <1>5, <2>2, <2>3
    <3>2. D[m - 1] = "quote"
      BY <3>1 DEF D
    <3>3. D[Len(F)] = F[Len(F)]
      BY <1>5, <2>2, <2>3
    <3> QED BY <3>1, <3>2, <3>3
  <2>5. s[j + 1] = "quote"
    BY <2>1, <2>4, FrontEnds
  <2>6. Last(s) = key
    BY <1>5, Zenon DEF Last
  <2>7. s # <<>>
    <3>1. Len(s) # Len(<<>>)
      BY <1>2
    <3> QED BY <3>1
  <2>8. s[n - 1] = "quote"
    BY <2>1, <2>5
  <2> QED BY <2>6, <2>7, <2>8 DEF EndsAsKey
<1> QED BY <1>6, <1>7
-----------------------------------------------------------------------------
(* The numbers of an answer.                                               *)
Comma == ","
Brace == "}"
NoDigits == {"-", Comma, Brace, "quote", "content", "completion_tokens", "total_tokens"}

LEMMA DigitsAre == Range(Digits) \cap NoDigits = {} /\ "blank" \notin Range(Digits)
<1>1. Range(Digits) = {"0", "1", "2", "3", "4", "5", "6", "7", "8", "9"}
  BY DEF Range, Digits
<1> QED BY <1>1, Zenon DEF NoDigits, Comma, Brace

LEMMA CommaIs ==
    /\ {Comma, Brace} \cap {"quote", "blank", "content", "completion_tokens", "total_tokens"} = {}
BY Zenon DEF Comma, Brace

(* The first pair with a key begins at f, and its value at e.              *)
ValueAt(json, key, f, e) ==
    /\ f \in 1..(Len(json) - 3) /\ Three(json, f, "quote", key, "quote")
    /\ \A i \in 1..(f - 1) : ~Three(json, i, "quote", key, "quote")
    /\ json[f + 3] = ":"
    /\ e \in (f + 4)..(Len(json) + 1) /\ \A j \in (f + 4)..(e - 1) : json[j] = "blank"
    /\ e <= Len(json) => json[e] # "blank"

LEMMA ValueIs ==
    ASSUME NEW A, NEW json, json \in Seq(A), NEW key, key \in A, "quote" \in A,
           NEW f, NEW e, ValueAt(json, key, f, e)
    PROVE  ValueOf(json, key) = e
<1>a. /\ f \in 1..(Len(json) - 3) /\ Three(json, f, "quote", key, "quote")
      /\ \A i \in 1..(f - 1) : ~Three(json, i, "quote", key, "quote")
      /\ json[f + 3] = ":"
      /\ e \in (f + 4)..(Len(json) + 1) /\ \A j \in (f + 4)..(e - 1) : json[j] = "blank"
      /\ e <= Len(json) => json[e] # "blank"
  BY Zenon DEF ValueAt
<1>0. Len(json) \in Nat /\ f \in 1..(Len(json) - 2) /\ f # 0
  BY <1>a, LenProperties
<1>1. Find(json, <<"quote", key, "quote">>, 1) = f
  BY <1>a, <1>0, FindThree
<1> DEFINE g == Find(json, <<":">>, f + 3)
<1>2. g = f + 3
  <2>1. f + 3 \in Nat \ {0} /\ f + 3 \in (f + 3)..Len(json)
    BY <1>a, <1>0
  <2>2. /\ g \in Nat
        /\ g = 0 => \A i \in (f + 3)..Len(json) : json[i] # ":"
        /\ g # 0 => /\ g \in (f + 3)..Len(json) /\ json[g] = ":"
                    /\ \A i \in (f + 3)..(g - 1) : json[i] # ":"
    BY <2>1, FindOne
  <2> HIDE DEF g
  <2>3. g # 0
    BY <1>a, <2>1, <2>2
  <2>4. ~(g > f + 3)
    <3> SUFFICES ASSUME g > f + 3
                 PROVE  FALSE
      OBVIOUS
    <3>1. f + 3 \in (f + 3)..(g - 1)
      BY <1>a, <1>0, <2>2, <2>3
    <3> QED BY <1>a, <2>2, <2>3, <3>1
  <2> QED BY <1>a, <1>0, <2>2, <2>3, <2>4
<1>3. SkipAll(json, (f + 3) + 1, {"blank"}) = e
  <2>1. (f + 3) + 1 = f + 4 /\ f + 4 \in Nat \ {0}
    BY <1>a, <1>0
  <2>2. SkipAll(json, f + 4, {"blank"}) = e
    <3> DEFINE g4 == f + 4
               S == {"blank"}
    <3>1. /\ g4 \in Nat \ {0} /\ e \in g4..(Len(json) + 1)
          /\ \A j \in g4..(e - 1) : json[j] \in S
          /\ e <= Len(json) => json[e] \notin S
      BY <1>a, <2>1
    <3> HIDE DEF g4, S
    <3>2. SkipAll(json, g4, S) = e
      BY ONLY json \in Seq(A), <3>1, SkipIs
    <3> QED BY <3>2 DEF g4, S
  <2> QED BY <2>1, <2>2
<1>4. f + 3 # 0
  BY <1>a, <1>0
<1> HIDE DEF g
<1> QED BY <1>0, <1>1, <1>2, <1>3, <1>4, Zenon DEF ValueOf, g

LEMMA IntIs ==
    ASSUME NEW A, NEW json, json \in Seq(A), NEW key, NEW off, off \in Nat,
           off + 1 = ValueOf(json, key),
           NEW d, d \in Seq(Range(Digits)), Here(json, off, d), off + Len(d) < Len(json),
           json[off + Len(d) + 1] \in NoDigits \ {"-"}
    PROVE  ExtractJsonInt(json, key) = NumberOf(d)
<1> DEFINE e == off + 1
           t == SubSeq(json, e, SkipAll(json, e, Range(Digits)) - 1)
<1>0. /\ Len(json) \in Nat /\ Len(d) \in Nat /\ DOMAIN json = 1..Len(json)
      /\ \A i \in 1..Len(d) : d[i] \in Range(Digits)
  BY LenProperties, ElementOfSeq
<1>1. \A i \in 1..Len(d) : json[off + i] = d[i]
  BY DEF Here
<1>2. json[e] # "-"
  <2>1. CASE Len(d) = 0
    BY <1>0, <2>1
  <2>2. CASE Len(d) # 0
    <3>1. 1 \in 1..Len(d)
      BY <1>0, <2>2
    <3>2. json[e] \in Range(Digits)
      BY <1>0, <1>1, <3>1
    <3> QED BY <3>2, DigitsAre DEF NoDigits
  <2> QED BY <2>1, <2>2
<1>3. SkipAll(json, e, Range(Digits)) = e + Len(d)
  <2> DEFINE u == e + Len(d)
  <2>1. u \in e..(Len(json) + 1) /\ e \in Nat \ {0} /\ u = off + Len(d) + 1
    BY <1>0
  <2>2. json[u] \notin Range(Digits)
    BY <2>1, DigitsAre
  <2>3. ASSUME NEW j \in e..(u - 1)
        PROVE  json[j] \in Range(Digits)
    <3> DEFINE i == j - off
    <3>1. i \in 1..Len(d) /\ off + i = j
      BY <1>0
    <3> HIDE DEF i
    <3> QED BY <1>0, <1>1, <3>1
  <2> HIDE DEF u, e
  <2>4. SkipAll(json, e, Range(Digits)) = u
    BY <2>1, <2>2, <2>3, SkipIs
  <2> QED BY <2>4 DEF u
<1>4. t = d
  <2>1. SkipAll(json, e, Range(Digits)) - 1 = off + Len(d)
    BY <1>0, <1>3
  <2> DEFINE v == SubSeq(json, e, off + Len(d))
  <2>2. v \in Seq(A) /\ Len(v) = Len(d) /\ \A i \in 1..Len(d) : v[i] = json[off + i]
    BY <1>0
  <2> HIDE DEF v
  <2>3. v = d
    <3>1. \A i \in 1..Len(v) : v[i] = d[i]
      BY <1>1, <2>2
    <3>2. v \in Seq(A) /\ Len(v) = Len(d)
      BY <2>2
    <3>3. \A S, T : \A x \in Seq(S), y \in Seq(T) :
              Len(x) = Len(y) /\ (\A i \in 1..Len(x) : x[i] = y[i]) => x = y
      BY SeqEqual
    <3> QED BY ONLY <3>1, <3>2, <3>3, d \in Seq(Range(Digits))
  <2> QED BY <2>1, <2>3 DEF v
<1>5. ~(e \in DOMAIN json /\ json[e] = "-") /\ e # 0
  BY <1>0, <1>2
<1>6. e = ValueOf(json, key)
  OBVIOUS
<1> HIDE DEF e
<1> QED BY <1>4, <1>5, <1>6, Zenon DEF ExtractJsonInt, t
-----------------------------------------------------------------------------
(* Where the parts of an answer are.                                       *)
LEMMA Joined ==
    ASSUME NEW A, NEW p, p \in Seq(A), NEW q, q \in Seq(A)
    PROVE  p \o q \in Seq(A) /\ Len(p \o q) = Len(p) + Len(q)
BY ConcatProperties

LEMMA Wider ==
    ASSUME NEW S, NEW s, s \in Seq(S), NEW A, S \subseteq A
    PROVE  s \in Seq(A)
<1>1. Len(s) \in Nat /\ s = [i \in 1..Len(s) |-> s[i]] /\ \A i \in 1..Len(s) : s[i] \in A
  BY LenProperties, ElementOfSeq
<1> QED BY <1>1, IsASeq

LEMMA OneHere ==
    ASSUME NEW s, NEW off, NEW p, Len(p) = 1, Here(s, off, p)
    PROVE  s[off + 1] = p[1]
<1>1. 1 \in 1..Len(p)
  OBVIOUS
<1> QED BY <1>1 DEF Here

LEMMA PairHere ==
    ASSUME NEW A, NEW s, NEW off, off \in Nat, NEW key, key \in A, {"quote", ":"} \subseteq A,
           NEW v, v \in Seq(A), Here(s, off, Pair(key, v))
    PROVE  /\ s[off + 1] = "quote" /\ s[off + 2] = key /\ s[off + 3] = "quote"
           /\ s[off + 4] = ":" /\ Here(s, off + 4, v)
<1> DEFINE k == <<"quote", key, "quote", ":">>
<1>1. k \in Seq(A) /\ Len(k) = 4
  BY DEF k
<1>2. k[1] = "quote" /\ k[2] = key /\ k[3] = "quote" /\ k[4] = ":"
  BY DEF k
<1>3. Here(s, off, k \o v)
  BY DEF Pair, k
<1> HIDE DEF k
<1>4. Here(s, off, k) /\ Here(s, off + Len(k), v)
  BY ONLY <1>1, <1>3, v \in Seq(A), HereBoth
<1>5. \A i \in 1..4 : s[off + i] = k[i]
  BY <1>1, <1>4 DEF Here
<1> QED BY <1>1, <1>2, <1>4, <1>5

LEMMA PairType ==
    ASSUME NEW A, NEW key, key \in A, {"quote", ":"} \subseteq A, NEW v, v \in Seq(A)
    PROVE  Pair(key, v) \in Seq(A) /\ Len(v) \in Nat /\ Len(Pair(key, v)) = 4 + Len(v)
<1> DEFINE k == <<"quote", key, "quote", ":">>
<1>1. k \in Seq(A) /\ Len(k) = 4
  BY DEF k
<1> HIDE DEF k
<1>2. Len(v) \in Nat /\ k \o v \in Seq(A) /\ Len(k \o v) = 4 + Len(v)
  <2>1. Len(v) \in Nat
    BY LenProperties
  <2>2. k \o v \in Seq(A) /\ Len(k \o v) = Len(k) + Len(v)
    BY ONLY <1>1, v \in Seq(A), Joined
  <2> QED BY <1>1, <2>1, <2>2
<1> QED BY <1>2 DEF Pair, k

LEMMA TextHere ==
    ASSUME NEW A, Dumps(A), NEW s, NEW off, off \in Nat, NEW x, x \in Seq(A),
           Here(s, off, Text(x))
    PROVE  /\ s[off + 1] = "quote" /\ Here(s, off + 1, JsonDump(x))
           /\ s[off + 1 + Len(JsonDump(x)) + 1] = "quote"
<1> DEFINE q == <<"quote">>
           d == JsonDump(x)
           u == q \o d
<1>1. q \in Seq(A) /\ Len(q) = 1 /\ q[1] = "quote"
  BY DEF Dumps
<1>2. d \in Seq(A) /\ Len(d) \in Nat
  BY DumpSteps, LenProperties
<1>3. Here(s, off, u \o q)
  BY DEF Text
<1> HIDE DEF q, d
<1>4. u \in Seq(A) /\ Len(u) = 1 + Len(d)
  <2>1. u \in Seq(A) /\ Len(u) = Len(q) + Len(d)
    BY ONLY <1>1, <1>2, Joined
  <2> QED BY <1>1, <2>1
<1> HIDE DEF u
<1>5. Here(s, off, u) /\ Here(s, off + Len(u), q)
  BY ONLY <1>1, <1>3, <1>4, HereBoth
<1>6. Here(s, off, q) /\ Here(s, off + Len(q), d)
  <2>1. Here(s, off, q \o d)
    BY <1>5 DEF u
  <2> QED BY ONLY <1>1, <1>2, <2>1, HereBoth
<1>7. s[off + 1] = "quote" /\ s[off + Len(u) + 1] = "quote"
  BY <1>1, <1>5, <1>6 DEF Here
<1>8. off + Len(u) + 1 = off + 1 + Len(d) + 1
  BY <1>2, <1>4
<1> QED BY <1>1, <1>6, <1>7, <1>8 DEF d

LEMMA TextType ==
    ASSUME NEW A, Dumps(A), NEW x, x \in Seq(A)
    PROVE  /\ Text(x) \in Seq(A) /\ Len(JsonDump(x)) \in Nat
           /\ Len(Text(x)) = Len(JsonDump(x)) + 2
<1> DEFINE q == <<"quote">>
           d == JsonDump(x)
<1>1. q \in Seq(A) /\ Len(q) = 1
  BY DEF Dumps
<1>2. d \in Seq(A) /\ Len(d) \in Nat
  BY DumpSteps, LenProperties
<1> HIDE DEF q, d
<1>3. q \o d \in Seq(A) /\ Len(q \o d) = 1 + Len(d)
  <2>1. q \o d \in Seq(A) /\ Len(q \o d) = Len(q) + Len(d)
    BY ONLY <1>1, <1>2, Joined
  <2> QED BY <1>1, <2>1
<1> DEFINE u == q \o d
<1> HIDE DEF u
<1>4. u \in Seq(A) /\ Len(u) = 1 + Len(d)
  BY <1>3 DEF u
<1>5. u \o q \in Seq(A) /\ Len(u \o q) = 2 + Len(d)
  <2>1. u \o q \in Seq(A) /\ Len(u \o q) = Len(u) + Len(q)
    BY ONLY <1>1, <1>4, Joined
  <2>2. Len(u \o q) = (1 + Len(d)) + 1
    BY <1>1, <1>4, <2>1
  <2> QED BY <1>2, <2>1, <2>2
<1> QED BY <1>2, <1>5 DEF Text, q, d, u

(* What stands before the last of the pieces, and where that begins.       *)
LEMMA HereLast ==
    ASSUME NEW A, NEW s, NEW p, p \in Seq(A), NEW q, q \in Seq(A), NEW n, n = Len(p),
           Here(s, 0, p \o q)
    PROVE  n \in Nat /\ Here(s, 0, p) /\ Here(s, n, q)
<1>1. Len(p) \in Nat
  BY LenProperties
<1>2. Here(s, 0, p) /\ Here(s, 0 + Len(p), q)
  BY HereBoth
<1> QED BY <1>1, <1>2

AnswerSymbols(x) ==
    Range(x) \cup Range(Digits)
    \cup {"backslash", "quote", "newline", "n", "u001b", ":", Comma, Brace, "blank",
          "role", "assistant", "content", "created", "completion_tokens", "total_tokens"}
AnswerLaidOut(json, x, n, created, p, completion, q, total, t) ==
    /\ Len(json) = 31 + n + p + q + t
    /\ json[1] = "quote" /\ json[2] = "role" /\ json[3] = "quote" /\ json[4] = ":"
    /\ json[5] = "quote" /\ json[6] = "assistant" /\ json[7] = "quote" /\ json[8] = Comma
    /\ json[9] = "quote" /\ json[10] = "content" /\ json[11] = "quote" /\ json[12] = ":"
    /\ json[13] = "quote" /\ Here(json, 13, x)
    /\ json[14 + n] = "quote" /\ json[15 + n] = Comma
    /\ json[16 + n] = "quote" /\ json[17 + n] = "created" /\ json[18 + n] = "quote"
    /\ json[19 + n] = ":" /\ Here(json, 19 + n, created)
    /\ json[20 + n + p] = Comma
    /\ json[21 + n + p] = "quote" /\ json[22 + n + p] = "completion_tokens"
    /\ json[23 + n + p] = "quote" /\ json[24 + n + p] = ":" /\ json[25 + n + p] = "blank"
    /\ Here(json, 25 + n + p, completion)
    /\ json[26 + n + p + q] = Comma
    /\ json[27 + n + p + q] = "quote" /\ json[28 + n + p + q] = "total_tokens"
    /\ json[29 + n + p + q] = "quote" /\ json[30 + n + p + q] = ":"
    /\ Here(json, 30 + n + p + q, total)
    /\ json[31 + n + p + q + t] = Brace

LEMMA AnswerIs ==
    ASSUME NEW a, IsString(a.content), NEW A, A = AnswerSymbols(a.content),
           a.created \in Seq(Range(Digits)), a.completion \in Seq(Range(Digits)),
           a.total \in Seq(Range(Digits)),
           NEW n, n = Len(JsonDump(a.content)), NEW p, p = Len(a.created),
           NEW q, q = Len(a.completion), NEW t, t = Len(a.total)
    PROVE  /\ Answer(a) \in Seq(A) /\ n \in Nat /\ p \in Nat /\ q \in Nat /\ t \in Nat
           /\ AnswerLaidOut(Answer(a), JsonDump(a.content), n, a.created, p,
                            a.completion, q, a.total, t)
<1> DEFINE x == a.content
           D == JsonDump(x)
           json == Answer(a)
           cm == <<Comma>>
           z == <<Brace>>
           b == <<"blank">>
           c0 == a.created
           d0 == b \o a.completion
           e0 == a.total
           who == Text(<<"assistant">>)
           txt == Text(x)
           p1 == Pair("role", who)
           p2 == Pair("content", txt)
           p3 == Pair("created", c0)
           p4 == Pair("completion_tokens", d0)
           p5 == Pair("total_tokens", e0)
           q2 == p1 \o cm
           q3 == q2 \o p2
           q4 == q3 \o cm
           q5 == q4 \o p3
           q6 == q5 \o cm
           q7 == q6 \o p4
           q8 == q7 \o cm
           q9 == q8 \o p5
<1>1. /\ Dumps(A) /\ Range(x) \subseteq A /\ Range(Digits) \subseteq A
      /\ {":", Comma, Brace, "blank", "quote", "role", "assistant", "content", "created",
          "completion_tokens", "total_tokens"} \subseteq A
  BY DEF Dumps, AnswerSymbols
<1>2. x \in Seq(A) /\ c0 \in Seq(A) /\ a.completion \in Seq(A) /\ e0 \in Seq(A)
  <2>1. x \in Seq(Range(x)) /\ \A u \in Seq(Range(Digits)) : u \in Seq(A)
    BY <1>1, Wider DEF IsString
  <2>2. x \in Seq(A)
    BY ONLY <1>1, <2>1, Wider
  <2> QED BY <2>1, <2>2
<1>2a. a.completion \in Seq(A)
  BY <1>2
<1>3. \A e \in A : <<e>> \in Seq(A) /\ Len(<<e>>) = 1 /\ <<e>>[1] = e
  OBVIOUS
<1>3a. cm \in Seq(A)
  BY <1>1, <1>3
<1>3b. z \in Seq(A)
  BY <1>1, <1>3
<1>3c. b \in Seq(A)
  BY <1>1, <1>3
<1>3d. Len(cm) = 1 /\ Len(z) = 1 /\ Len(b) = 1
  BY <1>1, <1>3
<1>3e. cm[1] = Comma /\ z[1] = Brace /\ b[1] = "blank"
  BY <1>1, <1>3
<1>3f. <<"assistant">> \in Seq(A)
  BY <1>1, <1>3
<1>4. n \in Nat /\ p \in Nat /\ q \in Nat /\ t \in Nat
  BY <1>1, <1>2, LenProperties, DumpSteps
<1>5. JsonDump(<<"assistant">>) = <<"assistant">>
  <2>1. Dumped("assistant") = <<"assistant">>
    BY DEF Dumped, Escape
  <2>2. JsonDump(<<"assistant">>) = Dumped("assistant")
    BY <1>1, DumpSteps
  <2> QED BY <2>1, <2>2
<1>6. /\ who \in Seq(A) /\ Len(who) = 3 /\ txt \in Seq(A) /\ Len(txt) = n + 2
  <2>1. Len(JsonDump(<<"assistant">>)) = 1
    BY <1>5
  <2>2. who \in Seq(A) /\ Len(who) = Len(JsonDump(<<"assistant">>)) + 2
    BY <1>1, <1>3f, TextType
  <2>3. txt \in Seq(A) /\ Len(txt) = Len(D) + 2
    BY <1>1, <1>2, TextType
  <2>4. Len(who) = 3
    <3> DEFINE w == Len(who)
               v == Len(JsonDump(<<"assistant">>))
    <3>1. v = 1 /\ w = v + 2
      BY <2>1, <2>2
    <3> HIDE DEF w, v
    <3>2. w = 3
      BY <3>1
    <3> QED BY <3>2 DEF w
  <2> QED BY <2>2, <2>3, <2>4
<1>7. d0 \in Seq(A) /\ Len(d0) = 1 + q
  <2>1. d0 \in Seq(A) /\ Len(d0) = Len(b) + Len(a.completion)
    BY ONLY <1>2a, <1>3c, Joined
  <2> QED BY ONLY <1>3d, <2>1, q = Len(a.completion)
<1> HIDE DEF cm, z, b, c0, d0, e0, who, txt
<1>8. /\ p1 \in Seq(A) /\ Len(p1) = 7 /\ p2 \in Seq(A) /\ Len(p2) = n + 6
      /\ p3 \in Seq(A) /\ Len(p3) = 4 + p /\ p4 \in Seq(A) /\ Len(p4) = 5 + q
      /\ p5 \in Seq(A) /\ Len(p5) = 4 + t
  <2>1. Len(c0) = p /\ Len(e0) = t
    BY DEF c0, e0
  <2>2. p1 \in Seq(A) /\ Len(p1) = 4 + Len(who)
    <3>1. "role" \in A /\ {"quote", ":"} \subseteq A /\ who \in Seq(A)
      BY <1>1, <1>6
    <3>2. Pair("role", who) \in Seq(A) /\ Len(Pair("role", who)) = 4 + Len(who)
      BY ONLY <3>1, PairType
    <3> QED BY <3>2 DEF p1
  <2>3. p2 \in Seq(A) /\ Len(p2) = 4 + Len(txt)
    <3>1. "content" \in A /\ {"quote", ":"} \subseteq A /\ txt \in Seq(A)
      BY <1>1, <1>6
    <3>2. Pair("content", txt) \in Seq(A) /\ Len(Pair("content", txt)) = 4 + Len(txt)
      BY ONLY <3>1, PairType
    <3> QED BY <3>2 DEF p2
  <2>4. p3 \in Seq(A) /\ Len(p3) = 4 + Len(c0)
    <3>1. "created" \in A /\ {"quote", ":"} \subseteq A /\ c0 \in Seq(A)
      BY <1>1, <1>2
    <3>2. Pair("created", c0) \in Seq(A) /\ Len(Pair("created", c0)) = 4 + Len(c0)
      BY ONLY <3>1, PairType
    <3> QED BY <3>2 DEF p3
  <2>5. p4 \in Seq(A) /\ Len(p4) = 4 + Len(d0)
    <3>1. "completion_tokens" \in A /\ {"quote", ":"} \subseteq A /\ d0 \in Seq(A)
      BY <1>1, <1>7
    <3>2. Pair("completion_tokens", d0) \in Seq(A) /\ Len(Pair("completion_tokens", d0)) = 4 + Len(d0)
      BY ONLY <3>1, PairType
    <3> QED BY <3>2 DEF p4
  <2>6. p5 \in Seq(A) /\ Len(p5) = 4 + Len(e0)
    <3>1. "total_tokens" \in A /\ {"quote", ":"} \subseteq A /\ e0 \in Seq(A)
      BY <1>1, <1>2
    <3>2. Pair("total_tokens", e0) \in Seq(A) /\ Len(Pair("total_tokens", e0)) = 4 + Len(e0)
      BY ONLY <3>1, PairType
    <3> QED BY <3>2 DEF p5
  <2> HIDE DEF p1, p2, p3, p4, p5
  <2> QED BY <1>4, <1>6, <1>7, <2>1, <2>2, <2>3, <2>4, <2>5, <2>6
<1>8a. p1 \in Seq(A)
  BY <1>8
<1>8b. p2 \in Seq(A)
  BY <1>8
<1>8c. p3 \in Seq(A)
  BY <1>8
<1>8d. p4 \in Seq(A)
  BY <1>8
<1>8e. p5 \in Seq(A)
  BY <1>8
<1>8f. Len(p1) = 7 /\ Len(p2) = n + 6 /\ Len(p3) = 4 + p /\ Len(p4) = 5 + q /\ Len(p5) = 4 + t
  BY <1>8
<1>9. json = q9 \o z
  BY Zenon DEF Answer, Comma, Brace, cm, z, c0, d0, e0, who, txt, b
<1> HIDE DEF p1, p2, p3, p4, p5
<1>10. q2 \in Seq(A) /\ Len(q2) = 8
  <2>1. q2 \in Seq(A) /\ Len(q2) = Len(p1) + Len(cm)
    BY ONLY <1>8a, <1>3a, Joined
  <2> QED BY ONLY <1>3d, <1>4, <1>8f, <1>8a, <2>1
<1> HIDE DEF q2
<1>11. q3 \in Seq(A) /\ Len(q3) = 14 + n
  <2>1. q3 \in Seq(A) /\ Len(q3) = Len(q2) + Len(p2)
    BY ONLY <1>10, <1>8b, Joined
  <2> QED BY ONLY <1>3d, <1>4, <1>8f, <1>10, <2>1
<1> HIDE DEF q3
<1>12. q4 \in Seq(A) /\ Len(q4) = 15 + n
  <2>1. q4 \in Seq(A) /\ Len(q4) = Len(q3) + Len(cm)
    BY ONLY <1>11, <1>3a, Joined
  <2> QED BY ONLY <1>3d, <1>4, <1>8f, <1>11, <2>1
<1> HIDE DEF q4
<1>13. q5 \in Seq(A) /\ Len(q5) = 19 + n + p
  <2>1. q5 \in Seq(A) /\ Len(q5) = Len(q4) + Len(p3)
    BY ONLY <1>12, <1>8c, Joined
  <2> QED BY ONLY <1>3d, <1>4, <1>8f, <1>12, <2>1
<1> HIDE DEF q5
<1>14. q6 \in Seq(A) /\ Len(q6) = 20 + n + p
  <2>1. q6 \in Seq(A) /\ Len(q6) = Len(q5) + Len(cm)
    BY ONLY <1>13, <1>3a, Joined
  <2> QED BY ONLY <1>3d, <1>4, <1>8f, <1>13, <2>1
<1> HIDE DEF q6
<1>15. q7 \in Seq(A) /\ Len(q7) = 25 + n + p + q
  <2>1. q7 \in Seq(A) /\ Len(q7) = Len(q6) + Len(p4)
    BY ONLY <1>14, <1>8d, Joined
  <2> QED BY ONLY <1>3d, <1>4, <1>8f, <1>14, <2>1
<1> HIDE DEF q7
<1>16. q8 \in Seq(A) /\ Len(q8) = 26 + n + p + q
  <2>1. q8 \in Seq(A) /\ Len(q8) = Len(q7) + Len(cm)
    BY ONLY <1>15, <1>3a, Joined
  <2> QED BY ONLY <1>3d, <1>4, <1>8f, <1>15, <2>1
<1> HIDE DEF q8
<1>17. q9 \in Seq(A) /\ Len(q9) = 30 + n + p + q + t
  <2>1. q9 \in Seq(A) /\ Len(q9) = Len(q8) + Len(p5)
    BY ONLY <1>16, <1>8e, Joined
  <2> QED BY ONLY <1>3d, <1>4, <1>8f, <1>16, <2>1
<1> HIDE DEF q9
<1>18. json \in Seq(A) /\ Len(json) = 31 + n + p + q + t
  <2>1. q9 \o z \in Seq(A) /\ Len(q9 \o z) = Len(q9) + Len(z)
    BY ONLY <1>3b, <1>17, Joined
  <2> QED BY ONLY <1>3d, <1>4, <1>9, <1>17, <2>1
<1> HIDE DEF json, D, x
<1>20. Here(json, 0, q9 \o z)
  BY <1>9, <1>18, HereAll
<1>21. Here(json, 0, q9) /\ Here(json, 30 + n + p + q + t, z)
  BY ONLY <1>3b, <1>17, <1>20, HereLast
<1>22. Here(json, 0, q8) /\ Here(json, 26 + n + p + q, p5)
  BY ONLY <1>16, <1>8e, <1>21, HereLast DEF q9
<1>23. Here(json, 0, q7) /\ Here(json, 25 + n + p + q, cm)
  BY ONLY <1>15, <1>3a, <1>22, HereLast DEF q8
<1>24. Here(json, 0, q6) /\ Here(json, 20 + n + p, p4)
  BY ONLY <1>14, <1>8d, <1>23, HereLast DEF q7
<1>25. Here(json, 0, q5) /\ Here(json, 19 + n + p, cm)
  BY ONLY <1>13, <1>3a, <1>24, HereLast DEF q6
<1>26. Here(json, 0, q4) /\ Here(json, 15 + n, p3)
  BY ONLY <1>12, <1>8c, <1>25, HereLast DEF q5
<1>27. Here(json, 0, q3) /\ Here(json, 14 + n, cm)
  BY ONLY <1>11, <1>3a, <1>26, HereLast DEF q4
<1>28. Here(json, 0, q2) /\ Here(json, 8, p2)
  BY ONLY <1>10, <1>8b, <1>27, HereLast DEF q3
<1>29. Here(json, 0, p1) /\ Here(json, 7, cm)
  BY ONLY <1>8a, <1>8f, <1>3a, <1>28, HereLast DEF q2
<1>30. /\ json[31 + n + p + q + t] = Brace /\ json[26 + n + p + q] = Comma
       /\ json[20 + n + p] = Comma /\ json[15 + n] = Comma /\ json[8] = Comma
  <2>1. \A off \in Nat : Here(json, off, cm) => json[off + 1] = Comma
    BY ONLY <1>3d, <1>3e, OneHere
  <2>2. \A off \in Nat : Here(json, off, z) => json[off + 1] = Brace
    BY ONLY <1>3d, <1>3e, OneHere
  <2>3. /\ json[(30 + n + p + q + t) + 1] = Brace /\ json[(25 + n + p + q) + 1] = Comma
        /\ json[(19 + n + p) + 1] = Comma /\ json[(14 + n) + 1] = Comma /\ json[7 + 1] = Comma
    <3>1. /\ 30 + n + p + q + t \in Nat /\ 25 + n + p + q \in Nat
          /\ 19 + n + p \in Nat /\ 14 + n \in Nat /\ 7 \in Nat
      BY ONLY <1>4
    <3> QED BY ONLY <3>1, <1>21, <1>23, <1>25, <1>27, <1>29, <2>1, <2>2
  <2>4. /\ (30 + n + p + q + t) + 1 = 31 + n + p + q + t
        /\ (25 + n + p + q) + 1 = 26 + n + p + q /\ (19 + n + p) + 1 = 20 + n + p
        /\ (14 + n) + 1 = 15 + n /\ 7 + 1 = 8
    BY ONLY <1>4
  <2> QED BY <2>3, <2>4
<1>31. /\ json[1] = "quote" /\ json[2] = "role" /\ json[3] = "quote" /\ json[4] = ":"
       /\ json[5] = "quote" /\ json[6] = "assistant" /\ json[7] = "quote"
  <2>1. /\ json[0 + 1] = "quote" /\ json[0 + 2] = "role" /\ json[0 + 3] = "quote"
        /\ json[0 + 4] = ":" /\ Here(json, 0 + 4, who)
    <3>1. Here(json, 0, Pair("role", who)) /\ 0 \in Nat /\ "role" \in A /\ {"quote", ":"} \subseteq A
      BY <1>1, <1>29 DEF p1
    <3> QED BY ONLY <1>6, <3>1, PairHere
  <2>2. Here(json, 4, Text(<<"assistant">>))
    BY <2>1 DEF who
  <2>3. /\ json[4 + 1] = "quote" /\ Here(json, 4 + 1, JsonDump(<<"assistant">>))
        /\ json[4 + 1 + Len(JsonDump(<<"assistant">>)) + 1] = "quote"
    <3> DEFINE off == 4
               y == <<"assistant">>
    <3>1. Dumps(A) /\ off \in Nat /\ y \in Seq(A) /\ Here(json, off, Text(y))
      BY <1>1, <1>3f, <2>2
    <3> HIDE DEF off, json, y
    <3>2. /\ json[off + 1] = "quote" /\ Here(json, off + 1, JsonDump(y))
          /\ json[off + 1 + Len(JsonDump(y)) + 1] = "quote"
      BY ONLY <3>1, TextHere
    <3> QED BY <3>2 DEF off, y
  <2>4. json[6] = "assistant" /\ json[7] = "quote"
    <3> DEFINE d == JsonDump(<<"assistant">>)
    <3>1. Len(d) = 1 /\ d[1] = "assistant"
      BY <1>5
    <3> HIDE DEF d
    <3>2. 4 + 1 = 5 /\ 4 + 1 + Len(d) + 1 = 7
      BY <3>1
    <3>3. Here(json, 5, d) /\ json[7] = "quote"
      BY <2>3, <3>2 DEF d
    <3>4. json[5 + 1] = d[1]
      BY ONLY <3>1, <3>3 DEF Here
    <3> QED BY <3>1, <3>3, <3>4
  <2> QED BY <2>1, <2>3, <2>4
<1>32. /\ json[9] = "quote" /\ json[10] = "content" /\ json[11] = "quote" /\ json[12] = ":"
       /\ json[13] = "quote" /\ Here(json, 13, D) /\ json[14 + n] = "quote"
  <2>1. /\ json[8 + 1] = "quote" /\ json[8 + 2] = "content" /\ json[8 + 3] = "quote"
        /\ json[8 + 4] = ":" /\ Here(json, 8 + 4, txt)
    <3>1. Here(json, 8, Pair("content", txt)) /\ 8 \in Nat /\ "content" \in A /\ {"quote", ":"} \subseteq A
      BY <1>1, <1>28 DEF p2
    <3> QED BY ONLY <1>6, <3>1, PairHere
  <2>2. Here(json, 12, Text(x))
    BY <2>1 DEF txt
  <2>3. /\ json[12 + 1] = "quote" /\ Here(json, 12 + 1, JsonDump(x))
        /\ json[12 + 1 + Len(JsonDump(x)) + 1] = "quote"
    <3> DEFINE off == 12
    <3>1. Dumps(A) /\ off \in Nat /\ x \in Seq(A) /\ Here(json, off, Text(x))
      BY <1>1, <1>2, <2>2
    <3> HIDE DEF off, json, x
    <3>2. /\ json[off + 1] = "quote" /\ Here(json, off + 1, JsonDump(x))
          /\ json[off + 1 + Len(JsonDump(x)) + 1] = "quote"
      BY ONLY <3>1, TextHere
    <3> QED BY <3>2 DEF off
  <2>4. 12 + 1 + n + 1 = 14 + n /\ n = Len(JsonDump(x))
    BY <1>4 DEF x
  <2> QED BY <2>1, <2>3, <2>4 DEF D
<1>33. /\ json[16 + n] = "quote" /\ json[17 + n] = "created" /\ json[18 + n] = "quote"
       /\ json[19 + n] = ":" /\ Here(json, 19 + n, c0)
  <2> DEFINE o == 15 + n
  <2>1. o \in Nat /\ o + 1 = 16 + n /\ o + 2 = 17 + n /\ o + 3 = 18 + n /\ o + 4 = 19 + n
    BY ONLY <1>4
  <2>2. Here(json, o, Pair("created", c0)) /\ "created" \in A /\ {"quote", ":"} \subseteq A
    BY <1>1, <1>26 DEF p3
  <2> HIDE DEF o
  <2>3. /\ json[o + 1] = "quote" /\ json[o + 2] = "created" /\ json[o + 3] = "quote"
        /\ json[o + 4] = ":" /\ Here(json, o + 4, c0)
    BY ONLY <1>2, <2>1, <2>2, PairHere
  <2> QED BY <2>1, <2>3
<1>34. /\ json[21 + n + p] = "quote" /\ json[22 + n + p] = "completion_tokens"
       /\ json[23 + n + p] = "quote" /\ json[24 + n + p] = ":" /\ json[25 + n + p] = "blank"
       /\ Here(json, 25 + n + p, a.completion)
  <2> DEFINE o == 20 + n + p
  <2>1. /\ o \in Nat /\ o + 1 = 21 + n + p /\ o + 2 = 22 + n + p /\ o + 3 = 23 + n + p
        /\ o + 4 = 24 + n + p /\ (o + 4) + 1 = 25 + n + p
    BY ONLY <1>4
  <2>2. /\ Here(json, o, Pair("completion_tokens", d0)) /\ "completion_tokens" \in A
        /\ {"quote", ":"} \subseteq A
    BY <1>1, <1>24 DEF p4
  <2> HIDE DEF o
  <2>3. /\ json[o + 1] = "quote" /\ json[o + 2] = "completion_tokens" /\ json[o + 3] = "quote"
        /\ json[o + 4] = ":" /\ Here(json, o + 4, d0)
    BY ONLY <1>7, <2>1, <2>2, PairHere
  <2>4. Here(json, o + 4, b) /\ Here(json, (o + 4) + Len(b), a.completion)
    <3>1. Here(json, o + 4, b \o a.completion)
      BY <2>3 DEF d0
    <3> QED BY ONLY <1>2a, <1>3c, <3>1, HereBoth
  <2>5. json[(o + 4) + 1] = "blank"
    BY ONLY <1>3d, <1>3e, <2>4, OneHere
  <2>6. Here(json, (o + 4) + 1, a.completion)
    BY ONLY <1>3d, <2>4
  <2> QED BY <2>1, <2>3, <2>5, <2>6
<1>35. /\ json[27 + n + p + q] = "quote" /\ json[28 + n + p + q] = "total_tokens"
       /\ json[29 + n + p + q] = "quote" /\ json[30 + n + p + q] = ":"
       /\ Here(json, 30 + n + p + q, e0)
  <2> DEFINE o == 26 + n + p + q
  <2>1. /\ o \in Nat /\ o + 1 = 27 + n + p + q /\ o + 2 = 28 + n + p + q
        /\ o + 3 = 29 + n + p + q /\ o + 4 = 30 + n + p + q
    BY ONLY <1>4
  <2>2. Here(json, o, Pair("total_tokens", e0)) /\ "total_tokens" \in A /\ {"quote", ":"} \subseteq A
    BY <1>1, <1>22 DEF p5
  <2> HIDE DEF o
  <2>3. /\ json[o + 1] = "quote" /\ json[o + 2] = "total_tokens" /\ json[o + 3] = "quote"
        /\ json[o + 4] = ":" /\ Here(json, o + 4, e0)
    BY ONLY <1>2, <2>1, <2>2, PairHere
  <2> QED BY <2>1, <2>3
<1>36. AnswerLaidOut(json, D, n, c0, p, a.completion, q, e0, t)
  BY <1>18, <1>30, <1>31, <1>32, <1>33, <1>34, <1>35, Zenon DEF AnswerLaidOut
<1> QED BY <1>4, <1>18, <1>36 DEF json, D, x, c0, e0
-----------------------------------------------------------------------------
(* The text of an answer.                                                  *)
LEMMA ContentIsFound ==
    ASSUME NEW a, IsString(a.content), a.created \in Seq(Range(Digits)),
           a.completion \in Seq(Range(Digits)), a.total \in Seq(Range(Digits)),
           Legible(a.content)
    PROVE  ExtractJsonString(Answer(a), "content") = a.content
<1> DEFINE A == AnswerSymbols(a.content)
           x == a.content
           D == JsonDump(x)
           n == Len(D)
           p == Len(a.created)
           q == Len(a.completion)
           t == Len(a.total)
           json == Answer(a)
<1>1. /\ json \in Seq(A) /\ n \in Nat /\ p \in Nat /\ q \in Nat /\ t \in Nat
      /\ AnswerLaidOut(json, D, n, a.created, p, a.completion, q, a.total, t)
  BY AnswerIs
<1>2. Dumps(A) /\ x \in Seq(A) /\ "content" \in A
  <2>1. Range(x) \subseteq A /\ x \in Seq(Range(x))
    BY DEF AnswerSymbols, IsString
  <2>2. Dumps(A) /\ "content" \in A
    BY DEF Dumps, AnswerSymbols
  <2> HIDE DEF A, x
  <2> QED BY ONLY <2>1, <2>2, Wider
<1>3. "quote" \in A
  BY <1>2 DEF Dumps
<1> HIDE DEF A, x, D, n, p, q, t, json
<1>4. /\ Len(json) = 31 + n + p + q + t
      /\ json[1] = "quote" /\ json[2] = "role" /\ json[3] = "quote" /\ json[4] = ":"
      /\ json[5] = "quote" /\ json[6] = "assistant" /\ json[7] = "quote" /\ json[8] = Comma
      /\ json[9] = "quote" /\ json[10] = "content" /\ json[11] = "quote" /\ json[12] = ":"
      /\ json[13] = "quote" /\ Here(json, 13, D) /\ json[14 + n] = "quote"
  BY <1>1 DEF AnswerLaidOut
<1>5. ValueOf(json, "content") = 13
  <2>1. 9 \in 1..(Len(json) - 3) /\ 13 \in (9 + 4)..(Len(json) + 1)
    BY ONLY <1>1, <1>4
  <2>2. Three(json, 9, "quote", "content", "quote")
    BY ONLY <1>4 DEF Three
  <2>3. ASSUME NEW i \in 1..(9 - 1)
        PROVE  ~Three(json, i, "quote", "content", "quote")
    <3>1. i \in 1..8 /\ i + 1 \in 2..9
      OBVIOUS
    <3>2. json[i + 1] # "content"
      <4> DEFINE j == i + 1
      <4>1. j = 2 \/ j = 3 \/ j = 4 \/ j = 5 \/ j = 6 \/ j = 7 \/ j = 8 \/ j = 9
        BY ONLY <3>1
      <4> HIDE DEF j
      <4>2. json[j] # "content"
        BY ONLY <1>4, <4>1, CommaIs
      <4> QED BY <4>2 DEF j
    <3> QED BY <3>2 DEF Three
  <2>4. json[9 + 3] = ":" /\ (13 <= Len(json) => json[13] # "blank")
    BY ONLY <1>4
  <2>5. \A j \in (9 + 4)..(13 - 1) : json[j] = "blank"
    OBVIOUS
  <2>6. json \in Seq(A)
    BY <1>1
  <2> DEFINE key == "content"
             f == 9
             e == 13
  <2>7. ValueAt(json, key, f, e)
    BY <2>1, <2>2, <2>3, <2>4, <2>5 DEF ValueAt
  <2>8. key \in A
    BY <1>2
  <2> HIDE DEF key, f, e
  <2>9. ValueOf(json, key) = e
    BY ONLY <1>3, <2>6, <2>7, <2>8, ValueIs
  <2> QED BY <2>9 DEF key, e
<1>6. ExtractJsonString(json, "content") = Reader(json)[13 + 1]
  <2>1. 13 # 0 /\ ~(13 > Len(json)) /\ json[13] = "quote" /\ 13 = ValueOf(json, "content")
    BY ONLY <1>1, <1>4, <1>5
  <2> QED BY ONLY <2>1, ExtractIs
<1>7. Reader(json)[13 + 1] = x
  <2>1. json \in Seq(A) /\ 13 \in Nat /\ n = Len(JsonDump(x))
    BY <1>1 DEF n, D
  <2>2. 13 + n + 1 <= Len(json) /\ json[13 + n + 1] = "quote"
    BY ONLY <1>1, <1>4
  <2>3. Here(json, 13, JsonDump(x)) /\ Legible(x)
    BY <1>4 DEF D, x
  <2>4. 13 + Len(JsonDump(x)) + 1 <= Len(json) /\ json[13 + Len(JsonDump(x)) + 1] = "quote"
    BY ONLY <2>1, <2>2
  <2> QED BY ONLY <1>2, <2>1, <2>3, <2>4, TextComesBack
<1> QED BY <1>6, <1>7 DEF json, x

LEMMA NoDigit ==
    ASSUME NEW json, NEW off, NEW d, d \in Seq(Range(Digits)), Here(json, off, d),
           NEW j, j \in (off + 1)..(off + Len(d))
    PROVE  json[j] \in Range(Digits)
<1> DEFINE i == j - off
<1>1. Len(d) \in Nat /\ off \in Nat
  BY LenProperties DEF Here
<1>2. i \in 1..Len(d) /\ off + i = j
  BY <1>1
<1> HIDE DEF i
<1>3. json[off + i] = d[i] /\ d[i] \in Range(Digits)
  BY <1>2, ElementOfSeq DEF Here
<1> QED BY <1>2, <1>3

CountKeys == {"completion_tokens", "total_tokens"}
KeyPlace(key, n, p, q) == IF key = "completion_tokens" THEN 22 + n + p ELSE 28 + n + p + q

AnswerCounted(json, D, n, created, p, completion, q, total, t) ==
    /\ n \in Nat /\ p \in Nat /\ q \in Nat /\ t \in Nat
    /\ created \in Seq(Range(Digits)) /\ completion \in Seq(Range(Digits))
    /\ total \in Seq(Range(Digits))
    /\ n = Len(D) /\ p = Len(created) /\ q = Len(completion) /\ t = Len(total)
    /\ AnswerLaidOut(json, D, n, created, p, completion, q, total, t)

LEMMA OnlyKey ==
    ASSUME NEW json, NEW D, NEW n, NEW created, NEW p, NEW completion, NEW q, NEW total, NEW t,
           AnswerCounted(json, D, n, created, p, completion, q, total, t),
           NEW key, key \in CountKeys, NEW j, j \in 1..(KeyPlace(key, n, p, q) - 1), json[j] = key
    PROVE  /\ j - 13 \in 1..n /\ D[j - 13] = key
<1>a. /\ created \in Seq(Range(Digits)) /\ completion \in Seq(Range(Digits))
      /\ n = Len(D) /\ p = Len(created) /\ q = Len(completion)
      /\ AnswerLaidOut(json, D, n, created, p, completion, q, total, t)
  BY DEF AnswerCounted
<1>0. n \in Nat /\ p \in Nat /\ q \in Nat
  BY DEF AnswerCounted
<1>1. j \in 1..(27 + n + p + q) /\ (key = "completion_tokens" => j <= 21 + n + p)
  BY <1>0 DEF KeyPlace, CountKeys
<1>2. key \notin Range(Digits) /\ key \in CountKeys
  BY DigitsAre DEF CountKeys, NoDigits
<1>3. CASE j \in 1..13
  <2>1. \/ j = 1 \/ j = 2 \/ j = 3 \/ j = 4 \/ j = 5 \/ j = 6 \/ j = 7 \/ j = 8 \/ j = 9
        \/ j = 10 \/ j = 11 \/ j = 12 \/ j = 13
    BY ONLY <1>3
  <2>2. json[j] \notin CountKeys
    <3>1. /\ json[1] = "quote" /\ json[2] = "role" /\ json[3] = "quote" /\ json[4] = ":"
          /\ json[5] = "quote" /\ json[6] = "assistant" /\ json[7] = "quote" /\ json[8] = Comma
          /\ json[9] = "quote" /\ json[10] = "content" /\ json[11] = "quote" /\ json[12] = ":"
          /\ json[13] = "quote"
      BY <1>a, Zenon DEF AnswerLaidOut
    <3> QED BY ONLY <2>1, <3>1, CommaIs DEF CountKeys
  <2> QED BY <1>2, <2>2
<1>4. CASE j \in 14..(13 + n)
  <2> DEFINE m == j - 13
  <2>1. m \in 1..n /\ 13 + m = j
    BY ONLY <1>0, <1>4
  <2> HIDE DEF m
  <2>2. Here(json, 13, D)
    BY <1>a, Zenon DEF AnswerLaidOut
  <2>3. json[13 + m] = D[m]
    BY <1>a, <2>1, <2>2 DEF Here
  <2> QED BY <2>1, <2>3 DEF m
<1>5. CASE j \in (14 + n)..(19 + n)
  <2>1. j = 14 + n \/ j = 15 + n \/ j = 16 + n \/ j = 17 + n \/ j = 18 + n \/ j = 19 + n
    BY ONLY <1>0, <1>5
  <2>2. json[j] \notin CountKeys
    <3>1. /\ json[14 + n] = "quote" /\ json[15 + n] = Comma
          /\ json[16 + n] = "quote" /\ json[17 + n] = "created" /\ json[18 + n] = "quote"
          /\ json[19 + n] = ":"
      BY <1>a, Zenon DEF AnswerLaidOut
    <3> QED BY ONLY <2>1, <3>1, CommaIs DEF CountKeys
  <2> QED BY <1>2, <2>2
<1>6. CASE j \in (20 + n)..(19 + n + p)
  <2>1. Here(json, 19 + n, created) /\ j \in ((19 + n) + 1)..((19 + n) + Len(created))
    BY <1>a, <1>6 DEF AnswerLaidOut
  <2>2. json[j] \in Range(Digits)
    BY <1>a, <2>1, NoDigit
  <2> QED BY <1>2, <2>2
<1>7. CASE j \in (20 + n + p)..(25 + n + p)
  <2>1. \/ j = 20 + n + p \/ j = 21 + n + p \/ j = 22 + n + p \/ j = 23 + n + p
        \/ j = 24 + n + p \/ j = 25 + n + p
    BY ONLY <1>0, <1>7
  <2>2. j = 22 + n + p => key # "completion_tokens"
    BY <1>0, <1>1
  <2>3. json[j] \notin CountKeys \/ (j = 22 + n + p /\ json[j] = "completion_tokens")
    <3>1. /\ json[20 + n + p] = Comma
          /\ json[21 + n + p] = "quote" /\ json[22 + n + p] = "completion_tokens"
          /\ json[23 + n + p] = "quote" /\ json[24 + n + p] = ":" /\ json[25 + n + p] = "blank"
      BY <1>a, Zenon DEF AnswerLaidOut
    <3> QED BY ONLY <2>1, <3>1, CommaIs DEF CountKeys
  <2> QED BY <1>2, <2>2, <2>3
<1>8. CASE j \in (26 + n + p)..(25 + n + p + q)
  <2>1. /\ Here(json, 25 + n + p, completion)
        /\ j \in ((25 + n + p) + 1)..((25 + n + p) + Len(completion))
    BY <1>a, <1>8 DEF AnswerLaidOut
  <2>2. json[j] \in Range(Digits)
    BY <1>a, <2>1, NoDigit
  <2> QED BY <1>2, <2>2
<1>9. CASE j \in (26 + n + p + q)..(27 + n + p + q)
  <2>1. j = 26 + n + p + q \/ j = 27 + n + p + q
    BY ONLY <1>0, <1>9
  <2>2. json[j] \notin CountKeys
    <3>1. json[26 + n + p + q] = Comma /\ json[27 + n + p + q] = "quote"
      BY <1>a, Zenon DEF AnswerLaidOut
    <3> QED BY ONLY <2>1, <3>1, CommaIs DEF CountKeys
  <2> QED BY <1>2, <2>2
<1>10. \/ j \in 1..13 \/ j \in 14..(13 + n) \/ j \in (14 + n)..(19 + n)
       \/ j \in (20 + n)..(19 + n + p) \/ j \in (20 + n + p)..(25 + n + p)
       \/ j \in (26 + n + p)..(25 + n + p + q) \/ j \in (26 + n + p + q)..(27 + n + p + q)
  BY ONLY <1>0, <1>1
<1> QED BY <1>3, <1>4, <1>5, <1>6, <1>7, <1>8, <1>9, <1>10

(* A count is found where it is, unless the text ends as if it were one.   *)
LEMMA KeyIsFound ==
    ASSUME NEW A, Dumps(A), NEW x, x \in Seq(A), NEW D, D = JsonDump(x),
           NEW json, NEW n, NEW created, NEW p, NEW completion, NEW q, NEW total, NEW t,
           AnswerCounted(json, D, n, created, p, completion, q, total, t),
           NEW key, key \in CountKeys, ~EndsAsKey(x, key),
           NEW f, f = KeyPlace(key, n, p, q) - 1, NEW i, i \in 1..(f - 1)
    PROVE  ~Three(json, i, "quote", key, "quote")
<1> SUFFICES ASSUME Three(json, i, "quote", key, "quote")
             PROVE  FALSE
  OBVIOUS
<1>0. f \in Nat /\ i \in Nat
  BY DEF KeyPlace, AnswerCounted
<1> DEFINE j == i + 1
           m == j - 13
<1>1. j \in 1..(KeyPlace(key, n, p, q) - 1) /\ json[j] = key
  BY <1>0 DEF Three
<1> HIDE DEF j
<1>2. m \in 1..n /\ D[m] = key
  <2> HIDE DEF m
  <2>1. key \in CountKeys /\ AnswerCounted(json, D, n, created, p, completion, q, total, t)
    OBVIOUS
  <2>2. j - 13 \in 1..n /\ D[j - 13] = key
    BY ONLY <1>1, <2>1, OnlyKey
  <2> QED BY <2>2 DEF m
<1>3. j = 13 + m /\ i + 2 = 13 + (m + 1) /\ i = 13 + (m - 1)
  BY <1>0, <1>2 DEF j
<1> HIDE DEF m
<1>4. Here(json, 13, D) /\ json[i] = "quote" /\ json[i + 2] = "quote"
  BY DEF AnswerCounted, AnswerLaidOut, Three
<1>5a. n \in Nat /\ n = Len(D)
  BY DEF AnswerCounted
<1>5. \A k \in 1..n : json[13 + k] = D[k]
  BY <1>4, <1>5a DEF Here
<1>6. m < n => D[m + 1] = "quote"
  <2> SUFFICES ASSUME m < n
               PROVE  D[m + 1] = "quote"
    OBVIOUS
  <2>1. m + 1 \in 1..n
    BY ONLY <1>2, <1>5a, m < n
  <2> QED BY ONLY <1>3, <1>4, <1>5, <2>1
<1>7. m > 1 => D[m - 1] = "quote"
  <2> SUFFICES ASSUME m > 1
               PROVE  D[m - 1] = "quote"
    OBVIOUS
  <2>1. m - 1 \in 1..n
    BY ONLY <1>2, <1>5a, m > 1
  <2> QED BY ONLY <1>3, <1>4, <1>5, <2>1
<1>8. key \notin {"backslash", "quote", "n", "u001b"}
  BY DEF CountKeys
<1>9. m \in 1..Len(D) /\ (m < Len(D) => D[m + 1] = "quote")
  BY <1>2, <1>5a, <1>6
<1> HIDE DEF CountKeys
<1>10. EndsAsKey(x, key)
  BY <1>2, <1>7, <1>8, <1>9, KeyInDump
<1> QED BY <1>10
LEMMA CountIsFound ==
    ASSUME NEW a, IsString(a.content), a.created \in Seq(Range(Digits)),
           a.completion \in Seq(Range(Digits)), a.total \in Seq(Range(Digits)),
           NEW key, key \in CountKeys, ~EndsAsKey(a.content, key)
    PROVE  ExtractJsonInt(Answer(a), key)
               = NumberOf(IF key = "completion_tokens" THEN a.completion ELSE a.total)
<1> DEFINE A == AnswerSymbols(a.content)
           x == a.content
           D == JsonDump(x)
           n == Len(D)
           p == Len(a.created)
           q == Len(a.completion)
           t == Len(a.total)
           json == Answer(a)
           b == a.created
           c == a.completion
           d == a.total
           f == KeyPlace(key, n, p, q) - 1
<1>1. /\ json \in Seq(A) /\ n \in Nat /\ p \in Nat /\ q \in Nat /\ t \in Nat
      /\ AnswerLaidOut(json, D, n, b, p, c, q, d, t)
  BY AnswerIs
<1>2. Dumps(A) /\ x \in Seq(A) /\ CountKeys \subseteq A
  <2>1. Range(x) \subseteq A /\ x \in Seq(Range(x))
    BY DEF AnswerSymbols, IsString
  <2>2. Dumps(A) /\ CountKeys \subseteq A
    BY DEF Dumps, AnswerSymbols, CountKeys
  <2> HIDE DEF A, x
  <2> QED BY ONLY <2>1, <2>2, Wider
<1>3. "quote" \in A /\ key \in A
  BY <1>2 DEF Dumps
<1>4. AnswerCounted(json, D, n, b, p, c, q, d, t)
  BY <1>1 DEF AnswerCounted
<1>5. D = JsonDump(x) /\ ~EndsAsKey(x, key) /\ f = KeyPlace(key, n, p, q) - 1
  OBVIOUS
<1>6. c \in Seq(Range(Digits)) /\ d \in Seq(Range(Digits)) /\ Len(c) = q /\ Len(d) = t
  OBVIOUS
<1> HIDE DEF A, x, D, n, p, q, t, json, b, c, d, f
<1>7. ASSUME NEW i \in 1..(f - 1)
      PROVE  ~Three(json, i, "quote", key, "quote")
  <2>1. i \in 1..(f - 1) /\ key \in CountKeys /\ json \in Seq(A)
    BY <1>1
  <2> QED BY ONLY <1>2, <1>4, <1>5, <2>1, KeyIsFound
<1>8. n \in Nat /\ p \in Nat /\ q \in Nat /\ t \in Nat
  BY <1>1
<1>9. Len(json) = 31 + n + p + q + t
  BY <1>1, Zenon DEF AnswerLaidOut
<1>10. CASE key = "completion_tokens"
  <2> DEFINE e == 26 + n + p
  <2>1. f = 21 + n + p
    BY ONLY <1>5, <1>8, <1>10 DEF KeyPlace
  <2>2. /\ json[21 + n + p] = "quote" /\ json[22 + n + p] = "completion_tokens"
        /\ json[23 + n + p] = "quote" /\ json[24 + n + p] = ":" /\ json[25 + n + p] = "blank"
        /\ Here(json, 25 + n + p, c) /\ json[26 + n + p + q] = Comma
    BY <1>1, Zenon DEF AnswerLaidOut
  <2>3. /\ f \in 1..(Len(json) - 3) /\ e \in (f + 4)..(Len(json) + 1)
        /\ f + 1 = 22 + n + p /\ f + 2 = 23 + n + p /\ f + 3 = 24 + n + p
        /\ \A j \in (f + 4)..(e - 1) : j = 25 + n + p
        /\ e = (25 + n + p) + 1 /\ (25 + n + p) + q + 1 = 26 + n + p + q
        /\ (25 + n + p) + q < Len(json) /\ 25 + n + p \in Nat
    BY ONLY <1>8, <1>9, <2>1
  <2>4. json[e] # "blank"
    <3>1. CASE q = 0
      <4>1. e = 26 + n + p + q
        BY ONLY <1>8, <3>1
      <4> QED BY <2>2, <4>1, CommaIs
    <3>2. CASE q # 0
      <4>1. e \in ((25 + n + p) + 1)..((25 + n + p) + Len(c))
        BY ONLY <1>6, <1>8, <3>2
      <4>2. json[e] \in Range(Digits)
        BY ONLY <1>6, <2>2, <4>1, NoDigit
      <4> QED BY <4>2, DigitsAre
    <3> QED BY <3>1, <3>2
  <2> HIDE DEF e
  <2>5. ValueAt(json, key, f, e)
    <3>1. Three(json, f, "quote", key, "quote")
      BY ONLY <1>10, <2>1, <2>2, <2>3 DEF Three
    <3>2. json[f + 3] = ":" /\ \A j \in (f + 4)..(e - 1) : json[j] = "blank"
      BY ONLY <2>2, <2>3
    <3> QED BY <1>7, <2>3, <2>4, <3>1, <3>2 DEF ValueAt
  <2>6. ValueOf(json, key) = e
    <3>1. json \in Seq(A)
      BY <1>1
    <3> QED BY ONLY <1>3, <2>5, <3>1, ValueIs
  <2> DEFINE off == 25 + n + p
  <2>7. /\ json \in Seq(A) /\ off \in Nat /\ off + 1 = ValueOf(json, key)
        /\ Here(json, off, c) /\ off + Len(c) < Len(json)
        /\ json[off + Len(c) + 1] \in NoDigits \ {"-"}
    <3>1. Comma \in NoDigits \ {"-"}
      BY Zenon DEF NoDigits, Comma
    <3> QED BY <1>1, <1>6, <2>2, <2>3, <2>6, <3>1
  <2> HIDE DEF off
  <2>8. ExtractJsonInt(json, key) = NumberOf(c)
    BY ONLY <1>6, <2>7, IntIs
  <2> QED BY <1>10, <2>8 DEF json, c
<1>11. CASE key # "completion_tokens"
  <2> DEFINE e == 31 + n + p + q
  <2>1. f = 27 + n + p + q /\ key = "total_tokens"
    <3>1. f = 27 + n + p + q
      BY ONLY <1>5, <1>8, <1>11 DEF KeyPlace
    <3>2. key = "total_tokens"
      BY <1>11 DEF CountKeys
    <3> QED BY <3>1, <3>2
  <2>2. /\ json[27 + n + p + q] = "quote" /\ json[28 + n + p + q] = "total_tokens"
        /\ json[29 + n + p + q] = "quote" /\ json[30 + n + p + q] = ":"
        /\ Here(json, 30 + n + p + q, d) /\ json[31 + n + p + q + t] = Brace
    BY <1>1, Zenon DEF AnswerLaidOut
  <2>3. /\ f \in 1..(Len(json) - 3) /\ e \in (f + 4)..(Len(json) + 1)
        /\ f + 1 = 28 + n + p + q /\ f + 2 = 29 + n + p + q /\ f + 3 = 30 + n + p + q
        /\ (f + 4)..(e - 1) = {}
        /\ e = (30 + n + p + q) + 1 /\ (30 + n + p + q) + t + 1 = 31 + n + p + q + t
        /\ (30 + n + p + q) + t < Len(json) /\ 30 + n + p + q \in Nat
    BY ONLY <1>8, <1>9, <2>1
  <2>4. json[e] # "blank"
    <3>1. CASE t = 0
      <4>1. e = 31 + n + p + q + t
        BY ONLY <1>8, <3>1
      <4> QED BY <2>2, <4>1, CommaIs
    <3>2. CASE t # 0
      <4>1. e \in ((30 + n + p + q) + 1)..((30 + n + p + q) + Len(d))
        BY ONLY <1>6, <1>8, <3>2
      <4>2. json[e] \in Range(Digits)
        BY ONLY <1>6, <2>2, <4>1, NoDigit
      <4> QED BY <4>2, DigitsAre
    <3> QED BY <3>1, <3>2
  <2> HIDE DEF e
  <2>5. ValueAt(json, key, f, e)
    <3>1. Three(json, f, "quote", key, "quote")
      BY ONLY <2>1, <2>2, <2>3 DEF Three
    <3>2. json[f + 3] = ":" /\ \A j \in (f + 4)..(e - 1) : json[j] = "blank"
      BY ONLY <2>2, <2>3
    <3> QED BY <1>7, <2>3, <2>4, <3>1, <3>2 DEF ValueAt
  <2>6. ValueOf(json, key) = e
    <3>1. json \in Seq(A)
      BY <1>1
    <3> QED BY ONLY <1>3, <2>5, <3>1, ValueIs
  <2> DEFINE off == 30 + n + p + q
  <2>7. /\ json \in Seq(A) /\ off \in Nat /\ off + 1 = ValueOf(json, key)
        /\ Here(json, off, d) /\ off + Len(d) < Len(json)
        /\ json[off + Len(d) + 1] \in NoDigits \ {"-"}
    <3>1. Brace \in NoDigits \ {"-"}
      BY Zenon DEF NoDigits, Brace
    <3> QED BY <1>1, <1>6, <2>2, <2>3, <2>6, <3>1
  <2> HIDE DEF off
  <2>8. ExtractJsonInt(json, key) = NumberOf(d)
    BY ONLY <1>6, <2>7, IntIs
  <2> QED BY <1>11, <2>8 DEF json, d
<1> QED BY <1>10, <1>11
-----------------------------------------------------------------------------
(* Text and thinking apart: the states of the reader.                      *)
ThinkingState(A) ==
    [in : {"text", "tag", "block", "closing"}, text : Seq(A), block : Seq(A), thinking : Seq(A)]
ThinkingStep(A) == [p \in ThinkingState(A) \X A |-> ThinkingRead(p[1], p[2])]

LEMMA ThinkingStepIs ==
    ASSUME NEW A, NEW r \in ThinkingState(A), NEW c \in A
    PROVE  ThinkingStep(A)[<<r, c>>] = ThinkingRead(r, c) /\ ThinkingRead(r, c) \in ThinkingState(A)
<1>1. /\ Append(r.block, c) \in Seq(A) /\ <<>> \in Seq(A) /\ Append(r.text, c) \in Seq(A)
      /\ r.thinking \o r.block \in Seq(A)
  BY EmptySeq DEF ThinkingState
<1>2. ThinkingRead(r, c) \in ThinkingState(A)
  BY <1>1 DEF ThinkingRead, ThinkingState
<1> QED BY <1>2 DEF ThinkingStep

LEMMA ThinkingFolds ==
    ASSUME NEW A
    PROVE  Folding(ThinkingState(A), A, ThinkingStep(A), ThinkingStart)
<1>1. ThinkingStart \in ThinkingState(A)
  BY EmptySeq DEF ThinkingStart, ThinkingState
<1>2. \A p \in ThinkingState(A) \X A : ThinkingRead(p[1], p[2]) \in ThinkingState(A)
  BY ThinkingStepIs
<1> QED BY <1>1, <1>2 DEF Folding, ThinkingStep

ThinkingSeen(s) == FoldLeft(ThinkingRead, ThinkingStart, s)

LEMMA ThinkingIsRun ==
    ASSUME NEW A, NEW s, s \in Seq(A)
    PROVE  ThinkingSeen(s) = Run(ThinkingState(A), ThinkingStep(A), ThinkingStart, s)
<1> DEFINE T == ThinkingState(A)
           f == ThinkingStep(A)
           Eq(it) == it = [x \in SUBSET DOMAIN s |->
                             IF x = {} THEN ThinkingStart
                             ELSE ThinkingRead(it[x \ {Max(x)}], s[Max(x)])]
<1>0. Len(s) \in Nat /\ DOMAIN s = 1..Len(s) /\ \A i \in 1..Len(s) : s[i] \in A
  BY LenProperties, ElementOfSeq
<1>a. Folding(T, A, f, ThinkingStart)
  BY ThinkingFolds
<1>b. \A r \in T : \A c \in A : f[<<r, c>>] = ThinkingRead(r, c)
  BY ThinkingStepIs
<1> HIDE DEF T, f
<1>1. PICK g \in [SUBSET (1..Len(s)) -> T] : Solves(s, ThinkingStart, f, g, Len(s))
  BY <1>a, FoldExists DEF Solvable
<1>2. Eq(g)
  <2> SUFFICES ASSUME NEW x \in SUBSET (1..Len(s))
               PROVE  g[x] = IF x = {} THEN ThinkingStart
                             ELSE ThinkingRead(g[x \ {Max(x)}], s[Max(x)])
    BY <1>0
  <2>1. CASE x = {}
    BY <1>1, <2>1 DEF Solves
  <2>2. CASE x # {}
    <3>1. Max(x) \in x /\ g[x] = f[<<g[x \ {Max(x)}], s[Max(x)]>>]
      BY <1>1, <2>2 DEF Solves
    <3>2. g[x \ {Max(x)}] \in T /\ s[Max(x)] \in A
      BY <1>0, <3>1
    <3> QED BY <1>b, <2>2, <3>1, <3>2
  <2> QED BY <2>1, <2>2
<1> DEFINE it == CHOOSE it : Eq(it)
<1>3. FoldLeft(ThinkingRead, ThinkingStart, s) = it[DOMAIN s]
  BY Zenon DEF FoldLeft, MapThenFoldSet
<1>4. Eq(it)
  <2> HIDE DEF Eq
  <2> QED BY <1>2, Zenon
<1> HIDE DEF it
<1>5. \A x \in SUBSET (1..Len(s)) : it[x] = IF x = {} THEN ThinkingStart
                                           ELSE ThinkingRead(it[x \ {Max(x)}], s[Max(x)])
  BY <1>0, <1>4, Zenon
<1> HIDE DEF Eq
<1>6. it[{}] = ThinkingStart
  BY <1>5
<1>7. ASSUME NEW i \in 1..Len(s), it[1..(i - 1)] \in T
      PROVE  it[1..i] = f[<<it[1..(i - 1)], s[i]>>]
  <2>1. 1..i \in SUBSET (1..Len(s)) /\ 1..i # {} /\ Max(1..i) = i
        /\ (1..i) \ {i} = 1..(i - 1)
    <3>1. i \in Nat \ {0} /\ 1..i \in SUBSET (1..Len(s))
      BY <1>0
    <3> QED BY ONLY <3>1, UpToIsInterval
  <2>2. it[1..i] = ThinkingRead(it[1..(i - 1)], s[i])
    BY <1>5, <2>1
  <2> QED BY <1>0, <1>b, <1>7, <2>2
<1>8. it[DOMAIN s] = Run(T, f, ThinkingStart, s)
  BY <1>a, <1>6, <1>7, FoldIsRun
<1> QED BY <1>3, <1>8 DEF T, f, ThinkingSeen

(* The states after 0, 1, 2... symbols of a text.                          *)
Followed(A, s, g) ==
    /\ g \in [0..Len(s) -> ThinkingState(A)] /\ g[0] = ThinkingStart
    /\ \A i \in 1..Len(s) : g[i] = ThinkingRead(g[i - 1], s[i])

LEMMA ApartIs ==
    ASSUME NEW A, NEW s, s \in Seq(A)
    PROVE  \E g : /\ Followed(A, s, g)
                  /\ ThinkingApart(s).text = g[Len(s)].text
                  /\ ThinkingApart(s).thinking = g[Len(s)].thinking
<1> DEFINE T == ThinkingState(A)
           f == ThinkingStep(A)
<1>1. Folding(T, A, f, ThinkingStart) /\ \A r \in T : \A c \in A : f[<<r, c>>] = ThinkingRead(r, c)
  BY ThinkingFolds, ThinkingStepIs
<1>2. ThinkingSeen(s) = Run(T, f, ThinkingStart, s)
  BY ThinkingIsRun
<1> HIDE DEF T, f
<1>3. PICK g \in [0..Len(s) -> T] :
          Recurs(f, ThinkingStart, s, g) /\ Run(T, f, ThinkingStart, s) = g[Len(s)]
  BY <1>1, RunRecurs
<1>4. ASSUME NEW i \in 1..Len(s)
      PROVE  g[i] = ThinkingRead(g[i - 1], s[i])
  <2>1. g[i - 1] \in T /\ s[i] \in A
    BY <1>3, LenProperties, ElementOfSeq
  <2> QED BY <1>1, <1>3, <2>1 DEF Recurs
<1>5. Followed(A, s, g)
  BY <1>3, <1>4 DEF Followed, Recurs, T
<1>6. ThinkingApart(s) = [text |-> ThinkingSeen(s).text, thinking |-> ThinkingSeen(s).thinking]
  BY Zenon DEF ThinkingApart, ThinkingSeen
<1>7. ThinkingSeen(s) = g[Len(s)]
  BY <1>2, <1>3
<1>8. ThinkingApart(s).text = g[Len(s)].text /\ ThinkingApart(s).thinking = g[Len(s)].thinking
  BY <1>6, <1>7
<1> QED BY <1>5, <1>8
-----------------------------------------------------------------------------
Keeps(t, r) == t.text = r.text /\ t.thinking = r.thinking

LEMMA ThinkingReads ==
    ASSUME NEW A, NEW r, r \in ThinkingState(A), NEW c, NEW t, t = ThinkingRead(r, c)
    PROVE  /\ r.in \in {"text", "closing"} /\ c = "<think" => t.in = "tag" /\ Keeps(t, r)
           /\ r.in \in {"text", "closing"} /\ c # "<think" /\ (r.in = "closing" => c # ">")
                 => t.in = "text" /\ t.text = Append(r.text, c) /\ t.thinking = r.thinking
           /\ r.in = "closing" /\ c = ">" => t.in = "text" /\ Keeps(t, r)
           /\ r.in = "tag" /\ c # ">" => t.in = "tag" /\ Keeps(t, r)
           /\ r.in = "tag" /\ c = ">" => t.in = "block" /\ t.block = <<>> /\ Keeps(t, r)
           /\ r.in = "block" /\ c # "</think"
                 => t.in = "block" /\ t.block = Append(r.block, c) /\ Keeps(t, r)
           /\ r.in = "block" /\ c = "</think"
                 => /\ t.in = "closing" /\ t.text = r.text
                    /\ t.thinking = r.thinking \o r.block
BY DEF ThinkingRead, ThinkingState, Keeps

Grows(s, p, i, k) == /\ Append(SubSeq(s, i, k), s[k + 1]) = SubSeq(s, i, k + 1)
                     /\ Append(p \o SubSeq(s, i, k), s[k + 1]) = p \o SubSeq(s, i, k + 1)

LEMMA PieceGrows ==
    ASSUME NEW A, NEW s, s \in Seq(A), NEW p, p \in Seq(A), NEW i, i \in 1..(Len(s) + 1),
           NEW k, k \in (i - 1)..(Len(s) - 1)
    PROVE  Grows(s, p, i, k)
<1>a. Len(s) \in Nat
  BY LenProperties
<1>b. \A n \in (i - 1)..Len(s) : SubSeq(s, i, n) \in Seq(A)
  BY <1>a
<1> DEFINE q == SubSeq(s, i, k)
           u == SubSeq(s, i, k + 1)
           c == s[k + 1]
           n == k + 1 - i
<1>1. q \in Seq(A) /\ u \in Seq(A) /\ c \in A /\ n \in Nat
  BY <1>a, <1>b, ElementOfSeq
<1>2. /\ Len(q) = n /\ Len(u) = n + 1
      /\ \A j \in 1..n : q[j] = s[i + j - 1]
      /\ \A j \in 1..(n + 1) : u[j] = s[i + j - 1]
  BY <1>a
<1>3. i + (n + 1) - 1 = k + 1
  BY <1>a
<1> HIDE DEF q, u, n
<1>4. u[n + 1] = c
  BY <1>1, <1>2, <1>3
<1> HIDE DEF c
<1> DEFINE v == Append(q, c)
<1>5. v \in Seq(A) /\ Len(v) = n + 1 /\ v[n + 1] = c /\ \A j \in 1..n : v[j] = q[j]
  <2>1. q \in Seq(A) /\ c \in A /\ Len(q) = n /\ n \in Nat
    BY <1>1, <1>2
  <2> QED BY ONLY <2>1 DEF v
<1> HIDE DEF v
<1>6. ASSUME NEW j \in 1..(n + 1)
      PROVE  v[j] = u[j]
  <2>1. CASE j = n + 1
    BY <1>4, <1>5, <2>1
  <2>2. CASE j # n + 1
    <3>1. j \in 1..n
      BY <1>1, <2>2
    <3> QED BY <1>2, <1>5, <3>1
  <2> QED BY <2>1, <2>2
<1>7. v = u
  <2>1. Len(v) = Len(u) /\ \A j \in 1..Len(v) : v[j] = u[j]
    BY <1>2, <1>5, <1>6
  <2> QED BY <1>1, <1>5, <2>1, SeqEqual
<1>8. Append(p \o q, c) = p \o Append(q, c)
  <2> DEFINE x == Append(p \o q, c)
             y == p \o Append(q, c)
  <2>1. p \in Seq(A) /\ q \in Seq(A) /\ c \in A
    BY <1>1
  <2>2. p \o q \in Seq(A) /\ Append(q, c) \in Seq(A)
    BY ONLY <2>1
  <2>3. Append(p \o q, c) = (p \o q) \o <<c>> /\ Append(q, c) = q \o <<c>>
    BY ONLY <2>1, <2>2, AppendIsConcat
  <2>4. (p \o q) \o <<c>> = p \o (q \o <<c>>)
    <3>1. p \in Seq(A) /\ q \in Seq(A) /\ <<c>> \in Seq(A)
      BY ONLY <2>1
    <3> DEFINE z == <<c>>
    <3> HIDE DEF z
    <3>2. p \in Seq(A) /\ q \in Seq(A) /\ z \in Seq(A)
      BY <3>1 DEF z
    <3>3. (p \o q) \o z = p \o (q \o z)
      BY ONLY <3>2, ConcatAssociative
    <3> QED BY <3>3 DEF z
  <2> QED BY ONLY <2>3, <2>4, Zenon
<1> QED BY <1>7, <1>8 DEF q, u, c, v, Grows

(* Where the reader may go on.                                             *)
Ready(s, g, pos) ==
    \/ g[pos - 1].in = "text"
    \/ g[pos - 1].in = "closing" /\ (pos <= Len(s) => s[pos] # ">")

TextRan(s, g, pos, m) ==
    /\ g[m].in \in {"text", "closing"} /\ g[m].thinking = g[pos - 1].thinking
    /\ g[m].text = g[pos - 1].text \o SubSeq(s, pos, m)
BlockRan(s, g, e, m) ==
    g[m].in = "block" /\ Keeps(g[m], g[e]) /\ g[m].block = SubSeq(s, e + 1, m)

LEMMA TextRuns ==
    ASSUME NEW A, NEW s, s \in Seq(A), NEW g, Followed(A, s, g),
           NEW pos, pos \in 1..(Len(s) + 1), Ready(s, g, pos),
           NEW m, m \in (pos - 1)..Len(s), \A i \in pos..m : s[i] # "<think"
    PROVE  TextRan(s, g, pos, m)
<1> DEFINE b == g[pos - 1]
           o == pos - 1
           Q(k) == /\ g[k].in = "text" \/ (k = o /\ g[k].in = "closing")
                   /\ g[k].thinking = b.thinking
                   /\ g[k].text = b.text \o SubSeq(s, pos, k)
           B == {j \in Nat : o + j <= m => Q(o + j)}
<1>0. /\ Len(s) \in Nat /\ o \in Nat /\ o \in 0..Len(s) /\ \A i \in 1..Len(s) : s[i] \in A
      /\ \A i \in 0..Len(s) : g[i] \in ThinkingState(A)
      /\ \A i \in 1..Len(s) : g[i] = ThinkingRead(g[i - 1], s[i])
  <2>1. /\ g \in [0..Len(s) -> ThinkingState(A)]
        /\ \A i \in 1..Len(s) : g[i] = ThinkingRead(g[i - 1], s[i])
    BY Zenon DEF Followed
  <2>2. Len(s) \in Nat /\ \A i \in 1..Len(s) : s[i] \in A
    BY LenProperties, ElementOfSeq
  <2>3. \A i \in 0..Len(s) : g[i] \in ThinkingState(A)
    BY <2>1
  <2> QED BY <2>1, <2>2, <2>3
<1>1. b.text \in Seq(A) /\ b.in \in {"text", "closing"}
  BY <1>0 DEF Ready, ThinkingState
<1>2. 0 \in B
  <2>1. Q(o)
    BY <1>0, <1>1
  <2>2. o + 0 = o
    BY <1>0
  <2> HIDE DEF Q
  <2> QED BY <2>1, <2>2
<1>3. ASSUME NEW j \in Nat, j \in B
      PROVE  j + 1 \in B
  <2> HIDE DEF Q
  <2> SUFFICES ASSUME o + (j + 1) <= m
               PROVE  Q(o + (j + 1))
    OBVIOUS
  <2> USE DEF Q
  <2> DEFINE k == o + j
  <2>0. /\ k \in (pos - 1)..(Len(s) - 1) /\ o + (j + 1) = k + 1 /\ k + 1 \in 1..Len(s)
        /\ (k + 1) - 1 = k /\ k <= m /\ k + 1 \in pos..m /\ k + 1 # o
        /\ k \in 0..Len(s) /\ (k = o => k + 1 = pos /\ pos <= Len(s))
    BY <1>0
  <2>1. Q(k)
    <3> HIDE DEF Q
    <3> QED BY <1>3, <2>0
  <2> HIDE DEF k
  <2> DEFINE r == g[k]
             c == s[k + 1]
             t == g[k + 1]
  <2>2. r \in ThinkingState(A) /\ t = ThinkingRead(r, c) /\ c # "<think"
    BY <1>0, <2>0
  <2>3. r.in \in {"text", "closing"} /\ (r.in = "closing" => c # ">")
    <3>1. k = o /\ r.in = "closing" => c # ">"
      BY <2>0 DEF Ready
    <3> QED BY <2>1, <3>1
  <2>4. t.in = "text" /\ t.text = Append(r.text, c) /\ t.thinking = r.thinking
    <3> HIDE DEF r, c, t
    <3>1. r \in ThinkingState(A) /\ t = ThinkingRead(r, c)
      BY ONLY <2>2
    <3>2. r.in \in {"text", "closing"} /\ c # "<think" /\ (r.in = "closing" => c # ">")
             => t.in = "text" /\ t.text = Append(r.text, c) /\ t.thinking = r.thinking
      BY ONLY <3>1, ThinkingReads
    <3> QED BY ONLY <2>2, <2>3, <3>2, Zenon
  <2>5. Append(b.text \o SubSeq(s, pos, k), s[k + 1]) = b.text \o SubSeq(s, pos, k + 1)
    <3> DEFINE x == b.text
    <3> HIDE DEF b, x
    <3>1. x \in Seq(A) /\ pos \in 1..(Len(s) + 1) /\ s \in Seq(A)
      BY <1>1 DEF x
    <3>2. k \in (pos - 1)..(Len(s) - 1)
      BY <2>0
    <3>3. Grows(s, x, pos, k)
      BY ONLY <3>1, <3>2, PieceGrows
    <3> QED BY <3>3 DEF x, Grows
  <2>6. Q(k + 1)
    BY <2>1, <2>4, <2>5
  <2> HIDE DEF Q
  <2> QED BY <2>0, <2>6
<1>4. Nat \subseteq B
  <2> HIDE DEF B
  <2> QED BY <1>2, <1>3, SetInduction
<1>5. Q(m)
  <2> DEFINE j == m - o
  <2>1. j \in Nat /\ o + j = m
    BY <1>0
  <2> HIDE DEF j, Q
  <2>2. j \in B
    BY <1>4, <2>1
  <2> QED BY <1>0, <2>1, <2>2
<1> QED BY <1>1, <1>5 DEF TextRan

LEMMA TagRuns ==
    ASSUME NEW A, NEW s, s \in Seq(A), NEW g, Followed(A, s, g),
           NEW o, o \in 1..Len(s), g[o].in = "tag",
           NEW m, m \in o..Len(s), \A i \in (o + 1)..m : s[i] # ">"
    PROVE  g[m].in = "tag" /\ Keeps(g[m], g[o])
<1> DEFINE Q(k) == g[k].in = "tag" /\ Keeps(g[k], g[o])
           B == {j \in Nat : o + j <= m => Q(o + j)}
<1>0. /\ Len(s) \in Nat /\ o \in Nat /\ \A i \in 1..Len(s) : s[i] \in A
      /\ \A i \in 0..Len(s) : g[i] \in ThinkingState(A)
      /\ \A i \in 1..Len(s) : g[i] = ThinkingRead(g[i - 1], s[i])
  <2>1. /\ g \in [0..Len(s) -> ThinkingState(A)]
        /\ \A i \in 1..Len(s) : g[i] = ThinkingRead(g[i - 1], s[i])
    BY Zenon DEF Followed
  <2>2. Len(s) \in Nat /\ \A i \in 1..Len(s) : s[i] \in A
    BY LenProperties, ElementOfSeq
  <2>3. \A i \in 0..Len(s) : g[i] \in ThinkingState(A)
    BY <2>1
  <2> QED BY <2>1, <2>2, <2>3
<1>2. 0 \in B
  <2>1. Q(o)
    BY DEF Keeps
  <2>2. o + 0 = o
    BY <1>0
  <2> HIDE DEF Q
  <2> QED BY <2>1, <2>2
<1>3. ASSUME NEW j \in Nat, j \in B
      PROVE  j + 1 \in B
  <2> HIDE DEF Q
  <2> SUFFICES ASSUME o + (j + 1) <= m
               PROVE  Q(o + (j + 1))
    OBVIOUS
  <2> USE DEF Q
  <2> DEFINE k == o + j
  <2>0. /\ o + (j + 1) = k + 1 /\ k + 1 \in 1..Len(s)
        /\ (k + 1) - 1 = k /\ k <= m /\ k + 1 \in (o + 1)..m /\ k \in 0..Len(s)
    BY <1>0
  <2>1. Q(k)
    <3> HIDE DEF Q
    <3> QED BY <1>3, <2>0
  <2> HIDE DEF k
  <2> DEFINE r == g[k]
             c == s[k + 1]
             t == g[k + 1]
  <2>2. r \in ThinkingState(A) /\ t = ThinkingRead(r, c) /\ c # ">" /\ r.in = "tag"
    BY <1>0, <2>0, <2>1
  <2>4. t.in = "tag" /\ Keeps(t, r)
    <3> HIDE DEF r, c, t
    <3> QED BY ONLY <2>2, ThinkingReads
  <2>6. Q(k + 1)
    BY <2>1, <2>4 DEF Keeps
  <2> HIDE DEF Q
  <2> QED BY <2>0, <2>6
<1>4. Nat \subseteq B
  <2> HIDE DEF B
  <2> QED BY <1>2, <1>3, SetInduction
<1>5. Q(m)
  <2> DEFINE j == m - o
  <2>1. j \in Nat /\ o + j = m
    BY <1>0
  <2> HIDE DEF j, Q
  <2>2. j \in B
    BY <1>4, <2>1
  <2> QED BY <1>0, <2>1, <2>2
<1> QED BY <1>5

LEMMA BlockRuns ==
    ASSUME NEW A, NEW s, s \in Seq(A), NEW g, Followed(A, s, g),
           NEW e, e \in 1..Len(s), g[e].in = "block", g[e].block = <<>>,
           NEW m, m \in e..Len(s), \A i \in (e + 1)..m : s[i] # "</think"
    PROVE  BlockRan(s, g, e, m)
<1> DEFINE Q(k) == /\ g[k].in = "block" /\ Keeps(g[k], g[e])
                   /\ g[k].block = SubSeq(s, e + 1, k)
           B == {j \in Nat : e + j <= m => Q(e + j)}
<1>0. /\ Len(s) \in Nat /\ e \in Nat /\ \A i \in 1..Len(s) : s[i] \in A
      /\ \A i \in 0..Len(s) : g[i] \in ThinkingState(A)
      /\ \A i \in 1..Len(s) : g[i] = ThinkingRead(g[i - 1], s[i])
  <2>1. /\ g \in [0..Len(s) -> ThinkingState(A)]
        /\ \A i \in 1..Len(s) : g[i] = ThinkingRead(g[i - 1], s[i])
    BY Zenon DEF Followed
  <2>2. Len(s) \in Nat /\ \A i \in 1..Len(s) : s[i] \in A
    BY LenProperties, ElementOfSeq
  <2>3. \A i \in 0..Len(s) : g[i] \in ThinkingState(A)
    BY <2>1
  <2> QED BY <2>1, <2>2, <2>3
<1>1. e + 1 \in 1..(Len(s) + 1) /\ (e + 1) - 1 = e
  BY <1>0
<1>2. 0 \in B
  <2>1. SubSeq(s, e + 1, e) = <<>>
    BY <1>0
  <2>2. Q(e)
    BY <2>1 DEF Keeps
  <2>3. e + 0 = e
    BY <1>0
  <2> HIDE DEF Q
  <2> QED BY <2>2, <2>3
<1>3. ASSUME NEW j \in Nat, j \in B
      PROVE  j + 1 \in B
  <2> HIDE DEF Q
  <2> SUFFICES ASSUME e + (j + 1) <= m
               PROVE  Q(e + (j + 1))
    OBVIOUS
  <2> USE DEF Q
  <2> DEFINE k == e + j
  <2>0. /\ e + (j + 1) = k + 1 /\ k + 1 \in 1..Len(s)
        /\ (k + 1) - 1 = k /\ k <= m /\ k + 1 \in (e + 1)..m /\ k \in 0..Len(s)
        /\ k \in ((e + 1) - 1)..(Len(s) - 1)
    BY <1>0
  <2>1. Q(k)
    <3> HIDE DEF Q
    <3> QED BY <1>3, <2>0
  <2> HIDE DEF k
  <2> DEFINE r == g[k]
             c == s[k + 1]
             t == g[k + 1]
  <2>2. r \in ThinkingState(A) /\ t = ThinkingRead(r, c) /\ c # "</think" /\ r.in = "block"
    BY <1>0, <2>0, <2>1
  <2>4. t.in = "block" /\ t.block = Append(r.block, c) /\ Keeps(t, r)
    <3> HIDE DEF r, c, t
    <3> QED BY ONLY <2>2, ThinkingReads
  <2>5. Append(SubSeq(s, e + 1, k), s[k + 1]) = SubSeq(s, e + 1, k + 1)
    <3>1. <<>> \in Seq(A) /\ e + 1 \in 1..(Len(s) + 1) /\ k \in ((e + 1) - 1)..(Len(s) - 1)
      BY <1>1, <2>0, EmptySeq
    <3>2. Grows(s, <<>>, e + 1, k)
      BY ONLY <3>1, s \in Seq(A), PieceGrows
    <3> QED BY <3>2 DEF Grows
  <2>6. Q(k + 1)
    BY <2>1, <2>4, <2>5 DEF Keeps
  <2> HIDE DEF Q
  <2> QED BY <2>0, <2>6
<1>4. Nat \subseteq B
  <2> HIDE DEF B
  <2> QED BY <1>2, <1>3, SetInduction
<1>5. Q(m)
  <2> DEFINE j == m - e
  <2>1. j \in Nat /\ e + j = m
    BY <1>0
  <2> HIDE DEF j, Q
  <2>2. j \in B
    BY <1>4, <2>1
  <2> QED BY <1>0, <2>1, <2>2
<1> QED BY <1>5 DEF BlockRan
-----------------------------------------------------------------------------
(* StripThinkingBlocks: what it finds from a position on.                  *)
StripOpen(s, pos) == Find(s, <<"<think">>, pos)
StripTag(s, pos) ==
    IF StripOpen(s, pos) = 0 THEN 0 ELSE Find(s, <<">">>, StripOpen(s, pos))
StripClose(s, pos) ==
    IF StripTag(s, pos) = 0 THEN 0 ELSE Find(s, <<"</think">>, StripTag(s, pos) + 1)
StripResume(s, pos) ==
    IF StripClose(s, pos) < Len(s) /\ s[StripClose(s, pos) + 1] = ">"
    THEN StripClose(s, pos) + 2 ELSE StripClose(s, pos) + 1
StripShown(s, pos) == SubSeq(s, pos, StripOpen(s, pos) - 1)
StripBlock(s, pos) == SubSeq(s, StripTag(s, pos) + 1, StripClose(s, pos) - 1)

Opened(s, pos, o) == /\ o \in pos..Len(s) /\ s[o] = "<think"
                     /\ \A i \in pos..(o - 1) : s[i] # "<think"
Tagged(s, o, e) == /\ e \in (o + 1)..Len(s) /\ s[e] = ">"
                   /\ \A i \in (o + 1)..(e - 1) : s[i] # ">"
Closed(s, e, c) == /\ c \in (e + 1)..Len(s) /\ s[c] = "</think"
                   /\ \A i \in (e + 1)..(c - 1) : s[i] # "</think"
Resumed(s, c, q) == \/ q = c + 2 /\ c < Len(s) /\ s[c + 1] = ">"
                    \/ q = c + 1 /\ (c < Len(s) => s[c + 1] # ">")

LEMMA StripOpens ==
    ASSUME NEW A, NEW s, s \in Seq(A), NEW pos, pos \in 1..(Len(s) + 2)
    PROVE  /\ StripOpen(s, pos) = 0 => \A i \in pos..Len(s) : s[i] # "<think"
           /\ StripOpen(s, pos) # 0 => Opened(s, pos, StripOpen(s, pos))
<1> DEFINE o == StripOpen(s, pos)
<1>0. Len(s) \in Nat
  BY LenProperties
<1>1. pos \in Nat \ {0} /\ o = Find(s, <<"<think">>, pos)
  BY <1>0 DEF StripOpen
<1> HIDE DEF o
<1>2. /\ o = 0 => \A i \in pos..Len(s) : s[i] # "<think"
      /\ o # 0 => /\ o \in pos..Len(s) /\ s[o] = "<think"
                  /\ \A i \in pos..(o - 1) : s[i] # "<think"
  BY <1>1, FindOne
<1> QED BY <1>2 DEF Opened, o

LEMMA StripTags ==
    ASSUME NEW A, NEW s, s \in Seq(A), NEW pos, NEW o, o = StripOpen(s, pos),
           Opened(s, pos, o), pos \in Nat \ {0}
    PROVE  /\ StripTag(s, pos) = 0 => \A i \in (o + 1)..Len(s) : s[i] # ">"
           /\ StripTag(s, pos) # 0 => Tagged(s, o, StripTag(s, pos))
<1> DEFINE e == StripTag(s, pos)
<1>0. Len(s) \in Nat /\ o \in Nat \ {0} /\ s[o] # ">"
  BY LenProperties DEF Opened
<1>1. e = Find(s, <<">">>, o)
  BY <1>0 DEF StripTag
<1> HIDE DEF e
<1>2. /\ e = 0 => \A i \in o..Len(s) : s[i] # ">"
      /\ e # 0 => /\ e \in o..Len(s) /\ s[e] = ">"
                  /\ \A i \in o..(e - 1) : s[i] # ">"
  BY <1>0, <1>1, FindOne
<1>3. /\ e = 0 => \A i \in (o + 1)..Len(s) : s[i] # ">"
      /\ e # 0 => Tagged(s, o, e)
  <2>1. e # 0 => e # o
    BY <1>0, <1>2
  <2> QED BY <1>0, <1>2, <2>1 DEF Tagged
<1> QED BY <1>3 DEF e

LEMMA StripCloses ==
    ASSUME NEW A, NEW s, s \in Seq(A), NEW pos, NEW o, NEW e, e = StripTag(s, pos), o \in Nat,
           Tagged(s, o, e)
    PROVE  /\ StripClose(s, pos) = 0 => \A i \in (e + 1)..Len(s) : s[i] # "</think"
           /\ StripClose(s, pos) # 0 =>
                 /\ Closed(s, e, StripClose(s, pos))
                 /\ Resumed(s, StripClose(s, pos), StripResume(s, pos))
<1> DEFINE c == StripClose(s, pos)
           q == StripResume(s, pos)
<1>0. Len(s) \in Nat /\ e \in Nat \ {0} /\ e + 1 \in Nat \ {0}
  BY LenProperties DEF Tagged
<1>1. c = Find(s, <<"</think">>, e + 1)
  BY <1>0 DEF StripClose
<1>2. q = IF c < Len(s) /\ s[c + 1] = ">" THEN c + 2 ELSE c + 1
  BY DEF StripResume
<1> HIDE DEF c, q
<1>3. /\ c = 0 => \A i \in (e + 1)..Len(s) : s[i] # "</think"
      /\ c # 0 => /\ c \in (e + 1)..Len(s) /\ s[c] = "</think"
                  /\ \A i \in (e + 1)..(c - 1) : s[i] # "</think"
  BY <1>0, <1>1, FindOne
<1>4. c # 0 => Closed(s, e, c) /\ Resumed(s, c, q)
  BY <1>2, <1>3 DEF Closed, Resumed
<1> QED BY <1>3, <1>4 DEF c, q

StripAt(s, strip, pos) ==
    IF StripOpen(s, pos) = 0 THEN [text |-> From(s, pos), thinking |-> <<>>]
    ELSE IF StripClose(s, pos) = 0 THEN [text |-> StripShown(s, pos), thinking |-> <<>>]
    ELSE [text |-> StripShown(s, pos) \o strip[StripResume(s, pos)].text,
          thinking |-> StripBlock(s, pos) \o strip[StripResume(s, pos)].thinking]

Stripping(s, strip) == strip = [pos \in 1..(Len(s) + 2) |-> StripAt(s, strip, pos)]
Stripper(s) == CHOOSE strip : Stripping(s, strip)

LEMMA StripIs == \A s : StripThinkingBlocks(s) = Stripper(s)[1]
BY Zenon DEF StripThinkingBlocks, Stripper, Stripping, StripAt, StripOpen, StripTag,
             StripClose, StripResume, StripShown, StripBlock

LEMMA StripNext ==
    ASSUME NEW A, NEW s, s \in Seq(A), NEW pos, pos \in 1..(Len(s) + 2), StripClose(s, pos) # 0
    PROVE  \E o, e, c, q :
              /\ o = StripOpen(s, pos) /\ Opened(s, pos, o)
              /\ e = StripTag(s, pos) /\ Tagged(s, o, e)
              /\ c = StripClose(s, pos) /\ Closed(s, e, c)
              /\ q = StripResume(s, pos) /\ Resumed(s, c, q)
              /\ pos <= Len(s) /\ q \in (pos + 1)..(Len(s) + 1)
<1>0. Len(s) \in Nat
  BY LenProperties
<1> DEFINE o == StripOpen(s, pos)
           e == StripTag(s, pos)
           c == StripClose(s, pos)
           q == StripResume(s, pos)
<1>1. e # 0
  BY DEF StripClose
<1>2. o # 0
  BY <1>1 DEF StripTag
<1>3. Opened(s, pos, o)
  BY <1>2, StripOpens
<1>4. o \in Nat /\ pos \in Nat \ {0}
  BY <1>0, <1>3 DEF Opened
<1>5. Tagged(s, o, e)
  <2> DEFINE p == o
  <2>1. p = StripOpen(s, pos) /\ Opened(s, pos, p) /\ s \in Seq(A)
    BY <1>3
  <2> HIDE DEF p
  <2>2. StripTag(s, pos) # 0 => Tagged(s, p, StripTag(s, pos))
    BY ONLY <1>4, <2>1, StripTags
  <2> QED BY <1>1, <2>2 DEF p
<1>6. Closed(s, e, c) /\ Resumed(s, c, q)
  <2> DEFINE p == o
             d == e
  <2>1. d = StripTag(s, pos) /\ Tagged(s, p, d) /\ s \in Seq(A) /\ p \in Nat
    BY <1>4, <1>5
  <2> HIDE DEF p, d
  <2>2. StripClose(s, pos) # 0 =>
            /\ Closed(s, d, StripClose(s, pos))
            /\ Resumed(s, StripClose(s, pos), StripResume(s, pos))
    BY ONLY <2>1, StripCloses
  <2> QED BY <2>2 DEF d
<1>7. pos <= Len(s) /\ q \in (pos + 1)..(Len(s) + 1)
  <2> HIDE DEF o, e, c, q
  <2> QED BY <1>0, <1>3, <1>5, <1>6 DEF Opened, Tagged, Closed, Resumed
<1> HIDE DEF o, e, c, q
<1>8. /\ o = StripOpen(s, pos) /\ e = StripTag(s, pos) /\ c = StripClose(s, pos)
      /\ q = StripResume(s, pos)
  BY DEF o, e, c, q
<1> QED BY <1>3, <1>5, <1>6, <1>7, <1>8

LEMMA StripperIs ==
    ASSUME NEW A, NEW s, s \in Seq(A)
    PROVE  \A pos \in 1..(Len(s) + 2) : Stripper(s)[pos] = StripAt(s, Stripper(s), pos)
<1> DEFINE N == Len(s) + 2
           V == [text : Seq(A), thinking : Seq(A)]
           ends(i) == StripOpen(s, i) = 0 \/ StripClose(s, i) = 0
           stop == {i \in 1..N : ends(i)}
           next == [i \in 1..N |-> StripResume(s, i)]
           last(i) == IF StripOpen(s, i) = 0 THEN [text |-> From(s, i), thinking |-> <<>>]
                      ELSE [text |-> StripShown(s, i), thinking |-> <<>>]
           a == [i \in 1..N |-> IF i \in stop THEN last(i)
                                ELSE [text |-> <<>>, thinking |-> <<>>]]
           both(i, v) == [text |-> StripShown(s, i) \o v.text,
                          thinking |-> StripBlock(s, i) \o v.thinking]
           h == [p \in (1..N) \X V |-> IF p[1] \in stop THEN p[2] ELSE both(p[1], p[2])]
<1>0. Len(s) \in Nat /\ <<>> \in Seq(A)
  BY LenProperties, EmptySeq
<1>1. ASSUME NEW i \in 1..N
      PROVE  StripOpen(s, i) = 0 => From(s, i) \in Seq(A)
  <2>1. From(s, i) = SubSeq(s, i, Len(s))
    BY DEF From
  <2>2. SubSeq(s, i, Len(s)) \in Seq(A)
    BY <1>0
  <2> QED BY <2>1, <2>2
<1>2. ASSUME NEW i \in 1..N
      PROVE  StripOpen(s, i) # 0 => StripShown(s, i) \in Seq(A)
  <2> DEFINE o == StripOpen(s, i)
  <2> SUFFICES ASSUME o # 0
               PROVE  SubSeq(s, i, o - 1) \in Seq(A)
    BY DEF StripShown
  <2>1. Opened(s, i, o)
    BY StripOpens
  <2> HIDE DEF o
  <2>2. i \in Nat \ {0} /\ o \in i..Len(s)
    BY <1>0, <2>1 DEF Opened
  <2> HIDE DEF N
  <2> QED BY <1>0, <2>2
<1>3. ASSUME NEW i \in 1..N, i \notin stop
      PROVE  next[i] \in 1..N /\ next[i] > i /\ StripBlock(s, i) \in Seq(A)
  <2>1. StripClose(s, i) # 0
    BY <1>3, Zenon
  <2>2. PICK o, e, c, q :
              /\ o = StripOpen(s, i) /\ Opened(s, i, o)
              /\ e = StripTag(s, i) /\ Tagged(s, o, e)
              /\ c = StripClose(s, i) /\ Closed(s, e, c)
              /\ q = StripResume(s, i) /\ Resumed(s, c, q)
              /\ i <= Len(s) /\ q \in (i + 1)..(Len(s) + 1)
    BY <2>1, StripNext, Zenon
  <2>3. next[i] = q /\ StripBlock(s, i) = SubSeq(s, e + 1, c - 1)
    BY <2>2 DEF StripBlock
  <2>4. i \in Nat \ {0} /\ e \in Nat /\ c \in (e + 1)..Len(s)
    <3>1. i \in Nat \ {0}
      BY <1>0
    <3>2. o \in i..Len(s) /\ e \in (o + 1)..Len(s) /\ c \in (e + 1)..Len(s)
      BY <2>2, Zenon DEF Opened, Tagged, Closed
    <3> QED BY ONLY <1>0, <3>1, <3>2
  <2>5. SubSeq(s, e + 1, c - 1) \in Seq(A)
    BY ONLY s \in Seq(A), <1>0, <2>4
  <2>6. q \in 1..N /\ q > i
    BY <1>0, <2>2
  <2> QED BY <2>3, <2>5, <2>6, Zenon
<1>4. a \in [1..N -> V]
  <2>1. ASSUME NEW i \in 1..N, i \in stop
        PROVE  last(i) \in V
    BY <1>0, <1>1, <1>2
  <2>2. [text |-> <<>>, thinking |-> <<>>] \in V
    BY <1>0
  <2> HIDE DEF V, last, stop
  <2> QED BY <2>1, <2>2
<1>5. h \in [(1..N) \X V -> V]
  <2>1. ASSUME NEW i \in 1..N, NEW v \in V, i \notin stop
        PROVE  both(i, v) \in V
    <3>1. StripShown(s, i) \in Seq(A) /\ StripBlock(s, i) \in Seq(A)
      BY <1>2, <1>3, <2>1
    <3>2. v.text \in Seq(A) /\ v.thinking \in Seq(A)
      OBVIOUS
    <3>3. StripShown(s, i) \o v.text \in Seq(A) /\ StripBlock(s, i) \o v.thinking \in Seq(A)
      BY ONLY <3>1, <3>2, ConcatProperties
    <3> QED BY <3>3
  <2> HIDE DEF V, both, stop
  <2> QED BY <2>1
<1>6. \A i \in 1..N : \A v \in V : i \notin stop => h[<<i, v>>] = both(i, v)
  <2> HIDE DEF V, both, stop
  <2> QED OBVIOUS
<1>7. \A i \in 1..N : i \in stop => a[i] = last(i)
  <2> HIDE DEF last, stop
  <2> QED OBVIOUS
<1>8. \A i \in 1..N : next[i] = StripResume(s, i) /\ (i \in stop <=> ends(i))
  OBVIOUS
<1> HIDE DEF N, V, stop, next, a, h
<1>9. Chain(N, V, stop, a, next, h)
  BY <1>0, <1>3, <1>4, <1>5 DEF Chain, N
<1>10. PICK g \in [1..N -> V] :
          \A i \in 1..N : g[i] = IF i \in stop THEN a[i] ELSE h[<<i, g[next[i]]>>]
  BY <1>9, ChainExists
<1>11. ASSUME NEW i \in 1..N
       PROVE  g[i] = StripAt(s, g, i)
  <2>1. CASE i \in stop
    <3>1. g[i] = last(i) /\ ends(i)
      BY <1>7, <1>8, <1>10, <2>1
    <3> QED BY <3>1, Zenon DEF StripAt
  <2>2. CASE i \notin stop
    <3>1. next[i] \in 1..N /\ ~ends(i) /\ next[i] = StripResume(s, i)
      BY <1>3, <1>8, <2>2
    <3>2. g[next[i]] \in V
      BY <1>10, <3>1
    <3> HIDE DEF ends, both
    <3>3. g[i] = both(i, g[next[i]])
      BY <1>6, <1>10, <2>2, <3>2
    <3>4. StripAt(s, g, i) = both(i, g[next[i]])
      BY <3>1, Zenon DEF StripAt, ends, both
    <3> QED BY <3>3, <3>4
  <2> QED BY <2>1, <2>2
<1>12. Stripping(s, g)
  BY <1>11 DEF Stripping, N
<1>13. Stripping(s, Stripper(s))
  BY <1>12, Zenon DEF Stripper
<1> QED BY <1>13, Zenon DEF Stripping
-----------------------------------------------------------------------------
(* The loop and the reader agree from every position on.                   *)
Adds(t, r, v) == t.text = r.text \o v.text /\ t.thinking = r.thinking \o v.thinking

Agree(A, s, g, pos) ==
    /\ Stripper(s)[pos].text \in Seq(A) /\ Stripper(s)[pos].thinking \in Seq(A)
    /\ Ready(s, g, pos) => Adds(g[Len(s)], g[pos - 1], Stripper(s)[pos])

LEMMA AgreeAtEnd ==
    ASSUME NEW A, NEW s, s \in Seq(A), NEW g, Followed(A, s, g), NEW pos, pos \in 1..(Len(s) + 1),
           NEW o, o = StripOpen(s, pos), o = 0 \/ StripClose(s, pos) = 0
    PROVE  Agree(A, s, g, pos)
<1> DEFINE v == Stripper(s)[pos]
           L == Len(s)
           b == g[pos - 1]
           m == IF o = 0 THEN L ELSE o - 1
<1>0. /\ L \in Nat /\ <<>> \in Seq(A) /\ pos \in Nat \ {0} /\ pos \in 1..(L + 2)
      /\ \A i \in 0..L : g[i] \in ThinkingState(A)
  <2>1. g \in [0..L -> ThinkingState(A)]
    BY Zenon DEF Followed
  <2> QED BY <2>1, LenProperties, EmptySeq
<1>1. b.text \in Seq(A) /\ b.thinking \in Seq(A)
  BY <1>0 DEF ThinkingState
<1>2. /\ m \in (pos - 1)..L /\ \A i \in pos..m : s[i] # "<think"
      /\ (o # 0 => Opened(s, pos, o) /\ o \in 1..L /\ o - 1 = m)
  <2>1. /\ o = 0 => \A i \in pos..L : s[i] # "<think"
        /\ o # 0 => Opened(s, pos, o)
    BY <1>0, StripOpens
  <2> QED BY <1>0, <2>1 DEF Opened
<1>3. v.text = SubSeq(s, pos, m) /\ v.thinking = <<>>
  <2>1. v = StripAt(s, Stripper(s), pos)
    BY <1>0, StripperIs
  <2>2. CASE o = 0
    <3>1. v = [text |-> SubSeq(s, pos, L), thinking |-> <<>>]
      BY <2>1, <2>2, Zenon DEF StripAt, From
    <3> HIDE DEF v
    <3> QED BY <2>2, <3>1
  <2>3. CASE o # 0
    <3>1. v = [text |-> SubSeq(s, pos, o - 1), thinking |-> <<>>]
      BY <2>1, <2>3, Zenon DEF StripAt, StripShown
    <3> HIDE DEF v
    <3> QED BY <2>3, <3>1
  <2> QED BY <2>2, <2>3
<1> HIDE DEF v, m
<1>4. v.text \in Seq(A) /\ v.thinking \in Seq(A)
  <2>1. SubSeq(s, pos, m) \in Seq(A)
    BY <1>0, <1>2
  <2> QED BY <1>0, <1>3, <2>1
<1>5. b.thinking \o <<>> = b.thinking
  BY <1>1
<1>6. ASSUME Ready(s, g, pos)
      PROVE  Keeps(g[L], g[m])
  <2>1. g[m].in \in {"text", "closing"}
    <3>1. m \in (pos - 1)..Len(s) /\ \A i \in pos..m : s[i] # "<think"
      BY <1>2
    <3>2. TextRan(s, g, pos, m)
      BY <1>6, <3>1, TextRuns
    <3> QED BY <3>2 DEF TextRan
  <2>2. CASE o = 0
    BY <2>2 DEF m, Keeps
  <2>3. CASE o # 0
    <3>1. /\ o \in 1..L /\ o - 1 = m /\ o \in 0..L /\ m \in 0..L /\ Opened(s, pos, o)
          /\ s[o] = "<think"
      BY <1>0, <1>2, <2>3 DEF Opened
    <3>2. g[o] = ThinkingRead(g[m], s[o])
      BY <3>1 DEF Followed
    <3> DEFINE t == g[o]
               r == g[m]
               c == s[o]
    <3>3. t = ThinkingRead(r, c) /\ c = "<think" /\ r \in ThinkingState(A) /\ r.in \in {"text", "closing"}
      BY <1>0, <2>1, <3>1, <3>2
    <3>4. t.in = "tag" /\ Keeps(t, r)
      <4> HIDE DEF t, r, c
      <4> QED BY ONLY <3>3, ThinkingReads
    <3> DEFINE e == StripTag(s, pos)
    <3>5. /\ e = 0 => \A i \in (o + 1)..L : s[i] # ">"
          /\ e # 0 => Tagged(s, o, e)
      BY <1>0, <3>1, StripTags
    <3>6. CASE e = 0
      <4>1. L \in o..L
        BY <1>0, <3>1
      <4>2. g[L].in = "tag" /\ Keeps(g[L], g[o])
        <5> HIDE DEF e, L
        <5>1. g[o].in = "tag" /\ o \in 1..L /\ \A i \in (o + 1)..L : s[i] # ">"
          BY <3>1, <3>4, <3>5, <3>6
        <5> USE DEF L
        <5> QED BY <4>1, <5>1, TagRuns
      <4> QED BY <3>4, <4>2 DEF Keeps
    <3>7. CASE e # 0
      <4>1. StripClose(s, pos) = 0
        BY <2>3
      <4>2. Tagged(s, o, e)
        BY <3>5, <3>7
      <4>3. \A i \in (e + 1)..L : s[i] # "</think"
        <5> DEFINE d == e
        <5>1. d = StripTag(s, pos) /\ Tagged(s, o, d) /\ o \in Nat
          BY <1>0, <3>1, <4>2
        <5> HIDE DEF d
        <5>2. StripClose(s, pos) = 0 => \A i \in (d + 1)..Len(s) : s[i] # "</think"
          BY ONLY s \in Seq(A), <5>1, StripCloses
        <5> QED BY <4>1, <5>2 DEF d
      <4> HIDE DEF e
      <4>4. /\ e \in 1..L /\ e \in 0..L /\ e - 1 \in o..L /\ e - 1 \in 0..L /\ s[e] = ">"
            /\ \A i \in (o + 1)..(e - 1) : s[i] # ">"
        BY <1>0, <3>1, <4>2 DEF Tagged
      <4>5. g[e - 1].in = "tag" /\ Keeps(g[e - 1], g[o])
        <5>1. g[o].in = "tag"
          BY <3>4
        <5> QED BY <3>1, <4>4, <5>1, TagRuns
      <4> DEFINE u == g[e]
                 w == g[e - 1]
                 k == s[e]
      <4>6. u = ThinkingRead(w, k) /\ k = ">" /\ w \in ThinkingState(A) /\ w.in = "tag"
        BY <1>0, <4>4, <4>5 DEF Followed
      <4>7. u.in = "block" /\ u.block = <<>> /\ Keeps(u, w)
        <5> HIDE DEF u, w, k
        <5> QED BY ONLY <4>6, ThinkingReads
      <4>8. g[L].in = "block" /\ Keeps(g[L], g[e])
        <5>1. g[e].in = "block" /\ g[e].block = <<>> /\ L \in e..L
          BY <1>0, <4>4, <4>7
        <5>2. BlockRan(s, g, e, L)
          BY <4>3, <4>4, <5>1, BlockRuns
        <5> QED BY <5>2 DEF BlockRan
      <4> QED BY <3>4, <4>5, <4>7, <4>8 DEF Keeps
    <3> QED BY <3>6, <3>7
  <2> QED BY <2>2, <2>3
<1>7. ASSUME Ready(s, g, pos)
      PROVE  Adds(g[L], b, v)
  <2>1. g[m].thinking = b.thinking /\ g[m].text = b.text \o SubSeq(s, pos, m)
    <3>1. m \in (pos - 1)..Len(s) /\ \A i \in pos..m : s[i] # "<think"
      BY <1>2
    <3>2. TextRan(s, g, pos, m)
      BY <1>7, <3>1, TextRuns
    <3> QED BY <3>2 DEF TextRan
  <2>2. Keeps(g[L], g[m])
    BY <1>6, <1>7
  <2> QED BY <1>3, <1>5, <2>1, <2>2 DEF Adds, Keeps
<1> QED BY <1>4, <1>7 DEF Agree, v

LEMMA AgreeInside ==
    ASSUME NEW A, NEW s, s \in Seq(A), NEW g, Followed(A, s, g), NEW pos, pos \in 1..(Len(s) + 1),
           StripOpen(s, pos) # 0, StripClose(s, pos) # 0,
           \A q \in (pos + 1)..(Len(s) + 1) : Agree(A, s, g, q)
    PROVE  Agree(A, s, g, pos)
<1> DEFINE v == Stripper(s)[pos]
           L == Len(s)
           b == g[pos - 1]
<1>0. /\ L \in Nat /\ pos \in Nat \ {0} /\ pos \in 1..(L + 2)
      /\ \A i \in 0..L : g[i] \in ThinkingState(A)
      /\ \A i \in 1..L : g[i] = ThinkingRead(g[i - 1], s[i])
  <2>1. /\ g \in [0..L -> ThinkingState(A)]
        /\ \A i \in 1..L : g[i] = ThinkingRead(g[i - 1], s[i])
    BY Zenon DEF Followed
  <2>2. L \in Nat
    BY LenProperties
  <2>3. \A i \in 0..L : g[i] \in ThinkingState(A)
    BY <2>1
  <2> QED BY <2>1, <2>2, <2>3
<1>1. PICK o, e, c, q :
              /\ o = StripOpen(s, pos) /\ Opened(s, pos, o)
              /\ e = StripTag(s, pos) /\ Tagged(s, o, e)
              /\ c = StripClose(s, pos) /\ Closed(s, e, c)
              /\ q = StripResume(s, pos) /\ Resumed(s, c, q)
              /\ pos <= Len(s) /\ q \in (pos + 1)..(Len(s) + 1)
  BY <1>0, StripNext, Zenon
<1> DEFINE x == SubSeq(s, pos, o - 1)
           y == SubSeq(s, e + 1, c - 1)
           w == Stripper(s)[q]
<1>2. /\ o \in pos..L /\ e \in (o + 1)..L /\ c \in (e + 1)..L /\ q \in (pos + 1)..(L + 1)
      /\ s[o] = "<think" /\ s[e] = ">" /\ s[c] = "</think"
      /\ \A i \in pos..(o - 1) : s[i] # "<think"
      /\ \A i \in (o + 1)..(e - 1) : s[i] # ">"
      /\ \A i \in (e + 1)..(c - 1) : s[i] # "</think"
  BY <1>1, Zenon DEF Opened, Tagged, Closed
<1>3. /\ o \in 1..L /\ e \in 1..L /\ c \in 1..L /\ o - 1 \in 0..L /\ e - 1 \in 0..L /\ c - 1 \in 0..L
      /\ o - 1 \in (pos - 1)..L /\ e - 1 \in o..L /\ c - 1 \in e..L
  BY ONLY <1>0, <1>2
<1>4. v.text = x \o w.text /\ v.thinking = y \o w.thinking
  <2>1. v = StripAt(s, Stripper(s), pos)
    BY <1>0, StripperIs
  <2>2. v = [text |-> x \o w.text, thinking |-> y \o w.thinking]
    BY <1>1, <2>1, Zenon DEF StripAt, StripShown, StripBlock
  <2> HIDE DEF v, x, y, w
  <2> QED BY <2>2
<1>5. x \in Seq(A) /\ y \in Seq(A)
  BY ONLY <1>0, <1>2, s \in Seq(A)
<1>6. /\ w.text \in Seq(A) /\ w.thinking \in Seq(A)
      /\ Ready(s, g, q) => Adds(g[L], g[q - 1], w)
  BY <1>2 DEF Agree
<1> HIDE DEF v, x, y, w
<1>7. v.text \in Seq(A) /\ v.thinking \in Seq(A)
  BY <1>4, <1>5, <1>6, ConcatProperties
<1>8. ASSUME Ready(s, g, pos)
      PROVE  Adds(g[L], b, v)
  <2>1. g[o - 1].in \in {"text", "closing"} /\ g[o - 1].thinking = b.thinking /\ g[o - 1].text = b.text \o x
    <3>1. o - 1 \in (pos - 1)..Len(s) /\ \A i \in pos..(o - 1) : s[i] # "<think"
      BY <1>2, <1>3
    <3>2. TextRan(s, g, pos, o - 1)
      BY <1>8, <3>1, TextRuns
    <3> QED BY <3>2 DEF TextRan, x
  <2>2. g[o].in = "tag" /\ Keeps(g[o], g[o - 1])
    <3> DEFINE t == g[o]
               r == g[o - 1]
               k == s[o]
    <3>1. t = ThinkingRead(r, k) /\ k = "<think" /\ r \in ThinkingState(A) /\ r.in \in {"text", "closing"}
      BY <1>0, <1>2, <1>3, <2>1
    <3> HIDE DEF t, r, k
    <3>2. t.in = "tag" /\ Keeps(t, r)
      BY ONLY <3>1, ThinkingReads
    <3> QED BY <3>2 DEF t, r
  <2>3. g[e - 1].in = "tag" /\ Keeps(g[e - 1], g[o])
    <3>1. o \in 1..Len(s) /\ e - 1 \in o..Len(s) /\ \A i \in (o + 1)..(e - 1) : s[i] # ">"
      BY <1>2, <1>3
    <3> QED BY <2>2, <3>1, TagRuns, Zenon
  <2>4. g[e].in = "block" /\ g[e].block = <<>> /\ Keeps(g[e], g[e - 1])
    <3> DEFINE t == g[e]
               r == g[e - 1]
               k == s[e]
    <3>1. t = ThinkingRead(r, k) /\ k = ">" /\ r \in ThinkingState(A) /\ r.in = "tag"
      BY <1>0, <1>2, <1>3, <2>3
    <3> HIDE DEF t, r, k
    <3>2. t.in = "block" /\ t.block = <<>> /\ Keeps(t, r)
      BY ONLY <3>1, ThinkingReads
    <3> QED BY <3>2 DEF t, r
  <2>5. g[c - 1].in = "block" /\ Keeps(g[c - 1], g[e]) /\ g[c - 1].block = y
    <3>1. e \in 1..Len(s) /\ c - 1 \in e..Len(s) /\ \A i \in (e + 1)..(c - 1) : s[i] # "</think"
      BY <1>2, <1>3
    <3>2. BlockRan(s, g, e, c - 1)
      BY <2>4, <3>1, BlockRuns
    <3> QED BY <3>2 DEF BlockRan, y
  <2>6. g[c].in = "closing" /\ g[c].text = g[c - 1].text /\ g[c].thinking = g[c - 1].thinking \o y
    <3> DEFINE t == g[c]
               r == g[c - 1]
               k == s[c]
    <3>1. /\ t = ThinkingRead(r, k) /\ k = "</think" /\ r \in ThinkingState(A) /\ r.in = "block"
          /\ r.block = y
      BY <1>0, <1>2, <1>3, <2>5
    <3> HIDE DEF t, r, k
    <3>2. t.in = "closing" /\ t.text = r.text /\ t.thinking = r.thinking \o r.block
      BY ONLY <3>1, ThinkingReads
    <3> QED BY <3>1, <3>2 DEF t, r
  <2>7. Ready(s, g, q) /\ Keeps(g[q - 1], g[c])
    <3>1. CASE q = c + 2 /\ c < Len(s) /\ s[c + 1] = ">"
      <4>1. q - 1 = c + 1 /\ c + 1 \in 1..L /\ (c + 1) - 1 = c /\ c \in 0..L
        BY <1>0, <1>2, <3>1
      <4> DEFINE t == g[c + 1]
                 r == g[c]
                 k == s[c + 1]
      <4>2. t = ThinkingRead(r, k) /\ k = ">" /\ r \in ThinkingState(A) /\ r.in = "closing"
        <5>1. g[c + 1] = ThinkingRead(g[(c + 1) - 1], s[c + 1]) /\ g[c] \in ThinkingState(A)
          BY <1>0, <4>1
        <5> QED BY <2>6, <3>1, <4>1, <5>1
      <4> HIDE DEF t, r, k
      <4>3. t.in = "text" /\ Keeps(t, r)
        BY ONLY <4>2, ThinkingReads
      <4> QED BY <4>1, <4>3 DEF t, r, Ready
    <3>2. CASE q = c + 1 /\ (c < Len(s) => s[c + 1] # ">")
      <4>1. q - 1 = c /\ (q <= Len(s) => s[q] # ">")
        BY <1>0, <1>2, <3>2
      <4> QED BY <2>6, <4>1 DEF Ready, Keeps
    <3> QED BY <1>1, <3>1, <3>2 DEF Resumed
  <2>8. g[L].text = g[q - 1].text \o w.text /\ g[L].thinking = g[q - 1].thinking \o w.thinking
    BY <1>6, <2>7 DEF Adds
  <2>9. g[q - 1].text = b.text \o x /\ g[q - 1].thinking = b.thinking \o y
    BY <2>1, <2>2, <2>3, <2>4, <2>5, <2>6, <2>7 DEF Keeps
  <2>10. b.text \in Seq(A) /\ b.thinking \in Seq(A)
    <3>1. g[pos - 1] \in ThinkingState(A)
      BY <1>0, <1>2
    <3> QED BY <3>1 DEF ThinkingState
  <2>11. /\ (b.text \o x) \o w.text = b.text \o (x \o w.text)
         /\ (b.thinking \o y) \o w.thinking = b.thinking \o (y \o w.thinking)
    <3> DEFINE p == b.text
               f == b.thinking
               u == w.text
               z == w.thinking
    <3>1. /\ p \in Seq(A) /\ f \in Seq(A) /\ u \in Seq(A) /\ z \in Seq(A)
          /\ x \in Seq(A) /\ y \in Seq(A)
      BY <1>5, <1>6, <2>10
    <3> HIDE DEF p, f, u, z
    <3>2. (p \o x) \o u = p \o (x \o u)
      <4>1. p \in Seq(A) /\ x \in Seq(A) /\ u \in Seq(A)
        BY ONLY <3>1
      <4> QED BY ONLY <4>1, ConcatAssociative
    <3>3. (f \o y) \o z = f \o (y \o z)
      <4>1. f \in Seq(A) /\ y \in Seq(A) /\ z \in Seq(A)
        BY ONLY <3>1
      <4> QED BY ONLY <4>1, ConcatAssociative
    <3> QED BY <3>2, <3>3 DEF p, f, u, z
  <2>12. g[L].text = b.text \o v.text
    BY ONLY <1>4, <2>8, <2>9, <2>11, Zenon
  <2>13. g[L].thinking = b.thinking \o v.thinking
    BY ONLY <1>4, <2>8, <2>9, <2>11, Zenon
  <2> QED BY <2>12, <2>13 DEF Adds
<1> QED BY <1>7, <1>8 DEF Agree, v

LEMMA StripsApart ==
    ASSUME NEW A, NEW s, s \in Seq(A)
    PROVE  /\ StripThinkingBlocks(s).text = ThinkingApart(s).text
           /\ StripThinkingBlocks(s).thinking = ThinkingApart(s).thinking
<1> DEFINE L == Len(s)
           v == Stripper(s)[1]
<1>1. PICK g : /\ Followed(A, s, g)
               /\ ThinkingApart(s).text = g[L].text
               /\ ThinkingApart(s).thinking = g[L].thinking
  BY ApartIs, Zenon
<1>2. L \in Nat
  BY LenProperties
<1>3. ASSUME NEW pos \in 1..(L + 1), \A q \in (pos + 1)..(L + 1) : Agree(A, s, g, q)
      PROVE  Agree(A, s, g, pos)
  <2>1. CASE StripOpen(s, pos) = 0 \/ StripClose(s, pos) = 0
    BY <1>1, <2>1, AgreeAtEnd, Zenon
  <2>2. CASE StripOpen(s, pos) # 0 /\ StripClose(s, pos) # 0
    BY <1>1, <1>3, <2>2, AgreeInside, Zenon
  <2> QED BY <2>1, <2>2
<1> DEFINE B == {k \in Nat : \A pos \in 1..(L + 1) : L + 1 - pos < k => Agree(A, s, g, pos)}
<1> HIDE DEF L
<1>4. 0 \in B
  BY <1>2
<1>5. ASSUME NEW k \in Nat, k \in B
      PROVE  k + 1 \in B
  <2>1. \A q \in 1..(L + 1) : L + 1 - q < k => Agree(A, s, g, q)
    BY <1>5
  <2>2. ASSUME NEW pos \in 1..(L + 1), L + 1 - pos < k + 1
        PROVE  Agree(A, s, g, pos)
    <3>1. \A q \in (pos + 1)..(L + 1) : q \in 1..(L + 1) /\ L + 1 - q < k
      BY <1>2, <2>2
    <3> QED BY <1>3, <2>1, <3>1
  <2> QED BY <2>2
<1>6. Nat \subseteq B
  <2> HIDE DEF B
  <2> QED BY <1>4, <1>5, SetInduction
<1>7. Agree(A, s, g, 1)
  <2>1. L + 1 \in Nat /\ 1 \in 1..(L + 1) /\ L + 1 - 1 < L + 1
    BY <1>2
  <2>2. L + 1 \in B
    <3> HIDE DEF B
    <3> QED BY <1>6, <2>1
  <2> QED BY <2>1, <2>2
<1>8. g[1 - 1] = ThinkingStart
  BY <1>1 DEF Followed
<1> HIDE DEF v
<1>9. Ready(s, g, 1)
  BY <1>8 DEF Ready, ThinkingStart
<1>10. /\ v.text \in Seq(A) /\ v.thinking \in Seq(A)
       /\ g[L].text = <<>> \o v.text /\ g[L].thinking = <<>> \o v.thinking
  <2> DEFINE b == g[1 - 1]
  <2>1. b.text = <<>> /\ b.thinking = <<>>
    BY <1>8 DEF ThinkingStart
  <2> HIDE DEF b
  <2>2. v.text \in Seq(A) /\ v.thinking \in Seq(A) /\ Adds(g[L], b, v)
    BY <1>7, <1>9, Zenon DEF Agree, L, v, b
  <2> QED BY <2>1, <2>2, Zenon DEF Adds
<1>11. \A t \in Seq(A) : <<>> \o t = t
  BY ConcatEmptySeq
<1>12. g[L].text = v.text /\ g[L].thinking = v.thinking
  BY <1>10, <1>11
<1>13. StripThinkingBlocks(s) = v
  BY StripIs DEF v
<1> QED BY <1>1, <1>12, <1>13
-----------------------------------------------------------------------------
(* What a call makes of the server's answer.                               *)
TextOf(a, r) ==
    LET apart == ThinkingApart(a.content)
    IN  Legible(a.content) => r.text = apart.text /\ r.reasoning_content = apart.thinking
CountsOf(a, r) ==
    /\ ~EndsAsKey(a.content, "completion_tokens") => r.completion_tokens = NumberOf(a.completion)
    /\ ~EndsAsKey(a.content, "total_tokens") => r.total_tokens = NumberOf(a.total)

LEMMA AnswerUnderstood ==
    ASSUME NEW g \in Given
    PROVE  /\ TextOf(g.answer, Understand(Answer(g.answer)))
           /\ CountsOf(g.answer, Understand(Answer(g.answer)))
<1> DEFINE a == g.answer
           json == Answer(a)
           x == a.content
           u == Understand(json)
<1>1. /\ IsString(x) /\ a.created \in Seq(Range(Digits))
      /\ a.completion \in Seq(Range(Digits)) /\ a.total \in Seq(Range(Digits))
  <2>1. /\ IsString(g.answer.content)
        /\ {g.answer.created, g.answer.completion, g.answer.total} \subseteq Seq(Range(Digits))
    BY GivenAssumption
  <2> QED BY <2>1
<1>2. /\ u.text = StripThinkingBlocks(ExtractJsonString(json, "content")).text
      /\ u.reasoning_content = StripThinkingBlocks(ExtractJsonString(json, "content")).thinking
      /\ u.completion_tokens = ExtractJsonInt(json, "completion_tokens")
      /\ u.total_tokens = ExtractJsonInt(json, "total_tokens")
  BY DEF Understand
<1> HIDE DEF u, a
<1>3. ASSUME Legible(x)
      PROVE  /\ u.text = ThinkingApart(x).text
             /\ u.reasoning_content = ThinkingApart(x).thinking
  <2>1. ExtractJsonString(json, "content") = x
    BY <1>1, <1>3, ContentIsFound, Zenon
  <2>2. x \in Seq(Range(x))
    BY <1>1 DEF IsString
  <2>3. /\ StripThinkingBlocks(x).text = ThinkingApart(x).text
        /\ StripThinkingBlocks(x).thinking = ThinkingApart(x).thinking
    BY <2>2, StripsApart, Zenon
  <2> QED BY <1>2, <2>1, <2>3, Zenon
<1>4. ASSUME ~EndsAsKey(x, "completion_tokens")
      PROVE  u.completion_tokens = NumberOf(a.completion)
  <2> DEFINE key == "completion_tokens"
  <2>1. key \in CountKeys /\ key = "completion_tokens"
    BY DEF CountKeys
  <2> HIDE DEF key
  <2>2. ExtractJsonInt(json, key) = NumberOf(IF key = "completion_tokens" THEN a.completion ELSE a.total)
    BY <1>1, <1>4, <2>1, CountIsFound, Zenon
  <2> QED BY <1>2, <2>1, <2>2, Zenon
<1>5. ASSUME ~EndsAsKey(x, "total_tokens")
      PROVE  u.total_tokens = NumberOf(a.total)
  <2> DEFINE key == "total_tokens"
  <2>1. key \in CountKeys /\ key = "total_tokens" /\ key # "completion_tokens"
    BY DEF CountKeys
  <2> HIDE DEF key
  <2>2. ExtractJsonInt(json, key) = NumberOf(IF key = "completion_tokens" THEN a.completion ELSE a.total)
    BY <1>1, <1>5, <2>1, CountIsFound, Zenon
  <2> QED BY <1>2, <2>1, <2>2, Zenon
<1>6. TextOf(a, u)
  BY <1>3, Zenon DEF TextOf
<1>7. CountsOf(a, u)
  BY <1>4, <1>5, Zenon DEF CountsOf
<1> QED BY <1>6, <1>7 DEF u, a

(* The answer on its way from the server's output to the caller.           *)
Brought ==
    /\ given \in Given
    /\ pc = "close" /\ status = 0 => printed = Answer(given.answer)
    /\ Answered => Delivered = Understand(Answer(given.answer))

LEMMA BroughtStep == Clean /\ Brought /\ [Next]_vars => Brought'
<1> SUFFICES ASSUME Clean, Brought, [Next]_vars
             PROVE  Brought'
  OBVIOUS
<1>1. given' = given /\ op' = op
  BY DEF Next, vars, scenario, StartServer, StartServerFails, TakeImage, ImageUnreadable,
         Mkstemp, MkstempFails, WritePayload, Popen, PopenFails, Serve, Refuse,
         RequestFails, Finish
<1> DEFINE answer == Answer(given.answer)
<1>2. answer' = answer
  BY <1>1
<1> USE <1>1 DEF Brought, Answered
<1>3. CASE StartServer \/ TakeImage \/ Mkstemp \/ WritePayload \/ Popen
  <2>1. pc' \notin {"close", "done"}
    BY <1>3 DEF StartServer, TakeImage, Mkstemp, WritePayload, Popen
  <2> QED BY <2>1
<1>4. CASE StartServerFails \/ ImageUnreadable \/ MkstempFails \/ PopenFails \/ RequestFails
  <2>1. pc' = "done" /\ returned' = FALSE
    BY <1>4 DEF StartServerFails, ImageUnreadable, MkstempFails, PopenFails, RequestFails, Return
  <2> QED BY <2>1
<1>5. CASE Serve
  <2>1. pc' = "close" /\ (status' = 0 => printed' = answer)
    BY <1>5 DEF Serve
  <2> HIDE DEF answer
  <2>2. ~Answered'
    BY <2>1
  <2> QED BY <1>2, <2>1, <2>2 DEF answer
<1>6. CASE Refuse
  <2>1. pc' = "close" /\ status' = 22
    BY <1>6 DEF Refuse
  <2> QED BY <2>1
<1>7. CASE Finish
  <2>1. /\ pc = "close" /\ status = 0 /\ Return(TRUE, Understand(printed)) /\ printed = answer
        /\ pc' = "done"
    BY <1>7 DEF Finish, Return
  <2>2. told = <<>>
    BY <2>1 DEF Clean, Untold
  <2> DEFINE value == Understand(printed)
  <2> HIDE DEF value, answer
  <2>3. Return(TRUE, value)
    BY <2>1 DEF value
  <2>4. Delivered' = value
    <3>1. CASE op = "GenerateAsync"
      <4>1. told' = <<[ok |-> TRUE, result |-> value]>>
        BY <2>2, <2>3, <3>1 DEF Return
      <4> QED BY <3>1, <4>1 DEF Delivered
    <3>2. CASE op # "GenerateAsync"
      BY <2>3, <3>2 DEF Return, Delivered
    <3> QED BY <3>1, <3>2
  <2>5. value = Understand(answer')
    BY <1>2, <2>1, Zenon DEF value
  <2> QED BY <2>1, <2>4, <2>5 DEF answer
<1>8. CASE UNCHANGED vars
  BY <1>8 DEF vars, scenario, Delivered
<1> QED BY <1>3, <1>4, <1>5, <1>6, <1>7, <1>8 DEF Next

(* Whatever the server answers, a call that returns true hands out its     *)
(* text and its thinking as a reader takes them apart, and its counts: the *)
(* searches of ExtractJsonString and ExtractJsonInt end at the members     *)
(* they are for, and the loop of StripThinkingBlocks is one pass.          *)
THEOREM AnswersAreUnderstood == Spec => []AnswerIsUnderstood
<1>1. Init => Clean /\ Brought
  BY DEF Init, Clean, Untold, Brought, Answered
<1>2. Brought => AnswerIsUnderstood
  <2> SUFFICES ASSUME Brought, Answered
               PROVE  TextOf(given.answer, Delivered) /\ CountsOf(given.answer, Delivered)
    BY Zenon DEF AnswerIsUnderstood, TextOf, CountsOf
  <2>1. Delivered = Understand(Answer(given.answer)) /\ given \in Given
    BY DEF Brought
  <2> QED BY <2>1, AnswerUnderstood, Zenon
<1> QED BY <1>1, <1>2, CleanStep, BroughtStep, PTL DEF Spec
=============================================================================
