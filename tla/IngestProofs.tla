---------------------------- MODULE IngestProofs ----------------------------
(***************************************************************************)
(* Proofs about Ingest, with the producers of Telemetry or with clients of *)
(* any kind: for every window size, any number of keys, connections and    *)
(* lines, and whatever happens to the infer service.                       *)
(***************************************************************************)
EXTENDS Telemetry, FiniteSetTheorems, SequenceTheorems, WellFoundedInduction, TLAPS

-----------------------------------------------------------------------------
(* Sums over finite sets *)

LEMMA NatMin ==
  ASSUME NEW T \in SUBSET Nat, T # {}
  PROVE  \E m \in T : \A k \in T : m <= k
<1>1. IsWellFoundedOn(OpToRel(<, Nat), Nat)
  BY NatLessThanWellFounded
<1>2. PICK x \in T : \A y \in T : ~(<<y, x>> \in OpToRel(<, Nat))
  BY <1>1, WFMin
<1>3. \A y \in T : ~(y < x)
  BY <1>2 DEF OpToRel
<1> QED
  BY <1>3

\* Induction over the natural numbers, for a set in place of a predicate.
LEMMA NatSetInduction ==
  ASSUME NEW S, 0 \in S, \A n \in Nat : n \in S => n + 1 \in S
  PROVE  \A n \in Nat : n \in S
<1> SUFFICES ASSUME NEW n0 \in Nat, n0 \notin S PROVE FALSE
  OBVIOUS
<1>1. PICK m \in Nat \ S : \A k \in Nat \ S : m <= k
  BY NatMin
<1> QED
  BY <1>1

\* SumFunction takes the elements of a set away one by one.
Pick(s) == CHOOSE x \in s : TRUE

\* Sum is what SumFunction computes for every subset of the domain of f.
IsSum(sum, f) ==
  sum = [s \in SUBSET DOMAIN f |->
           IF s = {} THEN 0 ELSE f[Pick(s)] + sum[s \ {Pick(s)}]]
Sums(f) == CHOOSE sum : IsSum(sum, f)

LEMMA SumFunctionSums == ASSUME NEW f PROVE SumFunction(f) = Sums(f)[DOMAIN f]
  BY DEF SumFunction, SumFunctionOnSet, FoldFunctionOnSet, MapThenFoldSet, Sums, IsSum, Pick

LEMMA PickIn == ASSUME NEW s, s # {} PROVE Pick(s) \in s
  BY DEF Pick

LEMMA SmallerSet ==
  ASSUME NEW S, IsFiniteSet(S), NEW s \in SUBSET S, s # {}
  PROVE  /\ Pick(s) \in s /\ s \ {Pick(s)} \in SUBSET S
         /\ IsFiniteSet(s) /\ Cardinality(s) \in Nat \ {0}
         /\ Cardinality(s \ {Pick(s)}) = Cardinality(s) - 1
<1>1. Pick(s) \in s /\ IsFiniteSet(s) /\ Cardinality(s) \in Nat
  BY PickIn, FS_Subset, FS_CardinalityType
<1>2. Cardinality(s) # 0
  BY <1>1, FS_EmptySet
<1>3. Cardinality(s \ {Pick(s)}) = Cardinality(s) - 1
  BY <1>1, FS_RemoveElement
<1> QED
  BY <1>1, <1>2, <1>3

LEMMA NoSize ==
  ASSUME NEW S, IsFiniteSet(S), NEW s \in SUBSET S, Cardinality(s) <= 0
  PROVE  s = {}
<1>1. s # {} => Cardinality(s) \in Nat \ {0}
  BY SmallerSet
<1> QED
  BY <1>1

\* The sums exist: they are built for larger and larger subsets.
LEMMA SumsExist ==
  ASSUME NEW S, IsFiniteSet(S), NEW f \in [S -> Int]
  PROVE  \E g \in [SUBSET S -> Int] : IsSum(g, f)
<1> DEFINE Right(g, t) == g[t] = IF t = {} THEN 0 ELSE f[Pick(t)] + g[t \ {Pick(t)}]
           UpTo(g, n) == \A t \in SUBSET S : Cardinality(t) <= n => Right(g, t)
           Done == {n \in Nat : \E g \in [SUBSET S -> Int] : UpTo(g, n)}
<1>1. 0 \in Done
  <2> DEFINE g == [t \in SUBSET S |-> 0]
  <2>1. ASSUME NEW t \in SUBSET S, Cardinality(t) <= 0 PROVE t = {}
    BY <2>1, NoSize
  <2>2. g \in [SUBSET S -> Int] /\ UpTo(g, 0)
    BY <2>1
  <2> QED
    BY <2>2
<1>2. ASSUME NEW n \in Nat, n \in Done PROVE n + 1 \in Done
  <2>1. PICK g \in [SUBSET S -> Int] : UpTo(g, n)
    BY <1>2
  <2> DEFINE h == [t \in SUBSET S |-> IF Cardinality(t) = n + 1
                                        THEN f[Pick(t)] + g[t \ {Pick(t)}] ELSE g[t]]
  <2>2. h \in [SUBSET S -> Int]
    <3> SUFFICES ASSUME NEW t \in SUBSET S, Cardinality(t) = n + 1
                 PROVE  f[Pick(t)] + g[t \ {Pick(t)}] \in Int
      OBVIOUS
    <3>1. t # {}
      BY FS_EmptySet
    <3> QED
      BY <3>1, SmallerSet
  <2>3. ASSUME NEW t \in SUBSET S, Cardinality(t) <= n + 1 PROVE Right(h, t)
    <3>1. CASE t = {}
      BY <2>1, <3>1, FS_EmptySet
    <3>2. CASE t # {}
      <4>1. /\ Cardinality(t) \in Nat \ {0}
            /\ t \ {Pick(t)} \in SUBSET S
            /\ Cardinality(t \ {Pick(t)}) = Cardinality(t) - 1
        BY <3>2, SmallerSet
      <4>2. h[t \ {Pick(t)}] = g[t \ {Pick(t)}]
        <5>1. Cardinality(t \ {Pick(t)}) # n + 1
          BY <2>3, <4>1
        <5> QED
          BY <4>1, <5>1
      <4>3. CASE Cardinality(t) = n + 1
        BY <3>2, <4>2, <4>3
      <4>4. CASE Cardinality(t) <= n
        BY <2>1, <3>2, <4>2, <4>4
      <4> QED
        BY <2>3, <4>1, <4>3, <4>4
    <3> QED
      BY <3>1, <3>2
  <2>4. UpTo(h, n + 1)
    BY <2>3
  <2> HIDE DEF h, UpTo
  <2> QED
    BY <2>2, <2>4
<1>3. Cardinality(S) \in Nat /\ \A t \in SUBSET S : Cardinality(t) <= Cardinality(S)
  BY FS_CardinalityType, FS_Subset
<1>4. Cardinality(S) \in Done
  <2> HIDE DEF Done
  <2> QED
    BY <1>1, <1>2, <1>3, NatSetInduction
<1>5. PICK g \in [SUBSET S -> Int] : UpTo(g, Cardinality(S))
  BY <1>4
<1>6. \A t \in SUBSET S : Right(g, t)
  BY <1>3, <1>5
<1>7. IsSum(g, f)
  BY <1>6 DEF IsSum
<1> QED
  BY <1>7

LEMMA SumsFacts ==
  ASSUME NEW S, IsFiniteSet(S), NEW f \in [S -> Int]
  PROVE  /\ Sums(f)[{}] = 0
         /\ \A s \in SUBSET S : s # {} => Sums(f)[s] = f[Pick(s)] + Sums(f)[s \ {Pick(s)}]
<1>1. \E g : IsSum(g, f)
  BY SumsExist
<1>2. IsSum(Sums(f), f)
  BY <1>1 DEF Sums
<1> QED
  BY <1>2 DEF IsSum

\* What holds of all subsets of a finite set by way of their size.
LEMMA SubsetInduction ==
  ASSUME NEW S, IsFiniteSet(S), NEW T, {} \in T,
         \A s \in SUBSET S : (s # {} /\ s \ {Pick(s)} \in T) => s \in T
  PROVE  \A s \in SUBSET S : s \in T
<1> DEFINE N == {n \in Nat : \A s \in SUBSET S : Cardinality(s) <= n => s \in T}
<1>1. 0 \in N
  <2>1. \A s \in SUBSET S : Cardinality(s) <= 0 => s = {}
    BY NoSize
  <2> QED
    BY <2>1
<1>2. ASSUME NEW n \in Nat, n \in N PROVE n + 1 \in N
  <2> SUFFICES ASSUME NEW s \in SUBSET S, Cardinality(s) <= n + 1, s # {} PROVE s \in T
    OBVIOUS
  <2>1. /\ Cardinality(s) \in Nat /\ s \ {Pick(s)} \in SUBSET S
        /\ Cardinality(s \ {Pick(s)}) = Cardinality(s) - 1
    BY SmallerSet
  <2>2. s \ {Pick(s)} \in T
    BY <1>2, <2>1
  <2> QED
    BY <2>2
<1>3. \A n \in Nat : n \in N
  <2> HIDE DEF N
  <2> QED
    BY <1>1, <1>2, NatSetInduction
<1>4. ASSUME NEW s \in SUBSET S PROVE s \in T
  <2>1. Cardinality(s) \in Nat
    BY FS_Subset, FS_CardinalityType
  <2>2. Cardinality(s) \in N
    BY <1>3, <2>1
  <2> QED
    BY <2>1, <2>2
<1> QED
  BY <1>4

LEMMA SumType ==
  ASSUME NEW S, IsFiniteSet(S), NEW f \in [S -> Int]
  PROVE  SumFunction(f) \in Int
<1> DEFINE T == {s \in SUBSET S : Sums(f)[s] \in Int}
<1>1. {} \in T
  BY SumsFacts
<1>2. ASSUME NEW s \in SUBSET S, s # {}, s \ {Pick(s)} \in T PROVE s \in T
  <2>1. Sums(f)[s] = f[Pick(s)] + Sums(f)[s \ {Pick(s)}]
    BY <1>2, SumsFacts
  <2>2. Pick(s) \in S
    BY <1>2, SmallerSet
  <2> QED
    BY <1>2, <2>1, <2>2
<1>3. \A s \in SUBSET S : s \in T
  <2> HIDE DEF T
  <2> QED
    BY <1>1, <1>2, SubsetInduction
<1> QED
  BY <1>3, SumFunctionSums

LEMMA SumZero ==
  ASSUME NEW S, IsFiniteSet(S)
  PROVE  SumFunction([x \in S |-> 0]) = 0
<1> DEFINE f == [x \in S |-> 0]
           T == {s \in SUBSET S : Sums(f)[s] = 0}
<1>0. f \in [S -> Int] /\ \A x \in S : f[x] = 0
  OBVIOUS
<1> HIDE DEF f
<1>1. {} \in T
  BY <1>0, SumsFacts
<1>2. ASSUME NEW s \in SUBSET S, s # {}, s \ {Pick(s)} \in T PROVE s \in T
  <2>1. Sums(f)[s] = f[Pick(s)] + Sums(f)[s \ {Pick(s)}]
    BY <1>0, <1>2, SumsFacts
  <2>2. Pick(s) \in S
    BY <1>2, SmallerSet
  <2> QED
    BY <1>0, <1>2, <2>1, <2>2
<1>3. \A s \in SUBSET S : s \in T
  <2> HIDE DEF T
  <2> QED
    BY <1>1, <1>2, SubsetInduction
<1>4. DOMAIN f = S
  BY <1>0
<1>5. SumFunction(f) = 0
  BY <1>3, <1>4, SumFunctionSums
<1> QED
  BY <1>5 DEF f

\* Changing one summand changes the sum by the difference.
LEMMA SumUpdate ==
  ASSUME NEW S, IsFiniteSet(S), NEW f \in [S -> Int], NEW g \in [S -> Int], NEW k \in S,
         \A x \in S : x # k => g[x] = f[x]
  PROVE  SumFunction(g) = SumFunction(f) + g[k] - f[k]
<1> DEFINE Change(s) == IF k \in s THEN g[k] - f[k] ELSE 0
           T == {s \in SUBSET S : /\ Sums(f)[s] \in Int
                                  /\ Sums(g)[s] = Sums(f)[s] + Change(s)}
<1>1. {} \in T
  BY SumsFacts
<1>2. ASSUME NEW s \in SUBSET S, s # {}, s \ {Pick(s)} \in T PROVE s \in T
  <2>1. /\ Sums(f)[s] = f[Pick(s)] + Sums(f)[s \ {Pick(s)}]
        /\ Sums(g)[s] = g[Pick(s)] + Sums(g)[s \ {Pick(s)}]
    BY <1>2, SumsFacts
  <2>2. Pick(s) \in s /\ Pick(s) \in S
    BY <1>2, SmallerSet
  <2>3. CASE Pick(s) = k
    <3>1. Change(s \ {Pick(s)}) = 0 /\ Change(s) = g[k] - f[k]
      BY <2>2, <2>3
    <3> HIDE DEF Change
    <3> QED
      BY <1>2, <2>1, <2>3, <3>1
  <2>4. CASE Pick(s) # k
    <3>1. Change(s \ {Pick(s)}) = Change(s) /\ Change(s) \in Int
      BY <2>2, <2>4
    <3>2. g[Pick(s)] = f[Pick(s)] /\ f[Pick(s)] \in Int
      BY <2>2, <2>4
    <3> HIDE DEF Change
    <3> QED
      BY <1>2, <2>1, <3>1, <3>2
  <2> QED
    BY <2>3, <2>4
<1>3. \A s \in SUBSET S : s \in T
  <2> HIDE DEF T
  <2> QED
    BY <1>1, <1>2, SubsetInduction
<1>4. S \in T /\ DOMAIN f = S /\ DOMAIN g = S
  BY <1>3
<1> QED
  BY <1>4, SumFunctionSums

-----------------------------------------------------------------------------
(* Windows *)

LEMMA AppendFacts ==
  ASSUME NEW S, NEW s \in Seq(S), NEW e \in S
  PROVE  /\ Append(s, e) \in Seq(S)
         /\ Len(s) \in Nat
         /\ Len(Append(s, e)) = Len(s) + 1
         /\ Append(s, e)[Len(s) + 1] = e
         /\ \A i \in 1 .. Len(s) : Append(s, e)[i] = s[i]
  OBVIOUS

LEMMA LastOfFacts ==
  ASSUME NEW S, NEW h \in Seq(S), NEW n \in Nat \ {0}
  PROVE  /\ LastOf(h, n) \in Seq(S)
         /\ Len(LastOf(h, n)) = IF Len(h) <= n THEN Len(h) ELSE n
         /\ \A i \in 1 .. Len(LastOf(h, n)) :
              LastOf(h, n)[i] = h[Len(h) - Len(LastOf(h, n)) + i]
<1>0. Len(h) \in Nat /\ \A i \in 1 .. Len(h) : h[i] \in S
  OBVIOUS
<1>1. CASE Len(h) <= n
  BY <1>0, <1>1 DEF LastOf
<1>2. CASE Len(h) > n
  <2> DEFINE m == Len(h) - n + 1
  <2>1. m \in Int /\ Len(h) \in Int /\ \A i \in m .. Len(h) : h[i] \in S
    BY <1>0, <1>2
  <2>2. /\ SubSeq(h, m, Len(h)) \in Seq(S)
        /\ Len(SubSeq(h, m, Len(h))) = n
        /\ \A i \in 1 .. n : SubSeq(h, m, Len(h))[i] = h[m + i - 1]
    <3>1. m <= Len(h) /\ Len(h) - m + 1 = n
      BY <1>0, <1>2
    <3> HIDE DEF m
    <3> QED
      BY <2>1, <3>1, SubSeqProperties
  <2>3. LastOf(h, n) = SubSeq(h, m, Len(h))
    BY <1>0, <1>2 DEF LastOf
  <2> QED
    BY <1>0, <1>2, <2>2, <2>3
<1>3. Len(h) <= n \/ Len(h) > n
  BY <1>0
<1> QED
  BY <1>1, <1>2, <1>3, Zenon

\* Window::push keeps the latest WindowN samples of all that were pushed.
LEMMA PushKeepsLast ==
  ASSUME NEW S, NEW h \in Seq(S), NEW s \in S
  PROVE  Push(LastOf(h, WindowN), s) = LastOf(Append(h, s), WindowN)
<1> DEFINE w == LastOf(h, WindowN)
           longer == Append(w, s)
           k == Append(h, s)
           v == LastOf(k, WindowN)
<1>0. WindowN \in Nat \ {0}
  BY IngestAssumption
<1>1. /\ w \in Seq(S) /\ Len(w) = IF Len(h) <= WindowN THEN Len(h) ELSE WindowN
      /\ \A i \in 1 .. Len(w) : w[i] = h[Len(h) - Len(w) + i]
  BY <1>0, LastOfFacts
<1>2. /\ k \in Seq(S) /\ Len(k) = Len(h) + 1 /\ k[Len(h) + 1] = s
      /\ \A i \in 1 .. Len(h) : k[i] = h[i]
      /\ Len(h) \in Nat
  BY AppendFacts
<1>3. /\ v \in Seq(S) /\ Len(v) = IF Len(k) <= WindowN THEN Len(k) ELSE WindowN
      /\ \A i \in 1 .. Len(v) : v[i] = k[Len(k) - Len(v) + i]
  <2> HIDE DEF k
  <2>1. k \in Seq(S)
    BY <1>2
  <2> QED
    BY <1>0, <2>1, LastOfFacts
<1>4. /\ longer \in Seq(S) /\ Len(longer) = Len(w) + 1 /\ longer[Len(w) + 1] = s
      /\ \A i \in 1 .. Len(w) : longer[i] = w[i]
      /\ Len(w) \in Nat
  <2> HIDE DEF w
  <2> QED
    BY <1>1, AppendFacts
<1> HIDE DEF w, k, v, longer
<1>5. CASE Len(h) < WindowN
  <2>1. Len(longer) = Len(v) /\ Len(w) = Len(h) /\ Len(k) = Len(v) /\ ~(Len(longer) > WindowN)
    BY <1>0, <1>1, <1>2, <1>3, <1>4, <1>5
  <2>2. ASSUME NEW i \in 1 .. Len(longer) PROVE longer[i] = v[i]
    <3>1. Len(k) - Len(v) + i = i /\ Len(h) - Len(w) + i = i
      BY <1>2, <1>4, <2>1
    <3>2. v[i] = k[i]
      BY <1>3, <2>1, <3>1
    <3>3. CASE i = Len(h) + 1
      BY <1>2, <1>4, <2>1, <3>2, <3>3
    <3>4. CASE i # Len(h) + 1
      <4>1. i \in 1 .. Len(h) /\ i \in 1 .. Len(w)
        BY <1>2, <1>4, <2>1, <3>4
      <4>2. longer[i] = w[i] /\ w[i] = h[i] /\ k[i] = h[i]
        BY <1>1, <1>2, <1>4, <3>1, <4>1
      <4> QED
        BY <3>2, <4>2
    <3> QED
      BY <3>3, <3>4
  <2>3. longer = v
    BY <1>3, <1>4, <2>1, <2>2, SeqEqual
  <2> QED
    BY <2>1, <2>3 DEF Push, longer, w, v, k
<1>6. CASE Len(h) >= WindowN
  <2>1. Len(longer) = WindowN + 1 /\ Len(w) = WindowN /\ Len(v) = WindowN /\ longer # << >>
    BY <1>0, <1>1, <1>2, <1>3, <1>4, <1>6
  <2>2. /\ Tail(longer) \in Seq(S) /\ Len(Tail(longer)) = WindowN
        /\ \A i \in 1 .. WindowN : Tail(longer)[i] = longer[i + 1]
    BY <1>0, <1>4, <2>1, HeadTailProperties
  <2>3. ASSUME NEW i \in 1 .. WindowN PROVE Tail(longer)[i] = v[i]
    <3>1. v[i] = k[Len(h) + 1 - WindowN + i]
      <4>1. v[i] = k[Len(k) - Len(v) + i]
        BY <1>3, <2>1
      <4> QED
        BY <1>2, <2>1, <4>1
    <3>2. CASE i = WindowN
      <4>1. Tail(longer)[i] = longer[WindowN + 1] /\ Len(w) + 1 = WindowN + 1
        BY <2>1, <2>2, <3>2
      <4>2. Len(h) + 1 - WindowN + i = Len(h) + 1
        BY <1>0, <1>2, <3>2
      <4> QED
        BY <1>2, <1>4, <3>1, <4>1, <4>2
    <3>3. CASE i < WindowN
      <4>1. i + 1 \in 1 .. Len(w) /\ i + 1 \in Int
        BY <1>0, <2>1, <3>3
      <4>2. longer[i + 1] = w[i + 1]
        BY <1>4, <4>1
      <4>3. w[i + 1] = h[Len(h) - Len(w) + (i + 1)]
        BY <1>1, <4>1
      <4>4. Len(h) - Len(w) + (i + 1) = Len(h) + 1 - WindowN + i
        BY <1>0, <1>2, <2>1
      <4>5. k[Len(h) + 1 - WindowN + i] = h[Len(h) + 1 - WindowN + i]
        BY <1>0, <1>2, <1>6, <3>3
      <4>6. Tail(longer)[i] = longer[i + 1]
        BY <2>2
      <4>7. h[Len(h) - Len(w) + (i + 1)] = h[Len(h) + 1 - WindowN + i]
        BY <4>4
      <4> QED
        BY <3>1, <4>2, <4>3, <4>5, <4>6, <4>7, Zenon
    <3>4. i = WindowN \/ i < WindowN
      BY <1>0
    <3> QED
      BY <3>2, <3>3, <3>4, Zenon
  <2>4. Tail(longer) = v
    BY <1>3, <2>1, <2>2, <2>3, SeqEqual
  <2>5. Len(longer) > WindowN
    BY <1>0, <2>1
  <2> QED
    BY <2>4, <2>5 DEF Push, longer, w, v, k
<1> QED
  BY <1>0, <1>2, <1>5, <1>6

-----------------------------------------------------------------------------
(* The shape of the state *)

\* Clients of every kind: what Ingest and Telemetry have in common.
AnyStep ==
  \/ Server \/ Around
  \/ \E c \in Clients :
       \/ Connect(c) \/ Close(c)
       \/ \E s \in Samples : Write(c, s) \/ CloseTorn(c, s)

FullFrames == [key : Keys, samples : Seq(Samples), last : Nat]

ShapeOK ==
  /\ unread \in [Clients -> Seq(Samples)]
  /\ sampled \in [Keys -> Nat]
  /\ backlog \in Seq(Clients)
  /\ serving \in Clients \union {None}
  /\ pending \in Seq(Samples)
  /\ windows \in [Keys -> Seq(Samples)] /\ history \in [Keys -> Seq(Samples)]
  /\ accepted \in Nat /\ invalid \in Nat /\ frames \in Nat /\ lost \in Nat
  /\ received \in Seq(FullFrames)
  /\ sending \in FullFrames \union {None}

\* The thread has a client while it handles lines, and lines only then.
HandlerOK ==
  /\ pc \in {"handle", "recv", "send"} => serving \in Clients
  /\ pc \notin {"handle", "send"} => pending = << >>
  /\ pc = "send" => sending \in FullFrames

ShapeInv == ShapeOK /\ HandlerOK

LEMMA HeadTail ==
  ASSUME NEW S, NEW s \in Seq(S), s # << >>
  PROVE  /\ Head(s) \in S /\ Tail(s) \in Seq(S)
         /\ Len(s) \in Nat \ {0} /\ Len(Tail(s)) = Len(s) - 1
  BY HeadTailProperties, EmptySeq

LEMMA PushType ==
  ASSUME NEW S, NEW w \in Seq(S), NEW s \in S
  PROVE  Push(w, s) \in Seq(S)
<1>1. Append(w, s) \in Seq(S) /\ Len(Append(w, s)) = Len(w) + 1 /\ Len(w) \in Nat
  BY AppendFacts
<1>2. Append(w, s) # << >>
  BY <1>1, EmptySeq
<1>3. Tail(Append(w, s)) \in Seq(S)
  BY <1>1, <1>2, HeadTail
<1> QED
  BY <1>1, <1>3 DEF Push

LEMMA PartOfStream ==
  ASSUME NEW S, NEW s \in Seq(S), NEW n \in 1 .. Len(s)
  PROVE  /\ SubSeq(s, 1, n) \in Seq(S) /\ Len(SubSeq(s, 1, n)) = n
         /\ SubSeq(s, n + 1, Len(s)) \in Seq(S)
         /\ Len(SubSeq(s, n + 1, Len(s))) = Len(s) - n
<1>1. Len(s) \in Nat /\ \A i \in 1 .. Len(s) : s[i] \in S
  OBVIOUS
<1>2. SubSeq(s, 1, n) \in Seq(S) /\ Len(SubSeq(s, 1, n)) = n
  <2>1. n \in Int /\ 1 \in Int /\ \A i \in 1 .. n : s[i] \in S
    BY <1>1
  <2>2. Len(SubSeq(s, 1, n)) = IF 1 <= n THEN n - 1 + 1 ELSE 0
    BY <2>1, SubSeqProperties
  <2>3. SubSeq(s, 1, n) \in Seq(S)
    BY <2>1, SubSeqProperties
  <2> QED
    BY <1>1, <2>2, <2>3
<1>3. /\ SubSeq(s, n + 1, Len(s)) \in Seq(S)
      /\ Len(SubSeq(s, n + 1, Len(s))) = Len(s) - n
  <2> DEFINE m == n + 1
  <2>1. m \in Int /\ Len(s) \in Int /\ \A i \in m .. Len(s) : s[i] \in S
    BY <1>1
  <2>2. /\ Len(SubSeq(s, m, Len(s))) = IF m <= Len(s) THEN Len(s) - m + 1 ELSE 0
        /\ SubSeq(s, m, Len(s)) \in Seq(S)
    <3> HIDE DEF m
    <3> QED
      BY <2>1, SubSeqProperties
  <2> QED
    BY <1>1, <2>2
<1> QED
  BY <1>2, <1>3

LEMMA InitShapeInv == Init => ShapeInv
<1> SUFFICES ASSUME Init PROVE ShapeInv
  OBVIOUS
<1>1. \A S : << >> \in Seq(S)
  BY EmptySeq
<1> QED
  BY <1>1 DEF Init, ShapeInv, ShapeOK, HandlerOK

LEMMA AcceptShape == ShapeInv /\ AcceptLine => ShapeInv'
<1> SUFFICES ASSUME ShapeInv, AcceptLine PROVE ShapeInv'
  OBVIOUS
<1> DEFINE s == Head(pending)
           w == Push(windows[s.key], s)
           n == Len(history[s.key]) + 1
<1>1. /\ pc = "handle" /\ pending # << >> /\ pending' = Tail(pending) /\ s.valid
      /\ windows' = [windows EXCEPT ![s.key] = w]
      /\ history' = [history EXCEPT ![s.key] = Append(@, s)]
      /\ accepted' = accepted + 1
      /\ \/ pc' = "send" /\ sending' = Frame(s.key, w, n)
         \/ UNCHANGED <<pc, sending>>
      /\ UNCHANGED <<unread, sampled, backlog, serving, invalid, frames, received, lost>>
  BY DEF AcceptLine, NextLine, clientVars
<1>2. /\ pending \in Seq(Samples) /\ serving \in Clients
      /\ windows \in [Keys -> Seq(Samples)] /\ history \in [Keys -> Seq(Samples)]
  BY <1>1 DEF ShapeInv, ShapeOK, HandlerOK
<1>3. s \in Samples /\ s.key \in Keys /\ Tail(pending) \in Seq(Samples)
  <2>1. Head(pending) \in Samples /\ Tail(pending) \in Seq(Samples)
    BY <1>1, <1>2, HeadTail
  <2> QED
    BY <2>1 DEF Samples
<1>4. w \in Seq(Samples)
  BY <1>2, <1>3, PushType
<1>5. Append(history[s.key], s) \in Seq(Samples) /\ n \in Nat
  BY <1>2, <1>3, AppendFacts
<1> HIDE DEF s, w, n
<1>6. Frame(s.key, w, n) \in FullFrames
  BY <1>3, <1>4, <1>5 DEF Frame, FullFrames
<1>7. /\ windows' \in [Keys -> Seq(Samples)] /\ history' \in [Keys -> Seq(Samples)]
      /\ pending' \in Seq(Samples)
  BY <1>1, <1>2, <1>3, <1>4, <1>5
<1> QED
  BY <1>1, <1>2, <1>6, <1>7 DEF ShapeInv, ShapeOK, HandlerOK

LEMMA SendShape == ShapeInv /\ Send => ShapeInv'
<1> SUFFICES ASSUME ShapeInv, Send PROVE ShapeInv'
  OBVIOUS
<1>1. /\ pc = "send" /\ pc' = "handle" /\ sending' = None
      /\ UNCHANGED <<unread, sampled, backlog, serving, pending, windows, history,
                     accepted, invalid>>
  BY DEF Send, SendOnConnection, SendFails, SkipInBackoff, ConnectAndSend, ConnectFails,
         EndSend, clientVars, windowVars
<1>2. sending \in FullFrames /\ received \in Seq(FullFrames) /\ frames \in Nat /\ lost \in Nat
  BY <1>1 DEF ShapeInv, ShapeOK, HandlerOK
<1>3. Append(received, sending) \in Seq(FullFrames)
  BY <1>2, AppendFacts
<1>4. received' \in Seq(FullFrames) /\ frames' \in Nat /\ lost' \in Nat
  <2>1. /\ received' \in {received, Append(received, sending)}
        /\ frames' \in {frames, frames + 1} /\ lost' \in {lost, lost + 1}
    BY DEF Send, SendOnConnection, SendFails, SkipInBackoff, ConnectAndSend,
           ConnectFails, Sent, NotSent
  <2> QED
    BY <1>2, <1>3, <2>1
<1> QED
  BY <1>1, <1>4 DEF ShapeInv, ShapeOK, HandlerOK

LEMMA NextShapeInv == ShapeInv /\ [AnyStep]_vars => ShapeInv'
<1> SUFFICES ASSUME ShapeInv, [AnyStep]_vars PROVE ShapeInv'
  OBVIOUS
<1> USE DEF ShapeInv
<1>1. ASSUME NEW c \in Clients, NEW s \in Samples,
             unread' = [unread EXCEPT ![c] = Append(@, s)],
             sampled' = [sampled EXCEPT ![s.key] = @ + 1],
             UNCHANGED <<backlog, readerVars, windowVars, downVars>>
      PROVE  ShapeInv'
  <2>1. Append(unread[c], s) \in Seq(Samples) /\ s.key \in Keys
    BY AppendFacts DEF ShapeOK, Samples
  <2>2. unread' \in [Clients -> Seq(Samples)]
    BY <1>1, <2>1 DEF ShapeOK
  <2>3. sampled' \in [Keys -> Nat]
    BY <1>1, <2>1 DEF ShapeOK
  <2> QED
    BY <1>1, <2>2, <2>3 DEF ShapeOK, HandlerOK, readerVars, windowVars, downVars
<1>2. ASSUME NEW c \in Clients, Connect(c) PROVE ShapeInv'
  <2>1. backlog' \in Seq(Clients)
    BY <1>2, AppendFacts DEF Connect, ShapeOK
  <2> QED
    BY <1>2, <2>1 DEF Connect, ShapeOK, HandlerOK, readerVars, windowVars, downVars
<1>3. ASSUME NEW c \in Clients, Close(c) PROVE ShapeInv'
  BY <1>3 DEF Close, ShapeOK, HandlerOK, readerVars, windowVars, downVars
<1>4. ASSUME NEW c \in Clients, NEW s \in Samples, Write(c, s) PROVE ShapeInv'
  BY <1>1, <1>4 DEF Write
<1>5. ASSUME NEW c \in Clients, NEW s \in Samples, CloseTorn(c, s) PROVE ShapeInv'
  <2>0. PICK ok \in {FALSE, s.valid} :
          unread' = [unread EXCEPT ![c] = Append(@, [s EXCEPT !.valid = ok])]
    BY <1>5 DEF CloseTorn
  <2> DEFINE torn == [s EXCEPT !.valid = ok]
  <2>1. torn \in Samples /\ torn.key = s.key
    BY DEF Samples
  <2>2. /\ unread' = [unread EXCEPT ![c] = Append(@, torn)]
        /\ sampled' = [sampled EXCEPT ![torn.key] = @ + 1]
        /\ UNCHANGED <<backlog, readerVars, windowVars, downVars>>
    BY <1>5, <2>0, <2>1 DEF CloseTorn
  <2> HIDE DEF torn
  <2> QED
    BY <1>1, <2>1, <2>2
<1>6. ASSUME Listen \/ ListenFails \/ CallRecv \/ Disconnect \/ Exit PROVE ShapeInv'
  BY <1>6 DEF Listen, ListenFails, CallRecv, Disconnect, StreamEnds, Exit, ShapeOK,
     HandlerOK, clientVars, windowVars, downVars
<1>7. ASSUME Accept PROVE ShapeInv'
  <2>1. Head(backlog) \in Clients /\ Tail(backlog) \in Seq(Clients)
    BY <1>7, HeadTail DEF Accept, ShapeOK
  <2> QED
    BY <1>7, <2>1 DEF Accept, ShapeOK, HandlerOK, windowVars, downVars
<1>8. ASSUME Receive PROVE ShapeInv'
  <2>1. PICK n \in 1 .. Len(unread[serving]) :
          /\ pending' = SubSeq(unread[serving], 1, n)
          /\ unread' = [unread EXCEPT ![serving] = SubSeq(@, n + 1, Len(@))]
    BY <1>8 DEF Receive
  <2>2. serving \in Clients
    BY <1>8 DEF Receive, HandlerOK
  <2>3. /\ pending' \in Seq(Samples)
        /\ SubSeq(unread[serving], n + 1, Len(unread[serving])) \in Seq(Samples)
    BY <2>1, <2>2, PartOfStream DEF ShapeOK
  <2>4. unread' \in [Clients -> Seq(Samples)]
    BY <2>1, <2>2, <2>3 DEF ShapeOK
  <2> QED
    BY <1>8, <2>2, <2>3, <2>4 DEF Receive, ShapeOK, HandlerOK, windowVars, downVars
<1>9. ASSUME RejectLine PROVE ShapeInv'
  <2>1. Tail(pending) \in Seq(Samples)
    BY <1>9, HeadTail DEF RejectLine, NextLine, ShapeOK
  <2> QED
    BY <1>9, <2>1 DEF RejectLine, NextLine, ShapeOK, HandlerOK, clientVars, downVars
<1>10. ASSUME AcceptLine \/ Send PROVE ShapeInv'
  BY <1>10, AcceptShape, SendShape
<1>11. ASSUME Stop PROVE ShapeInv'
  <2>1. << >> \in Seq(Clients)
    BY EmptySeq
  <2> QED
    BY <1>11, <2>1 DEF Stop, ShapeOK, HandlerOK, windowVars, downVars
<1>12. ASSUME BackoffEnds \/ InferDies \/ InferStarts \/ InferReads PROVE ShapeInv'
  BY <1>12 DEF BackoffEnds, InferDies, InferStarts, InferReads, ShapeOK, HandlerOK,
     clientVars, readerVars, windowVars, downVars
<1>13. CASE UNCHANGED vars
  BY <1>13 DEF vars, ShapeOK, HandlerOK, clientVars, readerVars, windowVars, downVars
<1> QED
  BY <1>2, <1>3, <1>4, <1>5, <1>6, <1>7, <1>8, <1>9, <1>10, <1>11, <1>12, <1>13
     DEF AnyStep, Server, Around

-----------------------------------------------------------------------------
(* What a step does to the lines, the windows and the frames *)

windowing == <<windows, accepted, invalid, history>>
framing   == <<frames, sending, received, lost>>

Quiet == /\ UNCHANGED <<unread, sampled, pending, windowing, framing>>
         /\ pc' = "send" <=> pc = "send"

Wrote(c, s) ==
  /\ unread' = [unread EXCEPT ![c] = Append(@, s)]
  /\ sampled' = [sampled EXCEPT ![s.key] = @ + 1]
  /\ UNCHANGED <<pending, windowing, framing, pc>>

\* The frame leaves: received, or lost.
Left ==
  /\ pc = "send" /\ pc' = "handle"
  /\ \/ received' = Append(received, sending) /\ lost' = lost /\ frames' = frames + 1
     \/ received' = received /\ lost' = lost + 1 /\ frames' \in {frames, frames + 1}
  /\ UNCHANGED <<unread, sampled, pending, windowing>>

LEMMA StepCases ==
  ASSUME ShapeInv, [AnyStep]_vars
  PROVE  \/ Quiet
         \/ \E c \in Clients, s \in Samples : Wrote(c, s)
         \/ Receive \/ RejectLine \/ AcceptLine \/ Left
<1> USE DEF windowing, framing, readerVars, windowVars, downVars, clientVars
<1>1. ASSUME NEW c \in Clients, Connect(c) \/ Close(c) PROVE Quiet
  BY <1>1 DEF Connect, Close, Quiet
<1>2. ASSUME NEW c \in Clients, NEW s \in Samples, Write(c, s) PROVE Wrote(c, s)
  BY <1>2 DEF Write, Wrote
<1>3. ASSUME NEW c \in Clients, NEW s \in Samples, CloseTorn(c, s)
      PROVE  \E r \in Samples : Wrote(c, r)
  <2>0. PICK ok \in {FALSE, s.valid} :
          unread' = [unread EXCEPT ![c] = Append(@, [s EXCEPT !.valid = ok])]
    BY <1>3 DEF CloseTorn
  <2> DEFINE torn == [s EXCEPT !.valid = ok]
  <2>1. torn \in Samples /\ torn.key = s.key
    BY DEF Samples
  <2>2. Wrote(c, torn)
    BY <1>3, <2>0, <2>1 DEF CloseTorn, Wrote
  <2> QED
    BY <2>1, <2>2
<1>4. ASSUME Listen \/ ListenFails \/ Accept \/ CallRecv \/ Disconnect \/ Exit PROVE Quiet
  BY <1>4 DEF Listen, ListenFails, Accept, CallRecv, Disconnect, StreamEnds, Exit, Quiet
<1>5. ASSUME Stop \/ BackoffEnds \/ InferDies \/ InferStarts \/ InferReads PROVE Quiet
  BY <1>5 DEF Stop, BackoffEnds, InferDies, InferStarts, InferReads, Quiet
<1>6. ASSUME Send PROVE Left
  BY <1>6 DEF Send, SendOnConnection, SendFails, SkipInBackoff, ConnectAndSend,
     ConnectFails, EndSend, Sent, NotSent, Left
<1>7. CASE UNCHANGED vars
  BY <1>7 DEF vars, Quiet
<1> QED
  BY <1>1, <1>2, <1>3, <1>4, <1>5, <1>6, <1>7 DEF AnyStep, Server, Around

\* A line accepted: its sample is the next of its key's history, and the
\* window is what Push makes of it.
LEMMA AcceptFacts ==
  ASSUME ShapeInv, AcceptLine
  PROVE  LET s == Head(pending)
             w == Push(windows[s.key], s)
         IN
         /\ s \in Samples /\ s.key \in Keys
         /\ pc = "handle" /\ pending \in Seq(Samples) /\ pending # << >>
         /\ pending' = Tail(pending)
         /\ windows' = [windows EXCEPT ![s.key] = w]
         /\ history' = [history EXCEPT ![s.key] = Append(@, s)]
         /\ accepted' = accepted + 1
         /\ IF Full(w)
              THEN pc' = "send" /\ sending' = Frame(s.key, w, Len(history[s.key]) + 1)
              ELSE UNCHANGED <<pc, sending>>
         /\ UNCHANGED <<unread, sampled, invalid, frames, received, lost>>
<1>1. pending \in Seq(Samples) /\ pending # << >>
  BY DEF AcceptLine, NextLine, ShapeInv, ShapeOK
<1>2. Head(pending) \in Samples
  BY <1>1, HeadTail
<1>3. Head(pending).key \in Keys
  BY <1>2 DEF Samples
<1> QED
  BY <1>1, <1>2, <1>3 DEF AcceptLine, NextLine, clientVars

-----------------------------------------------------------------------------
(* The windows *)

LEMMA InitWindows == Init => WindowIsRecentHistory
<1> SUFFICES ASSUME Init, NEW k \in Keys PROVE << >> = LastOf(<< >>, WindowN)
  BY DEF WindowIsRecentHistory, Init
<1> QED
  BY IngestAssumption, EmptySeq DEF LastOf

LEMMA NextWindows ==
  ShapeInv /\ WindowIsRecentHistory /\ [AnyStep]_vars => WindowIsRecentHistory'
<1> SUFFICES ASSUME ShapeInv, WindowIsRecentHistory, [AnyStep]_vars
             PROVE  WindowIsRecentHistory'
  OBVIOUS
<1>1. CASE UNCHANGED <<windows, history>>
  BY <1>1 DEF WindowIsRecentHistory
<1>2. CASE AcceptLine
  <2> DEFINE s == Head(pending)
  <2>1. /\ s \in Samples /\ s.key \in Keys
        /\ windows' = [windows EXCEPT ![s.key] = Push(@, s)]
        /\ history' = [history EXCEPT ![s.key] = Append(@, s)]
    BY <1>2, AcceptFacts
  <2>2. windows \in [Keys -> Seq(Samples)] /\ history \in [Keys -> Seq(Samples)]
    BY DEF ShapeInv, ShapeOK
  <2> HIDE DEF s
  <2> SUFFICES ASSUME NEW k \in Keys PROVE windows'[k] = LastOf(history'[k], WindowN)
    BY DEF WindowIsRecentHistory
  <2>3. windows[k] = LastOf(history[k], WindowN)
    BY DEF WindowIsRecentHistory
  <2>4. CASE k = s.key
    <3>1. Push(LastOf(history[k], WindowN), s) = LastOf(Append(history[k], s), WindowN)
      BY <2>1, <2>2, PushKeepsLast
    <3> QED
      BY <2>1, <2>2, <2>3, <2>4, <3>1
  <2>5. CASE k # s.key
    BY <2>1, <2>2, <2>3, <2>5
  <2> QED
    BY <2>4, <2>5
<1> QED
  BY <1>1, <1>2, StepCases
     DEF Quiet, Wrote, Left, windowing, Receive, RejectLine, windowVars

-----------------------------------------------------------------------------
(* The frames *)

\* A frame holds the WindowN samples that end at its place in the history.
FrameOf(hist, f) ==
  /\ f.key \in Keys /\ f.last \in WindowN .. Len(hist[f.key])
  /\ f.samples = SubSeq(hist[f.key], f.last - WindowN + 1, f.last)

\* Frames leave in the order of their samples, and the one being sent is
\* later than all of its key that left.
FramesInv ==
  /\ \A i \in DOMAIN received : FrameOf(history, received[i])
  /\ \A i, j \in DOMAIN received :
       (i < j /\ received[i].key = received[j].key) => received[i].last < received[j].last
  /\ pc = "send" =>
       /\ FrameOf(history, sending)
       /\ \A i \in DOMAIN received :
            received[i].key = sending.key => received[i].last < sending.last

\* Appending to a history leaves what it held where it was.
LEMMA EarlierPart ==
  ASSUME NEW S, NEW h \in Seq(S), NEW s \in S, NEW m \in Nat \ {0}, NEW n \in 1 .. Len(h)
  PROVE  SubSeq(Append(h, s), m, n) = SubSeq(h, m, n)
<1> DEFINE g == Append(h, s)
<1>1. /\ Len(h) \in Nat /\ g \in Seq(S) /\ Len(g) = Len(h) + 1
      /\ \A i \in 1 .. Len(h) : g[i] = h[i] /\ h[i] \in S
  BY AppendFacts
<1> HIDE DEF g
<1>2. /\ m \in Int /\ n \in Int
      /\ \A i \in m .. n : g[i] \in S /\ h[i] \in S /\ g[i] = h[i]
  BY <1>1
<1>3. /\ SubSeq(g, m, n) \in Seq(S) /\ SubSeq(h, m, n) \in Seq(S)
      /\ Len(SubSeq(g, m, n)) = Len(SubSeq(h, m, n))
      /\ Len(SubSeq(g, m, n)) = IF m <= n THEN n - m + 1 ELSE 0
      /\ \A i \in 1 .. n - m + 1 : SubSeq(g, m, n)[i] = g[m + i - 1]
      /\ \A i \in 1 .. n - m + 1 : SubSeq(h, m, n)[i] = h[m + i - 1]
  BY <1>2, SubSeqProperties
<1>4. ASSUME NEW i \in 1 .. Len(SubSeq(g, m, n)) PROVE SubSeq(g, m, n)[i] = SubSeq(h, m, n)[i]
  <2>1. i \in 1 .. n - m + 1 /\ m + i - 1 \in m .. n
    BY <1>2, <1>3
  <2> QED
    BY <1>2, <1>3, <2>1
<1>5. SubSeq(g, m, n) = SubSeq(h, m, n)
  BY <1>3, <1>4, SeqEqual
<1> QED
  BY <1>5 DEF g

\* A full window is the end of its key's history.
LEMMA FullWindow ==
  ASSUME NEW S, NEW h \in Seq(S), Full(LastOf(h, WindowN))
  PROVE  Len(h) >= WindowN /\ LastOf(h, WindowN) = SubSeq(h, Len(h) - WindowN + 1, Len(h))
<1>1. WindowN \in Nat \ {0} /\ Len(h) \in Nat
  BY IngestAssumption, LenProperties
<1>2. Len(LastOf(h, WindowN)) = IF Len(h) <= WindowN THEN Len(h) ELSE WindowN
  BY <1>1, LastOfFacts
<1>3. CASE Len(h) = WindowN
  <2>1. SubSeq(h, 1, Len(h)) = h
    BY SubSeqFull
  <2> QED
    BY <1>1, <1>3, <2>1 DEF LastOf
<1>4. CASE Len(h) > WindowN
  BY <1>1, <1>4 DEF LastOf
<1>5. Len(h) = WindowN \/ Len(h) > WindowN
  BY <1>1, <1>2 DEF Full
<1> QED
  BY <1>3, <1>4, <1>5

LEMMA AcceptFrames ==
  ASSUME ShapeInv, WindowIsRecentHistory, WindowIsRecentHistory', FramesInv, AcceptLine
  PROVE  FramesInv'
<1> DEFINE s == Head(pending)
           k == s.key
           w == Push(windows[k], s)
           n == Len(history[k]) + 1
<1>1. /\ s \in Samples /\ k \in Keys /\ pc = "handle"
      /\ windows' = [windows EXCEPT ![k] = w]
      /\ history' = [history EXCEPT ![k] = Append(@, s)]
      /\ IF Full(w) THEN pc' = "send" /\ sending' = Frame(k, w, n)
                    ELSE UNCHANGED <<pc, sending>>
      /\ UNCHANGED received
  BY AcceptFacts
<1>2. /\ windows \in [Keys -> Seq(Samples)] /\ history \in [Keys -> Seq(Samples)]
      /\ WindowN \in Nat \ {0}
  BY IngestAssumption DEF ShapeInv, ShapeOK
<1> HIDE DEF s, k, w
<1>3. /\ Append(history[k], s) \in Seq(Samples) /\ n \in Nat
      /\ Len(Append(history[k], s)) = n /\ n = Len(history[k]) + 1
  BY <1>1, <1>2, AppendFacts
<1> HIDE DEF n
<1>4. history'[k] = Append(history[k], s) /\ windows'[k] = w
  BY <1>1, <1>2
<1>5. ASSUME NEW i \in DOMAIN received
      PROVE  /\ FrameOf(history', received[i])
             /\ received[i].last \in Nat
             /\ received[i].key = k => received[i].last < n
  <2> DEFINE f == received[i]
  <2>1. FrameOf(history, f)
    BY DEF FramesInv
  <2>2. /\ f.key \in Keys /\ f.last \in WindowN .. Len(history[f.key])
        /\ f.samples = SubSeq(history[f.key], f.last - WindowN + 1, f.last)
        /\ Len(history[f.key]) \in Nat
    BY <1>2, <2>1, LenProperties DEF FrameOf
  <2>3. CASE f.key = k
    <3>1. f.last \in 1 .. Len(history[k]) /\ f.last - WindowN + 1 \in Nat \ {0}
      BY <1>2, <2>2, <2>3
    <3>2. SubSeq(Append(history[k], s), f.last - WindowN + 1, f.last)
            = SubSeq(history[k], f.last - WindowN + 1, f.last)
      <4> DEFINE m == f.last - WindowN + 1
      <4> HIDE DEF m
      <4>1. m \in Nat \ {0} /\ history[k] \in Seq(Samples)
        BY <1>1, <1>2, <3>1 DEF m
      <4>2. SubSeq(Append(history[k], s), m, f.last) = SubSeq(history[k], m, f.last)
        BY <1>1, <3>1, <4>1, EarlierPart
      <4> QED
        BY <4>2 DEF m
    <3>3. f.last \in WindowN .. Len(history'[k]) /\ f.last < n
      BY <1>2, <1>3, <1>4, <2>2, <2>3
    <3>4. f.samples = SubSeq(history'[f.key], f.last - WindowN + 1, f.last)
      BY <1>4, <2>2, <2>3, <3>2
    <3>5. FrameOf(history', f)
      BY <1>1, <2>3, <3>3, <3>4 DEF FrameOf
    <3> QED
      BY <1>2, <2>2, <3>3, <3>5
  <2>4. CASE f.key # k
    <3>1. history'[f.key] = history[f.key]
      BY <1>1, <1>2, <2>2, <2>4
    <3>2. FrameOf(history', f)
      BY <2>2, <3>1 DEF FrameOf
    <3> QED
      BY <1>2, <2>2, <2>4, <3>2
  <2> QED
    BY <2>3, <2>4
<1>6. ASSUME pc' = "send"
      PROVE  /\ sending' = Frame(k, w, n)
             /\ k \in Keys /\ n \in WindowN .. Len(history'[k])
             /\ w = SubSeq(history'[k], n - WindowN + 1, n)
  <2>1. Full(w) /\ sending' = Frame(k, w, n)
    BY <1>1, <1>6
  <2>2. windows'[k] = LastOf(history'[k], WindowN)
    BY <1>1 DEF WindowIsRecentHistory
  <2>3. Full(LastOf(history'[k], WindowN)) /\ history'[k] \in Seq(Samples)
    BY <1>3, <1>4, <2>1, <2>2
  <2>4. /\ Len(history'[k]) >= WindowN
        /\ LastOf(history'[k], WindowN)
             = SubSeq(history'[k], Len(history'[k]) - WindowN + 1, Len(history'[k]))
    BY <2>3, FullWindow
  <2>5. Len(history'[k]) = n
    BY <1>3, <1>4
  <2>6. w = SubSeq(history'[k], n - WindowN + 1, n)
    BY <1>4, <2>2, <2>4, <2>5
  <2>7. n \in WindowN .. Len(history'[k])
    BY <1>2, <1>3, <2>4, <2>5
  <2> QED
    BY <1>1, <2>1, <2>6, <2>7
<1>7. pc' = "send" => /\ FrameOf(history', sending')
                      /\ \A i \in DOMAIN received :
                           received[i].key = sending'.key => received[i].last < sending'.last
  <2> SUFFICES ASSUME pc' = "send"
               PROVE  /\ FrameOf(history', sending')
                      /\ \A i \in DOMAIN received :
                           received[i].key = sending'.key => received[i].last < sending'.last
    OBVIOUS
  <2>1. sending'.key = k /\ sending'.last = n /\ sending'.samples = w
    BY <1>6 DEF Frame
  <2>2. FrameOf(history', sending')
    BY <1>6, <2>1 DEF FrameOf
  <2> QED
    BY <1>5, <2>1, <2>2
<1>8. \A i, j \in DOMAIN received :
        (i < j /\ received[i].key = received[j].key) => received[i].last < received[j].last
  BY DEF FramesInv
<1>9. \A i \in DOMAIN received : FrameOf(history', received[i])
  BY <1>1, <1>5 DEF FrameOf
<1> QED
  BY <1>1, <1>7, <1>8, <1>9 DEF FramesInv

LEMMA InitFrames == Init => FramesInv
<1> SUFFICES ASSUME Init PROVE FramesInv
  OBVIOUS
<1>1. DOMAIN received = {} /\ pc # "send"
  BY DEF Init
<1> QED
  BY <1>1 DEF FramesInv

LEMMA LeftFrames ==
  ASSUME ShapeInv, FramesInv, Left
  PROVE  FramesInv'
<1>1. /\ pc = "send" /\ pc' # "send" /\ UNCHANGED history
      /\ received \in Seq(FullFrames) /\ sending \in FullFrames
  BY DEF Left, windowing, ShapeInv, ShapeOK, HandlerOK
<1>2. CASE received' = received
  BY <1>1, <1>2 DEF FramesInv
<1>3. CASE received' = Append(received, sending)
  <2> DEFINE n == Len(received) + 1
  <2>1. /\ n \in Nat \ {0} /\ DOMAIN received = 1 .. n - 1 /\ DOMAIN received' = 1 .. n
        /\ received'[n] = sending
        /\ \A i \in 1 .. n - 1 : received'[i] = received[i]
    BY <1>1, <1>3
  <2> HIDE DEF n
  <2>2. ASSUME NEW i \in DOMAIN received' PROVE FrameOf(history', received'[i])
    <3>1. CASE i = n
      BY <1>1, <2>1, <3>1 DEF FramesInv
    <3>2. CASE i # n
      BY <1>1, <2>1, <3>2 DEF FramesInv
    <3> QED
      BY <3>1, <3>2
  <2>3. ASSUME NEW i \in DOMAIN received', NEW j \in DOMAIN received', i < j,
               received'[i].key = received'[j].key
        PROVE  received'[i].last < received'[j].last
    <3>1. i \in DOMAIN received /\ received'[i] = received[i]
      BY <2>1, <2>3
    <3>2. CASE j = n
      BY <1>1, <2>1, <2>3, <3>1, <3>2 DEF FramesInv
    <3>3. CASE j # n
      BY <2>1, <2>3, <3>1, <3>3 DEF FramesInv
    <3> QED
      BY <3>2, <3>3
  <2> QED
    BY <1>1, <2>2, <2>3 DEF FramesInv
<1> QED
  BY <1>2, <1>3 DEF Left

LEMMA NextFrames ==
  ShapeInv /\ WindowIsRecentHistory /\ FramesInv /\ [AnyStep]_vars => FramesInv'
<1> SUFFICES ASSUME ShapeInv, WindowIsRecentHistory, FramesInv, [AnyStep]_vars
             PROVE  FramesInv'
  OBVIOUS
<1>1. ASSUME UNCHANGED <<history, framing>>, pc' = "send" <=> pc = "send" PROVE FramesInv'
  BY <1>1 DEF FramesInv, framing
<1>2. CASE Quiet
  BY <1>1, <1>2 DEF Quiet, windowing
<1>3. ASSUME NEW c \in Clients, NEW s \in Samples, Wrote(c, s) PROVE FramesInv'
  BY <1>1, <1>3 DEF Wrote, windowing
<1>4. CASE Receive
  BY <1>1, <1>4 DEF Receive, windowVars, downVars, framing
<1>5. CASE RejectLine
  BY <1>1, <1>5 DEF RejectLine, downVars, framing
<1>6. CASE AcceptLine
  BY <1>6, NextWindows, AcceptFrames
<1>7. CASE Left
  BY <1>7, LeftFrames
<1> QED
  BY <1>2, <1>3, <1>4, <1>5, <1>6, <1>7, StepCases

LEMMA FramesInvOrder == FramesInv => FramesInOrder
  BY DEF FramesInv, FrameOf, FramesInOrder

-----------------------------------------------------------------------------
(* The counters *)

\* All elements of the sequences h[x].
Total(h) == SumFunction([x \in DOMAIN h |-> Len(h[x])])

Counted(h) == IsFiniteSet(DOMAIN h) /\ \A x \in DOMAIN h : Len(h[x]) \in Int

LEMMA TotalType == ASSUME NEW h, Counted(h) PROVE Total(h) \in Int
<1> DEFINE f == [x \in DOMAIN h |-> Len(h[x])]
<1>1. f \in [DOMAIN h -> Int] /\ IsFiniteSet(DOMAIN h)
  BY DEF Counted
<1>2. SumFunction(f) \in Int
  <2> HIDE DEF f
  <2> QED
    BY <1>1, SumType
<1> QED
  BY <1>2 DEF Total

\* One of the sequences changes, and with it the total.
LEMMA TotalUpdate ==
  ASSUME NEW h, Counted(h), NEW x \in DOMAIN h, NEW e, Len(e) \in Int,
         NEW d, d = [h EXCEPT ![x] = e]
  PROVE  Total(d) = Total(h) + Len(e) - Len(h[x])
<1> DEFINE S == DOMAIN h
           f == [y \in S |-> Len(h[y])]
           g == [y \in S |-> Len(d[y])]
<1>1. /\ DOMAIN d = S /\ d[x] = e /\ IsFiniteSet(S) /\ x \in S
      /\ \A y \in S : (y # x => d[y] = h[y]) /\ Len(h[y]) \in Int
  BY DEF Counted
<1>2. f \in [S -> Int] /\ g \in [S -> Int]
  BY <1>1
<1>3. \A y \in S : y # x => g[y] = f[y]
  BY <1>1
<1>4. g[x] = Len(e) /\ f[x] = Len(h[x])
  BY <1>1
<1>5. SumFunction(g) = SumFunction(f) + g[x] - f[x]
  <2> HIDE DEF S, f, g
  <2> QED
    BY <1>1, <1>2, <1>3, SumUpdate
<1>6. Total(h) = SumFunction(f) /\ Total(d) = SumFunction(g)
  BY <1>1 DEF Total
<1> QED
  BY <1>4, <1>5, <1>6

LEMMA EmptyTotal ==
  ASSUME NEW S, IsFiniteSet(S)
  PROVE  Total([x \in S |-> << >>]) = 0
<1>1. Total([x \in S |-> << >>]) = SumFunction([x \in S |-> 0])
  BY EmptySeq DEF Total
<1> QED
  BY <1>1, SumZero

\* Each line written is unread, pending or counted, and what was accepted is
\* in the histories.
LinesInv ==
  /\ accepted + invalid + Len(pending) + Total(unread) = SumFunction(sampled)
  /\ accepted = Total(history)

LEMMA CountTypes ==
  ASSUME ShapeInv
  PROVE  /\ unread \in [Clients -> Seq(Samples)] /\ history \in [Keys -> Seq(Samples)]
         /\ pending \in Seq(Samples) /\ sampled \in [Keys -> Int]
         /\ Total(unread) \in Int /\ Total(history) \in Int /\ SumFunction(sampled) \in Int
         /\ Len(pending) \in Int /\ accepted \in Int /\ invalid \in Int
         /\ Counted(unread) /\ Counted(history)
         /\ IsFiniteSet(Keys) /\ IsFiniteSet(Clients)
<1>1. /\ unread \in [Clients -> Seq(Samples)] /\ history \in [Keys -> Seq(Samples)]
      /\ pending \in Seq(Samples) /\ sampled \in [Keys -> Int]
      /\ Len(pending) \in Int /\ accepted \in Int /\ invalid \in Int
  BY LenProperties DEF ShapeInv, ShapeOK
<1>2. Counted(unread) /\ Counted(history)
  BY <1>1, LenProperties, IngestAssumption DEF Counted
<1>3. SumFunction(sampled) \in Int
  BY <1>1, SumType, IngestAssumption
<1> QED
  BY <1>1, <1>2, <1>3, TotalType, IngestAssumption

LEMMA LinesInvAccounted == ShapeInv /\ LinesInv => LinesAccounted
<1> SUFFICES ASSUME ShapeInv, LinesInv PROVE LinesAccounted
  OBVIOUS
<1>1. DOMAIN unread = Clients /\ DOMAIN history = Keys
  BY CountTypes
<1> QED
  BY <1>1 DEF LinesInv, LinesAccounted, Total, Written

LEMMA InitLines == Init => LinesInv
<1> SUFFICES ASSUME Init PROVE LinesInv
  OBVIOUS
<1>1. /\ unread = [c \in Clients |-> << >>] /\ history = [k \in Keys |-> << >>]
      /\ sampled = [k \in Keys |-> 0] /\ accepted = 0 /\ invalid = 0 /\ Len(pending) = 0
  BY EmptySeq DEF Init
<1>2. Total(unread) = 0 /\ Total(history) = 0 /\ SumFunction(sampled) = 0
  BY <1>1, EmptyTotal, SumZero, IngestAssumption
<1> QED
  BY <1>1, <1>2 DEF LinesInv

LEMMA WroteLines ==
  ASSUME ShapeInv, LinesInv, NEW c \in Clients, NEW s \in Samples, Wrote(c, s)
  PROVE  LinesInv'
<1>1. /\ unread' = [unread EXCEPT ![c] = Append(unread[c], s)]
      /\ sampled' = [sampled EXCEPT ![s.key] = sampled[s.key] + 1]
      /\ UNCHANGED <<pending, accepted, invalid, history>> /\ s.key \in Keys
  BY DEF Wrote, windowing, Samples
<1>2. unread[c] \in Seq(Samples) /\ sampled[s.key] \in Int
  BY <1>1, CountTypes
<1>3. Append(unread[c], s) \in Seq(Samples) /\ Len(Append(unread[c], s)) = Len(unread[c]) + 1
      /\ Len(unread[c]) \in Nat
  BY <1>2, AppendFacts
<1>4. Total(unread') = Total(unread) + 1
  <2> DEFINE e == Append(unread[c], s)
  <2>1. Len(e) \in Int /\ Len(e) = Len(unread[c]) + 1 /\ c \in DOMAIN unread
        /\ unread' = [unread EXCEPT ![c] = e]
    BY <1>1, <1>3, CountTypes
  <2> HIDE DEF e
  <2>2. Total(unread') = Total(unread) + Len(e) - Len(unread[c])
    BY <2>1, CountTypes, TotalUpdate
  <2> QED
    BY <1>3, <2>1, <2>2, CountTypes
<1>5. SumFunction(sampled') = SumFunction(sampled) + 1
  <2> DEFINE g == [sampled EXCEPT ![s.key] = sampled[s.key] + 1]
  <2>1. sampled \in [Keys -> Int] /\ IsFiniteSet(Keys) /\ SumFunction(sampled) \in Int
    BY CountTypes
  <2>2. /\ g \in [Keys -> Int] /\ g[s.key] = sampled[s.key] + 1
        /\ \A k \in Keys : k # s.key => g[k] = sampled[k]
    BY <1>1, <1>2, <2>1
  <2>3. SumFunction(g) = SumFunction(sampled) + g[s.key] - sampled[s.key]
    <3> HIDE DEF g
    <3> QED
      BY <1>1, <2>1, <2>2, SumUpdate
  <2>4. SumFunction(g) = SumFunction(sampled) + 1
    <3> HIDE DEF g
    <3> QED
      BY <1>2, <2>1, <2>2, <2>3
  <2> QED
    BY <1>1, <2>4
<1>6. Total(history') = Total(history)
  BY <1>1
<1> QED
  BY <1>1, <1>4, <1>5, <1>6, CountTypes DEF LinesInv

LEMMA ReceiveLines ==
  ASSUME ShapeInv, LinesInv, Receive
  PROVE  LinesInv'
<1>1. PICK n \in 1 .. Len(unread[serving]) :
        /\ pending' = SubSeq(unread[serving], 1, n)
        /\ unread' = [unread EXCEPT ![serving]
                        = SubSeq(unread[serving], n + 1, Len(unread[serving]))]
  BY DEF Receive
<1>2. /\ serving \in Clients /\ pending = << >>
      /\ UNCHANGED <<sampled, accepted, invalid, history>>
      /\ unread[serving] \in Seq(Samples)
  BY CountTypes DEF Receive, windowVars, ShapeInv, HandlerOK
<1> DEFINE r == SubSeq(unread[serving], n + 1, Len(unread[serving]))
<1>3. /\ Len(pending) = 0 /\ Len(pending') = n /\ n \in Int
      /\ r \in Seq(Samples) /\ Len(r) = Len(unread[serving]) - n
      /\ Len(unread[serving]) \in Nat
  BY <1>1, <1>2, PartOfStream, EmptySeq, LenProperties
<1>4. unread' = [unread EXCEPT ![serving] = r] /\ serving \in DOMAIN unread /\ Len(r) \in Int
  BY <1>1, <1>2, <1>3, CountTypes
<1> HIDE DEF r
<1>5. Total(unread') = Total(unread) - n
  <2>1. Total(unread') = Total(unread) + Len(r) - Len(unread[serving])
    BY <1>2, <1>3, <1>4, CountTypes, TotalUpdate
  <2> QED
    BY <1>3, <1>4, <2>1, CountTypes
<1> QED
  BY <1>2, <1>3, <1>5, CountTypes DEF LinesInv

LEMMA HandledLines ==
  ASSUME ShapeInv, LinesInv, RejectLine \/ AcceptLine
  PROVE  LinesInv'
<1>1. pending \in Seq(Samples) /\ pending # << >> /\ pending' = Tail(pending)
  BY CountTypes DEF RejectLine, AcceptLine, NextLine
<1>2. Len(pending') = Len(pending) - 1
  BY <1>1, HeadTail
<1>3. CASE RejectLine
  <2>1. invalid' = invalid + 1 /\ UNCHANGED <<unread, sampled, accepted, history>>
    BY <1>3 DEF RejectLine, clientVars
  <2> QED
    BY <1>2, <2>1, CountTypes DEF LinesInv
<1>4. CASE AcceptLine
  <2> DEFINE s == Head(pending)
             k == s.key
  <2>1. /\ s \in Samples /\ k \in Keys
        /\ history' = [history EXCEPT ![k] = Append(history[k], s)]
        /\ accepted' = accepted + 1 /\ UNCHANGED <<unread, sampled, invalid>>
    BY <1>4, AcceptFacts
  <2> HIDE DEF s, k
  <2>2. history[k] \in Seq(Samples)
    BY <2>1, CountTypes
  <2>3. /\ Append(history[k], s) \in Seq(Samples) /\ Len(history[k]) \in Nat
        /\ Len(Append(history[k], s)) = Len(history[k]) + 1
    BY <2>1, <2>2, AppendFacts
  <2>4. Total(history') = Total(history) + 1
    <3> DEFINE e == Append(history[k], s)
    <3>1. Len(e) \in Int /\ Len(e) = Len(history[k]) + 1 /\ k \in DOMAIN history
          /\ history' = [history EXCEPT ![k] = e]
      BY <2>1, <2>3, CountTypes
    <3> HIDE DEF e
    <3>2. Total(history') = Total(history) + Len(e) - Len(history[k])
      <4>1. Counted(history)
        BY CountTypes
      <4> QED
        BY <3>1, <4>1, TotalUpdate
    <3> QED
      BY <2>3, <3>1, <3>2, CountTypes
  <2> QED
    BY <1>2, <2>1, <2>4, CountTypes DEF LinesInv
<1> QED
  BY <1>3, <1>4

LEMMA NextLines == ShapeInv /\ LinesInv /\ [AnyStep]_vars => LinesInv'
<1> SUFFICES ASSUME ShapeInv, LinesInv, [AnyStep]_vars PROVE LinesInv'
  OBVIOUS
<1>1. ASSUME Quiet \/ Left PROVE LinesInv'
  BY <1>1 DEF Quiet, Left, windowing, LinesInv
<1> QED
  BY <1>1, WroteLines, ReceiveLines, HandledLines, StepCases

-----------------------------------------------------------------------------
(* The frames that are due *)

DueOf(n) == IF n < WindowN THEN 0 ELSE n - WindowN + 1
Dues(h)  == [k \in Keys |-> DueOf(Len(h[k]))]
InFlight == IF pc = "send" THEN 1 ELSE 0

DuesInv ==
  /\ Len(received) + lost + InFlight = SumFunction(Dues(history))
  /\ frames >= Len(received) /\ frames <= Len(received) + lost

LEMMA DuesInvAccounted == DuesInv => FramesAccounted
<1>1. Dues(history) = [k \in Keys |-> Due(k)]
  BY DEF Dues, DueOf, Due
<1> QED
  BY <1>1 DEF DuesInv, FramesAccounted, InFlight

LEMMA DuesType ==
  ASSUME NEW h, \A k \in Keys : Len(h[k]) \in Int
  PROVE  /\ Dues(h) \in [Keys -> Int] /\ SumFunction(Dues(h)) \in Int
         /\ \A k \in Keys : Dues(h)[k] = DueOf(Len(h[k]))
<1>1. WindowN \in Int /\ IsFiniteSet(Keys)
  BY IngestAssumption
<1>2. Dues(h) \in [Keys -> Int] /\ \A k \in Keys : Dues(h)[k] = DueOf(Len(h[k]))
  BY <1>1 DEF Dues, DueOf
<1>3. SumFunction(Dues(h)) \in Int
  BY <1>1, <1>2, SumType
<1> QED
  BY <1>2, <1>3

\* One sample more in one history: a frame is due when it fills a window.
LEMMA DuesUpdate ==
  ASSUME NEW h, \A k \in Keys : Len(h[k]) \in Nat, NEW x \in Keys,
         NEW d, \A k \in Keys : Len(d[k]) = IF k = x THEN Len(h[k]) + 1 ELSE Len(h[k])
  PROVE  SumFunction(Dues(d))
           = SumFunction(Dues(h)) + (IF Len(h[x]) + 1 >= WindowN THEN 1 ELSE 0)
<1>1. /\ Dues(h) \in [Keys -> Int] /\ SumFunction(Dues(h)) \in Int
      /\ \A k \in Keys : Dues(h)[k] = DueOf(Len(h[k]))
  BY DuesType
<1>2. \A k \in Keys : Len(d[k]) \in Int
  OBVIOUS
<1>3. /\ Dues(d) \in [Keys -> Int] /\ SumFunction(Dues(d)) \in Int
      /\ \A k \in Keys : Dues(d)[k] = DueOf(Len(d[k]))
  BY <1>2, DuesType
<1>4. \A k \in Keys : k # x => Dues(d)[k] = Dues(h)[k]
  BY <1>1, <1>3
<1>5. SumFunction(Dues(d)) = SumFunction(Dues(h)) + Dues(d)[x] - Dues(h)[x]
  <2>1. IsFiniteSet(Keys)
    BY IngestAssumption
  <2> DEFINE f == Dues(h)
             g == Dues(d)
  <2>2. /\ f \in [Keys -> Int] /\ g \in [Keys -> Int]
        /\ \A k \in Keys : k # x => g[k] = f[k]
    BY <1>1, <1>3, <1>4
  <2>3. SumFunction(g) = SumFunction(f) + g[x] - f[x]
    <3> HIDE DEF f, g
    <3> QED
      BY <2>1, <2>2, SumUpdate
  <2> QED
    BY <2>3
<1>6. /\ Dues(d)[x] = DueOf(Len(h[x]) + 1) /\ Dues(h)[x] = DueOf(Len(h[x]))
      /\ Len(h[x]) \in Nat /\ WindowN \in Nat \ {0}
  BY <1>1, <1>3, IngestAssumption
<1>7. Dues(d)[x] - Dues(h)[x] = IF Len(h[x]) + 1 >= WindowN THEN 1 ELSE 0
  <2> DEFINE n == Len(h[x])
  <2>1. DueOf(n + 1) - DueOf(n) = IF n + 1 >= WindowN THEN 1 ELSE 0
    <3> HIDE DEF n
    <3>1. n \in Nat /\ WindowN \in Nat \ {0}
      BY <1>6 DEF n
    <3> QED
      BY <3>1 DEF DueOf
  <2> QED
    BY <1>6, <2>1
<1>8. Dues(d)[x] \in Int /\ Dues(h)[x] \in Int
  BY <1>1, <1>3
<1> QED
  BY <1>1, <1>3, <1>5, <1>7, <1>8

LEMMA InitDues == Init => DuesInv
<1> SUFFICES ASSUME Init PROVE DuesInv
  OBVIOUS
<1>1. Dues(history) = [k \in Keys |-> 0]
  BY EmptySeq, IngestAssumption DEF Init, Dues, DueOf
<1>2. SumFunction(Dues(history)) = 0
  BY <1>1, SumZero, IngestAssumption
<1>3. Len(received) = 0 /\ lost = 0 /\ pc = "start" /\ frames = 0
  BY EmptySeq DEF Init
<1> QED
  BY <1>2, <1>3 DEF DuesInv, InFlight

LEMMA AcceptDues ==
  ASSUME ShapeInv, WindowIsRecentHistory', DuesInv, AcceptLine
  PROVE  DuesInv'
<1> DEFINE s == Head(pending)
           x == s.key
           w == Push(windows[x], s)
<1>1. /\ s \in Samples /\ x \in Keys /\ pc = "handle"
      /\ windows' = [windows EXCEPT ![x] = w]
      /\ history' = [history EXCEPT ![x] = Append(history[x], s)]
      /\ pc' = IF Full(w) THEN "send" ELSE pc
      /\ UNCHANGED <<frames, received, lost>>
  BY AcceptFacts
<1> HIDE DEF s, x, w
<1>2. /\ windows \in [Keys -> Seq(Samples)] /\ history \in [Keys -> Seq(Samples)]
      /\ Len(received) \in Nat /\ lost \in Nat /\ WindowN \in Nat \ {0}
  BY IngestAssumption, LenProperties DEF ShapeInv, ShapeOK
<1>3. /\ Append(history[x], s) \in Seq(Samples) /\ Len(history[x]) \in Nat
      /\ Len(Append(history[x], s)) = Len(history[x]) + 1
  BY <1>1, <1>2, AppendFacts
<1>4. \A k \in Keys : Len(history[k]) \in Nat
  BY <1>2, LenProperties
<1>5. \A k \in Keys : Len(history'[k]) = IF k = x THEN Len(history[k]) + 1 ELSE Len(history[k])
  BY <1>1, <1>2, <1>3
<1>6. SumFunction(Dues(history'))
        = SumFunction(Dues(history)) + (IF Len(history[x]) + 1 >= WindowN THEN 1 ELSE 0)
  BY <1>1, <1>4, <1>5, DuesUpdate
<1>7. Full(w) <=> Len(history[x]) + 1 >= WindowN
  <2>1. w = LastOf(history'[x], WindowN) /\ history'[x] = Append(history[x], s)
    BY <1>1, <1>2 DEF WindowIsRecentHistory
  <2>2. Len(w) = IF Len(history[x]) + 1 <= WindowN THEN Len(history[x]) + 1 ELSE WindowN
    <3> DEFINE h == history'[x]
    <3>1. h \in Seq(Samples) /\ Len(h) = Len(history[x]) + 1 /\ w = LastOf(h, WindowN)
      BY <1>3, <2>1
    <3> HIDE DEF h
    <3>2. Len(LastOf(h, WindowN)) = IF Len(h) <= WindowN THEN Len(h) ELSE WindowN
      BY <1>2, <3>1, LastOfFacts
    <3> QED
      BY <3>1, <3>2
  <2> QED
    BY <1>2, <1>3, <2>2 DEF Full
<1>8. InFlight = 0 /\ InFlight' = IF Len(history[x]) + 1 >= WindowN THEN 1 ELSE 0
  BY <1>1, <1>7 DEF InFlight
<1> QED
  BY <1>1, <1>2, <1>6, <1>8 DEF DuesInv

LEMMA LeftDues ==
  ASSUME ShapeInv, DuesInv, Left
  PROVE  DuesInv'
<1>1. /\ received \in Seq(FullFrames) /\ sending \in FullFrames
      /\ frames \in Nat /\ lost \in Nat /\ Len(received) \in Nat
  BY LenProperties DEF Left, ShapeInv, ShapeOK, HandlerOK
<1>2. Len(Append(received, sending)) = Len(received) + 1
  BY <1>1, AppendFacts
<1>3. InFlight = 1 /\ InFlight' = 0 /\ history' = history
  BY DEF Left, InFlight, windowing
<1>4. \A k \in Keys : Len(history[k]) \in Int
  BY LenProperties DEF ShapeInv, ShapeOK
<1>5. SumFunction(Dues(history)) \in Int
  BY <1>4, DuesType
<1>6. CASE received' = Append(received, sending) /\ lost' = lost /\ frames' = frames + 1
  BY <1>1, <1>2, <1>3, <1>5, <1>6 DEF DuesInv
<1>7. CASE received' = received /\ lost' = lost + 1 /\ frames' \in {frames, frames + 1}
  BY <1>1, <1>3, <1>5, <1>7 DEF DuesInv
<1> QED
  BY <1>6, <1>7 DEF Left

LEMMA NextDues ==
  ShapeInv /\ WindowIsRecentHistory /\ DuesInv /\ [AnyStep]_vars => DuesInv'
<1> SUFFICES ASSUME ShapeInv, WindowIsRecentHistory, DuesInv, [AnyStep]_vars
             PROVE  DuesInv'
  OBVIOUS
<1>1. ASSUME UNCHANGED <<history, framing>>, pc' = "send" <=> pc = "send" PROVE DuesInv'
  BY <1>1 DEF DuesInv, InFlight, framing
<1>2. CASE Quiet
  BY <1>1, <1>2 DEF Quiet, windowing
<1>3. ASSUME NEW c \in Clients, NEW s \in Samples, Wrote(c, s) PROVE DuesInv'
  BY <1>1, <1>3 DEF Wrote, windowing
<1>4. CASE Receive
  BY <1>1, <1>4 DEF Receive, windowVars, downVars, framing
<1>5. CASE RejectLine
  BY <1>1, <1>5 DEF RejectLine, downVars, framing
<1>6. CASE AcceptLine
  BY <1>6, NextWindows, AcceptDues
<1>7. CASE Left
  BY <1>7, LeftDues
<1> QED
  BY <1>2, <1>3, <1>4, <1>5, <1>6, <1>7, StepCases

-----------------------------------------------------------------------------
(* The invariant, for clients of any kind and for producers *)

IngestInv == ShapeInv /\ WindowIsRecentHistory /\ FramesInv /\ LinesInv /\ DuesInv

LEMMA InitIngestInv == Init => IngestInv
  BY InitShapeInv, InitWindows, InitFrames, InitLines, InitDues DEF IngestInv

LEMMA NextIngestInv == IngestInv /\ [AnyStep]_vars => IngestInv'
  BY NextShapeInv, NextWindows, NextFrames, NextLines, NextDues DEF IngestInv

LEMMA IngestInvImplies ==
  IngestInv => WindowIsRecentHistory /\ LinesAccounted /\ FramesAccounted /\ FramesInOrder
  BY LinesInvAccounted, DuesInvAccounted, FramesInvOrder DEF IngestInv

LEMMA NextIsAnyStep == IngestInv /\ [Next]_vars => [AnyStep]_vars
<1> SUFFICES ASSUME IngestInv, Next PROVE AnyStep
  OBVIOUS
<1>1. ASSUME NEW c \in Clients, Connect(c) \/ Close(c) PROVE AnyStep
  BY <1>1 DEF AnyStep
<1>2. ASSUME NEW c \in Clients, NEW k \in Keys, NEW ok \in BOOLEAN,
             Write(c, [key |-> k, ts |-> sampled[k], valid |-> ok])
      PROVE  AnyStep
  <2>1. sampled[k] \in Nat
    BY DEF IngestInv, ShapeInv, ShapeOK
  <2>2. [key |-> k, ts |-> sampled[k], valid |-> ok] \in Samples
    BY <2>1 DEF Samples
  <2> QED
    BY <1>2, <2>2 DEF AnyStep
<1> QED
  BY <1>1, <1>2 DEF Next, AnyClient, AnyStep

LEMMA SpecInv == Spec => []IngestInv
<1>1. IngestInv /\ [Next]_vars => IngestInv'
  BY NextIngestInv, NextIsAnyStep
<1> QED
  BY <1>1, InitIngestInv, PTL DEF Spec

\* A producer is given samples, and its place in them is never before the
\* first.
StreamsInv ==
  /\ \A c \in Clients : stream[c].records \in Seq(Samples)
  /\ next \in [Clients -> Nat \ {0}]

LEMMA InitStreamsInv == TelemetryInit => StreamsInv
  BY TelemetryAssumption DEF TelemetryInit, StreamsInv

LEMMA ProducerSteps ==
  ASSUME StreamsInv, NEW c \in Clients, Producer(c) \/ Interrupt(c)
  PROVE  [AnyStep]_vars /\ StreamsInv'
<1>1. CASE ConnectProducer(c)
  BY <1>1 DEF ConnectProducer, AnyStep, StreamsInv
<1>2. CASE Retry(c) \/ GiveUp(c)
  BY <1>2 DEF Retry, GiveUp, StreamsInv
<1>3. CASE SendRecord(c)
  <2>1. /\ stream[c].records \in Seq(Samples) /\ next[c] \in Nat \ {0}
        /\ next[c] <= Len(stream[c].records)
    BY <1>3 DEF SendRecord, Sending, StreamsInv
  <2>2. stream[c].records[next[c]] \in Samples
    BY <2>1
  <2>3. AnyStep
    BY <1>3, <2>2 DEF SendRecord, AnyStep
  <2>4. StreamsInv'
    BY <1>3 DEF SendRecord, StreamsInv
  <2> QED
    BY <2>3, <2>4
<1>4. CASE SendToNobody(c)
  BY <1>4 DEF SendToNobody, StreamsInv
<1>5. ASSUME NEW how, Leave(c, how) PROVE [AnyStep]_vars /\ StreamsInv'
  BY <1>5 DEF Leave, End, AnyStep, StreamsInv
<1>6. CASE PeerClosed(c) \/ Finish(c)
  BY <1>5, <1>6 DEF PeerClosed, Finish
<1>7. CASE SendTimesOut(c)
  <2>1. /\ stream[c].records \in Seq(Samples) /\ next[c] \in Nat \ {0}
        /\ next[c] <= Len(stream[c].records)
    BY <1>7 DEF SendTimesOut, Sending, StreamsInv
  <2>2. stream[c].records[next[c]] \in Samples
    BY <2>1
  <2>3. AnyStep
    BY <1>7, <2>2 DEF SendTimesOut, AnyStep
  <2>4. StreamsInv'
    BY <1>7 DEF SendTimesOut, End, StreamsInv
  <2> QED
    BY <2>3, <2>4
<1>8. CASE Repeat(c)
  BY <1>8 DEF Repeat, StreamsInv
<1>9. CASE Interrupt(c)
  <2>1. UNCHANGED <<stream, next>>
    BY <1>9 DEF Interrupt, End
  <2>2. CASE UNCHANGED vars \/ Close(c)
    BY <2>1, <2>2 DEF AnyStep, StreamsInv
  <2>3. CASE Sending(c) /\ CloseTorn(c, stream[c].records[next[c]])
    <3>1. stream[c].records[next[c]] \in Samples
      BY <2>3 DEF Sending, StreamsInv
    <3> QED
      BY <2>1, <2>3, <3>1 DEF AnyStep, StreamsInv
  <2> QED
    BY <1>9, <2>2, <2>3 DEF Interrupt
<1> QED
  BY <1>1, <1>2, <1>3, <1>4, <1>6, <1>7, <1>8, <1>9 DEF Producer

LEMMA TelemetryIsAnyStep == StreamsInv /\ [TelemetryNext]_allVars => [AnyStep]_vars /\ StreamsInv'
<1> SUFFICES ASSUME StreamsInv, [TelemetryNext]_allVars PROVE [AnyStep]_vars /\ StreamsInv'
  OBVIOUS
<1>1. CASE (Server \/ Around) /\ UNCHANGED producerVars
  BY <1>1 DEF AnyStep, producerVars, StreamsInv
<1>2. CASE UNCHANGED allVars
  BY <1>2 DEF allVars, producerVars, StreamsInv
<1> QED
  BY <1>1, <1>2, ProducerSteps DEF TelemetryNext

LEMMA TelemetryInv == TelemetrySpec => []IngestInv
<1>1. TelemetryInit => IngestInv /\ StreamsInv
  BY InitIngestInv, InitStreamsInv DEF TelemetryInit
<1>2. IngestInv /\ StreamsInv /\ [TelemetryNext]_allVars => IngestInv' /\ StreamsInv'
  BY NextIngestInv, TelemetryIsAnyStep
<1> QED
  BY <1>1, <1>2, PTL DEF TelemetrySpec

-----------------------------------------------------------------------------
(* Theorems *)

\* A window always holds the latest WindowN valid samples of its key:
\* reads that split or join lines, other clients, frames lost in an outage
\* and shutdown never lose, repeat or reorder one (Window::push and the
\* handler of main).
THEOREM WindowIsRecentHistoryHolds ==
  (Spec => []WindowIsRecentHistory) /\ (TelemetrySpec => []WindowIsRecentHistory)
  BY SpecInv, TelemetryInv, IngestInvImplies, PTL

\* Every line a client wrote is unread, received or counted exactly once, as
\* accepted or as invalid, by whatever connections it came and however recv
\* cut the streams (handle_client and the counters of main).
THEOREM LinesAccountedHolds ==
  (Spec => []LinesAccounted) /\ (TelemetrySpec => []LinesAccounted)
  BY SpecInv, TelemetryInv, IngestInvImplies, PTL

\* Each sample that leaves a window full makes one frame, and that frame is
\* received, lost or on its way, across deaths of the infer service, the
\* reconnect backoff and the peer that is gone unnoticed (DownstreamClient).
THEOREM FramesAccountedHolds ==
  (Spec => []FramesAccounted) /\ (TelemetrySpec => []FramesAccounted)
  BY SpecInv, TelemetryInv, IngestInvImplies, PTL

\* What the infer service receives are full windows of consecutive valid
\* samples of one key, of each key in the order of its samples, none twice.
THEOREM FramesInOrderHolds ==
  (Spec => []FramesInOrder) /\ (TelemetrySpec => []FramesInOrder)
  BY SpecInv, TelemetryInv, IngestInvImplies, PTL
=============================================================================
