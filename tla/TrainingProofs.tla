--------------------------- MODULE TrainingProofs ---------------------------
(***************************************************************************)
(* What train() makes of every table of samples, and of every number of    *)
(* nominal windows.                                                        *)
(***************************************************************************)
EXTENDS Training, FunctionTheorems, FiniteSetTheorems, WellFoundedInduction, TLAPS

-----------------------------------------------------------------------------
(* Rows sorted by a key that no two of them share *)

\* The members of S up to and including i, by their key.
UpTo(S, key, i) == {j \in S : key[j] <= key[i]}

SortKey(S, key) ==
  /\ IsFiniteSet(S)
  /\ \A i \in S : key[i] \in Int
  /\ \A i, j \in S : key[i] = key[j] => i = j

LEMMA UpToFacts ==
  ASSUME NEW S, NEW key, SortKey(S, key), NEW i \in S
  PROVE  /\ IsFiniteSet(UpTo(S, key, i)) /\ Cardinality(UpTo(S, key, i)) \in 1 .. Cardinality(S)
         /\ Cardinality(S) \in Nat /\ Cardinality(UpTo(S, key, i)) \in Nat
<1>1. UpTo(S, key, i) \in SUBSET S /\ i \in UpTo(S, key, i) /\ IsFiniteSet(S)
  BY DEF SortKey, UpTo
<1>2. IsFiniteSet(UpTo(S, key, i)) /\ Cardinality(UpTo(S, key, i)) <= Cardinality(S)
  BY <1>1, FS_Subset
<1>3. Cardinality(S) \in Nat /\ Cardinality(UpTo(S, key, i)) \in Nat
  BY <1>1, <1>2, FS_CardinalityType
<1>4. Cardinality(UpTo(S, key, i)) # 0
  BY <1>1, <1>2, FS_EmptySet
<1>. QED  BY <1>2, <1>3, <1>4

\* Between two rows there are as many as their places are apart.
LEMMA PlacesApart ==
  ASSUME NEW S, NEW key, SortKey(S, key), NEW i \in S, NEW j \in S, key[i] <= key[j]
  PROVE  LET between == {k \in S : key[i] < key[k] /\ key[k] <= key[j]}
         IN /\ IsFiniteSet(between) /\ Cardinality(between) \in Nat
            /\ Cardinality(UpTo(S, key, j)) = Cardinality(UpTo(S, key, i)) + Cardinality(between)
<1>. DEFINE between == {k \in S : key[i] < key[k] /\ key[k] <= key[j]}
<1>1. IsFiniteSet(between) /\ Cardinality(between) \in Nat
  <2>1. between \in SUBSET S /\ IsFiniteSet(S)
    BY DEF SortKey
  <2>. QED  BY <2>1, FS_Subset, FS_CardinalityType
<1>2. UpTo(S, key, j) = UpTo(S, key, i) \union between /\ UpTo(S, key, i) \intersect between = {}
  BY DEF UpTo, SortKey
<1>3. IsFiniteSet(UpTo(S, key, i)) /\ Cardinality(UpTo(S, key, i)) \in Nat
  BY UpToFacts
<1>. HIDE DEF between
<1>4. Cardinality(UpTo(S, key, j)) = Cardinality(UpTo(S, key, i)) + Cardinality(between) - Cardinality({})
  BY <1>1, <1>2, <1>3, FS_Union
<1>5. Cardinality({}) = 0
  BY FS_EmptySet
<1>6. Cardinality(UpTo(S, key, j)) = Cardinality(UpTo(S, key, i)) + Cardinality(between)
  BY <1>1, <1>3, <1>4, <1>5
<1>. QED  BY <1>1, <1>6 DEF between

\* Later rows have later places.
LEMMA PlacesAscend ==
  ASSUME NEW S, NEW key, SortKey(S, key), NEW i \in S, NEW j \in S, key[i] < key[j]
  PROVE  Cardinality(UpTo(S, key, i)) < Cardinality(UpTo(S, key, j))
<1>. DEFINE between == {k \in S : key[i] < key[k] /\ key[k] <= key[j]}
<1>0. key[i] \in Int /\ key[j] \in Int
  BY DEF SortKey
<1>1. /\ IsFiniteSet(between) /\ Cardinality(between) \in Nat
      /\ Cardinality(UpTo(S, key, j)) = Cardinality(UpTo(S, key, i)) + Cardinality(between)
  BY <1>0, PlacesApart
<1>2. j \in between
  BY <1>0
<1>3. Cardinality(between) # 0
  BY <1>1, <1>2, FS_EmptySet
<1>. HIDE DEF between
<1>4. Cardinality(UpTo(S, key, i)) \in Nat
  BY UpToFacts
<1>. QED  BY <1>1, <1>3, <1>4

\* Every place is taken by one row.
LEMMA PlacesAreTaken ==
  ASSUME NEW S, NEW key, SortKey(S, key), NEW p \in 1 .. Cardinality(S)
  PROVE  \E i \in S : Cardinality(UpTo(S, key, i)) = p
<1>. DEFINE n == Cardinality(S)
            rank == [i \in S |-> Cardinality(UpTo(S, key, i))]
<1>1. n \in Nat /\ IsFiniteSet(S)
  BY FS_CardinalityType DEF SortKey
<1>2. rank \in [S -> 1 .. n]
  BY UpToFacts
<1>3. ASSUME NEW i \in S, NEW j \in S, i # j PROVE rank[i] # rank[j]
  <2>1. key[i] < key[j] \/ key[j] < key[i]
    BY <1>3 DEF SortKey
  <2>2. Cardinality(UpTo(S, key, i)) \in Nat /\ Cardinality(UpTo(S, key, j)) \in Nat
    BY UpToFacts
  <2>3. Cardinality(UpTo(S, key, i)) # Cardinality(UpTo(S, key, j))
    BY <2>1, <2>2, PlacesAscend
  <2>. QED  BY <2>3
<1>4. rank \in Injection(S, 1 .. n)
  <2>. HIDE DEF rank
  <2>. QED  BY <1>2, <1>3, Fun_IsInj
<1>5. IsFiniteSet(1 .. n) /\ Cardinality(1 .. n) = n
  BY <1>1, FS_Interval
<1>6. rank \in Surjection(S, 1 .. n)
  <2>. HIDE DEF rank
  <2>. QED  BY <1>4, <1>5, FS_Injection
<1>7. \E i \in S : rank[i] = p
  <2>. HIDE DEF rank
  <2>1. \A q \in 1 .. n : \E i \in S : rank[i] = q
    BY <1>6, Fun_SurjectionProperties
  <2>. QED  BY <2>1
<1>. QED  BY <1>7

\* Keys are integers: rows between two keys are no more than the keys between
\* them, and as many if no key is missing.
LEMMA KeysApart ==
  ASSUME NEW S, NEW key, SortKey(S, key), NEW i \in S, NEW j \in S, key[i] <= key[j]
  PROVE  /\ Cardinality(UpTo(S, key, j)) - Cardinality(UpTo(S, key, i)) <= key[j] - key[i]
         /\ (\A t \in key[i] .. key[j] : \E k \in S : key[k] = t) =>
              Cardinality(UpTo(S, key, j)) - Cardinality(UpTo(S, key, i)) = key[j] - key[i]
<1>. DEFINE between == {k \in S : key[i] < key[k] /\ key[k] <= key[j]}
            keys == key[i] + 1 .. key[j]
            f == [k \in between |-> key[k]]
<1>1. key[i] \in Int /\ key[j] \in Int
  BY DEF SortKey
<1>2. /\ IsFiniteSet(between) /\ Cardinality(between) \in Nat
      /\ Cardinality(UpTo(S, key, j)) = Cardinality(UpTo(S, key, i)) + Cardinality(between)
      /\ Cardinality(UpTo(S, key, i)) \in Nat
  BY PlacesApart, UpToFacts
<1>3. IsFiniteSet(keys) /\ Cardinality(keys) = key[j] - key[i]
  <2>1. key[i] + 1 \in Int
    BY <1>1
  <2>2. IsFiniteSet(keys) /\ Cardinality(keys) = IF key[i] + 1 > key[j] THEN 0 ELSE key[j] - (key[i] + 1) + 1
    BY <1>1, <2>1, FS_Interval
  <2>. QED  BY <1>1, <2>2
<1>4. f \in Injection(between, keys)
  <2>1. \A k \in between : key[k] \in keys
    BY <1>1 DEF SortKey
  <2>2. \A k, m \in between : key[k] = key[m] => k = m
    BY DEF SortKey
  <2>3. f \in [between -> keys] /\ \A k \in between : f[k] = key[k]
    BY <2>1
  <2>. HIDE DEF f
  <2>4. \A k, m \in between : f[k] = f[m] => k = m
    BY <2>2, <2>3
  <2>. HIDE DEF between, keys
  <2>. QED  BY <2>3, <2>4, Fun_IsInj
<1>5. /\ Cardinality(between) <= Cardinality(keys)
      /\ Cardinality(between) = Cardinality(keys) <=> f \in Surjection(between, keys)
  <2>. HIDE DEF f, between, keys
  <2>. QED  BY <1>3, <1>4, FS_Injection
<1>6. ASSUME \A t \in key[i] .. key[j] : \E k \in S : key[k] = t
      PROVE  f \in Surjection(between, keys)
  <2>1. ASSUME NEW t \in keys PROVE \E k \in between : key[k] = t
    <3>1. t \in key[i] .. key[j] /\ key[i] < t /\ t <= key[j]
      BY <1>1
    <3>2. PICK k \in S : key[k] = t
      BY <1>6, <3>1
    <3>. QED  BY <3>1, <3>2
  <2>2. \A k \in between : f[k] = key[k]
    OBVIOUS
  <2>. HIDE DEF f, between, keys
  <2>. QED  BY <1>4, <2>1, <2>2, Fun_IsSurj, Fun_InjectionProperties
<1>. HIDE DEF f, between, keys
<1>. QED  BY <1>1, <1>2, <1>3, <1>5, <1>6

-----------------------------------------------------------------------------
(* The groups of a table *)

\* What never changes: train() reads its table and its stride once.
Fixed == table \in Tables /\ stride \in Strides

Ts(l) == [i \in RowsOf(l) |-> table[i].ts]

\* The rows of a link are sorted by their time stamps, which differ.
LEMMA GroupSorts ==
  ASSUME Fixed, NEW l
  PROVE  /\ SortKey(RowsOf(l), Ts(l)) /\ RowsOf(l) \subseteq DOMAIN table
         /\ \A i \in RowsOf(l) : table[i].link = l /\ Place(i) = Cardinality(UpTo(RowsOf(l), Ts(l), i))
<1>1. table \in Seq(Rows)
  BY TrainingAssumption DEF Fixed
<1>2. IsFiniteSet(RowsOf(l))
  <2>1. Len(table) \in Nat /\ DOMAIN table = 1 .. Len(table)
    BY <1>1
  <2>2. IsFiniteSet(DOMAIN table) /\ RowsOf(l) \in SUBSET DOMAIN table
    BY <2>1, FS_Interval DEF RowsOf
  <2>. QED  BY <2>2, FS_Subset
<1>3. \A i \in RowsOf(l) : table[i].ts \in Int /\ i \in DOMAIN table /\ table[i].link = l
  <2>. SUFFICES ASSUME NEW i \in RowsOf(l)
                PROVE  table[i].ts \in Int /\ i \in DOMAIN table /\ table[i].link = l
    OBVIOUS
  <2>1. i \in DOMAIN table /\ table[i].link = l
    BY DEF RowsOf
  <2>2. table[i] \in Rows
    BY <1>1, <2>1
  <2>. QED  BY <2>1, <2>2 DEF Rows
<1>4. \A i, j \in RowsOf(l) : table[i].ts = table[j].ts => i = j
  BY <1>3, TrainingAssumption DEF Fixed
<1>5. \A i \in RowsOf(l) : UpTo(RowsOf(l), Ts(l), i) = {j \in RowsOf(l) : table[j].ts <= table[i].ts}
  BY DEF UpTo, Ts
<1>6. \A i \in RowsOf(l) : Place(i) = Cardinality(UpTo(RowsOf(l), Ts(l), i))
  BY <1>3, <1>5 DEF Place
<1>. QED  BY <1>2, <1>3, <1>4, <1>6 DEF SortKey, Ts

LEMMA Places ==
  ASSUME Fixed, NEW l
  PROVE  /\ Size(l) \in Nat
         /\ \A i \in RowsOf(l) : Place(i) \in 1 .. Size(l) /\ RowAt(l, Place(i)) = i
         /\ \A p \in 1 .. Size(l) : RowAt(l, p) \in RowsOf(l) /\ Place(RowAt(l, p)) = p
         /\ \A i, j \in RowsOf(l) : table[i].ts < table[j].ts <=> Place(i) < Place(j)
<1>. DEFINE S == RowsOf(l)
            key == Ts(l)
<1>1. /\ SortKey(S, key)
      /\ \A i \in S : table[i].link = l /\ Place(i) = Cardinality(UpTo(S, key, i))
      /\ \A i \in S : key[i] = table[i].ts
  BY GroupSorts DEF Ts
<1>2. Size(l) = Cardinality(S)
  BY DEF Size
<1>. HIDE DEF S, key
<1>3. Size(l) \in Nat
  BY <1>1, <1>2, FS_CardinalityType DEF SortKey
<1>4. \A i \in S : Place(i) \in 1 .. Size(l)
  BY <1>1, <1>2, UpToFacts
<1>5. \A i, j \in S : key[i] < key[j] => Place(i) < Place(j)
  BY <1>1, PlacesAscend
<1>6. \A i, j \in S : Place(i) = Place(j) => i = j
  <2>. SUFFICES ASSUME NEW i \in S, NEW j \in S, i # j PROVE Place(i) # Place(j)
    OBVIOUS
  <2>1. key[i] < key[j] \/ key[j] < key[i]
    BY <1>1 DEF SortKey
  <2>. QED  BY <1>3, <1>4, <1>5, <2>1
<1>7. \A p \in 1 .. Size(l) : \E i \in S : Place(i) = p
  BY <1>1, <1>2, PlacesAreTaken
<1>8. \A p \in 1 .. Size(l) : RowAt(l, p) \in S /\ Place(RowAt(l, p)) = p
  BY <1>7 DEF RowAt, S
<1>9. \A i \in S : RowAt(l, Place(i)) = i
  BY <1>4, <1>6, <1>8
<1>10. \A i, j \in S : table[i].ts < table[j].ts <=> Place(i) < Place(j)
  <2>. SUFFICES ASSUME NEW i \in S, NEW j \in S PROVE key[i] < key[j] <=> Place(i) < Place(j)
    BY <1>1
  <2>1. key[i] < key[j] \/ key[j] < key[i] \/ i = j
    BY <1>1 DEF SortKey
  <2>2. Place(i) \in Nat /\ Place(j) \in Nat /\ key[i] \in Int /\ key[j] \in Int
    BY <1>1, <1>3, <1>4 DEF SortKey
  <2>. QED  BY <1>5, <2>1, <2>2
<1>. QED  BY <1>3, <1>4, <1>8, <1>9, <1>10 DEF S

-----------------------------------------------------------------------------
(* The horizon labels *)

Labels == [i \in DOMAIN table |-> Future(table[i].link, Place(i))]

\* Counting rows for seconds finds every failure within the horizon, and in a
\* group without gaps no other.
LEMMA LabelsAreTrue ==
  ASSUME Fixed, NEW i \in DOMAIN table
  PROVE  LET l == table[i].link
             ahead == \E j \in RowsOf(l) :
                        /\ table[j].ts - table[i].ts \in 1 .. HorizonRows
                        /\ table[j].hard
         IN /\ ahead => Labels[i]
            /\ Gapless(l) => (Labels[i] => ahead)
<1>. DEFINE l == table[i].link
<1>1. i \in RowsOf(l) /\ Labels[i] = Future(l, Place(i))
  BY DEF RowsOf, Labels
<1>. HIDE DEF l
<1>2. /\ Size(l) \in Nat /\ Place(i) \in 1 .. Size(l)
      /\ \A j \in RowsOf(l) : Place(j) \in 1 .. Size(l) /\ RowAt(l, Place(j)) = j
      /\ \A p \in 1 .. Size(l) : RowAt(l, p) \in RowsOf(l) /\ Place(RowAt(l, p)) = p
      /\ \A j \in RowsOf(l) : table[i].ts < table[j].ts <=> Place(i) < Place(j)
  BY <1>1, Places
<1>3. HorizonRows \in Nat
  BY TrainingAssumption
<1>4. \A j \in RowsOf(l) : table[j].ts \in Int
  BY GroupSorts DEF SortKey, Ts
<1>5. ASSUME NEW j \in RowsOf(l), table[i].ts < table[j].ts
      PROVE  /\ Place(j) - Place(i) <= table[j].ts - table[i].ts
             /\ Gapless(l) => Place(j) - Place(i) = table[j].ts - table[i].ts
  <2>1. /\ SortKey(RowsOf(l), Ts(l)) /\ Ts(l)[i] <= Ts(l)[j]
        /\ Ts(l)[i] = table[i].ts /\ Ts(l)[j] = table[j].ts
        /\ Place(i) = Cardinality(UpTo(RowsOf(l), Ts(l), i))
        /\ Place(j) = Cardinality(UpTo(RowsOf(l), Ts(l), j))
    BY <1>1, <1>4, <1>5, GroupSorts DEF Ts
  <2>2. Gapless(l) => \A t \in Ts(l)[i] .. Ts(l)[j] : \E k \in RowsOf(l) : Ts(l)[k] = t
    BY <1>1, <2>1 DEF Gapless, Ts
  <2>. QED  BY <1>1, <2>1, <2>2, KeysApart
<1>6. ASSUME NEW j \in RowsOf(l), table[j].ts - table[i].ts \in 1 .. HorizonRows, table[j].hard
      PROVE  Future(l, Place(i))
  <2>1. table[i].ts < table[j].ts /\ table[i].ts \in Int /\ table[j].ts \in Int
    BY <1>1, <1>3, <1>4, <1>6
  <2>2. Place(j) \in Place(i) + 1 .. Place(i) + HorizonRows /\ Place(j) <= Size(l)
    BY <1>2, <1>3, <1>5, <1>6, <2>1
  <2>3. table[RowAt(l, Place(j))].hard
    BY <1>2, <1>6
  <2>. QED  BY <2>2, <2>3 DEF Future
<1>7. ASSUME Gapless(l), Future(l, Place(i))
      PROVE  \E j \in RowsOf(l) :
               table[j].ts - table[i].ts \in 1 .. HorizonRows /\ table[j].hard
  <2>1. PICK q \in Place(i) + 1 .. Place(i) + HorizonRows : q <= Size(l) /\ table[RowAt(l, q)].hard
    BY <1>7 DEF Future
  <2>. DEFINE j == RowAt(l, q)
  <2>2. q \in 1 .. Size(l) /\ Place(i) < q /\ q - Place(i) <= HorizonRows
    BY <1>2, <1>3, <2>1
  <2>3. j \in RowsOf(l) /\ Place(j) = q /\ table[j].hard
    BY <1>2, <2>1, <2>2
  <2>. HIDE DEF j
  <2>4. table[i].ts < table[j].ts /\ table[i].ts \in Int /\ table[j].ts \in Int
    BY <1>1, <1>2, <1>4, <2>2, <2>3
  <2>5. table[j].ts - table[i].ts = q - Place(i)
    BY <1>5, <1>7, <2>3, <2>4
  <2>6. table[j].ts - table[i].ts \in 1 .. HorizonRows
    BY <1>2, <1>3, <2>2, <2>5
  <2>. QED  BY <2>3, <2>6
<1>. QED  BY <1>1, <1>6, <1>7 DEF l

\* No step touches the table or the stride, or what is computed from them.
LEMMA FixedStep ==
  ASSUME Fixed, [Next]_vars
  PROVE  /\ table' = table /\ stride' = stride /\ Fixed' /\ Labels' = Labels
<1>1. table' = table /\ stride' = stride
  BY DEF Next, AddHorizonLabels, SliceWindows, Fit, Calibrate, Replay, Send, vars
<1>2. Labels' = Labels
  BY <1>1 DEF Labels, Future, RowAt, Size, Place, RowsOf
<1>. QED  BY <1>1, <1>2 DEF Fixed

LabelInv == Fixed /\ (pc # "label" => y = Labels)

LEMMA LabelInvHolds == Spec => []LabelInv
<1>1. Init => LabelInv
  BY DEF Init, LabelInv, Fixed
<1>2. LabelInv /\ [Next]_vars => LabelInv'
  <2>. SUFFICES ASSUME LabelInv, [Next]_vars PROVE LabelInv'
    OBVIOUS
  <2>1. table' = table /\ Fixed' /\ Labels' = Labels
    BY FixedStep DEF LabelInv
  <2>2. CASE AddHorizonLabels
    BY <2>1, <2>2 DEF LabelInv, AddHorizonLabels, Labels
  <2>3. CASE ~AddHorizonLabels
    BY <2>1, <2>3 DEF LabelInv, Next, SliceWindows, Fit, Calibrate, Replay, Send, vars
  <2>. QED  BY <2>2, <2>3
<1>. QED  BY <1>1, <1>2, PTL DEF Spec

\* add_horizon_labels labels every row with a hard failure within horizon_s
\* seconds on its link, for every table, window and horizon; and in a group
\* without gaps only those, although it counts rows for seconds.
THEOREM HorizonIsTrueHolds == Spec => []HorizonIsTrue
<1>1. LabelInv => HorizonIsTrue
  <2>. SUFFICES ASSUME LabelInv, pc # "label", NEW i \in DOMAIN table
                PROVE  LET l == table[i].link
                           ahead == \E j \in RowsOf(l) :
                                      /\ table[j].ts - table[i].ts \in 1 .. HorizonRows
                                      /\ table[j].hard
                       IN /\ ahead => y[i]
                          /\ Gapless(l) => (y[i] => ahead)
    BY DEF HorizonIsTrue
  <2>1. Fixed /\ y = Labels
    BY DEF LabelInv
  <2>. QED  BY <2>1, LabelsAreTrue
<1>. QED  BY <1>1, LabelInvHolds, PTL

-----------------------------------------------------------------------------
(* The threshold *)

\* The nominal scores: finitely many, at least as many as train() asks for.
ScoresOK ==
  /\ IsFiniteSet(DOMAIN score) /\ Cardinality(DOMAIN score) >= MinNominal
  /\ \A w \in DOMAIN score : score[w] \in 0 .. MaxScore

NotAbove(v) == {w \in DOMAIN score : score[w] <= v}

\* More than p scores do not exceed the one of rank p, which is the least such.
LEMMA RankedFacts ==
  ASSUME ScoresOK, NEW p \in Nat, p < Cardinality(DOMAIN score)
  PROVE  /\ Ranked(p) \in 0 .. MaxScore /\ Cardinality(NotAbove(Ranked(p))) > p
         /\ \A v \in 0 .. MaxScore : Cardinality(NotAbove(v)) > p => Ranked(p) <= v
<1>. DEFINE V == {v \in 0 .. MaxScore : Cardinality(NotAbove(v)) > p}
<1>1. MaxScore \in Nat
  BY TrainingAssumption
<1>2. MaxScore \in V
  <2>1. NotAbove(MaxScore) = DOMAIN score
    BY <1>1 DEF ScoresOK, NotAbove
  <2>. QED  BY <1>1, <2>1
<1>3. V \in SUBSET Nat /\ V # {}
  BY <1>1, <1>2
<1>4. Ranked(p) = Min(V)
  BY DEF Ranked, NotAbove
<1>5. \A v \in V : v \in 0 .. MaxScore /\ Cardinality(NotAbove(v)) > p
  OBVIOUS
<1>6. \A v \in 0 .. MaxScore : Cardinality(NotAbove(v)) > p => v \in V
  OBVIOUS
<1>. HIDE DEF V
<1>7. PICK m \in V : \A k \in V : m <= k
  <2>1. IsWellFoundedOn(OpToRel(<, Nat), Nat)
    BY NatLessThanWellFounded
  <2>2. PICK m \in V : \A k \in V : ~(<<k, m>> \in OpToRel(<, Nat))
    BY <1>3, <2>1, WFMin
  <2>3. \A k \in V : ~(k < m)
    BY <1>3, <2>2 DEF OpToRel
  <2>. QED  BY <1>3, <2>3
<1>8. Min(V) \in V /\ \A k \in V : Min(V) <= k
  BY <1>7 DEF Min
<1>. QED  BY <1>4, <1>5, <1>6, <1>8

LEMMA DivMod ==
  ASSUME NEW a \in Nat, NEW b \in Nat \ {0}
  PROVE  a \div b \in Nat /\ a % b \in 0 .. b - 1 /\ a = b * (a \div b) + (a % b)
OBVIOUS

\* At most `a` of n windows are above rank p of the quantile: few enough.
LEMMA FewEnough ==
  ASSUME NEW F \in Nat \ {0}, NEW M \in Nat, NEW N \in Nat, NEW r \in 0 .. F - 1,
         2 * M <= F + 1, M <= N, N >= 1, NEW p \in Nat, (N - 1) * (F - 1) = F * p + r,
         NEW a \in Nat, r = 0 => a <= N - p, r > 0 => a <= N - p - 1
  PROVE  a * M <= N
<1>. DEFINE e == N - 1 - p
<1>1. F * e = N - 1 + r
  OBVIOUS
<1>2. e \in Nat 
  <2>1. e \in Int
    OBVIOUS
  <2>2. ASSUME e < 0 PROVE FALSE
    <3>1. F * e < 0
      BY <2>1, <2>2
    <3>. QED  BY <1>1, <3>1
  <2>. QED  BY <2>1, <2>2
<1>. HIDE DEF e
<1>3. CASE r = 0
  <2>1. a <= e + 1 
    BY <1>3 DEF e
  <2>2. CASE e = 0
    BY <1>1, <1>3, <2>1, <2>2
  <2>3. CASE e >= 1
    <3>1. (e - 1) * (F - 1) >= 0
      BY <1>2, <2>3
    <3>2. 2 * M * (e + 1) <= (F + 1) * (e + 1)
      BY <1>2
    <3>3. (F + 1) * (e + 1) = F * e + F + e + 1
      BY <1>2
    <3>4. (e - 1) * (F - 1) = F * e - e - F + 1
      BY <1>2
    <3>5. M * (e + 1) <= N
      BY <1>1, <1>2, <1>3, <3>1, <3>2, <3>3, <3>4
    <3>6. a * M <= (e + 1) * M
      BY <1>2, <2>1
    <3>. QED  BY <1>2, <3>5, <3>6
  <2>. QED  BY <1>2, <2>2, <2>3
<1>4. CASE r > 0
  <2>1. a <= e
    BY <1>4 DEF e
  <2>2. CASE e = 0
    BY <2>1, <2>2
  <2>3. CASE e = 1
    BY <2>1, <2>3
  <2>4. CASE e >= 2
    <3>1. (e - 2) * (F - 1) >= 0
      BY <1>2, <2>4
    <3>2. 2 * M * e <= (F + 1) * e
      BY <1>2
    <3>3. (F + 1) * e = F * e + e
      BY <1>2
    <3>4. (e - 2) * (F - 1) = F * e - 2 * F - e + 2
      BY <1>2
    <3>7. F * e <= N + F - 2
      BY <1>1, <1>2
    <3>5. M * e <= N
      BY <1>1, <1>2, <1>4, <3>1, <3>2, <3>3, <3>4, <3>7
    <3>6. a * M <= e * M
      BY <1>2, <2>1
    <3>. QED  BY <1>2, <3>5, <3>6
  <2>. QED  BY <1>2, <2>2, <2>3, <2>4
<1>. QED  BY <1>3, <1>4

\* The windows that reach score v / FprParts.
Reach(v) == {w \in DOMAIN score : FprParts * score[w] >= v}

LEMMA ReachFinite ==
  ASSUME ScoresOK, NEW v
  PROVE  /\ IsFiniteSet(Reach(v)) /\ Cardinality(Reach(v)) \in Nat
         /\ IsFiniteSet(NotAbove(v)) /\ Cardinality(NotAbove(v)) \in Nat
<1>1. Reach(v) \in SUBSET DOMAIN score /\ NotAbove(v) \in SUBSET DOMAIN score
  BY DEF Reach, NotAbove
<1>. QED  BY <1>1, FS_Subset, FS_CardinalityType DEF ScoresOK

\* Those that reach the score of rank c, if no two of them tie.
LEMMA ReachRanked ==
  ASSUME ScoresOK, NEW c \in Nat, c < Cardinality(DOMAIN score),
         \A v, w \in Reach(FprParts * Ranked(c)) : v # w => score[v] # score[w]
  PROVE  Cardinality(Reach(FprParts * Ranked(c))) <= Cardinality(DOMAIN score) - c
<1>. DEFINE S == DOMAIN score
            A == Reach(FprParts * Ranked(c))
            L == NotAbove(Ranked(c))
<1>1. /\ IsFiniteSet(S) /\ Cardinality(S) \in Nat
      /\ IsFiniteSet(A) /\ Cardinality(A) \in Nat /\ IsFiniteSet(L) /\ Cardinality(L) \in Nat
  BY ReachFinite, FS_CardinalityType DEF ScoresOK
<1>2. Ranked(c) \in Int /\ Cardinality(L) > c
  BY RankedFacts, TrainingAssumption
<1>3. /\ FprParts \in Nat \ {0} /\ MaxScore \in Nat
      /\ \A w \in S : score[w] \in Int /\ (FprParts * score[w] >= FprParts * Ranked(c) <=> score[w] >= Ranked(c))
  <2>1. FprParts \in Nat \ {0} /\ MaxScore \in Nat
    BY TrainingAssumption
  <2>2. ASSUME NEW a \in Int, NEW b \in Int PROVE FprParts * a >= FprParts * b <=> a >= b
    BY <2>1
  <2>. QED  BY <1>2, <2>1, <2>2 DEF ScoresOK
<1>4. A \union L = S /\ A \intersect L = {w \in S : score[w] = Ranked(c)}
  BY <1>2, <1>3 DEF Reach, NotAbove
<1>8. \A v, w \in A : v # w => score[v] # score[w]
  OBVIOUS
<1>. HIDE DEF A, L, S
<1>5. Cardinality(A \intersect L) <= 1 /\ Cardinality(A \intersect L) \in Nat
  <2>1. CASE A \intersect L = {}
    <3>1. Cardinality({}) = 0
      BY FS_EmptySet
    <3>2. Cardinality(A \intersect L) = 0
      BY <2>1, <3>1
    <3>. QED  BY <3>2
  <2>2. CASE A \intersect L # {}
    <3>1. PICK w : w \in A \intersect L
      BY <2>2
    <3>2. \A v \in A \intersect L : v = w
      BY <1>4, <1>8, <3>1
    <3>3. A \intersect L = {w}
      BY <3>1, <3>2
    <3>4. Cardinality(A \intersect L) = 1
      BY <3>3, FS_Singleton
    <3>. QED  BY <3>4
  <2>. QED  BY <2>1, <2>2
<1>6. Cardinality(S) = Cardinality(A) + Cardinality(L) - Cardinality(A \intersect L)
  <2>1. Cardinality(A \union L) = Cardinality(A) + Cardinality(L) - Cardinality(A \intersect L)
    BY <1>1, FS_Union
  <2>. QED  BY <1>4, <2>1
<1>7. Cardinality(A) <= Cardinality(S) - c
  BY <1>1, <1>2, <1>5, <1>6
<1>. QED  BY <1>7 DEF A, S

\* Those that reach more than the score of rank c.
LEMMA ReachMore ==
  ASSUME ScoresOK, NEW c \in Nat, c < Cardinality(DOMAIN score),
         NEW q \in Int, q > FprParts * Ranked(c)
  PROVE  Cardinality(Reach(q)) <= Cardinality(DOMAIN score) - c - 1
<1>. DEFINE S == DOMAIN score
            A == Reach(q)
            L == NotAbove(Ranked(c))
<1>1. /\ IsFiniteSet(S) /\ Cardinality(S) \in Nat
      /\ IsFiniteSet(A) /\ Cardinality(A) \in Nat /\ IsFiniteSet(L) /\ Cardinality(L) \in Nat
  BY ReachFinite, FS_CardinalityType DEF ScoresOK
<1>2. Ranked(c) \in Int /\ Cardinality(L) > c
  BY RankedFacts, TrainingAssumption
<1>3. A \intersect L = {} /\ A \union L \in SUBSET S
  <2>1. FprParts \in Nat \ {0} /\ MaxScore \in Nat
    BY TrainingAssumption
  <2>2. ASSUME NEW a \in Int, a <= Ranked(c) PROVE ~(FprParts * a >= q)
    <3>1. FprParts * a <= FprParts * Ranked(c)
      BY <1>2, <2>1, <2>2
    <3>. QED  BY <1>2, <2>1, <2>2, <3>1
  <2>3. \A w \in S : score[w] \in Int
    BY <2>1 DEF ScoresOK
  <2>. QED  BY <2>2, <2>3 DEF Reach, NotAbove
<1>. HIDE DEF A, L, S
<1>4. Cardinality(A \union L) = Cardinality(A) + Cardinality(L) - Cardinality({})
  BY <1>1, <1>3, FS_Union
<1>5. Cardinality({}) = 0 /\ Cardinality(A \union L) <= Cardinality(S)
  BY <1>1, <1>3, FS_EmptySet, FS_Subset
<1>6. Cardinality(A) <= Cardinality(S) - c - 1
  BY <1>1, <1>2, <1>4, <1>5
<1>. QED  BY <1>6 DEF A, S

\* The ranks the quantile is interpolated between are ranks of nominal scores.
LEMMA QuantileRanks ==
  ASSUME ScoresOK
  PROVE  LET N == Cardinality(DOMAIN score) IN
         \E p \in Nat, r \in 0 .. FprParts - 1 :
           /\ (N - 1) * (FprParts - 1) = FprParts * p + r
           /\ p < N /\ (r > 0 => p + 1 < N)
           /\ Quantile = FprParts * Ranked(p) + (IF r = 0 THEN 0 ELSE r * (Ranked(p + 1) - Ranked(p)))
           /\ Quantile \in Int
<1>. DEFINE N == Cardinality(DOMAIN score)
            h == (N - 1) * (FprParts - 1)
            p == h \div FprParts
            r == h % FprParts
<1>1. FprParts \in Nat \ {0} /\ MinNominal \in Nat \ {0} /\ MaxScore \in Nat
  BY TrainingAssumption
<1>2. N \in Nat /\ N >= 1
  BY <1>1, FS_CardinalityType DEF ScoresOK
<1>3. h \in Nat
  BY <1>1, <1>2
<1>4. p \in Nat /\ r \in 0 .. FprParts - 1 /\ h = FprParts * p + r
  BY <1>1, <1>3, DivMod
<1>5. Quantile = FprParts * Ranked(p) + (IF r = 0 THEN 0 ELSE r * (Ranked(p + 1) - Ranked(p)))
  BY DEF Quantile
<1>. HIDE DEF p, r
<1>6. (N - 1) * (FprParts - 1) = FprParts * p + r
  BY <1>4
<1>. HIDE DEF h
<1>7. p < N /\ (r > 0 => p + 1 < N)
  <2>1. FprParts * p + r = FprParts * (N - 1) - (N - 1)
    BY <1>1, <1>2, <1>6
  <2>2. ASSUME p >= N - 1, r > 0 PROVE FALSE
    <3>1. FprParts * p >= FprParts * (N - 1)
      BY <1>1, <1>2, <1>4, <2>2
    <3>. QED  BY <1>1, <1>2, <1>4, <2>1, <2>2, <3>1
  <2>3. ASSUME p >= N PROVE FALSE
    <3>1. FprParts * p >= FprParts * N
      BY <1>1, <1>2, <1>4, <2>3
    <3>. QED  BY <1>1, <1>2, <1>4, <2>1, <3>1
  <2>. QED  BY <1>2, <1>4, <2>2, <2>3
<1>. HIDE DEF N
<1>8. Ranked(p) \in Int /\ (r > 0 => Ranked(p + 1) \in Int)
  BY <1>1, <1>4, <1>7, RankedFacts DEF N
<1>9. Quantile \in Int
  <2>1. CASE r = 0
    BY <1>1, <1>5, <1>8, <2>1
  <2>2. CASE r > 0
    BY <1>1, <1>4, <1>5, <1>8, <2>2
  <2>. QED  BY <1>4, <2>1, <2>2
<1>. QED  BY <1>4, <1>5, <1>6, <1>7, <1>9 DEF N

\* The quantile is reached by few enough windows, unless they tie.
LEMMA QuantileMeetsGate ==
  ASSUME ScoresOK, \A v, w \in Reach(Quantile) : v # w => score[v] # score[w]
  PROVE  Cardinality(Reach(Quantile)) * MinNominal <= Cardinality(DOMAIN score)
<1>. DEFINE N == Cardinality(DOMAIN score)
<1>1. /\ FprParts \in Nat \ {0} /\ MinNominal \in Nat \ {0} /\ 2 * MinNominal <= FprParts + 1
      /\ MaxScore \in Nat
  BY TrainingAssumption
<1>2. N \in Nat /\ N >= MinNominal /\ N >= 1
  BY <1>1, FS_CardinalityType DEF ScoresOK
<1>3. PICK p \in Nat, r \in 0 .. FprParts - 1 :
        /\ (N - 1) * (FprParts - 1) = FprParts * p + r
        /\ p < N /\ (r > 0 => p + 1 < N)
        /\ Quantile = FprParts * Ranked(p) + (IF r = 0 THEN 0 ELSE r * (Ranked(p + 1) - Ranked(p)))
        /\ Quantile \in Int
  BY QuantileRanks
<1>. HIDE DEF N
<1>4. Ranked(p) \in 0 .. MaxScore
  BY <1>3, RankedFacts DEF N
<1>. DEFINE a == Cardinality(Reach(Quantile))
<1>5. CASE r = 0
  <2>1. Quantile = FprParts * Ranked(p)
    BY <1>1, <1>3, <1>4, <1>5
  <2>2. a <= N - p
    BY <1>3, <2>1, ReachRanked DEF N
  <2>3. a \in Nat
    BY ReachFinite
  <2>. HIDE DEF a
  <2>4. a * MinNominal <= N
    BY <1>1, <1>2, <1>3, <1>5, <2>2, <2>3, FewEnough
  <2>. QED  BY <2>4 DEF a, N
<1>6. CASE r > 0
  <2>1. /\ p + 1 \in Nat /\ p + 1 < N /\ Ranked(p + 1) \in 0 .. MaxScore
        /\ Cardinality(NotAbove(Ranked(p + 1))) > p + 1
    BY <1>3, <1>6, RankedFacts DEF N
  <2>2. Ranked(p) <= Ranked(p + 1)
    <3>1. Cardinality(NotAbove(Ranked(p + 1))) > p
      BY <1>3, <2>1, ReachFinite
    <3>. QED  BY <1>3, <2>1, <3>1, RankedFacts DEF N
  <2>3. Quantile = FprParts * Ranked(p) + r * (Ranked(p + 1) - Ranked(p)) /\ Quantile \in Int
    BY <1>1, <1>3, <1>4, <1>6, <2>1
  <2>4. ASSUME Ranked(p) = Ranked(p + 1) PROVE a <= N - p - 1
    <3>1. Quantile = FprParts * Ranked(p + 1)
      BY <1>1, <1>3, <1>4, <2>3, <2>4
    <3>2. a <= N - (p + 1)
      BY <2>1, <3>1, ReachRanked DEF N
    <3>3. a \in Int
      BY ReachFinite
    <3>. HIDE DEF a
    <3>. QED  BY <1>2, <1>3, <3>2, <3>3
  <2>5. ASSUME Ranked(p) < Ranked(p + 1) PROVE a <= N - p - 1
    <3>1. r * (Ranked(p + 1) - Ranked(p)) > 0
      BY <1>3, <1>4, <1>6, <2>1, <2>5
    <3>2. Quantile > FprParts * Ranked(p)
      BY <1>1, <1>3, <1>4, <2>1, <2>3, <3>1
    <3>. QED  BY <1>3, <2>3, <3>2, ReachMore DEF N
  <2>6. a <= N - p - 1 /\ a \in Nat
    <3>1. a <= N - p - 1
      BY <1>2, <1>3, <1>4, <2>1, <2>2, <2>4, <2>5
    <3>. QED  BY <3>1, ReachFinite
  <2>. HIDE DEF a
  <2>7. a * MinNominal <= N
    BY <1>1, <1>2, <1>3, <1>6, <2>6, FewEnough
  <2>. QED  BY <2>7 DEF a, N
<1>. QED  BY <1>3, <1>5, <1>6

\* A group has finitely many windows.
LEMMA NominalFinite ==
  ASSUME Fixed, NEW b, b = [l \in Links |-> WindowsOf(l)]
  PROVE  IsFiniteSet(Nominal(b)) /\ Cardinality(Nominal(b)) \in Nat
<1>. DEFINE part(l) == {l} \X DOMAIN b[l]
            parts == [l \in Links |-> part(l)]
            T == {parts[l] : l \in Links}
<1>1. ASSUME NEW l \in Links PROVE IsFiniteSet(parts[l])
  <2>. DEFINE n == IF Size(l) < WindowN THEN 0 ELSE ((Size(l) - WindowN) \div stride) + 1
  <2>1. Size(l) \in Nat /\ WindowN \in Nat \ {0} /\ stride \in Nat \ {0}
    BY Places, TrainingAssumption DEF Fixed
  <2>2. n \in Nat
    <3>1. CASE Size(l) < WindowN
      BY <3>1
    <3>2. CASE ~(Size(l) < WindowN)
      <4>1. Size(l) - WindowN \in Nat
        BY <2>1, <3>2
      <4>2. (Size(l) - WindowN) \div stride \in Nat
        BY <2>1, <4>1, DivMod
      <4>. QED  BY <3>2, <4>2
    <3>. QED  BY <3>1, <3>2
  <2>3. DOMAIN b[l] = 1 .. n
    BY DEF WindowsOf
  <2>. HIDE DEF n
  <2>4. IsFiniteSet(DOMAIN b[l]) /\ IsFiniteSet({l})
    <3>1. IsFiniteSet(1 .. n)
      BY <2>2, FS_Interval
    <3>2. IsFiniteSet(DOMAIN b[l])
      BY <2>3, <3>1
    <3>. QED  BY <3>2, FS_Singleton
  <2>. QED  BY <2>4, FS_Product
<1>2. IsFiniteSet(T)
  <2>1. parts \in [Links -> T] /\ \A t \in T : \E l \in Links : parts[l] = t
    OBVIOUS
  <2>. HIDE DEF T, parts
  <2>2. parts \in Surjection(Links, T) /\ IsFiniteSet(Links)
    BY <2>1, Fun_IsSurj, TrainingAssumption
  <2>. QED  BY <2>2, FS_Surjection
<1>3. Numbered(b) = UNION T
  BY DEF Numbered
<1>4. \A t \in T : IsFiniteSet(t)
  BY <1>1
<1>. HIDE DEF T
<1>5. IsFiniteSet(Numbered(b)) /\ Nominal(b) \in SUBSET Numbered(b)
  BY <1>2, <1>3, <1>4, FS_UNION DEF Nominal
<1>. QED  BY <1>5, FS_Subset, FS_CardinalityType

\* What each step of train() leaves to the next: windows, scores, a threshold
\* at the quantile or beyond it.
ScoreInv ==
  /\ pc = "fit" => IsFiniteSet(Nominal(batch)) /\ Cardinality(Nominal(batch)) >= MinNominal
  /\ pc \in {"calibrate", "done"} => ScoresOK
  /\ pc = "calibrate" => point \in Nat
  /\ pc = "done" => (rising => point \in Int /\ point >= Quantile)

LEMMA ScoreInvStep ==
  ASSUME Fixed, ScoreInv, [Next]_vars
  PROVE  ScoreInv'
<1>. USE DEF ScoreInv
<1>1. CASE AddHorizonLabels
  BY <1>1 DEF AddHorizonLabels
<1>2. CASE SliceWindows
  <2>1. PICK b : b = [l \in Links |-> WindowsOf(l)]
    OBVIOUS
  <2>2. /\ batch' = b /\ Nominal(batch)' = Nominal(b)
        /\ pc' = IF Cardinality(Nominal(b)) < MinNominal THEN "stopped" ELSE "fit"
    BY <1>2, <2>1 DEF SliceWindows, Nominal, Numbered
  <2>3. IsFiniteSet(Nominal(b)) /\ Cardinality(Nominal(b)) \in Nat /\ MinNominal \in Nat
    BY <2>1, NominalFinite, TrainingAssumption
  <2>. QED  BY <2>2, <2>3
<1>3. CASE Fit
  <2>1. /\ score' \in [Nominal(batch) -> 0 .. MaxScore] /\ pc = "fit" /\ pc' = "calibrate"
        /\ \/ point' = FprParts * DefaultPoint
           \/ point' \in {FprParts * s : s \in 0 .. MaxScore}
    BY <1>3 DEF Fit
  <2>2. point' \in Nat
    <3>1. FprParts \in Nat /\ MaxScore \in Nat /\ DefaultPoint \in 0 .. MaxScore
      BY TrainingAssumption
    <3>2. \A s \in 0 .. MaxScore : FprParts * s \in Nat
      BY <3>1
    <3>. QED  BY <2>1, <3>1, <3>2
  <2>3. ScoresOK'
    BY <2>1 DEF ScoresOK
  <2>. QED  BY <2>1, <2>2, <2>3
<1>4. CASE Calibrate
  <2>1. ScoresOK /\ point \in Nat /\ point' = CalibratedPoint /\ pc' = "done"
        /\ score' = score /\ rising' = rising
    BY <1>4 DEF Calibrate
  <2>2. ScoresOK' /\ Quantile' = Quantile
    BY <2>1 DEF ScoresOK, Quantile, Ranked
  <2>3. Quantile \in Int
    BY <2>1, QuantileRanks
  <2>4. ASSUME rising PROVE point' \in Int /\ point' >= Quantile
    BY <2>1, <2>3, <2>4 DEF CalibratedPoint
  <2>. QED  BY <2>1, <2>2, <2>4
<1>5. ASSUME pc' = pc, UNCHANGED <<table, batch, score, rising, point>> PROVE ScoreInv'
  BY <1>5 DEF ScoresOK, Quantile, Ranked, Nominal, Numbered
<1>6. CASE Replay
  BY <1>5, <1>6 DEF Replay, Send
<1>7. CASE UNCHANGED vars
  BY <1>5, <1>7 DEF vars
<1>. QED  BY <1>1, <1>2, <1>3, <1>4, <1>6, <1>7 DEF Next

\* calibrate_threshold leaves at most one nominal window in MinNominal at or
\* beyond the threshold: for every number of windows train() accepts, every
\* score and every rising curve, unless windows tie at the quantile.
THEOREM GateHoldsHolds == Spec => []GateHolds
<1>1. Init => ScoreInv
  BY DEF Init, ScoreInv
<1>2. LabelInv /\ ScoreInv /\ [Next]_vars => ScoreInv'
  BY ScoreInvStep DEF LabelInv
<1>3. ScoreInv => GateHolds
  <2>. SUFFICES ASSUME ScoreInv, pc = "done", rising,
                       \A v, w \in DOMAIN score :
                         v # w /\ FprParts * score[v] >= Quantile => score[v] # score[w]
                PROVE  Cardinality(FalsePositives) * MinNominal <= Cardinality(DOMAIN score)
    BY DEF GateHolds
  <2>1. ScoresOK /\ point \in Int /\ point >= Quantile /\ Quantile \in Int
    BY QuantileRanks DEF ScoreInv
  <2>2. \A w \in DOMAIN score : FprParts * score[w] \in Int
    <3>1. FprParts \in Nat /\ MaxScore \in Nat
      BY TrainingAssumption
    <3>. QED  BY <2>1, <3>1 DEF ScoresOK
  <2>3. FalsePositives \in SUBSET Reach(Quantile)
    BY <2>1, <2>2 DEF FalsePositives, Reach
  <2>4. Cardinality(FalsePositives) <= Cardinality(Reach(Quantile))
        /\ Cardinality(FalsePositives) \in Nat /\ Cardinality(Reach(Quantile)) \in Nat
    BY <2>1, <2>3, ReachFinite, FS_Subset, FS_CardinalityType
  <2>5. Cardinality(Reach(Quantile)) * MinNominal <= Cardinality(DOMAIN score)
    <3>1. \A v, w \in Reach(Quantile) : v # w => score[v] # score[w]
      BY DEF Reach
    <3>. QED  BY <2>1, <3>1, QuantileMeetsGate
  <2>6. MinNominal \in Nat /\ Cardinality(DOMAIN score) \in Nat
    BY <2>1, TrainingAssumption, FS_CardinalityType DEF ScoresOK
  <2>7. Cardinality(FalsePositives) * MinNominal <= Cardinality(Reach(Quantile)) * MinNominal
    BY <2>4, <2>6
  <2>. QED  BY <2>4, <2>5, <2>6, <2>7
<1>. QED  BY <1>1, <1>2, <1>3, LabelInvHolds, PTL DEF Spec

-----------------------------------------------------------------------------
(* Batch windows and streamed frames *)

\* What the first m rows of link l leave in its window, and the frames they
\* have given.
Last(l, m) == LET n == IF m < WindowN THEN m ELSE WindowN
              IN [k \in 1 .. n |-> RowAt(l, m - n + k)]

FramesTo(l, m) == [n \in 1 .. (IF m < WindowN THEN 0 ELSE m - WindowN + 1) |->
                     [k \in 1 .. WindowN |-> RowAt(l, n + k - 1)]]

\* The rows of link l are replayed up to place m.
Replayed(l, m) ==
  /\ \A i \in RowsOf(l) : i \in replay <=> Place(i) > m
  /\ buffer[l] = Last(l, m)
  /\ streamed[l] = FramesTo(l, m)

AllValid(l) == \A i \in RowsOf(l) : table[i].valid

StreamInv ==
  /\ DOMAIN buffer = Links /\ DOMAIN streamed = Links
  /\ replay \subseteq DOMAIN table
  /\ pc \notin {"label", "slice"} => batch = [l \in Links |-> WindowsOf(l)]
  /\ \A l \in Links : AllValid(l) => \E m \in 0 .. Size(l) : Replayed(l, m)

\* One row more in the window of a link: the oldest goes when it is full.
LEMMA LastGrows ==
  ASSUME NEW l, NEW m \in Nat, NEW i, i = RowAt(l, m + 1)
  PROVE  LET longer == Append(Last(l, m), i)
             w == IF Len(longer) > WindowN THEN Tail(longer) ELSE longer
         IN w = Last(l, m + 1) /\ (Len(w) = WindowN <=> m + 1 >= WindowN)
<1>. DEFINE n == IF m < WindowN THEN m ELSE WindowN
            f(k) == RowAt(l, m - n + k)
            old == [k \in 1 .. n |-> f(k)]
            S == {f(k) : k \in 1 .. n} \union {i}
            longer == Append(old, i)
            w == IF Len(longer) > WindowN THEN Tail(longer) ELSE longer
<1>1. WindowN \in Nat \ {0} /\ n \in Nat
  BY TrainingAssumption
<1>2. old \in Seq(S) /\ Len(old) = n /\ i \in S
  <2>1. (\A k \in 1 .. n : f(k) \in S) /\ i \in S
    OBVIOUS
  <2>. HIDE DEF n, f, S
  <2>. QED  BY <1>1, <2>1
<1>3. longer \in Seq(S) /\ Len(longer) = n + 1 /\ longer[n + 1] = i
      /\ \A k \in 1 .. n : longer[k] = f(k)
  <2>. HIDE DEF n, f, S
  <2>1. \A k \in 1 .. n : old[k] = f(k)
    OBVIOUS
  <2>. HIDE DEF old
  <2>. QED  BY <1>1, <1>2, <2>1
<1>. HIDE DEF longer, S
<1>4. CASE m < WindowN
  <2>1. n = m /\ w = longer /\ Len(w) = m + 1
    BY <1>1, <1>3, <1>4
  <2>2. w = [k \in 1 .. m + 1 |-> longer[k]]
    BY <1>3, <2>1
  <2>3. \A k \in 1 .. m + 1 : longer[k] = RowAt(l, k)
    <3>. SUFFICES ASSUME NEW k \in 1 .. m + 1 PROVE longer[k] = RowAt(l, k)
      OBVIOUS
    <3>1. CASE k = m + 1
      BY <1>3, <2>1, <3>1
    <3>2. CASE k \in 1 .. m
      <4>1. m - n + k = k
        BY <2>1, <3>2
      <4>. QED  BY <1>3, <2>1, <3>2, <4>1
    <3>. QED  BY <3>1, <3>2
  <2>4. Last(l, m + 1) = [k \in 1 .. m + 1 |-> RowAt(l, k)]
    <3>1. CASE m + 1 < WindowN
      <4>1. \A k \in 1 .. m + 1 : (m + 1) - (m + 1) + k = k
        OBVIOUS
      <4>. QED  BY <3>1, <4>1 DEF Last
    <3>2. CASE m + 1 = WindowN
      <4>1. \A k \in 1 .. m + 1 : (m + 1) - WindowN + k = k
        BY <3>2
      <4>. QED  BY <3>2, <4>1 DEF Last
    <3>. QED  BY <1>1, <1>4, <3>1, <3>2
  <2>5. w = Last(l, m + 1)
    BY <2>2, <2>3, <2>4
  <2>6. Len(w) = WindowN <=> m + 1 >= WindowN
    BY <1>1, <1>4, <2>1
  <2>. QED  BY <2>5, <2>6 DEF longer, Last
<1>5. CASE m >= WindowN
  <2>1. n = WindowN /\ w = Tail(longer) /\ Len(w) = WindowN
    BY <1>1, <1>3, <1>5
  <2>2. w = [k \in 1 .. WindowN |-> longer[k + 1]]
    BY <1>1, <1>3, <2>1
  <2>3. \A k \in 1 .. WindowN : longer[k + 1] = RowAt(l, (m + 1) - WindowN + k)
    <3>. SUFFICES ASSUME NEW k \in 1 .. WindowN
                  PROVE  longer[k + 1] = RowAt(l, (m + 1) - WindowN + k)
      OBVIOUS
    <3>1. CASE k = WindowN
      <4>1. (m + 1) - WindowN + k = m + 1
        BY <1>1, <3>1
      <4>. QED  BY <1>3, <2>1, <3>1, <4>1
    <3>2. CASE k # WindowN
      <4>1. m - n + (k + 1) = (m + 1) - WindowN + k /\ k + 1 \in 1 .. n
        BY <1>1, <2>1, <3>2
      <4>. QED  BY <1>3, <4>1
    <3>. QED  BY <3>1, <3>2
  <2>4. Last(l, m + 1) = [k \in 1 .. WindowN |-> RowAt(l, (m + 1) - WindowN + k)]
    BY <1>1, <1>5 DEF Last
  <2>5. w = Last(l, m + 1)
    BY <2>2, <2>3, <2>4
  <2>6. Len(w) = WindowN <=> m + 1 >= WindowN
    BY <1>1, <1>5, <2>1
  <2>. QED  BY <2>5, <2>6 DEF longer, Last
<1>. QED  BY <1>1, <1>4, <1>5

\* A full window is one frame more, and the only one.
LEMMA FramesGrow ==
  ASSUME NEW l, NEW m \in Nat
  PROVE  FramesTo(l, m + 1) = IF m + 1 >= WindowN THEN Append(FramesTo(l, m), Last(l, m + 1))
                                                  ELSE FramesTo(l, m)
<1>. DEFINE n == IF m < WindowN THEN 0 ELSE m - WindowN + 1
            f(j) == [k \in 1 .. WindowN |-> RowAt(l, j + k - 1)]
<1>1. WindowN \in Nat \ {0} /\ n \in Nat
  BY TrainingAssumption
<1>2. CASE m + 1 < WindowN
  BY <1>1, <1>2 DEF FramesTo
<1>3. CASE m + 1 >= WindowN
  <2>1. n + 1 = (m + 1) - WindowN + 1 /\ n + 1 = IF m + 1 < WindowN THEN 0 ELSE (m + 1) - WindowN + 1
    BY <1>1, <1>3
  <2>2. Last(l, m + 1) = f(n + 1)
    <3>1. \A k \in 1 .. WindowN : (m + 1) - WindowN + k = (n + 1) + k - 1
      BY <1>1, <2>1
    <3>2. Last(l, m + 1) = [k \in 1 .. WindowN |-> RowAt(l, (m + 1) - WindowN + k)]
      BY <1>1, <1>3 DEF Last
    <3>. QED  BY <3>1, <3>2
  <2>3. FramesTo(l, m) = [j \in 1 .. n |-> f(j)]
    BY DEF FramesTo
  <2>4. FramesTo(l, m + 1) = [j \in 1 .. n + 1 |-> f(j)]
    <3>. DEFINE o == IF m + 1 < WindowN THEN 0 ELSE (m + 1) - WindowN + 1
    <3>1. FramesTo(l, m + 1) = [j \in 1 .. o |-> f(j)]
      BY DEF FramesTo
    <3>2. o = n + 1
      BY <2>1
    <3>. HIDE DEF o, n, f
    <3>. QED  BY <3>1, <3>2
  <2>. HIDE DEF n, f
  <2>5. [j \in 1 .. n + 1 |-> f(j)] = Append([j \in 1 .. n |-> f(j)], f(n + 1))
    <3>. DEFINE S == {f(j) : j \in 1 .. n + 1}
                g == [j \in 1 .. n |-> f(j)]
    <3>1. \A j \in 1 .. n + 1 : f(j) \in S
      OBVIOUS
    <3>. HIDE DEF S
    <3>2. g \in Seq(S) /\ Len(g) = n /\ f(n + 1) \in S
      BY <1>1, <3>1
    <3>3. \A j \in 1 .. n : g[j] = f(j)
      OBVIOUS
    <3>. HIDE DEF g
    <3>4. Append(g, f(n + 1)) = [j \in 1 .. n + 1 |-> IF j = n + 1 THEN f(n + 1) ELSE g[j]]
      BY <1>1, <3>2
    <3>5. Append(g, f(n + 1)) = [j \in 1 .. n + 1 |-> f(j)]
      BY <1>1, <3>3, <3>4
    <3>. QED  BY <3>5 DEF g
  <2>. QED  BY <1>3, <2>2, <2>3, <2>4, <2>5
<1>. QED  BY <1>1, <1>2, <1>3

\* Whatever leaves the table alone leaves its groups alone.
LEMMA GroupsFixed ==
  ASSUME table' = table, stride' = stride, NEW l
  PROVE  /\ RowsOf(l)' = RowsOf(l) /\ Size(l)' = Size(l) /\ AllValid(l)' = AllValid(l)
         /\ WindowsOf(l)' = WindowsOf(l)
         /\ \A i : Place(i)' = Place(i)
         /\ \A m : Last(l, m)' = Last(l, m) /\ FramesTo(l, m)' = FramesTo(l, m)
<1>1. RowsOf(l)' = RowsOf(l)
  BY DEF RowsOf
<1>2. \A i : Place(i)' = Place(i)
  BY DEF Place, RowsOf
<1>3. \A p : RowAt(l, p)' = RowAt(l, p)
  BY <1>1, <1>2 DEF RowAt
<1>4. Size(l)' = Size(l) /\ AllValid(l)' = AllValid(l)
  BY <1>1 DEF Size, AllValid
<1>5. \A s : Window(l, s)' = Window(l, s)
  BY <1>3 DEF Window, MetaRow
<1>6. WindowsOf(l)' = WindowsOf(l)
  BY <1>4, <1>5 DEF WindowsOf
<1>7. \A m : Last(l, m)' = Last(l, m) /\ FramesTo(l, m)' = FramesTo(l, m)
  BY <1>3 DEF Last, FramesTo
<1>. QED  BY <1>1, <1>2, <1>4, <1>6, <1>7

\* The row that is sent is the next one of its group.
LEMMA SentInOrder ==
  ASSUME Fixed, NEW i \in DOMAIN table, i \in replay, \A j \in replay \ {i} : Before(i, j),
         NEW m \in 0 .. Size(table[i].link), Replayed(table[i].link, m)
  PROVE  /\ m + 1 \in 0 .. Size(table[i].link) /\ i = RowAt(table[i].link, m + 1)
         /\ \A j \in RowsOf(table[i].link) : j \in replay \ {i} <=> Place(j) > m + 1
<1>. DEFINE l == table[i].link
<1>1. i \in RowsOf(l) /\ (\A j \in RowsOf(l) : table[j].link = l /\ (j \in replay <=> Place(j) > m))
  BY DEF RowsOf, Replayed
<1>2. \A j \in replay \ {i} : Before(i, j)
  OBVIOUS
<1>3. m \in 0 .. Size(l)
  OBVIOUS
<1>4. table[i].link = l /\ i \in replay
  OBVIOUS
<1>. HIDE DEF l
<1>5. /\ Size(l) \in Nat
      /\ \A j \in RowsOf(l) : Place(j) \in 1 .. Size(l) /\ RowAt(l, Place(j)) = j
      /\ \A p \in 1 .. Size(l) : RowAt(l, p) \in RowsOf(l) /\ Place(RowAt(l, p)) = p
      /\ \A j, k \in RowsOf(l) : table[j].ts < table[k].ts <=> Place(j) < Place(k)
  BY Places
<1>6. \A j \in RowsOf(l) : table[j].ts \in Int
  BY GroupSorts DEF SortKey, Ts
<1>7. Place(i) = m + 1
  <2>1. Place(i) \in 1 .. Size(l) /\ Place(i) > m
    BY <1>1, <1>4, <1>5
  <2>2. ASSUME Place(i) > m + 1 PROVE FALSE
    <3>. DEFINE j == RowAt(l, m + 1)
    <3>1. m + 1 \in 1 .. Size(l)
      BY <1>3, <1>5, <2>1, <2>2
    <3>2. j \in RowsOf(l) /\ Place(j) = m + 1
      BY <1>5, <3>1
    <3>. HIDE DEF j
    <3>3. j \in replay \ {i}
      BY <1>1, <1>3, <2>2, <3>2
    <3>4. ~(table[j].ts < table[i].ts)
      BY <1>1, <1>2, <1>4, <1>6, <3>2, <3>3 DEF Before
    <3>. QED  BY <1>1, <1>5, <2>2, <3>2, <3>4
  <2>. QED  BY <1>3, <1>5, <2>1, <2>2
<1>8. m + 1 \in 0 .. Size(l) /\ i = RowAt(l, m + 1)
  <2>1. Place(i) \in 1 .. Size(l) /\ RowAt(l, Place(i)) = i
    BY <1>1, <1>5
  <2>. QED  BY <1>3, <1>5, <1>7, <2>1
<1>9. \A j \in RowsOf(l) : j \in replay \ {i} <=> Place(j) > m + 1
  <2>. SUFFICES ASSUME NEW j \in RowsOf(l) PROVE j \in replay \ {i} <=> Place(j) > m + 1
    OBVIOUS
  <2>1. Place(j) \in Nat /\ m \in Nat /\ (j = i <=> Place(j) = m + 1)
    BY <1>1, <1>3, <1>5, <1>7
  <2>. QED  BY <1>1, <2>1
<1>. QED  BY <1>8, <1>9 DEF l

LEMMA SendKeepsGroup ==
  ASSUME Fixed, StreamInv, NEW i \in replay, Send(i), NEW l \in Links, AllValid(l)
  PROVE  (\E m \in 0 .. Size(l) : Replayed(l, m))'
<1>1. table' = table /\ stride' = stride /\ i \in DOMAIN table
      /\ replay' = replay \ {i} /\ \A j \in replay \ {i} : Before(i, j)
  BY DEF Send, StreamInv
<1>2. PICK m \in 0 .. Size(l) : Replayed(l, m)
  BY DEF StreamInv
<1>3. /\ RowsOf(l)' = RowsOf(l) /\ Size(l)' = Size(l)
      /\ \A j : Place(j)' = Place(j)
      /\ \A n : Last(l, n)' = Last(l, n) /\ FramesTo(l, n)' = FramesTo(l, n)
  BY <1>1, GroupsFixed
<1>4. DOMAIN buffer = Links /\ DOMAIN streamed = Links
  BY DEF StreamInv
<1>5. CASE table[i].link # l
  <2>1. i \notin RowsOf(l)
    BY <1>5 DEF RowsOf
  <2>2. buffer'[l] = buffer[l] /\ streamed'[l] = streamed[l]
    BY <1>4, <1>5 DEF Send
  <2>3. Replayed(l, m)'
    BY <1>1, <1>2, <1>3, <2>1, <2>2 DEF Replayed
  <2>. QED  BY <1>3, <2>3
<1>6. CASE table[i].link = l
  <2>1. table[i].valid
    BY <1>1, <1>6 DEF AllValid, RowsOf
  <2>2. /\ m + 1 \in 0 .. Size(l) /\ i = RowAt(l, m + 1)
        /\ \A j \in RowsOf(l) : j \in replay \ {i} <=> Place(j) > m + 1
    BY <1>1, <1>2, <1>6, SentInOrder
  <2>3. m \in Nat /\ Size(l) \in Nat
    BY <1>2, Places
  <2>4. buffer[l] = Last(l, m) /\ streamed[l] = FramesTo(l, m)
    BY <1>2 DEF Replayed
  <2>. DEFINE longer == Append(Last(l, m), i)
              w == IF Len(longer) > WindowN THEN Tail(longer) ELSE longer
  <2>5. w = Last(l, m + 1) /\ (Len(w) = WindowN <=> m + 1 >= WindowN)
    BY <2>2, <2>3, LastGrows
  <2>6. /\ buffer' = [buffer EXCEPT ![l] = w]
        /\ streamed' = IF Len(w) = WindowN THEN [streamed EXCEPT ![l] = Append(@, w)] ELSE streamed
    BY <1>6, <2>1, <2>4 DEF Send
  <2>. HIDE DEF w
  <2>7. buffer'[l] = Last(l, m + 1)
    BY <1>4, <2>5, <2>6
  <2>8. streamed'[l] = FramesTo(l, m + 1)
    BY <1>4, <2>3, <2>4, <2>5, <2>6, FramesGrow
  <2>9. Replayed(l, m + 1)'
    BY <1>1, <1>3, <2>2, <2>7, <2>8 DEF Replayed
  <2>. QED  BY <1>3, <2>2, <2>9
<1>. QED  BY <1>5, <1>6

LEMMA StreamInvStep ==
  ASSUME Fixed, StreamInv, [Next]_vars
  PROVE  StreamInv'
<1>1. table' = table /\ stride' = stride
  BY FixedStep
<1>2. \A l : WindowsOf(l)' = WindowsOf(l) /\ AllValid(l)' = AllValid(l) /\ RowsOf(l)' = RowsOf(l)
  BY <1>1, GroupsFixed
<1>3. ASSUME UNCHANGED <<replay, buffer, streamed>>,
             pc' \notin {"label", "slice"} => batch' = [l \in Links |-> WindowsOf(l)]
      PROVE  StreamInv'
  <2>1. ASSUME NEW l \in Links, AllValid(l)' PROVE (\E m \in 0 .. Size(l) : Replayed(l, m))'
    <3>1. PICK m \in 0 .. Size(l) : Replayed(l, m)
      BY <1>2, <2>1 DEF StreamInv
    <3>2. Replayed(l, m)' /\ Size(l)' = Size(l)
      BY <1>1, <1>3, <3>1, GroupsFixed DEF Replayed
    <3>. QED  BY <3>1, <3>2
  <2>2. pc' \notin {"label", "slice"} => batch' = [l \in Links |-> WindowsOf(l)']
    BY <1>2, <1>3
  <2>. QED  BY <1>1, <1>3, <2>1, <2>2 DEF StreamInv
<1>4. CASE AddHorizonLabels
  BY <1>3, <1>4 DEF AddHorizonLabels
<1>5. CASE SliceWindows
  BY <1>3, <1>5 DEF SliceWindows
<1>6. CASE Fit \/ Calibrate \/ UNCHANGED vars
  <2>1. UNCHANGED <<replay, buffer, streamed, batch>>
    BY <1>6 DEF Fit, Calibrate, vars
  <2>2. pc' \notin {"label", "slice"} => pc \notin {"label", "slice"}
    BY <1>6 DEF Fit, Calibrate, vars
  <2>. QED  BY <1>3, <2>1, <2>2 DEF StreamInv
<1>7. CASE Replay
  <2>1. PICK i \in replay : Send(i)
    BY <1>7 DEF Replay
  <2>2. /\ DOMAIN buffer' = Links /\ DOMAIN streamed' = Links /\ replay' \subseteq DOMAIN table'
        /\ pc' = pc /\ batch' = batch
    BY <1>1, <2>1 DEF Send, StreamInv
  <2>3. pc' \notin {"label", "slice"} => batch' = [l \in Links |-> WindowsOf(l)']
    BY <1>2, <2>2 DEF StreamInv
  <2>4. ASSUME NEW l \in Links, AllValid(l)' PROVE (\E m \in 0 .. Size(l) : Replayed(l, m))'
    BY <1>2, <2>1, <2>4, SendKeepsGroup
  <2>. QED  BY <2>2, <2>3, <2>4 DEF StreamInv
<1>. QED  BY <1>4, <1>5, <1>6, <1>7 DEF Next

\* The windows of a link, counted by strides, among its frames.
LEMMA StridesFit ==
  ASSUME NEW a \in Nat, NEW s \in Nat \ {0}
  PROVE  /\ \A w \in 1 .. (a \div s) + 1 : (w - 1) * s + 1 \in 1 .. a + 1
         /\ \A n \in 1 .. a + 1 : ((n - 1) \div s) + 1 \in 1 .. (a \div s) + 1
<1>1. a \div s \in Nat /\ a % s \in 0 .. s - 1 /\ a = s * (a \div s) + (a % s)
  BY DivMod
<1>2. ASSUME NEW w \in 1 .. (a \div s) + 1 PROVE (w - 1) * s + 1 \in 1 .. a + 1
  <2>1. w - 1 \in Nat /\ w - 1 <= a \div s
    BY <1>1
  <2>2. (w - 1) * s <= s * (a \div s) /\ (w - 1) * s \in Nat
    BY <1>1, <2>1
  <2>. QED  BY <1>1, <2>2
<1>3. ASSUME NEW n \in 1 .. a + 1 PROVE ((n - 1) \div s) + 1 \in 1 .. (a \div s) + 1
  <2>. DEFINE b == n - 1
              q == b \div s
              t == a \div s
  <2>1. b \in Nat /\ b <= a
    OBVIOUS
  <2>2. q \in Nat /\ b % s \in 0 .. s - 1 /\ b = s * q + (b % s)
    BY <2>1, DivMod
  <2>3. t \in Nat /\ a <= s * t + s - 1
    BY <1>1
  <2>4. s * q <= s * t + s - 1
    <3>. HIDE DEF b, q, t
    <3>. QED  BY <2>1, <2>2, <2>3
  <2>5. ASSUME q >= t + 1 PROVE FALSE
    <3>. HIDE DEF b, q, t
    <3>1. s * q >= s * (t + 1)
      BY <2>2, <2>3, <2>5
    <3>. QED  BY <2>2, <2>3, <2>4, <3>1
  <2>6. q \in 0 .. t
    <3>. HIDE DEF b, q, t
    <3>. QED  BY <2>2, <2>3, <2>5
  <2>. QED  BY <2>6
<1>. QED  BY <1>2, <1>3

\* The batch windows of a link are every stride-th of its frames: for every
\* table, window and stride, and however many rows the link has, unless the
\* service rejects one of them.
THEOREM BatchMatchesStreamHolds == Spec => []BatchMatchesStream
<1>1. Init => StreamInv
  <2>. SUFFICES ASSUME Init PROVE StreamInv
    OBVIOUS
  <2>1. Fixed
    BY DEF Init, Fixed
  <2>2. ASSUME NEW l \in Links PROVE \E m \in 0 .. Size(l) : Replayed(l, m)
    <3>1. 0 \in 0 .. Size(l) /\ (\A i \in RowsOf(l) : Place(i) > 0) /\ RowsOf(l) \subseteq DOMAIN table
      BY <2>1, Places, GroupSorts
    <3>2. \A i \in RowsOf(l) : i \in replay
      BY <3>1 DEF Init
    <3>3. Last(l, 0) = << >> /\ FramesTo(l, 0) = << >>
      <4>1. WindowN \in Nat \ {0}
        BY TrainingAssumption
      <4>. QED  BY <4>1 DEF Last, FramesTo
    <3>4. Replayed(l, 0)
      BY <3>1, <3>2, <3>3 DEF Init, Replayed
    <3>. QED  BY <3>1, <3>4
  <2>. QED  BY <2>2 DEF Init, StreamInv
<1>2. LabelInv /\ StreamInv /\ [Next]_vars => StreamInv'
  BY StreamInvStep DEF LabelInv
<1>3. LabelInv /\ StreamInv => BatchMatchesStream
  <2>. SUFFICES ASSUME Fixed, StreamInv, replay = {}, pc \in {"done", "stopped"},
                       NEW l \in Links, AllValid(l)
                PROVE  /\ \A w \in DOMAIN batch[l] :
                            LET n == (w - 1) * stride + 1 IN
                            /\ n \in DOMAIN streamed[l]
                            /\ batch[l][w].rows = streamed[l][n]
                            /\ batch[l][w].meta = streamed[l][n][WindowN]
                       /\ \A n \in DOMAIN streamed[l] :
                            (n - 1) % stride = 0 => ((n - 1) \div stride) + 1 \in DOMAIN batch[l]
    BY DEF BatchMatchesStream, LabelInv, AllValid
  <2>1. PICK m \in 0 .. Size(l) : Replayed(l, m)
    BY DEF StreamInv
  <2>2. /\ Size(l) \in Nat /\ WindowN \in Nat \ {0} /\ stride \in Nat \ {0}
        /\ \A p \in 1 .. Size(l) : RowAt(l, p) \in RowsOf(l) /\ Place(RowAt(l, p)) = p
    BY Places, TrainingAssumption DEF Fixed
  <2>3. m = Size(l)
    <3>1. ASSUME m < Size(l) PROVE FALSE
      <4>1. m + 1 \in 1 .. Size(l)
        BY <2>2, <3>1
      <4>2. RowAt(l, m + 1) \in replay
        BY <2>1, <2>2, <4>1 DEF Replayed
      <4>. QED  BY <4>2
    <3>. QED  BY <2>2, <3>1
  <2>4. streamed[l] = FramesTo(l, Size(l)) /\ batch[l] = WindowsOf(l)
    BY <2>1, <2>3 DEF Replayed, StreamInv
  <2>5. CASE Size(l) < WindowN
    <3>1. DOMAIN batch[l] = {} /\ DOMAIN streamed[l] = {}
      BY <2>2, <2>4, <2>5 DEF WindowsOf, FramesTo
    <3>. QED  BY <3>1
  <2>6. CASE ~(Size(l) < WindowN)
    <3>. DEFINE a == Size(l) - WindowN
                f(n) == [k \in 1 .. WindowN |-> RowAt(l, n + k - 1)]
    <3>1. a \in Nat
      BY <2>2, <2>6
    <3>2. streamed[l] = [n \in 1 .. a + 1 |-> f(n)]
      BY <2>4, <2>6 DEF FramesTo
    <3>3. batch[l] = [w \in 1 .. (a \div stride) + 1 |-> Window(l, (w - 1) * stride + 1)]
      BY <2>4, <2>6 DEF WindowsOf
    <3>4. \A n : Window(l, n).rows = f(n) /\ Window(l, n).meta = RowAt(l, n + WindowN - 1)
      BY DEF Window, MetaRow
    <3>5. \A n : f(n)[WindowN] = RowAt(l, n + WindowN - 1)
      BY <2>2
    <3>. HIDE DEF a, f
    <3>6. /\ \A w \in 1 .. (a \div stride) + 1 : (w - 1) * stride + 1 \in 1 .. a + 1
          /\ \A n \in 1 .. a + 1 : ((n - 1) \div stride) + 1 \in 1 .. (a \div stride) + 1
      BY <2>2, <3>1, StridesFit
    <3>. QED  BY <3>2, <3>3, <3>4, <3>5, <3>6
  <2>. QED  BY <2>5, <2>6
<1>. QED  BY <1>1, <1>2, <1>3, LabelInvHolds, PTL DEF Spec
=============================================================================
