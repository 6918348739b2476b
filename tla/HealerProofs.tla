---------------------------- MODULE HealerProofs ----------------------------
(***************************************************************************)
(* Proofs about Healer, for every topology, every threshold, every set of  *)
(* event times and any number of handler threads and restarts.             *)
(***************************************************************************)
EXTENDS Healer, TLAPS

\* A handler that has started holds an observation.
HandlersHoldObservations == \A t \in Threads : Busy(t) => obs[t] \in Observations

TypeInv == HealerTypeOK /\ HandlersHoldObservations

LEMMA InitTypeInv == Init => TypeInv
  BY DEF Init, TypeInv, HealerTypeOK, HandlersHoldObservations, Busy

\* The part of a handler's work that every branch of observe shares.
LEMMA JudgeFacts ==
  ASSUME TypeInv, NEW t \in Threads, Judge(t)
  PROVE  /\ obs[t] \in Observations
         /\ Link(t) \in Links
         /\ obs[t].hot \in BOOLEAN
         /\ ConsecutiveAfter(obs[t]) \in Nat
         /\ consecutive' = [consecutive EXCEPT ![Link(t)] = ConsecutiveAfter(obs[t])]
         /\ consecutive' \in [Links -> Nat]
         /\ verdicts' = [verdicts EXCEPT ![Link(t)] = Append(@, obs[t].hot)]
         /\ verdicts' \in [Links -> Seq(BOOLEAN)]
         /\ UNCHANGED <<observations, lastReroute, rerouted, restarts>>
<1>1. obs[t] \in Observations
  BY DEF TypeInv, HandlersHoldObservations, Judge, Busy
<1>2. Link(t) \in Links /\ obs[t].hot \in BOOLEAN
  BY <1>1 DEF Link, Observations
<1>3. consecutive[obs[t].link] \in Nat
  BY <1>2 DEF TypeInv, HealerTypeOK, Link
<1>4. ConsecutiveAfter(obs[t]) \in Nat
  BY <1>3 DEF ConsecutiveAfter
<1>5. consecutive' \in [Links -> Nat]
  BY <1>2, <1>4 DEF Judge, TypeInv, HealerTypeOK
<1>6. verdicts' \in [Links -> Seq(BOOLEAN)]
  BY <1>2 DEF Judge, TypeInv, HealerTypeOK
<1> QED
  BY <1>1, <1>2, <1>4, <1>5, <1>6 DEF Judge

\* What is common to the four branches that return with nothing sent.
LEMMA ReturnFacts ==
  ASSUME NEW t \in Threads, Return(t)
  PROVE  Judge(t) /\ Leave(t) /\ UNCHANGED <<emitted, earlier>>
  BY DEF Return, BelowThreshold, Count, Suppress, NoProtection, Judge

LEMMA ReturnTypeInv ==
  ASSUME TypeInv, NEW t \in Threads, Return(t)
  PROVE  TypeInv'
<1>1. Judge(t) /\ Leave(t) /\ UNCHANGED <<emitted, earlier>>
  BY ReturnFacts
<1>2. /\ consecutive' \in [Links -> Nat]
      /\ verdicts' \in [Links -> Seq(BOOLEAN)]
      /\ UNCHANGED <<observations, lastReroute, rerouted, restarts>>
  BY <1>1, JudgeFacts
<1> QED
  BY <1>1, <1>2 DEF Leave, TypeInv, HealerTypeOK, HandlersHoldObservations, Busy

LEMMA EmitRestTypeInv ==
  ASSUME TypeInv, NEW t \in Threads, EmitRest(t)
  PROVE  TypeInv'
<1>1. Judge(t)
  BY DEF EmitRest
<1>2. emitted' \in Seq([link : Links, now : Int, by : Threads, seen : Nat])
  <2>1. Len(verdicts[Link(t)]) + 1 \in Nat
    BY <1>1, JudgeFacts DEF TypeInv, HealerTypeOK
  <2>2. [link |-> Link(t), now |-> now[t], by |-> t,
         seen |-> Len(verdicts[Link(t)]) + 1]
          \in [link : Links, now : Int, by : Threads, seen : Nat]
    BY <1>1, <2>1, JudgeFacts DEF TypeInv, HealerTypeOK
  <2> QED
    BY <2>2 DEF EmitRest, TypeInv, HealerTypeOK
<1>3. UNCHANGED earlier
  BY <1>1 DEF Judge
<1> QED
  BY <1>1, <1>2, <1>3, JudgeFacts
     DEF EmitRest, TypeInv, HealerTypeOK, HandlersHoldObservations, Busy

\* The elements of a sequence over S are in S.
LEMMA ElementInSet ==
  ASSUME NEW S, NEW s \in Seq(S), NEW i \in DOMAIN s
  PROVE  s[i] \in S
  OBVIOUS

\* What an emission holds.
LEMMA EmittedType ==
  ASSUME TypeInv, NEW i \in DOMAIN emitted
  PROVE  emitted[i].link \in Links /\ emitted[i].now \in Int
<1>1. emitted \in Seq([link : Links, now : Int, by : Threads, seen : Nat])
  BY DEF TypeInv, HealerTypeOK
<1>2. emitted[i] \in [link : Links, now : Int, by : Threads, seen : Nat]
  BY <1>1, ElementInSet
<1> QED
  BY <1>2

\* A restart adds the reroutes of its incarnation to those before it.
LEMMA RestartRemembers ==
  ASSUME TypeInv, Restart
  PROVE  earlier' \in Seq([link : Links, now : Int])
<1> DEFINE own == [i \in DOMAIN emitted |-> Reroute(emitted[i])]
<1>1. /\ emitted \in Seq([link : Links, now : Int, by : Threads, seen : Nat])
      /\ earlier \in Seq([link : Links, now : Int])
      /\ earlier' = earlier \o own
  BY DEF Restart, TypeInv, HealerTypeOK
<1>2. DOMAIN emitted = 1 .. Len(emitted) /\ Len(emitted) \in Nat
  BY <1>1
<1>3. \A i \in DOMAIN emitted : Reroute(emitted[i]) \in [link : Links, now : Int]
  BY EmittedType DEF Reroute
<1>4. own \in [1 .. Len(emitted) -> [link : Links, now : Int]]
  BY <1>2, <1>3
<1>5. own \in Seq([link : Links, now : Int])
  BY <1>2, <1>4
<1> HIDE DEF own
<1> QED
  BY <1>1, <1>5

LEMMA NextTypeInv == TypeInv /\ [Next]_vars => TypeInv'
<1> SUFFICES ASSUME TypeInv, [Next]_vars PROVE TypeInv'
  OBVIOUS
<1> USE DEF TypeInv, HealerTypeOK, HandlersHoldObservations, Busy, linkVars,
            historyVars
<1>1. ASSUME NEW t \in Threads, NEW o \in Observations, Enter(t, o) PROVE TypeInv'
  <2>1. now' \in [Threads -> Int]
    <3>1. NowReadings(o) \subseteq Int
      <4>1. o.ts \in Timestamps
        BY DEF Observations
      <4> QED
        BY <4>1, HealerAssumption DEF NowReadings
    <3> QED
      BY <1>1, <3>1 DEF Enter
  <2>2. observations' \in [Links -> Nat]
    <3>1. o.link \in Links
      BY DEF Observations
    <3>2. observations \in [Links -> Nat]
      OBVIOUS
    <3>3. observations' = [observations EXCEPT ![o.link] = observations[o.link] + 1]
      BY <1>1 DEF Enter
    <3>4. observations[o.link] + 1 \in Nat
      BY <3>1, <3>2
    <3> QED
      BY <3>1, <3>2, <3>3, <3>4, Zenon
  <2>3. /\ phase' \in [Threads -> {"idle", "entered", "rest", "grpc", "finish"}]
        /\ obs' \in [Threads -> Observations \union {None}]
    BY <1>1 DEF Enter
  <2>4. ASSUME NEW u \in Threads, Busy(u)' PROVE obs'[u] \in Observations
    <3>1. CASE u = t
      BY <1>1, <3>1 DEF Enter
    <3>2. CASE u # t
      <4>1. Busy(u) /\ obs'[u] = obs[u]
        BY <1>1, <2>4, <3>2 DEF Enter
      <4> QED
        BY <4>1
    <3> QED
      BY <3>1, <3>2
  <2>5. UNCHANGED <<consecutive, lastReroute, rerouted, verdicts, emitted, earlier, restarts>>
    BY <1>1 DEF Enter
  <2> QED
    BY <2>1, <2>2, <2>3, <2>4, <2>5
<1>2. ASSUME NEW t \in Threads, Return(t) PROVE TypeInv'
  BY <1>2, ReturnTypeInv
<1>3. ASSUME NEW t \in Threads, EmitRest(t) PROVE TypeInv'
  BY <1>3, EmitRestTypeInv
<1>4. ASSUME NEW t \in Threads, RestReturns(t) PROVE TypeInv'
  BY <1>4 DEF RestReturns
<1>5. ASSUME NEW t \in Threads, GrpcReturns(t) PROVE TypeInv'
  BY <1>5 DEF GrpcReturns
<1>6. ASSUME NEW t \in Threads, Finish(t) PROVE TypeInv'
  <2>1. Link(t) \in Links
    BY <1>6 DEF Finish, Link, Observations
  <2> QED
    BY <1>6, <2>1 DEF Finish, Leave, HoldOffFrom
<1>7. CASE Restart
  <2>1. earlier' \in Seq([link : Links, now : Int])
    BY <1>7, RestartRemembers
  <2> QED
    BY <1>7, <2>1 DEF Restart
<1>8. CASE UNCHANGED vars
  BY <1>8 DEF vars, threadVars
<1> QED
  BY <1>1, <1>2, <1>3, <1>4, <1>5, <1>6, <1>7, <1>8 DEF Next, Handle

LEMMA TypeInvHolds == Spec => []TypeInv
  BY InitTypeInv, NextTypeInv, PTL DEF Spec

\* Type correctness of the healer, with no lock around LinkState.
THEOREM TypeCorrect == Spec => []HealerTypeOK
<1>1. TypeInv => HealerTypeOK
  BY DEF TypeInv
<1> QED
  BY <1>1, TypeInvHolds, PTL

-----------------------------------------------------------------------------
(* The counter and the emissions, for any interleaving *)

\* The judged observation extends the link's verdicts by one.
LEMMA JudgeVerdicts ==
  ASSUME TypeInv, NEW t \in Threads, Judge(t), NEW l \in Links
  PROVE  /\ Len(verdicts[l]) \in Nat /\ consecutive[l] \in Nat
         /\ DOMAIN verdicts[l] = 1 .. Len(verdicts[l])
         /\ l # Link(t) => /\ verdicts'[l] = verdicts[l]
                           /\ consecutive'[l] = consecutive[l]
         /\ l = Link(t) => /\ Len(verdicts'[l]) = Len(verdicts[l]) + 1
                           /\ verdicts'[l][Len(verdicts[l]) + 1] = obs[t].hot
                           /\ consecutive'[l] = IF obs[t].hot
                                                  THEN consecutive[l] + 1 ELSE 0
         /\ Len(verdicts'[l]) >= Len(verdicts[l])
         /\ \A k \in DOMAIN verdicts[l] : verdicts'[l][k] = verdicts[l][k]
         /\ DOMAIN verdicts'[l] = 1 .. Len(verdicts'[l])
<1>1. /\ verdicts[l] \in Seq(BOOLEAN) /\ consecutive[l] \in Nat
      /\ verdicts \in [Links -> Seq(BOOLEAN)] /\ consecutive \in [Links -> Nat]
  BY DEF TypeInv, HealerTypeOK
<1>2. /\ verdicts' = [verdicts EXCEPT ![Link(t)] = Append(@, obs[t].hot)]
      /\ consecutive' = [consecutive EXCEPT ![Link(t)] = ConsecutiveAfter(obs[t])]
      /\ Link(t) \in Links /\ obs[t].hot \in BOOLEAN
  BY JudgeFacts
<1>3. CASE l # Link(t)
  BY <1>1, <1>2, <1>3
<1>4. CASE l = Link(t)
  <2>1. verdicts'[l] = Append(verdicts[l], obs[t].hot)
    BY <1>1, <1>2, <1>4
  <2>2. consecutive'[l] = IF obs[t].hot THEN consecutive[l] + 1 ELSE 0
    BY <1>1, <1>2, <1>4 DEF ConsecutiveAfter, Link
  <2> QED
    BY <1>1, <1>2, <1>4, <2>1, <2>2
<1> QED
  BY <1>3, <1>4

\* Every step judges one observation, leaves counters and history alone, or
\* is a restart.
LEMMA StepCases ==
  ASSUME [Next]_vars
  PROVE  \/ UNCHANGED <<consecutive, verdicts, emitted>>
         \/ \E t \in Threads : Return(t) \/ EmitRest(t)
         \/ Restart
  BY DEF Next, Handle, Enter, RestReturns, GrpcReturns, Finish, vars, linkVars,
         historyVars

\* Nothing judged yet, nothing counted.
LEMMA FreshCounterIsHotRun ==
  ASSUME consecutive = [l \in Links |-> 0], verdicts = [l \in Links |-> << >>]
  PROVE  CounterIsHotRun
<1>1. ASSUME NEW l \in Links
      PROVE  consecutive[l] = 0 /\ Len(verdicts[l]) = 0
  OBVIOUS
<1>2. ASSUME NEW l \in Links
      PROVE  /\ consecutive[l] <= Len(verdicts[l])
             /\ \A k \in Len(verdicts[l]) - consecutive[l] + 1 .. Len(verdicts[l]) :
                  verdicts[l][k]
             /\ consecutive[l] < Len(verdicts[l])
                  => ~verdicts[l][Len(verdicts[l]) - consecutive[l]]
  BY <1>1
<1> QED
  BY <1>2, Zenon DEF CounterIsHotRun

LEMMA InitCounterIsHotRun == Init => CounterIsHotRun
  BY FreshCounterIsHotRun DEF Init

LEMMA NextCounterIsHotRun ==
  TypeInv /\ CounterIsHotRun /\ [Next]_vars => CounterIsHotRun'
<1> SUFFICES ASSUME TypeInv, CounterIsHotRun, [Next]_vars PROVE CounterIsHotRun'
  OBVIOUS
<1>1. CASE UNCHANGED <<consecutive, verdicts, emitted>>
  BY <1>1 DEF CounterIsHotRun
<1>2. ASSUME NEW t \in Threads, Return(t) \/ EmitRest(t) PROVE CounterIsHotRun'
  <2>1. Judge(t)
    BY <1>2, ReturnFacts DEF EmitRest
  <2>2. SUFFICES ASSUME NEW l \in Links
                 PROVE  /\ consecutive'[l] <= Len(verdicts'[l])
                        /\ \A k \in Len(verdicts'[l]) - consecutive'[l] + 1
                                    .. Len(verdicts'[l]) : verdicts'[l][k]
                        /\ consecutive'[l] < Len(verdicts'[l])
                             => ~verdicts'[l][Len(verdicts'[l]) - consecutive'[l]]
    BY DEF CounterIsHotRun
  <2>3. /\ consecutive[l] <= Len(verdicts[l])
        /\ \A k \in Len(verdicts[l]) - consecutive[l] + 1 .. Len(verdicts[l]) :
             verdicts[l][k]
        /\ consecutive[l] < Len(verdicts[l])
             => ~verdicts[l][Len(verdicts[l]) - consecutive[l]]
    BY DEF CounterIsHotRun
  <2>4. /\ Len(verdicts[l]) \in Nat /\ consecutive[l] \in Nat
        /\ DOMAIN verdicts[l] = 1 .. Len(verdicts[l])
        /\ \A k \in DOMAIN verdicts[l] : verdicts'[l][k] = verdicts[l][k]
    BY <2>1, JudgeVerdicts
  <2>5. CASE l # Link(t)
    <3>1. verdicts'[l] = verdicts[l] /\ consecutive'[l] = consecutive[l]
      BY <2>1, <2>5, JudgeVerdicts
    <3> QED
      BY <2>3, <3>1
  <2>6. CASE l = Link(t)
    <3> DEFINE n == Len(verdicts[l])
               c == consecutive[l]
    <3>1. /\ Len(verdicts'[l]) = n + 1
          /\ verdicts'[l][n + 1] = obs[t].hot
          /\ consecutive'[l] = IF obs[t].hot THEN c + 1 ELSE 0
      BY <2>1, <2>6, JudgeVerdicts
    <3>2. CASE obs[t].hot
      <4>1. consecutive'[l] = c + 1 /\ c + 1 <= n + 1
        BY <2>3, <2>4, <3>1, <3>2
      <4>2. ASSUME NEW k \in n - c + 1 .. n + 1 PROVE verdicts'[l][k]
        <5>1. CASE k = n + 1
          BY <3>1, <3>2, <5>1, Zenon
        <5>2. CASE k # n + 1
          <6>1. k \in n - c + 1 .. n /\ k \in DOMAIN verdicts[l]
            BY <2>3, <2>4, <5>2
          <6> QED
            BY <2>3, <2>4, <6>1, Zenon
        <5> QED
          BY <5>1, <5>2
      <4>3. ASSUME c + 1 < n + 1 PROVE ~verdicts'[l][n - c]
        <5>1. c < n /\ n - c \in DOMAIN verdicts[l]
          BY <2>3, <2>4, <4>3
        <5> QED
          BY <2>3, <2>4, <5>1, Zenon
      <4>4. (n + 1) - (c + 1) = n - c
        <5>1. n \in Int /\ c \in Int
          BY <2>4
        <5> HIDE DEF n, c
        <5> QED
          BY <5>1
      <4> QED
        BY <2>4, <3>1, <4>1, <4>2, <4>3, <4>4
    <3>3. CASE ~obs[t].hot
      BY <2>4, <3>1, <3>3
    <3> QED
      BY <3>2, <3>3
  <2> QED
    BY <2>5, <2>6
<1>3. CASE Restart
  <2>1. /\ consecutive' = [l \in Links |-> 0]
        /\ verdicts' = [l \in Links |-> << >>]
    BY <1>3 DEF Restart
  <2>2. ASSUME NEW l \in Links
        PROVE  consecutive'[l] = 0 /\ Len(verdicts'[l]) = 0
    BY <2>1
  <2>3. ASSUME NEW l \in Links
        PROVE  /\ consecutive'[l] <= Len(verdicts'[l])
               /\ \A k \in Len(verdicts'[l]) - consecutive'[l] + 1
                           .. Len(verdicts'[l]) : verdicts'[l][k]
               /\ consecutive'[l] < Len(verdicts'[l])
                    => ~verdicts'[l][Len(verdicts'[l]) - consecutive'[l]]
    BY <2>2
  <2> QED
    BY <2>3, Zenon DEF CounterIsHotRun
<1> QED
  BY <1>1, <1>2, <1>3, StepCases

\* No counter update is lost, whatever the threads of the pool interleave.
THEOREM CounterIsHotRunHolds == Spec => []CounterIsHotRun
  BY TypeInvHolds, InitCounterIsHotRun, NextCounterIsHotRun, PTL DEF Spec

LEMMA InitEmissionJustified == Init => EmissionJustified
<1> SUFFICES ASSUME Init PROVE DOMAIN emitted = {}
  BY DEF EmissionJustified
<1> QED
  BY DEF Init

\* The last K of a hot run of at least K are hot; later observations are
\* appended, so they stay where they are.
LEMMA NextEmissionJustified ==
  TypeInv /\ CounterIsHotRun /\ EmissionJustified /\ [Next]_vars
    => EmissionJustified'
<1> SUFFICES ASSUME TypeInv, CounterIsHotRun, EmissionJustified, [Next]_vars
             PROVE  EmissionJustified'
  OBVIOUS
<1>0. emitted \in Seq([link : Links, now : Int, by : Threads, seen : Nat])
  BY DEF TypeInv, HealerTypeOK
<1>1. CASE UNCHANGED <<consecutive, verdicts, emitted>>
  BY <1>1 DEF EmissionJustified
<1>2. ASSUME NEW t \in Threads, Judge(t), NEW i \in DOMAIN emitted,
             NEW k \in 0 .. ConsecutiveWindows - 1
      PROVE  /\ emitted[i].seen - k \in DOMAIN verdicts'[emitted[i].link]
             /\ verdicts'[emitted[i].link][emitted[i].seen - k]
  <2>1. emitted[i].link \in Links
    <3>1. emitted[i] \in [link : Links, now : Int, by : Threads, seen : Nat]
      BY <1>0, ElementInSet
    <3> QED
      BY <3>1
  <2>2. /\ emitted[i].seen - k \in DOMAIN verdicts[emitted[i].link]
        /\ verdicts[emitted[i].link][emitted[i].seen - k]
    BY DEF EmissionJustified
  <2> QED
    BY <1>2, <2>1, <2>2, JudgeVerdicts
<1>3. ASSUME NEW t \in Threads, Return(t) PROVE EmissionJustified'
  <2>1. Judge(t) /\ emitted' = emitted
    BY <1>3, ReturnFacts
  <2> QED
    BY <1>2, <2>1 DEF EmissionJustified
<1>4. ASSUME NEW t \in Threads, EmitRest(t) PROVE EmissionJustified'
  <2> DEFINE n == Len(emitted) + 1
             l == Link(t)
             s == Len(verdicts[l]) + 1
  <2>1. Judge(t) /\ obs[t].hot /\ l \in Links
    BY <1>4, JudgeFacts DEF EmitRest
  <2>2. emitted' = Append(emitted, [link |-> l, now |-> now[t], by |-> t, seen |-> s])
    BY <1>4 DEF EmitRest
  <2>3. /\ DOMAIN emitted' = DOMAIN emitted \union {n}
        /\ \A i \in DOMAIN emitted : emitted'[i] = emitted[i]
        /\ emitted'[n].link = l /\ emitted'[n].seen = s
    BY <1>0, <2>2
  <2>4. /\ Len(verdicts[l]) \in Nat /\ consecutive[l] \in Nat
        /\ DOMAIN verdicts[l] = 1 .. s - 1
        /\ DOMAIN verdicts'[l] = 1 .. s
        /\ verdicts'[l][s]
        /\ \A k \in DOMAIN verdicts[l] : verdicts'[l][k] = verdicts[l][k]
    BY <2>1, JudgeVerdicts
  <2>5. consecutive[l] + 1 >= ConsecutiveWindows
    BY <1>4, <2>1, <2>4, HealerAssumption
       DEF EmitRest, Counting, ConsecutiveAfter, Link
  <2>6. /\ consecutive[l] <= s - 1
        /\ \A k \in s - consecutive[l] .. s - 1 : verdicts[l][k]
    BY <2>1, <2>4 DEF CounterIsHotRun
  <2> HIDE DEF n, l, s
  <2>7. ASSUME NEW k \in 0 .. ConsecutiveWindows - 1
        PROVE  s - k \in DOMAIN verdicts'[l] /\ verdicts'[l][s - k]
    <3>1. s \in Int /\ ConsecutiveWindows \in Nat
      BY <2>4, HealerAssumption DEF s
    <3>2. CASE k = 0
      <4>1. s - k = s /\ s \in 1 .. s
        BY <2>4, <3>1, <3>2 DEF s
      <4> QED
        BY <2>4, <4>1, Zenon
    <3>3. CASE k # 0
      <4>1. s - k \in s - consecutive[l] .. s - 1 /\ s - k \in DOMAIN verdicts[l]
        BY <2>4, <2>5, <2>6, <3>1, <3>3
      <4>2. s - k \in DOMAIN verdicts'[l]
        BY <2>4, <3>1, <4>1
      <4> QED
        BY <2>4, <2>6, <4>1, <4>2, Zenon
    <3> QED
      BY <3>2, <3>3
  <2> QED
    BY <1>2, <2>1, <2>3, <2>7 DEF EmissionJustified
<1>5. CASE Restart
  <2>1. DOMAIN emitted' = {}
    BY <1>5 DEF Restart
  <2> QED
    BY <2>1 DEF EmissionJustified
<1> QED
  BY <1>1, <1>3, <1>4, <1>5, StepCases

\* No reroute is emitted without consecutive_windows hot observations in a
\* row, in the order in which the counter saw them.
THEOREM EmissionJustifiedHolds == Spec => []EmissionJustified
  BY TypeInvHolds, CounterIsHotRunHolds, InitEmissionJustified,
     NextEmissionJustified, PTL DEF Spec

-----------------------------------------------------------------------------
(* The hold-off, when a link has one observation in the healer at a time *)

Egress(t) == phase[t] \in {"rest", "grpc", "finish"}

Alone ==
  \A t, u \in Threads : (Busy(t) /\ Busy(u) /\ Link(t) = Link(u)) => t = u

\* While a thread of the link is in the egress it is the latest emission.
LatestIsInEgress ==
  \A t \in Threads : Egress(t) =>
    \A i \in DOMAIN emitted : emitted[i].link = Link(t) => emitted[i].now <= now[t]

\* When none is, the recorded hold-off is not older than any emission.
HoldOffCoversEmissions ==
  \A i \in DOMAIN emitted :
    LET l == emitted[i].link IN
    (\A t \in Threads : Egress(t) => Link(t) # l)
      => lastReroute[l] # None /\ emitted[i].now <= lastReroute[l]

SerialInv ==
  TypeInv /\ Alone /\ LatestIsInEgress /\ HoldOffCoversEmissions /\ IncarnationHoldsOff

LEMMA SerialNextIsNext == [SerialNext]_vars => [Next]_vars
  BY DEF SerialNext, Next, EnterAlone

LEMMA FreshSerialInv ==
  ASSUME phase = [t \in Threads |-> "idle"], emitted = << >>
  PROVE  Alone /\ LatestIsInEgress /\ HoldOffCoversEmissions /\ IncarnationHoldsOff
<1>1. DOMAIN emitted = {}
  OBVIOUS
<1>2. \A t \in Threads : ~Busy(t)
  BY DEF Busy
<1> QED
  BY <1>1, <1>2
     DEF Alone, LatestIsInEgress, HoldOffCoversEmissions, IncarnationHoldsOff, HeldOff

LEMMA InitSerialInv == Init => SerialInv
  BY InitTypeInv, FreshSerialInv DEF Init, SerialInv

LEMMA EnterAloneSerial ==
  ASSUME SerialInv, NEW t \in Threads, NEW o \in Observations, EnterAlone(t, o)
  PROVE  Alone' /\ LatestIsInEgress' /\ HoldOffCoversEmissions' /\ IncarnationHoldsOff'
<1>1. /\ ~Busy(t)
      /\ \A u \in Threads : Busy(u) => Link(u) # o.link
      /\ phase' = [phase EXCEPT ![t] = "entered"]
      /\ obs' = [obs EXCEPT ![t] = o]
      /\ emitted' = emitted /\ lastReroute' = lastReroute
      /\ \A u \in Threads \ {t} : now'[u] = now[u]
  BY DEF EnterAlone, Enter, historyVars, SerialInv, TypeInv, HealerTypeOK
<1>2. /\ phase \in [Threads -> {"idle", "entered", "rest", "grpc", "finish"}]
      /\ obs \in [Threads -> Observations \union {None}]
  BY DEF SerialInv, TypeInv, HealerTypeOK
<1>3. /\ Link(t)' = o.link /\ Busy(t)' /\ ~Egress(t)' /\ ~Egress(t)
      /\ \A u \in Threads \ {t} : /\ Link(u)' = Link(u)
                                  /\ Busy(u)' <=> Busy(u)
                                  /\ Egress(u)' <=> Egress(u)
  BY <1>1, <1>2 DEF Link, Busy, Egress
<1>4. Alone'
  BY <1>1, <1>3 DEF Alone, SerialInv
<1>5. LatestIsInEgress'
  BY <1>1, <1>3 DEF LatestIsInEgress, SerialInv
<1>6. HoldOffCoversEmissions'
  BY <1>1, <1>3 DEF HoldOffCoversEmissions, SerialInv
<1>7. IncarnationHoldsOff'
  BY <1>1 DEF IncarnationHoldsOff, HeldOff, SerialInv
<1> QED
  BY <1>4, <1>5, <1>6, <1>7

LEMMA ReturnSerial ==
  ASSUME SerialInv, NEW t \in Threads, Return(t)
  PROVE  Alone' /\ LatestIsInEgress' /\ HoldOffCoversEmissions' /\ IncarnationHoldsOff'
<1>1. Judge(t) /\ Leave(t) /\ emitted' = emitted
  BY ReturnFacts
<1>2. lastReroute' = lastReroute /\ phase[t] = "entered"
  BY <1>1 DEF Judge
<1>3. /\ phase \in [Threads -> {"idle", "entered", "rest", "grpc", "finish"}]
      /\ obs \in [Threads -> Observations \union {None}]
      /\ now \in [Threads -> Int]
  BY DEF SerialInv, TypeInv, HealerTypeOK
<1>4. /\ ~Busy(t)' /\ ~Egress(t)' /\ ~Egress(t)
      /\ \A u \in Threads \ {t} : /\ Link(u)' = Link(u)
                                  /\ now'[u] = now[u]
                                  /\ Busy(u)' <=> Busy(u)
                                  /\ Egress(u)' <=> Egress(u)
  BY <1>1, <1>2, <1>3 DEF Leave, Link, Busy, Egress
<1>5. Alone'
  BY <1>4 DEF Alone, SerialInv
<1>6. LatestIsInEgress'
  BY <1>1, <1>4 DEF LatestIsInEgress, SerialInv
<1>7. HoldOffCoversEmissions'
  BY <1>1, <1>2, <1>4 DEF HoldOffCoversEmissions, SerialInv
<1>8. IncarnationHoldsOff'
  BY <1>1 DEF IncarnationHoldsOff, HeldOff, SerialInv
<1> QED
  BY <1>5, <1>6, <1>7, <1>8

\* A call that returns leaves its thread in the egress.
LEMMA CallReturnsSerial ==
  ASSUME SerialInv, NEW t \in Threads, RestReturns(t) \/ GrpcReturns(t)
  PROVE  Alone' /\ LatestIsInEgress' /\ HoldOffCoversEmissions' /\ IncarnationHoldsOff'
<1>1. /\ phase \in [Threads -> {"idle", "entered", "rest", "grpc", "finish"}]
      /\ Egress(t) /\ obs' = obs /\ now' = now
      /\ emitted' = emitted /\ lastReroute' = lastReroute
      /\ \E q \in {"grpc", "finish"} : phase' = [phase EXCEPT ![t] = q]
  BY DEF SerialInv, TypeInv, HealerTypeOK, RestReturns, GrpcReturns, Egress,
         linkVars, historyVars
<1>2. \A u \in Threads : /\ Link(u)' = Link(u)
                         /\ Busy(u)' <=> Busy(u)
                         /\ Egress(u)' <=> Egress(u)
  BY <1>1 DEF Link, Busy, Egress
<1>3. Alone'
  BY <1>2 DEF Alone, SerialInv
<1>4. LatestIsInEgress'
  BY <1>1, <1>2 DEF LatestIsInEgress, SerialInv
<1>5. HoldOffCoversEmissions'
  BY <1>1, <1>2 DEF HoldOffCoversEmissions, SerialInv
<1>6. IncarnationHoldsOff'
  BY <1>1 DEF IncarnationHoldsOff, HeldOff, SerialInv
<1> QED
  BY <1>3, <1>4, <1>5, <1>6

\* The new emission is a hold-off after lastReroute, and so after every
\* earlier emission of its link: the link was alone, so none is in the egress.
LEMMA EmitRestSerial ==
  ASSUME SerialInv, NEW t \in Threads, EmitRest(t)
  PROVE  Alone' /\ LatestIsInEgress' /\ HoldOffCoversEmissions' /\ IncarnationHoldsOff'
<1> DEFINE n == Len(emitted) + 1
           l == Link(t)
<1>1. /\ Judge(t) /\ phase[t] = "entered" /\ ~Suppressed(l, now[t])
      /\ lastReroute' = lastReroute /\ obs' = obs /\ now' = now
      /\ phase' = [phase EXCEPT ![t] = "rest"]
  BY DEF EmitRest, Judge
<1>2. /\ phase \in [Threads -> {"idle", "entered", "rest", "grpc", "finish"}]
      /\ obs \in [Threads -> Observations \union {None}]
      /\ now[t] \in Int
      /\ l \in Links
      /\ lastReroute[l] \in Int \union {None}
      /\ emitted \in Seq([link : Links, now : Int, by : Threads, seen : Nat])
  BY <1>1, JudgeFacts DEF SerialInv, TypeInv, HealerTypeOK
<1>3. emitted' = Append(emitted, [link |-> l, now |-> now[t], by |-> t,
                                  seen |-> Len(verdicts[l]) + 1])
  BY DEF EmitRest
<1>4. /\ DOMAIN emitted = 1 .. n - 1 /\ n \in Nat
      /\ DOMAIN emitted' = 1 .. n
      /\ \A i \in DOMAIN emitted : emitted'[i] = emitted[i]
      /\ emitted'[n].link = l /\ emitted'[n].now = now[t]
  BY <1>2, <1>3
<1>5. /\ Busy(t) /\ Busy(t)' /\ Egress(t)' /\ ~Egress(t)
      /\ \A u \in Threads : Link(u)' = Link(u) /\ (Busy(u)' <=> Busy(u))
      /\ \A u \in Threads \ {t} : Egress(u)' <=> Egress(u)
  BY <1>1, <1>2 DEF Link, Busy, Egress
<1>6. \A u \in Threads : Egress(u) => Busy(u)
  BY DEF Egress, Busy
<1>7. \A u \in Threads : Egress(u) => Link(u) # l
  BY <1>5, <1>6 DEF Alone, SerialInv
<1>8. ASSUME NEW i \in DOMAIN emitted, emitted[i].link = l
      PROVE  now[t] - emitted[i].now >= Hysteresis /\ emitted[i].now <= now[t]
  <2>1. lastReroute[l] # None /\ emitted[i].now <= lastReroute[l]
    BY <1>7, <1>8 DEF HoldOffCoversEmissions, SerialInv
  <2>2. now[t] - lastReroute[l] >= Hysteresis
    BY <1>1, <1>2, <2>1, HealerAssumption DEF Suppressed
  <2> QED
    BY <1>2, <2>1, <2>2, EmittedType, HealerAssumption DEF SerialInv
<1> HIDE DEF n, l
<1>9. Alone'
  BY <1>5 DEF Alone, SerialInv
<1>10. LatestIsInEgress'
  <2> SUFFICES ASSUME NEW u \in Threads, Egress(u)', NEW i \in DOMAIN emitted',
                      emitted'[i].link = Link(u)'
               PROVE  emitted'[i].now <= now'[u]
    BY DEF LatestIsInEgress
  <2>1. CASE u = t
    BY <1>1, <1>2, <1>4, <1>5, <1>8, <2>1 DEF l
  <2>2. CASE u # t
    <3>1. Egress(u) /\ Link(u) # l /\ i \in DOMAIN emitted
      BY <1>4, <1>5, <1>7, <2>2
    <3> QED
      BY <1>1, <1>4, <1>5, <3>1 DEF LatestIsInEgress, SerialInv
  <2> QED
    BY <2>1, <2>2
<1>11. HoldOffCoversEmissions'
  <2> SUFFICES ASSUME NEW i \in DOMAIN emitted',
                      \A u \in Threads : Egress(u)' => Link(u)' # emitted'[i].link
               PROVE  /\ lastReroute'[emitted'[i].link] # None
                      /\ emitted'[i].now <= lastReroute'[emitted'[i].link]
    BY DEF HoldOffCoversEmissions
  <2>1. emitted'[i].link # l
    BY <1>5 DEF l
  <2>2. i \in DOMAIN emitted /\ emitted'[i] = emitted[i]
    BY <1>4, <2>1
  <2>3. \A u \in Threads : Egress(u) => Link(u) # emitted[i].link
    BY <1>5, <2>2
  <2> QED
    BY <1>1, <2>2, <2>3 DEF HoldOffCoversEmissions, SerialInv
<1>12. IncarnationHoldsOff'
  <2> SUFFICES ASSUME NEW i \in DOMAIN emitted', NEW j \in DOMAIN emitted',
                      i < j, emitted'[i].link = emitted'[j].link
               PROVE  emitted'[j].now - emitted'[i].now >= Hysteresis
    BY DEF IncarnationHoldsOff, HeldOff
  <2>1. CASE j = n
    BY <1>4, <1>8, <2>1
  <2>2. CASE j # n
    BY <1>4, <2>2 DEF IncarnationHoldsOff, HeldOff, SerialInv
  <2> QED
    BY <2>1, <2>2
<1> QED
  BY <1>9, <1>10, <1>11, <1>12

\* observe returns: the hold-off it writes is the time of the latest emission.
LEMMA FinishSerial ==
  ASSUME SerialInv, NEW t \in Threads, Finish(t)
  PROVE  Alone' /\ LatestIsInEgress' /\ HoldOffCoversEmissions' /\ IncarnationHoldsOff'
<1> DEFINE l == Link(t)
<1>1. /\ phase[t] = "finish" /\ emitted' = emitted /\ Leave(t)
      /\ lastReroute' = [lastReroute EXCEPT ![l] = now[t]]
  BY DEF Finish, HoldOffFrom, historyVars
<1>2. /\ phase \in [Threads -> {"idle", "entered", "rest", "grpc", "finish"}]
      /\ obs \in [Threads -> Observations \union {None}]
      /\ now \in [Threads -> Int]
      /\ lastReroute \in [Links -> Int \union {None}]
  BY DEF SerialInv, TypeInv, HealerTypeOK
<1>3. l \in Links
  BY <1>1 DEF SerialInv, TypeInv, HandlersHoldObservations, Busy, Link, Observations
<1>4. /\ Busy(t) /\ Egress(t) /\ ~Busy(t)' /\ ~Egress(t)'
      /\ \A u \in Threads \ {t} : /\ Link(u)' = Link(u)
                                  /\ now'[u] = now[u]
                                  /\ Busy(u)' <=> Busy(u)
                                  /\ Egress(u)' <=> Egress(u)
  BY <1>1, <1>2 DEF Leave, Link, Busy, Egress
<1>5. \A u \in Threads : Egress(u) => Busy(u)
  BY DEF Egress, Busy
<1> HIDE DEF l
<1>6. Alone'
  BY <1>4 DEF Alone, SerialInv
<1>7. LatestIsInEgress'
  BY <1>1, <1>4 DEF LatestIsInEgress, SerialInv
<1>8. HoldOffCoversEmissions'
  <2> SUFFICES ASSUME NEW i \in DOMAIN emitted,
                      \A u \in Threads : Egress(u)' => Link(u)' # emitted[i].link
               PROVE  /\ lastReroute'[emitted[i].link] # None
                      /\ emitted[i].now <= lastReroute'[emitted[i].link]
    BY <1>1 DEF HoldOffCoversEmissions
  <2>1. CASE emitted[i].link = l
    <3>1. emitted[i].now <= now[t]
      BY <1>4, <2>1 DEF LatestIsInEgress, SerialInv, l
    <3>2. lastReroute'[l] = now[t] /\ now[t] \in Int
      BY <1>1, <1>2, <1>3
    <3> QED
      BY <2>1, <3>1, <3>2, TopologyAssumption
  <2>2. CASE emitted[i].link # l
    <3>1. \A u \in Threads : Egress(u) => Link(u) # emitted[i].link
      BY <1>4, <2>2 DEF l
    <3>2. lastReroute'[emitted[i].link] = lastReroute[emitted[i].link]
      BY <1>1, <1>2, <2>2, EmittedType DEF SerialInv
    <3> QED
      BY <3>1, <3>2 DEF HoldOffCoversEmissions, SerialInv
  <2> QED
    BY <2>1, <2>2
<1>9. IncarnationHoldsOff'
  BY <1>1 DEF IncarnationHoldsOff, HeldOff, SerialInv
<1> QED
  BY <1>6, <1>7, <1>8, <1>9

LEMMA NextSerialInv == SerialInv /\ [SerialNext]_vars => SerialInv'
<1> SUFFICES ASSUME SerialInv, [SerialNext]_vars PROVE SerialInv'
  OBVIOUS
<1>0. TypeInv'
  BY SerialNextIsNext, NextTypeInv DEF SerialInv
<1>1. ASSUME NEW t \in Threads, NEW o \in Observations, EnterAlone(t, o)
      PROVE  Alone' /\ LatestIsInEgress' /\ HoldOffCoversEmissions' /\ IncarnationHoldsOff'
  BY <1>1, EnterAloneSerial
<1>2. ASSUME NEW t \in Threads, Return(t)
      PROVE  Alone' /\ LatestIsInEgress' /\ HoldOffCoversEmissions' /\ IncarnationHoldsOff'
  BY <1>2, ReturnSerial
<1>3. ASSUME NEW t \in Threads, EmitRest(t)
      PROVE  Alone' /\ LatestIsInEgress' /\ HoldOffCoversEmissions' /\ IncarnationHoldsOff'
  BY <1>3, EmitRestSerial
<1>4. ASSUME NEW t \in Threads, RestReturns(t) \/ GrpcReturns(t)
      PROVE  Alone' /\ LatestIsInEgress' /\ HoldOffCoversEmissions' /\ IncarnationHoldsOff'
  BY <1>4, CallReturnsSerial
<1>5. ASSUME NEW t \in Threads, Finish(t)
      PROVE  Alone' /\ LatestIsInEgress' /\ HoldOffCoversEmissions' /\ IncarnationHoldsOff'
  BY <1>5, FinishSerial
<1>6. CASE Restart
  <2>1. phase' = [t \in Threads |-> "idle"] /\ emitted' = << >>
    BY <1>6 DEF Restart
  <2>2. DOMAIN emitted' = {} /\ \A t \in Threads : ~Busy(t)'
    BY <2>1 DEF Busy
  <2>3. Alone'
    BY <2>2 DEF Alone
  <2>4. LatestIsInEgress'
    BY <2>2 DEF LatestIsInEgress
  <2>5. HoldOffCoversEmissions' /\ IncarnationHoldsOff'
    BY <2>2 DEF HoldOffCoversEmissions, IncarnationHoldsOff, HeldOff
  <2> QED
    BY <1>0, <2>3, <2>4, <2>5 DEF SerialInv
<1>7. CASE UNCHANGED vars
  <2>1. UNCHANGED <<phase, obs, now, emitted, lastReroute>>
    BY <1>7 DEF vars, linkVars, threadVars, historyVars
  <2>2. Alone'
    BY <2>1 DEF SerialInv, Alone, Busy, Link
  <2>3. LatestIsInEgress'
    BY <2>1 DEF SerialInv, LatestIsInEgress, Egress, Link
  <2>4. HoldOffCoversEmissions'
    BY <2>1 DEF SerialInv, HoldOffCoversEmissions, Egress, Link
  <2>5. IncarnationHoldsOff'
    BY <2>1 DEF SerialInv, IncarnationHoldsOff, HeldOff
  <2> QED
    BY <1>0, <2>2, <2>3, <2>4, <2>5 DEF SerialInv
<1> QED
  BY <1>0, <1>1, <1>2, <1>3, <1>4, <1>5, <1>6, <1>7
     DEF SerialNext, Handle, SerialInv

\* The hold-off within a life of the process, for every threshold, every order
\* of event times and every schedule of the pool, as long as no two handlers
\* serve one link at once: two reroutes of a link that one incarnation emits
\* are hysteresis_s of event time apart (Healer.observe).
THEOREM IncarnationHoldsOffWhenSerial == SerialSpec => []IncarnationHoldsOff
<1>1. SerialInv => IncarnationHoldsOff
  BY DEF SerialInv
<1> QED
  BY <1>1, InitSerialInv, NextSerialInv, PTL DEF SerialSpec

\* Nothing was emitted before the first incarnation.
FirstHasNoPast == restarts = 0 => earlier = << >>

LEMMA FirstHasNoPastStep == SerialInv /\ FirstHasNoPast /\ [SerialNext]_vars => FirstHasNoPast'
<1> SUFFICES ASSUME SerialInv, FirstHasNoPast, [SerialNext]_vars PROVE FirstHasNoPast'
  OBVIOUS
<1>1. CASE Restart
  <2>1. restarts \in Nat /\ restarts' = restarts + 1
    BY <1>1 DEF Restart, SerialInv, TypeInv, HealerTypeOK
  <2> QED
    BY <2>1 DEF FirstHasNoPast
<1>2. CASE UNCHANGED <<restarts, earlier>>
  BY <1>2 DEF FirstHasNoPast
<1>3. CASE \E t \in Threads : (\E o \in Observations : EnterAlone(t, o)) \/ Handle(t)
  <2>1. UNCHANGED <<restarts, earlier>>
    BY <1>3 DEF EnterAlone, Enter, Handle, Return, BelowThreshold, Count, Suppress, NoProtection,
       EmitRest, RestReturns, GrpcReturns, Finish, Judge, historyVars
  <2> QED
    BY <1>2, <2>1
<1> QED
  BY <1>1, <1>2, <1>3 DEF SerialNext, vars, historyVars

\* Then what one incarnation emitted is all there is.
LEMMA FirstHoldsOff ==
  ASSUME SerialInv, earlier = << >>
  PROVE  HysteresisHolds
<1> DEFINE own == [i \in DOMAIN emitted |-> Reroute(emitted[i])]
<1>1. DOMAIN emitted = 1 .. Len(emitted) /\ Len(emitted) \in Nat
  BY DEF SerialInv, TypeInv, HealerTypeOK
<1>2. \A i \in DOMAIN emitted : Reroute(emitted[i]) \in [link : Links, now : Int]
  BY EmittedType DEF Reroute, SerialInv
<1>3. own \in Seq([link : Links, now : Int])
  <2>1. own \in [1 .. Len(emitted) -> [link : Links, now : Int]]
    BY <1>1, <1>2
  <2> QED
    BY <1>1, <2>1
<1>4. DOMAIN own = DOMAIN emitted /\ \A i \in DOMAIN own : own[i] = Reroute(emitted[i])
  OBVIOUS
<1> HIDE DEF own
<1>5. earlier \o own = own
  BY <1>3
<1>6. HeldOff(own)
  BY <1>4 DEF HeldOff, Reroute, SerialInv, IncarnationHoldsOff
<1> QED
  BY <1>5, <1>6 DEF HysteresisHolds, own

\* Until the process dies for the first time, that is the hold-off of README
\* section 7: all reroutes of a link are hysteresis_s apart.
THEOREM HysteresisHoldsInFirstLife == SerialSpec => [](restarts = 0 => HysteresisHolds)
<1>1. Init => FirstHasNoPast
  BY DEF Init, FirstHasNoPast
<1>2. SerialInv /\ FirstHasNoPast => (restarts = 0 => HysteresisHolds)
  BY FirstHoldsOff DEF FirstHasNoPast
<1> QED
  BY <1>1, <1>2, FirstHasNoPastStep, InitSerialInv, NextSerialInv, PTL DEF SerialSpec

-----------------------------------------------------------------------------
(* The emissions and what they leave behind, for any interleaving *)

\* A thread that is in the egress, or back from it, has its emission on record.
EgressHasEmitted ==
  \A t \in Threads : Egress(t) =>
    \E i \in DOMAIN emitted : emitted[i].link = Link(t) /\ emitted[i].now = now[t]

\* EmissionsAreRecorded, link by link and without the set of emitting threads.
RecordedFor(l) ==
  /\ rerouted[l] <=> lastReroute[l] # None
  /\ rerouted[l] => \E i \in DOMAIN emitted :
                      emitted[i].link = l /\ emitted[i].now = lastReroute[l]
  /\ (\E i \in DOMAIN emitted : emitted[i].link = l)
       => rerouted[l] \/ \E t \in Threads : Egress(t) /\ Link(t) = l

RecordInv == TypeInv /\ EgressHasEmitted /\ \A l \in Links : RecordedFor(l)

LEMMA RecordInvImplies == RecordInv => EmissionsAreRecorded
<1> SUFFICES ASSUME RecordInv, NEW l \in Links
             PROVE  LET ofLink == {i \in DOMAIN emitted : emitted[i].link = l} IN
                    /\ rerouted[l] <=> lastReroute[l] # None
                    /\ rerouted[l] => \E i \in ofLink : emitted[i].now = lastReroute[l]
                    /\ Emitting(l) = {} => (rerouted[l] <=> ofLink # {})
  BY DEF EmissionsAreRecorded
<1>1. RecordedFor(l)
  BY DEF RecordInv
<1>2. Emitting(l) = {} <=> ~\E t \in Threads : Egress(t) /\ Link(t) = l
  BY DEF Emitting, Egress
<1> QED
  BY <1>1, <1>2 DEF RecordedFor

\* Nothing emitted, nothing recorded.
LEMMA FreshRecord ==
  ASSUME DOMAIN emitted = {}, \A t \in Threads : ~Egress(t),
         \A l \in Links : lastReroute[l] = None /\ rerouted[l] = FALSE
  PROVE  EgressHasEmitted /\ \A l \in Links : RecordedFor(l)
  BY DEF EgressHasEmitted, RecordedFor

LEMMA InitRecordInv == Init => RecordInv
<1> SUFFICES ASSUME Init PROVE RecordInv
  OBVIOUS
<1>1. /\ DOMAIN emitted = {} /\ \A t \in Threads : ~Egress(t)
      /\ \A l \in Links : lastReroute[l] = None /\ rerouted[l] = FALSE
  BY DEF Init, Egress
<1> QED
  BY <1>1, FreshRecord, InitTypeInv DEF RecordInv

\* A step outside the egress: what the threads in it hold and what is on
\* record stay as they are.
LEMMA QuietRecord ==
  ASSUME RecordInv, UNCHANGED <<emitted, lastReroute, rerouted>>,
         \A u \in Threads : /\ Egress(u)' <=> Egress(u)
                            /\ Egress(u) => Link(u)' = Link(u) /\ now'[u] = now[u]
  PROVE  EgressHasEmitted' /\ \A l \in Links : RecordedFor(l)'
<1>1. EgressHasEmitted'
  BY DEF RecordInv, EgressHasEmitted
<1>2. ASSUME NEW l \in Links PROVE RecordedFor(l)'
  <2>1. RecordedFor(l)
    BY DEF RecordInv
  <2> QED
    BY <2>1 DEF RecordedFor
<1> QED
  BY <1>1, <1>2

LEMMA EmitRestRecord ==
  ASSUME RecordInv, NEW t \in Threads, EmitRest(t)
  PROVE  EgressHasEmitted' /\ \A l \in Links : RecordedFor(l)'
<1> DEFINE n == Len(emitted) + 1
<1>1. /\ Judge(t) /\ obs' = obs /\ now' = now
      /\ phase[t] = "entered" /\ phase' = [phase EXCEPT ![t] = "rest"]
      /\ lastReroute' = lastReroute /\ rerouted' = rerouted
  BY DEF EmitRest, Judge
<1>2. /\ phase \in [Threads -> {"idle", "entered", "rest", "grpc", "finish"}]
      /\ emitted \in Seq([link : Links, now : Int, by : Threads, seen : Nat])
  BY DEF RecordInv, TypeInv, HealerTypeOK
<1>3. emitted' = Append(emitted, [link |-> Link(t), now |-> now[t], by |-> t,
                                  seen |-> Len(verdicts[Link(t)]) + 1])
  BY DEF EmitRest
<1>4. /\ DOMAIN emitted = 1 .. n - 1 /\ n \in Nat \ {0}
      /\ DOMAIN emitted' = 1 .. n
      /\ \A i \in DOMAIN emitted : emitted'[i] = emitted[i]
      /\ emitted'[n].link = Link(t) /\ emitted'[n].now = now[t]
  BY <1>2, <1>3
<1>5. /\ Egress(t)' /\ \A u \in Threads : Link(u)' = Link(u)
      /\ \A u \in Threads \ {t} : Egress(u)' <=> Egress(u)
      /\ ~Egress(t)
  BY <1>1, <1>2 DEF Link, Egress
<1> HIDE DEF n
<1>6. EgressHasEmitted'
  <2> SUFFICES ASSUME NEW u \in Threads, Egress(u)'
               PROVE  \E i \in DOMAIN emitted' :
                        emitted'[i].link = Link(u)' /\ emitted'[i].now = now'[u]
    BY DEF EgressHasEmitted
  <2>1. CASE u = t
    BY <1>1, <1>4, <1>5, <2>1
  <2>2. CASE u # t
    <3>1. PICK i \in DOMAIN emitted : emitted[i].link = Link(u) /\ emitted[i].now = now[u]
      BY <1>5, <2>2 DEF RecordInv, EgressHasEmitted
    <3> QED
      BY <1>1, <1>4, <1>5, <3>1
  <2> QED
    BY <2>1, <2>2
<1>7. ASSUME NEW l \in Links PROVE RecordedFor(l)'
  <2>1. RecordedFor(l)
    BY DEF RecordInv
  <2>2. rerouted[l] => \E i \in DOMAIN emitted' :
                         emitted'[i].link = l /\ emitted'[i].now = lastReroute[l]
    BY <1>4, <2>1 DEF RecordedFor
  <2>3. (\E i \in DOMAIN emitted' : emitted'[i].link = l)
          => rerouted[l] \/ \E u \in Threads : Egress(u)' /\ Link(u)' = l
    <3>1. CASE l = Link(t)
      BY <1>5, <3>1
    <3>2. CASE l # Link(t)
      BY <1>4, <1>5, <2>1, <3>2 DEF RecordedFor
    <3> QED
      BY <3>1, <3>2
  <2> QED
    BY <1>1, <2>1, <2>2, <2>3 DEF RecordedFor
<1> QED
  BY <1>6, <1>7

\* The thread that ends leaves the time of its own emission behind.
LEMMA FinishRecord ==
  ASSUME RecordInv, NEW t \in Threads, Finish(t)
  PROVE  EgressHasEmitted' /\ \A l \in Links : RecordedFor(l)'
<1> DEFINE m == Link(t)
<1>1. /\ phase[t] = "finish" /\ emitted' = emitted /\ Leave(t)
      /\ lastReroute' = [lastReroute EXCEPT ![m] = now[t]]
      /\ rerouted' = [rerouted EXCEPT ![m] = TRUE]
  BY DEF Finish, HoldOffFrom, historyVars
<1>2. /\ phase \in [Threads -> {"idle", "entered", "rest", "grpc", "finish"}]
      /\ obs \in [Threads -> Observations \union {None}]
      /\ now \in [Threads -> Int]
      /\ lastReroute \in [Links -> Int \union {None}]
      /\ rerouted \in [Links -> BOOLEAN]
  BY DEF RecordInv, TypeInv, HealerTypeOK
<1>3. m \in Links
  BY <1>1 DEF RecordInv, TypeInv, HandlersHoldObservations, Busy, Link, Observations
<1>4. /\ Egress(t) /\ ~Egress(t)'
      /\ \A u \in Threads \ {t} : /\ Link(u)' = Link(u) /\ now'[u] = now[u]
                                  /\ Egress(u)' <=> Egress(u)
  BY <1>1, <1>2 DEF Leave, Link, Egress
<1>5. EgressHasEmitted'
  BY <1>1, <1>4 DEF RecordInv, EgressHasEmitted
<1>6. PICK k \in DOMAIN emitted : emitted[k].link = m /\ emitted[k].now = now[t]
  BY <1>4 DEF RecordInv, EgressHasEmitted
<1> HIDE DEF m
<1>7. ASSUME NEW l \in Links PROVE RecordedFor(l)'
  <2>1. RecordedFor(l)
    BY DEF RecordInv
  <2>2. CASE l = m
    <3>1. lastReroute'[l] = now[t] /\ rerouted'[l] = TRUE /\ now[t] \in Int
      BY <1>1, <1>2, <2>2
    <3>2. now[t] # None
      BY <3>1, TopologyAssumption
    <3> QED
      BY <1>1, <1>6, <2>2, <3>1, <3>2 DEF RecordedFor
  <2>3. CASE l # m
    <3>1. lastReroute'[l] = lastReroute[l] /\ rerouted'[l] = rerouted[l]
      BY <1>1, <1>2, <2>3
    <3>2. (\E u \in Threads : Egress(u) /\ Link(u) = l)
            => \E u \in Threads : Egress(u)' /\ Link(u)' = l
      BY <1>4, <2>3 DEF m
    <3> QED
      BY <1>1, <2>1, <3>1, <3>2 DEF RecordedFor
  <2> QED
    BY <2>2, <2>3
<1> QED
  BY <1>5, <1>7

LEMMA NextRecordInv == RecordInv /\ [Next]_vars => RecordInv'
<1> SUFFICES ASSUME RecordInv, [Next]_vars PROVE RecordInv'
  OBVIOUS
<1> DEFINE Recorded == EgressHasEmitted /\ \A l \in Links : RecordedFor(l)
<1>0. TypeInv'
  BY NextTypeInv DEF RecordInv
<1>a. /\ phase \in [Threads -> {"idle", "entered", "rest", "grpc", "finish"}]
      /\ obs \in [Threads -> Observations \union {None}]
      /\ now \in [Threads -> Int]
  BY DEF RecordInv, TypeInv, HealerTypeOK
<1>1. ASSUME NEW t \in Threads, NEW o \in Observations, Enter(t, o) PROVE Recorded'
  <2>1. /\ phase[t] = "idle" /\ phase' = [phase EXCEPT ![t] = "entered"]
        /\ obs' = [obs EXCEPT ![t] = o]
        /\ UNCHANGED <<emitted, lastReroute, rerouted>>
        /\ \A u \in Threads \ {t} : now'[u] = now[u]
    BY <1>1, <1>a DEF Enter, Busy, historyVars
  <2> QED
    BY <1>a, <2>1, QuietRecord DEF Egress, Link
<1>2. ASSUME NEW t \in Threads, Return(t) PROVE Recorded'
  <2>1. /\ phase[t] = "entered" /\ Leave(t)
        /\ UNCHANGED <<emitted, lastReroute, rerouted>>
    BY <1>2, ReturnFacts DEF Judge
  <2> QED
    BY <1>a, <2>1, QuietRecord DEF Leave, Egress, Link
<1>3. ASSUME NEW t \in Threads, EmitRest(t) PROVE Recorded'
  BY <1>3, EmitRestRecord
<1>4. ASSUME NEW t \in Threads, RestReturns(t) \/ GrpcReturns(t) PROVE Recorded'
  <2>1. /\ Egress(t) /\ UNCHANGED <<obs, now, emitted, lastReroute, rerouted>>
        /\ \E q \in {"grpc", "finish"} : phase' = [phase EXCEPT ![t] = q]
    BY <1>4 DEF RestReturns, GrpcReturns, Egress, linkVars, historyVars
  <2> QED
    BY <1>a, <2>1, QuietRecord DEF Egress, Link
<1>5. ASSUME NEW t \in Threads, Finish(t) PROVE Recorded'
  BY <1>5, FinishRecord
<1>6. ASSUME Restart PROVE Recorded'
  <2>1. /\ DOMAIN emitted' = {} /\ \A t \in Threads : ~Egress(t)'
        /\ \A l \in Links : lastReroute'[l] = None /\ rerouted'[l] = FALSE
    BY <1>6 DEF Restart, Egress
  <2> QED
    BY <2>1 DEF EgressHasEmitted, RecordedFor
<1>7. ASSUME UNCHANGED vars PROVE Recorded'
  BY <1>7, QuietRecord DEF vars, linkVars, threadVars, historyVars, Egress, Link
<1> QED
  BY <1>0, <1>1, <1>2, <1>3, <1>4, <1>5, <1>6, <1>7 DEF Next, Handle, RecordInv

\* Overlapping handlers of one link may shorten each other's hold-off, but
\* none of them loses an emission: once the egress is empty the link state
\* says whether, and at the time of which emission, the link was rerouted.
THEOREM EmissionsAreRecordedHolds == Spec => []EmissionsAreRecorded
  BY InitRecordInv, NextRecordInv, RecordInvImplies, PTL DEF Spec
=============================================================================
