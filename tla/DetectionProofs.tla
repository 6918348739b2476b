-------------------------- MODULE DetectionProofs --------------------------
(***************************************************************************)
(* Proofs about Detection, for any number of connections, POSTs, handler   *)
(* threads and restarts, and for every threshold and order of event times. *)
(***************************************************************************)
EXTENDS Detection, FiniteSetTheorems, TLAPS

HP == INSTANCE HealerProofs

\* What the proofs need to know of the shape of the state.
ShapeOK ==
  /\ phase \in [Threads -> {"idle", "entered", "rest", "grpc", "finish"}]
  /\ obs \in [Threads -> Observations \union {None}]
  /\ verdicts \in [Links -> Seq(BOOLEAN)]
  /\ scored \in Seq(Observations)
  /\ wire \in SUBSET (DOMAIN scored)
  /\ handles \in [Threads -> Nat]

\* A thread of the healer handles a POST of its own, which holds what was
\* scored: a POST is on the wire or with one thread, and never with two.
PostsHandledOnce ==
  \A t \in Threads :
    /\ H!Busy(t) => /\ handles[t] \in DOMAIN scored
                    /\ obs[t] = scored[handles[t]]
                    /\ handles[t] \notin wire
                    /\ \A u \in Threads :
                         (H!Busy(u) /\ handles[u] = handles[t]) => u = t
    /\ ~H!Busy(t) => handles[t] = 0

PostInv == ShapeOK /\ PostsHandledOnce

\* The steps that leave the healer and the scored windows alone.
Quiet ==
  /\ UNCHANGED <<phase, obs, verdicts, scored, handles>>
  /\ wire' \subseteq wire

\* The steps that leave the healer's threads where they are, as Judge sees
\* them, and those that judge a window.
LEMMA StepCases ==
  ASSUME [Next]_vars
  PROVE  \/ Quiet
         \/ \E c \in Conns : Post(c)
         \/ \E t \in Threads, m \in wire : Deliver(t, m)
         \/ \E t \in Threads : Egress(t) \/ Answer(t)
         \/ HealerRestart
<1>1. ASSUME NEW c \in Conns, Ingest(c) PROVE Quiet
  BY <1>1 DEF Ingest, Quiet, I!Connect, I!SendLine, I!Hangup, I!counterVars,
              healerVars, postVars
<1>2. ASSUME NEW c \in Conns, Read(c) PROVE Quiet
  BY <1>2 DEF Read, Quiet, I!DropBad, I!StartScoring, I!ScoreFails, I!EndTask,
              I!counterVars, healerVars, postVars
<1>3. ASSUME NEW c \in Conns, PostReturns(c) \/ PostFails(c) PROVE Quiet
  BY <1>3 DEF PostReturns, PostFails, StopWaiting, Quiet, I!PostEnds, healerVars
<1>4. ASSUME NEW m \in wire, Lose(m) PROVE Quiet
  BY <1>4 DEF Lose, Quiet, healerVars, inferVars
<1>5. ASSUME InferRestart PROVE Quiet
  BY <1>5 DEF InferRestart, Quiet, I!Restart, healerVars
<1>6. ASSUME UNCHANGED vars PROVE Quiet
  BY <1>6 DEF vars, healerVars, inferVars, postVars, Quiet
<1> QED
  BY <1>1, <1>2, <1>3, <1>4, <1>5, <1>6 DEF Next, Task

-----------------------------------------------------------------------------
(* POSTs and the threads that handle them *)

\* What a thread does that judges its window, and what one does that does not.
LEMMA JudgeFacts ==
  ASSUME PostInv, NEW t \in Threads, H!Judge(t)
  PROVE  /\ H!Busy(t) /\ obs[t] \in Observations /\ obs[t].link \in Links
         /\ verdicts' = [verdicts EXCEPT ![obs[t].link] = Append(@, obs[t].hot)]
<1>1. H!Busy(t)
  BY DEF H!Judge, H!Busy
<1>2. obs[t] \in Observations
  BY <1>1 DEF PostInv, PostsHandledOnce, ShapeOK
<1> QED
  BY <1>1, <1>2 DEF H!Judge, H!Link, Observations, H!Observations

LEMMA VerdictsType ==
  ASSUME PostInv, NEW t \in Threads, H!Judge(t)
  PROVE  verdicts' \in [Links -> Seq(BOOLEAN)]
<1>1. obs[t].hot \in BOOLEAN /\ obs[t].link \in Links
  BY JudgeFacts DEF Observations, H!Observations
<1>2. verdicts \in [Links -> Seq(BOOLEAN)]
  BY DEF PostInv, ShapeOK
<1>3. Append(verdicts[obs[t].link], obs[t].hot) \in Seq(BOOLEAN)
  BY <1>1, <1>2
<1>4. verdicts' = [verdicts EXCEPT ![obs[t].link] = Append(@, obs[t].hot)]
  BY JudgeFacts
<1> QED
  BY <1>1, <1>2, <1>3, <1>4

LEMMA AnswerFacts ==
  ASSUME PostInv, NEW t \in Threads, Answer(t)
  PROVE  /\ H!Busy(t)
         /\ phase' = [phase EXCEPT ![t] = "idle"]
         /\ obs' = [obs EXCEPT ![t] = None]
         /\ handles' = [handles EXCEPT ![t] = 0]
         /\ (verdicts' = verdicts /\ phase[t] = "finish") \/ H!Judge(t)
         /\ UNCHANGED <<scored, wire, awaits, task>>
         /\ answered' = answered \union ({handles[t]} \intersect Range(awaits))
  BY DEF Answer, inferVars, H!Return, H!BelowThreshold, H!Count, H!Suppress,
         H!NoProtection, H!Finish, H!Leave, H!Judge, H!Busy, H!historyVars

LEMMA EgressFacts ==
  ASSUME PostInv, NEW t \in Threads, Egress(t)
  PROVE  /\ H!Busy(t)
         /\ \E q \in {"rest", "grpc", "finish"} : phase' = [phase EXCEPT ![t] = q]
         /\ obs' = obs
         /\ (verdicts' = verdicts /\ phase[t] \in {"rest", "grpc"}) \/ H!Judge(t)
         /\ UNCHANGED <<scored, wire, handles, awaits, task, answered>>
  BY DEF Egress, inferVars, postVars, H!EmitRest, H!RestReturns, H!GrpcReturns,
         H!Judge, H!Busy, H!historyVars

LEMMA DeliverFacts ==
  ASSUME NEW t \in Threads, NEW m \in wire, Deliver(t, m)
  PROVE  /\ ~H!Busy(t) /\ H!Enter(t, scored[m])
         /\ phase' = [phase EXCEPT ![t] = "entered"]
         /\ obs' = [obs EXCEPT ![t] = scored[m]]
         /\ handles' = [handles EXCEPT ![t] = m]
         /\ wire' = wire \ {m}
         /\ UNCHANGED <<verdicts, scored, awaits, task, answered>>
  BY DEF Deliver, inferVars, H!Enter, H!historyVars

LEMMA PostFacts ==
  ASSUME PostInv, NEW c \in Conns, Post(c)
  PROVE  /\ Len(scored) \in Nat
         /\ DOMAIN scored = 1 .. Len(scored)
         /\ DOMAIN scored' = 1 .. Len(scored) + 1
         /\ \A i \in DOMAIN scored : scored'[i] = scored[i]
         /\ scored' \in Seq(Observations)
         /\ wire' = wire \union {Len(scored) + 1}
         /\ awaits' = [awaits EXCEPT ![c] = Len(scored) + 1]
         /\ task[c] = "scoring" /\ task' = [task EXCEPT ![c] = "posting"]
         /\ UNCHANGED <<phase, obs, verdicts, handles, answered>>
<1>1. scored \in Seq(Observations) /\ line[c] \in Observations
  BY DEF PostInv, ShapeOK, Post, I!Scored
<1>2. scored' = Append(scored, line[c])
  BY DEF Post, I!Scored
<1>3. Len(scored') = Len(scored) + 1
  BY <1>1, <1>2
<1> QED
  BY <1>1, <1>2, <1>3 DEF Post, I!Scored, healerVars

LEMMA RestartFacts ==
  ASSUME HealerRestart
  PROVE  /\ phase' = [t \in Threads |-> "idle"]
         /\ obs' = [t \in Threads |-> None]
         /\ handles' = [t \in Threads |-> 0]
         /\ verdicts' = [l \in Links |-> << >>]
         /\ answered' = {}
         /\ UNCHANGED <<scored, wire, awaits, task>>
  BY DEF HealerRestart, H!Restart, inferVars

LEMMA InitPostInv == Init => PostInv
  BY DEF Init, H!Init, I!Init, PostInv, ShapeOK, PostsHandledOnce, H!Busy

LEMMA NextPostInv == PostInv /\ [Next]_vars => PostInv'
<1> SUFFICES ASSUME PostInv, [Next]_vars PROVE PostInv'
  OBVIOUS
<1>0. /\ phase \in [Threads -> {"idle", "entered", "rest", "grpc", "finish"}]
      /\ obs \in [Threads -> Observations \union {None}]
      /\ handles \in [Threads -> Nat]
      /\ scored \in Seq(Observations)
      /\ wire \in SUBSET (DOMAIN scored)
      /\ verdicts \in [Links -> Seq(BOOLEAN)]
  BY DEF PostInv, ShapeOK
<1>1. CASE Quiet
  BY <1>1 DEF Quiet, PostInv, ShapeOK, PostsHandledOnce, H!Busy
<1>2. ASSUME NEW c \in Conns, Post(c) PROVE PostInv'
  <2>1. /\ Len(scored) \in Nat /\ DOMAIN scored = 1 .. Len(scored)
        /\ DOMAIN scored' = 1 .. Len(scored) + 1
        /\ \A i \in DOMAIN scored : scored'[i] = scored[i]
        /\ scored' \in Seq(Observations)
        /\ wire' = wire \union {Len(scored) + 1}
        /\ UNCHANGED <<phase, obs, verdicts, handles>>
    BY <1>2, PostFacts
  <2>2. wire' \in SUBSET (DOMAIN scored')
    BY <1>0, <2>1
  <2>3. PostsHandledOnce'
    BY <1>0, <2>1 DEF PostInv, PostsHandledOnce, H!Busy
  <2> QED
    BY <1>0, <2>1, <2>2, <2>3 DEF PostInv, ShapeOK
<1>3. ASSUME NEW t \in Threads, NEW m \in wire, Deliver(t, m) PROVE PostInv'
  <2>1. /\ ~H!Busy(t) /\ phase' = [phase EXCEPT ![t] = "entered"]
        /\ obs' = [obs EXCEPT ![t] = scored[m]]
        /\ handles' = [handles EXCEPT ![t] = m]
        /\ wire' = wire \ {m} /\ UNCHANGED <<verdicts, scored>>
    BY <1>3, DeliverFacts
  <2>2. m \in DOMAIN scored /\ m \in Nat /\ scored[m] \in Observations
    BY <1>0
  <2>3. ShapeOK'
    BY <1>0, <2>1, <2>2 DEF ShapeOK
  <2>4. /\ H!Busy(t)' /\ handles'[t] = m /\ obs'[t] = scored[m] /\ m \notin wire'
        /\ \A u \in Threads \ {t} : /\ H!Busy(u)' <=> H!Busy(u)
                                    /\ handles'[u] = handles[u] /\ obs'[u] = obs[u]
    BY <1>0, <2>1 DEF H!Busy
  <2>5. \A u \in Threads : H!Busy(u) => handles[u] # m
    BY DEF PostInv, PostsHandledOnce
  <2>6. PostsHandledOnce'
    BY <2>1, <2>2, <2>4, <2>5 DEF PostInv, PostsHandledOnce
  <2> QED
    BY <2>3, <2>6 DEF PostInv
<1>4. ASSUME NEW t \in Threads, Egress(t) PROVE PostInv'
  <2>1. /\ H!Busy(t) /\ UNCHANGED <<obs, scored, wire, handles>>
        /\ \E q \in {"rest", "grpc", "finish"} : phase' = [phase EXCEPT ![t] = q]
        /\ verdicts' = verdicts \/ H!Judge(t)
    BY <1>4, EgressFacts
  <2>2. verdicts' \in [Links -> Seq(BOOLEAN)]
    BY <1>0, <2>1, VerdictsType
  <2>3. ShapeOK' /\ \A u \in Threads : H!Busy(u)' <=> H!Busy(u)
    BY <1>0, <2>1, <2>2 DEF ShapeOK, H!Busy
  <2> QED
    BY <2>1, <2>3 DEF PostInv, PostsHandledOnce
<1>5. ASSUME NEW t \in Threads, Answer(t) PROVE PostInv'
  <2>1. /\ H!Busy(t) /\ phase' = [phase EXCEPT ![t] = "idle"]
        /\ obs' = [obs EXCEPT ![t] = None] /\ handles' = [handles EXCEPT ![t] = 0]
        /\ UNCHANGED <<scored, wire>> /\ (verdicts' = verdicts \/ H!Judge(t))
    BY <1>5, AnswerFacts
  <2>2. verdicts' \in [Links -> Seq(BOOLEAN)]
    BY <1>0, <2>1, VerdictsType
  <2>3. ShapeOK'
    BY <1>0, <2>1, <2>2 DEF ShapeOK
  <2>4. /\ ~H!Busy(t)' /\ handles'[t] = 0
        /\ \A u \in Threads \ {t} : /\ H!Busy(u)' <=> H!Busy(u)
                                    /\ handles'[u] = handles[u] /\ obs'[u] = obs[u]
    BY <1>0, <2>1 DEF H!Busy
  <2>5. PostsHandledOnce'
    BY <2>1, <2>4 DEF PostInv, PostsHandledOnce
  <2> QED
    BY <2>3, <2>5 DEF PostInv
<1>6. CASE HealerRestart
  <2>0. verdicts' \in [Links -> Seq(BOOLEAN)]
    <3>1. verdicts' = [l \in Links |-> << >>]
      BY <1>6, RestartFacts
    <3>2. << >> \in Seq(BOOLEAN)
      OBVIOUS
    <3> QED
      BY <3>1, <3>2
  <2>1. ShapeOK'
    BY <1>0, <1>6, <2>0, RestartFacts DEF ShapeOK
  <2>2. PostsHandledOnce'
    BY <1>6, RestartFacts DEF PostsHandledOnce, H!Busy
  <2> QED
    BY <2>1, <2>2 DEF PostInv
<1> QED
  BY <1>1, <1>2, <1>3, <1>4, <1>5, <1>6, StepCases

LEMMA PostInvHolds == Spec => []PostInv
  BY InitPostInv, NextPostInv, PTL DEF Spec

-----------------------------------------------------------------------------
(* Every window counts at most once *)

\* POSTs whose window the healer has yet to judge, and the hot ones of link l.
Entered == {t \in Threads : phase[t] = "entered"}
Ahead == wire \union {handles[t] : t \in Entered}
HotAhead(l) == {m \in Ahead : scored[m].link = l /\ scored[m].hot}

CountInv ==
  /\ PostInv
  /\ \A l \in Links :
       Cardinality(HotJudged(l)) + Cardinality(HotAhead(l)) <= Cardinality(HotScored(l))

LEMMA HotFinite ==
  ASSUME PostInv, NEW l \in Links
  PROVE  /\ IsFiniteSet(HotJudged(l)) /\ Cardinality(HotJudged(l)) \in Nat
         /\ IsFiniteSet(HotScored(l)) /\ Cardinality(HotScored(l)) \in Nat
         /\ IsFiniteSet(HotAhead(l)) /\ Cardinality(HotAhead(l)) \in Nat
         /\ HotAhead(l) \subseteq HotScored(l)
<1>1. scored \in Seq(Observations) /\ verdicts[l] \in Seq(BOOLEAN)
  BY DEF PostInv, ShapeOK
<1>2. /\ Len(scored) \in Nat /\ DOMAIN scored = 1 .. Len(scored)
      /\ Len(verdicts[l]) \in Nat /\ DOMAIN verdicts[l] = 1 .. Len(verdicts[l])
  BY <1>1
<1>3. IsFiniteSet(1 .. Len(scored)) /\ IsFiniteSet(1 .. Len(verdicts[l]))
  BY <1>2, FS_Interval
<1>4. IsFiniteSet(HotJudged(l))
  <2>1. HotJudged(l) \in SUBSET (1 .. Len(verdicts[l]))
    BY <1>2 DEF HotJudged
  <2> QED
    BY <1>3, <2>1, FS_Subset
<1>5. IsFiniteSet(HotScored(l))
  <2>1. HotScored(l) \in SUBSET (1 .. Len(scored))
    BY <1>2 DEF HotScored
  <2> QED
    BY <1>3, <2>1, FS_Subset
<1>6. HotAhead(l) \subseteq HotScored(l)
  BY DEF HotAhead, HotScored, Ahead, Entered, PostInv, ShapeOK, PostsHandledOnce, H!Busy
<1> QED
  BY <1>4, <1>5, <1>6, FS_Subset, FS_CardinalityType

\* What Append does, place by place.
LEMMA AppendFacts ==
  ASSUME NEW S, NEW s \in Seq(S), NEW e \in S
  PROVE  /\ Len(s) \in Nat /\ DOMAIN s = 1 .. Len(s)
         /\ DOMAIN Append(s, e) = 1 .. Len(s) + 1
         /\ Append(s, e)[Len(s) + 1] = e
         /\ \A k \in DOMAIN s : Append(s, e)[k] = s[k]
  OBVIOUS

\* Fewer windows ahead, none judged and none lost from the record.
LEMMA FewerAhead ==
  ASSUME CountInv, PostInv', NEW l \in Links,
         HotJudged(l)' = HotJudged(l), HotScored(l)' = HotScored(l),
         HotAhead(l)' \subseteq HotAhead(l)
  PROVE  (Cardinality(HotJudged(l)) + Cardinality(HotAhead(l)) <= Cardinality(HotScored(l)))'
<1>1. PostInv
  BY DEF CountInv
<1>2. Cardinality(HotJudged(l)) + Cardinality(HotAhead(l)) <= Cardinality(HotScored(l))
  BY DEF CountInv
<1>3. /\ Cardinality(HotAhead(l)') <= Cardinality(HotAhead(l))
      /\ Cardinality(HotAhead(l)') \in Nat
  BY <1>1, HotFinite, FS_Subset, FS_CardinalityType
<1> QED
  BY <1>1, <1>2, <1>3, HotFinite

\* The judged window leaves the windows ahead, for good: its POST is on no
\* wire and with no other thread.
LEMMA JudgeCount ==
  ASSUME CountInv, PostInv', NEW t \in Threads, H!Judge(t), NEW l \in Links,
         scored' = scored, wire' = wire, phase'[t] # "entered",
         \A u \in Threads \ {t} : phase'[u] = phase[u] /\ handles'[u] = handles[u]
  PROVE  (Cardinality(HotJudged(l)) + Cardinality(HotAhead(l)) <= Cardinality(HotScored(l)))'
<1> DEFINE m == handles[t]
           n == Len(verdicts[l]) + 1
<1>1. PostInv
  BY DEF CountInv
<1>2. /\ Cardinality(HotJudged(l)) + Cardinality(HotAhead(l)) <= Cardinality(HotScored(l))
      /\ IsFiniteSet(HotJudged(l)) /\ Cardinality(HotJudged(l)) \in Nat
      /\ IsFiniteSet(HotAhead(l)) /\ Cardinality(HotAhead(l)) \in Nat
      /\ Cardinality(HotScored(l)) \in Nat
  BY <1>1, HotFinite DEF CountInv
<1>3. phase[t] = "entered" /\ H!Busy(t)
  BY DEF H!Judge, H!Busy
<1>4. /\ obs[t] = scored[m] /\ m \notin wire
      /\ \A u \in Threads : (H!Busy(u) /\ handles[u] = m) => u = t
  BY <1>1, <1>3 DEF PostInv, PostsHandledOnce
<1>5. Entered' = Entered \ {t} /\ t \in Entered
  BY <1>3 DEF Entered
<1>6. Ahead' = Ahead \ {m} /\ m \in Ahead
  <2>1. \A u \in Entered \ {t} : handles'[u] = handles[u] /\ handles[u] # m
    BY <1>4 DEF Entered, H!Busy
  <2> QED
    BY <1>4, <1>5, <2>1 DEF Ahead
<1>7. HotScored(l)' = HotScored(l)
  BY DEF HotScored
<1>8. /\ verdicts' = [verdicts EXCEPT ![obs[t].link] = Append(@, obs[t].hot)]
      /\ verdicts \in [Links -> Seq(BOOLEAN)]
      /\ obs[t].link \in Links /\ obs[t].hot \in BOOLEAN
  BY <1>1, JudgeFacts DEF PostInv, ShapeOK, Observations, H!Observations
<1>9. CASE obs[t].link = l /\ obs[t].hot
  <2>1. HotAhead(l)' = HotAhead(l) \ {m} /\ m \in HotAhead(l)
    <3>1. m \in HotAhead(l)
      BY <1>4, <1>6, <1>9 DEF HotAhead
    <3>2. HotAhead(l)' = {q \in Ahead \ {m} : scored[q].link = l /\ scored[q].hot}
      BY <1>6 DEF HotAhead
    <3>3. HotAhead(l) \ {m} = {q \in Ahead \ {m} : scored[q].link = l /\ scored[q].hot}
      <4> HIDE DEF m
      <4> QED
        BY DEF HotAhead
    <3> HIDE DEF m
    <3> QED
      BY <3>1, <3>2, <3>3, Zenon
  <2>2. Cardinality(HotAhead(l)') = Cardinality(HotAhead(l)) - 1
    <3>1. Cardinality(HotAhead(l) \ {m}) = Cardinality(HotAhead(l)) - 1
      <4> HIDE DEF m
      <4> QED
        BY <1>2, <2>1, FS_RemoveElement
    <3> QED
      BY <2>1, <3>1
  <2>3. verdicts'[l] = Append(verdicts[l], obs[t].hot) /\ verdicts[l] \in Seq(BOOLEAN)
    BY <1>8, <1>9
  <2>4. HotJudged(l)' = HotJudged(l) \union {n} /\ n \notin HotJudged(l)
    <3>1. /\ n \in Nat \ {0} /\ DOMAIN verdicts[l] = 1 .. n - 1
          /\ DOMAIN verdicts'[l] = 1 .. n /\ verdicts'[l][n] = obs[t].hot
          /\ \A k \in DOMAIN verdicts[l] : verdicts'[l][k] = verdicts[l][k]
      BY <1>8, <2>3, AppendFacts
    <3> HIDE DEF n
    <3>2. ASSUME NEW k PROVE k \in HotJudged(l)' <=> k \in HotJudged(l) \union {n}
      <4>1. k \in HotJudged(l)' <=> k \in DOMAIN verdicts'[l] /\ verdicts'[l][k]
        BY DEF HotJudged
      <4>2. k \in HotJudged(l) <=> k \in DOMAIN verdicts[l] /\ verdicts[l][k]
        BY DEF HotJudged
      <4>3. k \in DOMAIN verdicts'[l] <=> k \in DOMAIN verdicts[l] \/ k = n
        BY <3>1
      <4>4. n \notin DOMAIN verdicts[l]
        BY <3>1
      <4> QED
        BY <1>9, <3>1, <4>1, <4>2, <4>3, <4>4, Zenon
    <3>3. n \notin HotJudged(l)
      BY <1>9, <3>1 DEF HotJudged
    <3> QED
      BY <3>2, <3>3
  <2>5. Cardinality(HotJudged(l)') = Cardinality(HotJudged(l)) + 1
    BY <1>2, <2>4, FS_AddElement
  <2> QED
    BY <1>2, <1>7, <2>2, <2>5
<1>10. CASE ~(obs[t].link = l /\ obs[t].hot)
  <2>1. HotAhead(l)' \subseteq HotAhead(l)
    BY <1>6 DEF HotAhead
  <2>2. HotJudged(l)' = HotJudged(l)
    <3>1. CASE obs[t].link # l
      BY <1>8, <3>1 DEF HotJudged
    <3>2. CASE obs[t].link = l /\ obs[t].hot = FALSE
      <4>1. verdicts'[l] = Append(verdicts[l], obs[t].hot) /\ verdicts[l] \in Seq(BOOLEAN)
        BY <1>8, <3>2
      <4>2. /\ n \in Nat \ {0} /\ DOMAIN verdicts[l] = 1 .. n - 1
            /\ DOMAIN verdicts'[l] = 1 .. n /\ verdicts'[l][n] = obs[t].hot
            /\ \A k \in DOMAIN verdicts[l] : verdicts'[l][k] = verdicts[l][k]
        BY <1>8, <4>1, AppendFacts
      <4> HIDE DEF n
      <4>3. ASSUME NEW k PROVE k \in HotJudged(l)' <=> k \in HotJudged(l)
        <5>1. k \in HotJudged(l)' <=> k \in DOMAIN verdicts'[l] /\ verdicts'[l][k]
          BY DEF HotJudged
        <5>2. k \in HotJudged(l) <=> k \in DOMAIN verdicts[l] /\ verdicts[l][k]
          BY DEF HotJudged
        <5>3. k \in DOMAIN verdicts'[l] <=> k \in DOMAIN verdicts[l] \/ k = n
          BY <4>2
        <5>4. n \notin DOMAIN verdicts[l]
          BY <4>2
        <5> QED
          BY <3>2, <4>2, <5>1, <5>2, <5>3, <5>4, Zenon
      <4> QED
        BY <4>3
    <3> QED
      BY <1>8, <1>10, <3>1, <3>2
  <2> QED
    BY <1>7, <2>1, <2>2, FewerAhead
<1> QED
  BY <1>9, <1>10

LEMMA InitCountInv == Init => CountInv
<1> SUFFICES ASSUME Init PROVE CountInv
  OBVIOUS
<1>1. ASSUME NEW l \in Links
      PROVE  HotJudged(l) = {} /\ HotAhead(l) = {} /\ HotScored(l) = {}
  <2>1. DOMAIN scored = {} /\ DOMAIN verdicts[l] = {} /\ wire = {} /\ Entered = {}
    BY DEF Init, H!Init, I!Init, Entered
  <2> QED
    BY <2>1 DEF HotJudged, HotAhead, HotScored, Ahead
<1> QED
  BY <1>1, InitPostInv, FS_EmptySet DEF CountInv

LEMMA NextCountInv == CountInv /\ [Next]_vars => CountInv'
<1> SUFFICES ASSUME CountInv, [Next]_vars, NEW l \in Links
             PROVE  (Cardinality(HotJudged(l)) + Cardinality(HotAhead(l))
                       <= Cardinality(HotScored(l)))'
  BY NextPostInv DEF CountInv
<1>0. PostInv /\ PostInv'
  BY NextPostInv DEF CountInv
<1>a. /\ phase \in [Threads -> {"idle", "entered", "rest", "grpc", "finish"}]
      /\ handles \in [Threads -> Nat]
      /\ wire \in SUBSET (DOMAIN scored)
  BY <1>0 DEF PostInv, ShapeOK
<1> DEFINE Goal == (Cardinality(HotJudged(l)) + Cardinality(HotAhead(l))
                      <= Cardinality(HotScored(l)))'
<1>1. ASSUME Quiet PROVE Goal
  <2>1. HotJudged(l)' = HotJudged(l) /\ HotScored(l)' = HotScored(l)
    BY <1>1 DEF Quiet, HotJudged, HotScored
  <2>2. HotAhead(l)' \subseteq HotAhead(l)
    BY <1>1 DEF Quiet, HotAhead, Ahead, Entered
  <2> QED
    BY <1>0, <2>1, <2>2, FewerAhead
<1>2. ASSUME NEW c \in Conns, Post(c) PROVE Goal
  <2> DEFINE n == Len(scored) + 1
  <2>1. /\ n \in Nat \ {0} /\ DOMAIN scored = 1 .. n - 1
        /\ DOMAIN scored' = 1 .. n
        /\ \A i \in DOMAIN scored : scored'[i] = scored[i]
        /\ wire' = wire \union {n}
        /\ UNCHANGED <<phase, verdicts, handles>>
    BY <1>0, <1>2, PostFacts
  <2> HIDE DEF n
  <2>2. DOMAIN scored' = DOMAIN scored \union {n} /\ n \notin DOMAIN scored
    BY <2>1
  <2>3. Ahead' = Ahead \union {n} /\ Ahead \subseteq DOMAIN scored
    BY <1>0, <2>1 DEF Ahead, Entered, PostInv, ShapeOK, PostsHandledOnce, H!Busy
  <2>4. HotJudged(l)' = HotJudged(l)
    BY <2>1 DEF HotJudged
  <2>5. CASE scored'[n].link = l /\ scored'[n].hot
    <3>1. HotScored(l)' = HotScored(l) \union {n} /\ n \notin HotScored(l)
      BY <2>1, <2>2, <2>5 DEF HotScored
    <3>2. HotAhead(l)' = HotAhead(l) \union {n} /\ n \notin HotAhead(l)
      BY <2>1, <2>2, <2>3, <2>5 DEF HotAhead
    <3>3. /\ Cardinality(HotScored(l)') = Cardinality(HotScored(l)) + 1
          /\ Cardinality(HotAhead(l)') = Cardinality(HotAhead(l)) + 1
      BY <1>0, <3>1, <3>2, HotFinite, FS_AddElement
    <3> QED
      BY <1>0, <2>4, <3>3, HotFinite DEF CountInv
  <2>6. CASE ~(scored'[n].link = l /\ scored'[n].hot)
    <3>1. HotScored(l)' = HotScored(l)
      BY <2>1, <2>2, <2>6 DEF HotScored
    <3>2. HotAhead(l)' = HotAhead(l)
      BY <2>1, <2>2, <2>3, <2>6 DEF HotAhead
    <3> QED
      BY <1>0, <2>4, <3>1, <3>2, FewerAhead
  <2> QED
    BY <2>5, <2>6
<1>3. ASSUME NEW t \in Threads, NEW m \in wire, Deliver(t, m) PROVE Goal
  <2>1. /\ phase[t] = "idle" /\ phase' = [phase EXCEPT ![t] = "entered"]
        /\ handles' = [handles EXCEPT ![t] = m]
        /\ wire' = wire \ {m} /\ UNCHANGED <<verdicts, scored>>
    BY <1>3, DeliverFacts DEF H!Busy
  <2>2. m \in Nat
    BY <1>0 DEF PostInv, ShapeOK
  <2>3. Entered' = Entered \union {t} /\ t \notin Entered
    BY <1>a, <2>1 DEF Entered
  <2>4. \A u \in Entered : handles'[u] = handles[u]
    BY <1>a, <2>1, <2>3 DEF Entered
  <2>5. handles'[t] = m
    BY <1>a, <2>1
  <2>6. Ahead' = Ahead
    BY <2>1, <2>3, <2>4, <2>5 DEF Ahead
  <2>7. /\ HotJudged(l)' = HotJudged(l) /\ HotScored(l)' = HotScored(l)
        /\ HotAhead(l)' = HotAhead(l)
    BY <2>1, <2>6 DEF HotJudged, HotScored, HotAhead
  <2> QED
    BY <1>0, <2>7, FewerAhead
<1>4. ASSUME NEW t \in Threads, Egress(t) \/ Answer(t) PROVE Goal
  <2>1. /\ scored' = scored /\ wire' = wire
        /\ \A u \in Threads \ {t} : phase'[u] = phase[u] /\ handles'[u] = handles[u]
        /\ phase'[t] \in {"idle", "rest", "grpc", "finish"}
        /\ \/ H!Judge(t)
           \/ verdicts' = verdicts /\ phase[t] \in {"rest", "grpc", "finish"}
    <3>1. CASE Egress(t)
      BY <1>0, <1>a, <3>1, EgressFacts
    <3>2. CASE Answer(t)
      BY <1>0, <1>a, <3>2, AnswerFacts
    <3> QED
      BY <1>4, <3>1, <3>2
  <2>2. CASE H!Judge(t)
    BY <1>0, <2>1, <2>2, JudgeCount
  <2>3. CASE verdicts' = verdicts /\ phase[t] \in {"rest", "grpc", "finish"}
    <3>1. Entered' = Entered /\ \A u \in Entered : handles'[u] = handles[u]
      BY <2>1, <2>3 DEF Entered
    <3>2. Ahead' = Ahead
      BY <2>1, <3>1 DEF Ahead
    <3>3. /\ HotJudged(l)' = HotJudged(l) /\ HotScored(l)' = HotScored(l)
          /\ HotAhead(l)' = HotAhead(l)
      BY <2>1, <2>3, <3>2 DEF HotJudged, HotScored, HotAhead
    <3> QED
      BY <1>0, <3>3, FewerAhead
  <2> QED
    BY <2>1, <2>2, <2>3
<1>5. ASSUME HealerRestart PROVE Goal
  <2>1. DOMAIN verdicts'[l] = {}
    BY <1>5, RestartFacts
  <2>2. HotJudged(l)' = {}
    BY <2>1 DEF HotJudged
  <2>3. HotAhead(l)' \subseteq HotAhead(l) /\ HotScored(l)' = HotScored(l)
    BY <1>5, RestartFacts DEF HotAhead, Ahead, Entered, HotScored
  <2>4. /\ HotAhead(l)' \in SUBSET HotScored(l)
        /\ IsFiniteSet(HotScored(l)) /\ Cardinality(HotScored(l)) \in Nat
    BY <1>0, <2>3, HotFinite
  <2>5. /\ Cardinality(HotAhead(l)') <= Cardinality(HotScored(l))
        /\ Cardinality(HotAhead(l)') \in Nat
    BY <2>4, FS_Subset, FS_CardinalityType
  <2>6. Cardinality(HotJudged(l)') = 0
    BY <2>2, FS_EmptySet
  <2> QED
    BY <2>3, <2>4, <2>5, <2>6
<1> QED
  BY <1>1, <1>2, <1>3, <1>4, <1>5, StepCases

\* No hot window is judged twice and none is made up, for any number of
\* connections, lost and repeatedly given-up POSTs and restarts of either
\* service.
THEOREM NoWindowCountsTwiceHolds == Spec => []NoWindowCountsTwice
<1>1. CountInv => NoWindowCountsTwice
  <2> SUFFICES ASSUME CountInv, NEW l \in Links
               PROVE  Cardinality(HotJudged(l)) <= Cardinality(HotScored(l))
    BY DEF NoWindowCountsTwice
  <2> QED
    BY HotFinite DEF CountInv
<1> QED
  BY <1>1, InitCountInv, NextCountInv, PTL DEF Spec

-----------------------------------------------------------------------------
(* One connection and no POST given up *)

\* The deployment HealerProofs!IncarnationHoldsOffWhenSerial is about, as the
\* ingest service and the infer service run it while nothing goes wrong.
OneReliableConnection ==
  /\ ~Unreliable
  /\ MaxInferRestarts = 0
  /\ \A c, d \in Conns : c = d

\* A task waits for its POST until the answer is there: every POST on the wire
\* or with a thread has a task that waits for it.
AwaitInv ==
  /\ PostInv
  /\ task \in [Conns -> {"none", "read", "scoring", "posting"}]
  /\ peer \in [Conns -> {"new", "open", "closed"}]
  /\ awaits \in [Conns -> Nat]
  /\ answered \in SUBSET (DOMAIN scored)
  /\ inferRestarts \in Nat
  /\ \A c \in Conns : /\ peer[c] = "new" => task[c] = "none"
                      /\ task[c] # "posting" => awaits[c] = 0
  /\ \A m \in wire : m \notin answered /\ \E c \in Conns : awaits[c] = m
  /\ \A t \in Threads : H!Busy(t) =>
       handles[t] \notin answered /\ \E c \in Conns : awaits[c] = handles[t]

LEMMA InitAwaitInv == Init => AwaitInv
<1> SUFFICES ASSUME Init PROVE AwaitInv
  OBVIOUS
<1>1. PostInv
  BY InitPostInv
<1> QED
  BY <1>1 DEF Init, H!Init, I!Init, AwaitInv, H!Busy

\* A step that leaves the POSTs alone, and no task in wait.
LEMMA QuietAwaitInv ==
  ASSUME AwaitInv, PostInv', Quiet, wire' = wire,
         UNCHANGED <<awaits, answered, inferRestarts>>,
         task' \in [Conns -> {"none", "read", "scoring", "posting"}],
         peer' \in [Conns -> {"new", "open", "closed"}],
         \A c \in Conns : /\ peer'[c] = "new" => task'[c] = "none"
                          /\ task'[c] # "posting" => task[c] # "posting"
  PROVE  AwaitInv'
  BY DEF AwaitInv, Quiet, H!Busy

\* The task stops waiting for a POST that is neither on the wire nor with a
\* thread.
LEMMA StopWaitingAwaitInv ==
  ASSUME AwaitInv, PostInv', Quiet, wire' = wire, UNCHANGED <<peer, inferRestarts>>,
         NEW c \in Conns, StopWaiting(c), task[c] = "posting",
         task' = [task EXCEPT ![c] = "read"],
         awaits[c] \notin wire,
         \A t \in Threads : H!Busy(t) => handles[t] # awaits[c]
  PROVE  AwaitInv'
<1>1. /\ task \in [Conns -> {"none", "read", "scoring", "posting"}]
      /\ awaits \in [Conns -> Nat]
      /\ awaits' = [awaits EXCEPT ![c] = 0]
      /\ answered' = answered \ {awaits[c]}
      /\ UNCHANGED <<phase, scored, handles>>
  BY DEF AwaitInv, StopWaiting, Quiet
<1>2. /\ awaits'[c] = 0 /\ task'[c] = "read"
      /\ \A d \in Conns \ {c} : awaits'[d] = awaits[d] /\ task'[d] = task[d]
  BY <1>1
<1>3. \A d \in Conns : /\ peer'[d] = "new" => task'[d] = "none"
                       /\ task'[d] # "posting" => awaits'[d] = 0
  BY <1>2 DEF AwaitInv
<1>4. \A m \in wire' : m \notin answered' /\ \E d \in Conns : awaits'[d] = m
  BY <1>1, <1>2 DEF AwaitInv
<1>5. ASSUME NEW t \in Threads, H!Busy(t)'
      PROVE  handles'[t] \notin answered' /\ \E d \in Conns : awaits'[d] = handles'[t]
  <2>1. H!Busy(t)
    BY <1>1, <1>5 DEF H!Busy
  <2> QED
    BY <1>1, <1>2, <2>1 DEF AwaitInv
<1>6. /\ task' \in [Conns -> {"none", "read", "scoring", "posting"}]
      /\ awaits' \in [Conns -> Nat]
      /\ answered' \in SUBSET (DOMAIN scored')
  BY <1>1 DEF AwaitInv
<1> QED
  BY <1>3, <1>4, <1>5, <1>6 DEF AwaitInv

LEMMA PostAwaitInv ==
  ASSUME AwaitInv, PostInv', NEW c \in Conns, Post(c)
  PROVE  AwaitInv'
<1> DEFINE n == Len(scored) + 1
<1>1. /\ n \in Nat \ {0} /\ DOMAIN scored = 1 .. n - 1 /\ DOMAIN scored' = 1 .. n
      /\ wire' = wire \union {n} /\ awaits' = [awaits EXCEPT ![c] = n]
      /\ task[c] = "scoring" /\ task' = [task EXCEPT ![c] = "posting"]
      /\ UNCHANGED <<phase, handles, answered>>
  BY PostFacts DEF AwaitInv
<1>2. UNCHANGED <<peer, inferRestarts>>
  BY DEF Post, I!Scored, I!connVars
<1>3. /\ task \in [Conns -> {"none", "read", "scoring", "posting"}]
      /\ awaits \in [Conns -> Nat] /\ answered \in SUBSET (DOMAIN scored)
      /\ awaits[c] = 0 /\ peer[c] # "new"
  BY <1>1 DEF AwaitInv
<1> HIDE DEF n
<1>4. /\ awaits'[c] = n /\ task'[c] = "posting"
      /\ \A d \in Conns \ {c} : awaits'[d] = awaits[d] /\ task'[d] = task[d]
  BY <1>1, <1>3
<1>5. n \notin answered /\ n \notin DOMAIN scored /\ 0 \notin DOMAIN scored
  BY <1>1, <1>3
<1>6. \A m \in wire' : m \notin answered' /\ \E d \in Conns : awaits'[d] = m
  <2> SUFFICES ASSUME NEW m \in wire'
               PROVE  m \notin answered /\ \E d \in Conns : awaits'[d] = m
    BY <1>1
  <2>1. CASE m = n
    BY <1>4, <1>5, <2>1
  <2>2. CASE m \in wire
    <3>1. m \in DOMAIN scored
      BY <2>2 DEF AwaitInv, PostInv, ShapeOK
    <3>2. m \notin answered /\ \E d \in Conns : awaits[d] = m
      BY <2>2 DEF AwaitInv
    <3> QED
      BY <1>3, <1>4, <1>5, <3>1, <3>2
  <2> QED
    BY <1>1, <2>1, <2>2
<1>7. ASSUME NEW t \in Threads, H!Busy(t)'
      PROVE  handles'[t] \notin answered' /\ \E d \in Conns : awaits'[d] = handles'[t]
  <2>1. H!Busy(t)
    BY <1>1, <1>7 DEF H!Busy
  <2>2. handles[t] \in DOMAIN scored
    BY <2>1 DEF AwaitInv, PostInv, PostsHandledOnce
  <2>3. handles[t] \notin answered /\ \E d \in Conns : awaits[d] = handles[t]
    BY <2>1 DEF AwaitInv
  <2> QED
    BY <1>1, <1>3, <1>4, <1>5, <2>2, <2>3
<1>8. \A d \in Conns : /\ peer'[d] = "new" => task'[d] = "none"
                       /\ task'[d] # "posting" => awaits'[d] = 0
  BY <1>2, <1>3, <1>4 DEF AwaitInv
<1>9. /\ task' \in [Conns -> {"none", "read", "scoring", "posting"}]
      /\ peer' \in [Conns -> {"new", "open", "closed"}]
      /\ awaits' \in [Conns -> Nat] /\ answered' \in SUBSET (DOMAIN scored')
  BY <1>1, <1>2, <1>3 DEF AwaitInv
<1> QED
  BY <1>2, <1>6, <1>7, <1>8, <1>9 DEF AwaitInv

\* The steps of the healer: a POST goes from the wire to a thread, stays with
\* it, and is answered to the task that waits for it.
LEMMA HealerAwaitInv ==
  ASSUME AwaitInv, PostInv', UNCHANGED <<peer, task, awaits, scored, inferRestarts>>,
         wire' \subseteq wire,
         \A m \in wire' : m \notin answered',
         \A t \in Threads : H!Busy(t)' =>
           /\ handles'[t] \notin answered'
           /\ handles'[t] \in wire \/ (H!Busy(t) /\ handles'[t] = handles[t]),
         answered' \in SUBSET (DOMAIN scored)
  PROVE  AwaitInv'
<1>1. \A m \in wire' : m \notin answered' /\ \E c \in Conns : awaits'[c] = m
  BY DEF AwaitInv
<1>2. \A t \in Threads : H!Busy(t)' =>
        handles'[t] \notin answered' /\ \E c \in Conns : awaits'[c] = handles'[t]
  BY DEF AwaitInv
<1> QED
  BY <1>1, <1>2 DEF AwaitInv

LEMMA NextAwaitInv ==
  ASSUME OneReliableConnection
  PROVE  AwaitInv /\ [Next]_vars => AwaitInv'
<1> SUFFICES ASSUME AwaitInv, [Next]_vars PROVE AwaitInv'
  OBVIOUS
<1>0. PostInv /\ PostInv'
  BY NextPostInv DEF AwaitInv
<1>a. /\ phase \in [Threads -> {"idle", "entered", "rest", "grpc", "finish"}]
      /\ handles \in [Threads -> Nat]
      /\ wire \in SUBSET (DOMAIN scored)
      /\ task \in [Conns -> {"none", "read", "scoring", "posting"}]
      /\ peer \in [Conns -> {"new", "open", "closed"}]
      /\ answered \in SUBSET (DOMAIN scored)
      /\ \A c \in Conns : peer[c] = "new" => task[c] = "none"
  BY DEF AwaitInv, PostInv, ShapeOK
<1>1. ASSUME NEW c \in Conns, Ingest(c) PROVE AwaitInv'
  <2>1. /\ Quiet /\ wire' = wire /\ UNCHANGED <<awaits, answered, inferRestarts>>
        /\ \/ /\ peer[c] = "new" /\ peer' = [peer EXCEPT ![c] = "open"]
              /\ task' = [task EXCEPT ![c] = "read"]
           \/ /\ peer' = peer \/ peer' = [peer EXCEPT ![c] = "closed"]
              /\ task' = task
    BY <1>1 DEF Ingest, Quiet, I!Connect, I!SendLine, I!Hangup, I!counterVars,
                I!taskVars, healerVars, postVars
  <2> QED
    BY <1>0, <1>a, <2>1, QuietAwaitInv
<1>2. ASSUME NEW c \in Conns, Read(c) PROVE AwaitInv'
  <2>1. /\ Quiet /\ wire' = wire /\ UNCHANGED <<awaits, answered, peer, inferRestarts>>
        /\ \/ task' = task
           \/ /\ task[c] \in {"read", "scoring"}
              /\ \E q \in {"none", "read", "scoring"} : task' = [task EXCEPT ![c] = q]
    BY <1>2 DEF Read, Quiet, I!DropBad, I!StartScoring, I!ScoreFails, I!EndTask,
                I!ReadLine, I!connVars, I!taskVars, I!counterVars, healerVars, postVars
  <2> QED
    BY <1>0, <1>a, <2>1, QuietAwaitInv
<1>3. ASSUME NEW c \in Conns, PostReturns(c) \/ PostFails(c) PROVE AwaitInv'
  <2>1. /\ StopWaiting(c) /\ wire' = wire /\ UNCHANGED <<peer, inferRestarts>>
        /\ task[c] = "posting" /\ task' = [task EXCEPT ![c] = "read"]
        /\ awaits[c] \in answered \/ Broken(awaits[c])
    BY <1>3 DEF PostReturns, PostFails, I!PostEnds, I!connVars, OneReliableConnection
  <2>2. Quiet
    BY <1>3 DEF PostReturns, PostFails, StopWaiting, Quiet, I!PostEnds, healerVars
  <2>3. CASE awaits[c] \in answered
    BY <1>0, <2>1, <2>2, <2>3, StopWaitingAwaitInv DEF AwaitInv
  <2>4. CASE Broken(awaits[c])
    <3>1. \A t \in Threads : handles[t] \in Range(handles)
      BY <1>a DEF Range
    <3> QED
      BY <1>0, <2>1, <2>2, <2>4, <3>1, StopWaitingAwaitInv DEF Broken
  <2> QED
    BY <2>1, <2>3, <2>4
<1>4. ASSUME NEW c \in Conns, Post(c) PROVE AwaitInv'
  BY <1>0, <1>4, PostAwaitInv
<1>5. ASSUME NEW t \in Threads, NEW m \in wire, Deliver(t, m) PROVE AwaitInv'
  <2>1. /\ ~H!Busy(t) /\ phase' = [phase EXCEPT ![t] = "entered"]
        /\ handles' = [handles EXCEPT ![t] = m] /\ wire' = wire \ {m}
        /\ UNCHANGED <<scored, awaits, task, answered, peer, inferRestarts>>
    BY <1>5, DeliverFacts DEF Deliver, inferVars
  <2>2. /\ handles'[t] = m
        /\ \A u \in Threads \ {t} : /\ H!Busy(u)' <=> H!Busy(u)
                                    /\ handles'[u] = handles[u]
    BY <1>a, <2>1 DEF H!Busy
  <2>3. \A u \in Threads : H!Busy(u) => handles[u] \notin answered
    BY DEF AwaitInv
  <2>4. \A k \in wire : k \notin answered
    BY DEF AwaitInv
  <2> QED
    BY <1>0, <1>a, <2>1, <2>2, <2>3, <2>4, HealerAwaitInv
<1>6. ASSUME NEW t \in Threads, Egress(t) PROVE AwaitInv'
  <2>1. /\ H!Busy(t)
        /\ \E q \in {"rest", "grpc", "finish"} : phase' = [phase EXCEPT ![t] = q]
        /\ UNCHANGED <<scored, wire, handles, awaits, task, answered, peer, inferRestarts>>
    BY <1>0, <1>6, EgressFacts DEF Egress, inferVars
  <2>2. \A u \in Threads : H!Busy(u)' <=> H!Busy(u)
    BY <1>a, <2>1 DEF H!Busy
  <2>3. /\ \A u \in Threads : H!Busy(u) => handles[u] \notin answered
        /\ \A k \in wire : k \notin answered
    BY DEF AwaitInv
  <2> QED
    BY <1>0, <1>a, <2>1, <2>2, <2>3, HealerAwaitInv
<1>7. ASSUME NEW t \in Threads, Answer(t) PROVE AwaitInv'
  <2>1. /\ H!Busy(t) /\ phase' = [phase EXCEPT ![t] = "idle"]
        /\ handles' = [handles EXCEPT ![t] = 0]
        /\ answered' = answered \union ({handles[t]} \intersect Range(awaits))
        /\ UNCHANGED <<scored, wire, awaits, task, peer, inferRestarts>>
    BY <1>0, <1>7, AnswerFacts DEF Answer, inferVars
  <2>2. /\ ~H!Busy(t)'
        /\ \A u \in Threads \ {t} : /\ H!Busy(u)' <=> H!Busy(u)
                                    /\ handles'[u] = handles[u]
    BY <1>a, <2>1 DEF H!Busy
  <2>3. /\ \A u \in Threads : H!Busy(u) => handles[u] \notin answered
        /\ \A k \in wire : k \notin answered
    BY DEF AwaitInv
  <2>4. /\ handles[t] \in DOMAIN scored /\ handles[t] \notin wire
        /\ \A u \in Threads \ {t} : H!Busy(u) => handles[u] # handles[t]
    BY <1>0, <2>1 DEF PostInv, PostsHandledOnce
  <2>5. answered' \subseteq answered \union {handles[t]}
    BY <2>1
  <2> QED
    BY <1>0, <1>a, <2>1, <2>2, <2>3, <2>4, <2>5, HealerAwaitInv
<1>8. ASSUME HealerRestart PROVE AwaitInv'
  <2>1. /\ answered' = {} /\ \A t \in Threads : ~H!Busy(t)'
        /\ UNCHANGED <<scored, wire, awaits, task, peer, inferRestarts>>
    BY <1>8, RestartFacts DEF HealerRestart, inferVars, H!Busy
  <2> QED
    BY <1>0, <2>1, HealerAwaitInv
<1>9. ASSUME UNCHANGED vars PROVE AwaitInv'
  BY <1>9 DEF vars, healerVars, inferVars, postVars, AwaitInv, PostInv, ShapeOK,
              PostsHandledOnce, H!Busy
<1>10. ~InferRestart /\ \A m \in wire : ~Lose(m)
  <2>1. inferRestarts \in Nat /\ MaxInferRestarts = 0
    BY DEF AwaitInv, OneReliableConnection
  <2> QED
    BY <2>1 DEF Lose, InferRestart, I!Restart, OneReliableConnection
<1> QED
  BY <1>1, <1>2, <1>3, <1>4, <1>5, <1>6, <1>7, <1>8, <1>9, <1>10 DEF Next, Task

LEMMA AwaitInvHolds ==
  ASSUME OneReliableConnection
  PROVE  Spec => []AwaitInv
<1>1. AwaitInv /\ [Next]_vars => AwaitInv'
  BY NextAwaitInv
<1> QED
  BY <1>1, InitAwaitInv, PTL DEF Spec

\* A POST on the wire and one with a thread would both be awaited by the one
\* task there is, and are different: so the healer is idle when it takes one.
LEMMA DeliverIsAlone ==
  ASSUME OneReliableConnection, AwaitInv,
         NEW t \in Threads, NEW m \in wire, Deliver(t, m)
  PROVE  scored[m] \in Observations /\ H!EnterAlone(t, scored[m])
<1>1. m \in DOMAIN scored /\ scored \in Seq(Observations)
  BY DEF AwaitInv, PostInv, ShapeOK
<1>2. scored[m] \in Observations
  BY <1>1
<1>3. ASSUME NEW u \in Threads, H!Busy(u) PROVE FALSE
  <2>1. PICK c \in Conns : awaits[c] = m
    BY DEF AwaitInv
  <2>2. PICK d \in Conns : awaits[d] = handles[u]
    BY <1>3 DEF AwaitInv
  <2>3. handles[u] = m
    BY <2>1, <2>2 DEF OneReliableConnection
  <2> QED
    BY <1>3, <2>3 DEF AwaitInv, PostInv, PostsHandledOnce
<1>4. H!Enter(t, scored[m])
  BY DeliverFacts
<1> QED
  BY <1>2, <1>3, <1>4 DEF H!EnterAlone

LEMMA HealerVars == UNCHANGED healerVars <=> UNCHANGED H!vars
  BY DEF healerVars, H!vars, H!linkVars, H!threadVars, H!historyVars

LEMMA StepSimulation ==
  ASSUME OneReliableConnection
  PROVE  AwaitInv /\ [Next]_vars => [H!SerialNext]_(H!vars)
<1> SUFFICES ASSUME AwaitInv, [Next]_vars PROVE H!SerialNext \/ UNCHANGED H!vars
  OBVIOUS
<1>1. ASSUME NEW c \in Conns, Ingest(c) \/ Task(c) PROVE UNCHANGED healerVars
  BY <1>1 DEF Ingest, Task, Read, Post, PostReturns, PostFails, StopWaiting
<1>2. ASSUME NEW t \in Threads, NEW m \in wire, Deliver(t, m) PROVE H!SerialNext
  BY <1>2, DeliverIsAlone DEF H!SerialNext, Observations
<1>3. ASSUME NEW t \in Threads, Egress(t) \/ Answer(t) PROVE H!SerialNext
  <2>1. H!Handle(t)
    BY <1>3 DEF Egress, Answer, H!Handle
  <2> QED
    BY <2>1 DEF H!SerialNext
<1>4. ASSUME NEW m \in wire, Lose(m) PROVE UNCHANGED healerVars
  BY <1>4 DEF Lose
<1>5. ASSUME HealerRestart PROVE H!SerialNext
  BY <1>5 DEF HealerRestart, H!SerialNext
<1>6. ASSUME InferRestart \/ UNCHANGED vars PROVE UNCHANGED healerVars
  BY <1>6 DEF InferRestart, vars
<1> QED
  BY <1>1, <1>2, <1>3, <1>4, <1>5, <1>6, HealerVars DEF Next

\* With one connection and no POST given up, the healer never has two
\* observations of one link in hand, although its pool would take them: the
\* pipeline implements the serial healer, for any thresholds and histories.
THEOREM SerialRefinement ==
  ASSUME OneReliableConnection
  PROVE  Spec => ImplementsSerial
<1>1. Init => H!Init
  BY DEF Init
<1>2. AwaitInv /\ [Next]_vars => [H!SerialNext]_(H!vars)
  BY StepSimulation
<1> QED
  BY <1>1, <1>2, AwaitInvHolds, PTL DEF Spec, ImplementsSerial, H!SerialSpec

-----------------------------------------------------------------------------
(* The hold-off, carried over from HealerProofs *)

\* HealerProofs speaks of Healer as it is instantiated there; the definitions
\* are the same.
LEMMA SameTests ==
  ASSUME NEW t \in Threads
  PROVE  /\ H!Judge(t) <=> HP!Judge(t)
         /\ H!Leave(t) <=> HP!Leave(t)
         /\ H!Link(t) = HP!Link(t)
         /\ H!Counting(obs[t]) <=> HP!Counting(obs[t])
         /\ H!Suppressed(H!Link(t), now[t]) <=> HP!Suppressed(HP!Link(t), now[t])
         /\ H!HasProtection(H!Link(t)) <=> HP!HasProtection(HP!Link(t))
  BY DEF H!Judge, HP!Judge, H!Leave, HP!Leave, H!Link, HP!Link,
         H!ConsecutiveAfter, HP!ConsecutiveAfter, H!Counting, HP!Counting,
         H!Suppressed, HP!Suppressed, H!HasProtection, HP!HasProtection,
         H!WorkingPathForLink, HP!WorkingPathForLink, H!WorkingPlaces,
         HP!WorkingPlaces, H!ProtectionPathForLink, HP!ProtectionPathForLink

LEMMA SameEnter ==
  ASSUME NEW t \in Threads, NEW o, H!EnterAlone(t, o)
  PROVE  HP!EnterAlone(t, o)
  BY DEF H!EnterAlone, HP!EnterAlone, H!Enter, HP!Enter, H!Busy, HP!Busy,
         H!Link, HP!Link, H!NowReadings, HP!NowReadings, H!historyVars,
         HP!historyVars

LEMMA SameHandle ==
  ASSUME NEW t \in Threads, H!Handle(t)
  PROVE  HP!Handle(t)
<1>1. ASSUME H!Return(t) PROVE HP!Return(t)
  BY <1>1, SameTests
     DEF H!Return, HP!Return, H!BelowThreshold, HP!BelowThreshold, H!Count,
         HP!Count, H!Suppress, HP!Suppress, H!NoProtection, HP!NoProtection
<1>2. ASSUME H!EmitRest(t) PROVE HP!EmitRest(t)
  BY <1>2, SameTests DEF H!EmitRest, HP!EmitRest
<1>3. ASSUME H!RestReturns(t) \/ H!GrpcReturns(t)
      PROVE  HP!RestReturns(t) \/ HP!GrpcReturns(t)
  BY <1>3 DEF H!RestReturns, HP!RestReturns, H!GrpcReturns, HP!GrpcReturns,
              H!linkVars, HP!linkVars, H!historyVars, HP!historyVars
<1>4. ASSUME H!Finish(t) PROVE HP!Finish(t)
  BY <1>4, SameTests DEF H!Finish, HP!Finish, H!HoldOffFrom, HP!HoldOffFrom,
                         H!historyVars, HP!historyVars
<1> QED
  BY <1>1, <1>2, <1>3, <1>4 DEF H!Handle, HP!Handle

LEMMA SameSpec == H!SerialSpec => HP!SerialSpec
<1>1. H!Init => HP!Init
  BY DEF H!Init, HP!Init
<1>2. [H!SerialNext]_(H!vars) => [HP!SerialNext]_(HP!vars)
  <2>1. H!Restart => HP!Restart
    <3>1. \A e : H!Reroute(e) = HP!Reroute(e)
      BY DEF H!Reroute, HP!Reroute
    <3> QED
      BY <3>1 DEF H!Restart, HP!Restart
  <2>2. H!Observations = HP!Observations
    BY DEF H!Observations, HP!Observations
  <2>3. H!SerialNext => HP!SerialNext
    BY <2>1, <2>2, SameEnter, SameHandle DEF H!SerialNext, HP!SerialNext
  <2>4. H!vars = HP!vars /\ (UNCHANGED H!vars => UNCHANGED HP!vars)
    BY DEF H!vars, HP!vars, H!linkVars, HP!linkVars, H!threadVars,
           HP!threadVars, H!historyVars, HP!historyVars
  <2> QED
    BY <2>3, <2>4
<1> QED
  BY <1>1, <1>2, PTL DEF H!SerialSpec, HP!SerialSpec

LEMMA HealerAssumptions == HP!TopologyAssumption /\ HP!HealerAssumption
<1>1. HP!TopologyAssumption
  BY TopologyAssumption DEF HP!TopologyAssumption, HP!Paths, Paths
<1>2. HP!HealerAssumption
  BY DetectionAssumption DEF H!HealerAssumption, HP!HealerAssumption
<1> QED
  BY <1>1, <1>2

\* Whatever windows are scored and however the pool runs, two reroutes of a
\* link that one incarnation of the healer emits are hysteresis_s of event
\* time apart.  (Run detect_overlap: this fails as soon as a POST may be given
\* up.)
THEOREM IncarnationHoldsOffWhenReliable ==
  ASSUME OneReliableConnection
  PROVE  Spec => []IncarnationHoldsOff
<1>1. HP!SerialSpec => []HP!IncarnationHoldsOff
  BY HealerAssumptions, HP!IncarnationHoldsOffWhenSerial, PTL
<1>2. HP!IncarnationHoldsOff => IncarnationHoldsOff
  BY DEF HP!IncarnationHoldsOff, H!IncarnationHoldsOff, IncarnationHoldsOff,
         HP!HeldOff, H!HeldOff
<1>3. Spec => H!SerialSpec
  BY SerialRefinement DEF ImplementsSerial
<1> QED
  BY <1>1, <1>2, <1>3, SameSpec, PTL

\* README section 7 holds end to end while nothing goes wrong, and the healer
\* dying is one of the things that go wrong.  (Run detect_restart: the next
\* incarnation knows of no hold-off.)
THEOREM HysteresisHoldsInFirstLife ==
  ASSUME OneReliableConnection
  PROVE  Spec => [](restarts = 0 => HysteresisHolds)
<1>1. HP!SerialSpec => [](restarts = 0 => HP!HysteresisHolds)
  BY HealerAssumptions, HP!HysteresisHoldsInFirstLife, PTL
<1>2. HP!HysteresisHolds => HysteresisHolds
  BY DEF HP!HysteresisHolds, H!HysteresisHolds, HysteresisHolds, HP!HeldOff, H!HeldOff,
         HP!Reroute, H!Reroute
<1>3. Spec => H!SerialSpec
  BY SerialRefinement DEF ImplementsSerial
<1> QED
  BY <1>1, <1>2, <1>3, SameSpec, PTL

-----------------------------------------------------------------------------
(* Windows are judged in the order they were scored *)

\* With one task that waits, the window whose verdict is outstanding is the
\* last that was scored; what was judged is a run up to it.
Outstanding(l) == \E m \in Ahead : scored[m].link = l

OrderInv ==
  /\ AwaitInv
  /\ \A m \in Ahead : m = Len(scored)
  /\ \A l \in Links : RunUpTo(l, IF Outstanding(l) THEN 1 ELSE 0)

LEMMA ScoredAfterType ==
  ASSUME PostInv, NEW l, NEW p
  PROVE  /\ IsFiniteSet({q \in DOMAIN scored : q > p /\ scored[q].link = l})
         /\ ScoredAfter(l, p) \in Nat
<1>1. IsFiniteSet(DOMAIN scored)
  <2>1. Len(scored) \in Nat /\ DOMAIN scored = 1 .. Len(scored)
    BY DEF PostInv, ShapeOK
  <2> QED
    BY <2>1, FS_Interval
<1>2. {q \in DOMAIN scored : q > p /\ scored[q].link = l} \in SUBSET DOMAIN scored
  OBVIOUS
<1> QED
  BY <1>1, <1>2, FS_Subset, FS_CardinalityType DEF ScoredAfter

LEMMA InitOrderInv == Init => OrderInv
<1> SUFFICES ASSUME Init PROVE OrderInv
  OBVIOUS
<1>1. wire = {} /\ Entered = {} /\ \A l \in Links : DOMAIN verdicts[l] = {}
  BY DEF Init, H!Init, Entered
<1> QED
  BY <1>1, InitAwaitInv DEF OrderInv, Ahead, RunUpTo

\* No window is outstanding while the task scores the next one.
LEMMA NoneAhead ==
  ASSUME OneReliableConnection, AwaitInv, NEW c \in Conns, task[c] # "posting"
  PROVE  Ahead = {}
<1>1. \A d \in Conns : awaits[d] = 0
  BY DEF AwaitInv, OneReliableConnection
<1>2. 0 \notin DOMAIN scored
  <2>1. DOMAIN scored = 1 .. Len(scored)
    BY DEF AwaitInv, PostInv, ShapeOK
  <2> QED
    BY <2>1
<1>3. wire = {}
  BY <1>1, <1>2 DEF AwaitInv, PostInv, ShapeOK
<1>4. Entered = {}
  BY <1>1, <1>2 DEF Entered, AwaitInv, PostInv, PostsHandledOnce, H!Busy
<1> QED
  BY <1>3, <1>4 DEF Ahead

\* Nothing judged and nothing scored.
LEMMA SameRun ==
  ASSUME NEW l, NEW late, RunUpTo(l, late), UNCHANGED <<scored, verdicts>>
  PROVE  RunUpTo(l, late)'
  BY DEF RunUpTo, ScoredAfter

\* One more window scored: the run of its link ends one window earlier.
LEMMA PostKeepsRun ==
  ASSUME OneReliableConnection, OrderInv, PostInv', NEW c \in Conns, Post(c), NEW l \in Links
  PROVE  /\ \A m \in Ahead' : m = Len(scored')
         /\ RunUpTo(l, IF Outstanding(l) THEN 1 ELSE 0)'
<1> PICK n : n = Len(scored) + 1
  OBVIOUS
<1>1. PostInv /\ AwaitInv /\ RunUpTo(l, IF Outstanding(l) THEN 1 ELSE 0)
  BY DEF OrderInv, AwaitInv
<1>2. /\ n \in Nat \ {0} /\ DOMAIN scored = 1 .. n - 1 /\ DOMAIN scored' = 1 .. n
      /\ \A i \in DOMAIN scored : scored'[i] = scored[i]
      /\ scored' \in Seq(Observations)
      /\ wire' = wire \union {n} /\ task[c] = "scoring"
      /\ UNCHANGED <<phase, verdicts, handles>>
  BY <1>1, PostFacts
<1>3. Ahead = {} /\ Ahead' = {n}
  <2>1. Ahead = {}
    BY <1>1, <1>2, NoneAhead
  <2>2. Entered' = Entered
    BY <1>2 DEF Entered
  <2> QED
    BY <1>2, <2>1, <2>2 DEF Ahead
<1>4. Len(scored') = n
  BY <1>2
<1>5. RunUpTo(l, 0)
  BY <1>1, <1>3 DEF Outstanding
<1>6. (Outstanding(l))' <=> scored'[n].link = l
  BY <1>3 DEF Outstanding
<1>7. ASSUME NEW p \in DOMAIN scored
      PROVE  ScoredAfter(l, p)' = IF scored'[n].link = l THEN ScoredAfter(l, p) + 1
                                                         ELSE ScoredAfter(l, p)
  <2> DEFINE S == {q \in DOMAIN scored : q > p /\ scored[q].link = l}
             T == {q \in DOMAIN scored' : q > p /\ scored'[q].link = l}
  <2>1. IsFiniteSet(S) /\ n \notin S /\ Cardinality(S) \in Nat
    <3>1. IsFiniteSet(S)
      BY <1>1, ScoredAfterType
    <3>2. n \notin DOMAIN scored
      BY <1>2
    <3> QED
      BY <3>1, <3>2, FS_CardinalityType
  <2>2. n > p /\ DOMAIN scored' = DOMAIN scored \union {n}
    BY <1>2
  <2>3. T = IF scored'[n].link = l THEN S \union {n} ELSE S
    BY <1>2, <2>2
  <2>4. ScoredAfter(l, p) = Cardinality(S) /\ ScoredAfter(l, p)' = Cardinality(T)
    BY DEF ScoredAfter
  <2> HIDE DEF S, T
  <2>5. CASE scored'[n].link = l
    <3>1. Cardinality(S \union {n}) = Cardinality(S) + 1
      BY <2>1, FS_AddElement
    <3> QED
      BY <2>3, <2>4, <2>5, <3>1
  <2>6. CASE scored'[n].link # l
    BY <2>3, <2>4, <2>6
  <2> QED
    BY <2>5, <2>6
<1>8. ASSUME NEW late, late = IF scored'[n].link = l THEN 1 ELSE 0
      PROVE  RunUpTo(l, late)'
  <2> SUFFICES ASSUME NEW k \in DOMAIN verdicts[l]
               PROVE  \E p \in DOMAIN scored' :
                        /\ scored'[p].link = l /\ scored'[p].hot = verdicts[l][k]
                        /\ ScoredAfter(l, p)' = Len(verdicts[l]) - k + late
    BY <1>2 DEF RunUpTo
  <2>1. PICK p \in DOMAIN scored :
          /\ scored[p].link = l /\ scored[p].hot = verdicts[l][k]
          /\ ScoredAfter(l, p) = Len(verdicts[l]) - k + 0
    BY <1>5 DEF RunUpTo
  <2>2. p \in DOMAIN scored' /\ scored'[p] = scored[p]
    BY <1>2
  <2>3. Len(verdicts[l]) \in Nat /\ k \in Nat
    <3>1. verdicts[l] \in Seq(BOOLEAN)
      BY <1>1 DEF PostInv, ShapeOK
    <3> QED
      BY <3>1
  <2>4. ScoredAfter(l, p)' = Len(verdicts[l]) - k + late
    <3>1. ScoredAfter(l, p)' = IF scored'[n].link = l THEN ScoredAfter(l, p) + 1
                                                      ELSE ScoredAfter(l, p)
      BY <1>7
    <3> DEFINE a == ScoredAfter(l, p)'
               b == ScoredAfter(l, p)
    <3>2. a = b + late /\ b = Len(verdicts[l]) - k
      <4>1. b \in Nat
        BY <1>1, ScoredAfterType
      <4>2. CASE scored'[n].link = l
        BY <1>8, <2>1, <2>3, <3>1, <4>1, <4>2
      <4>3. CASE scored'[n].link # l
        BY <1>8, <2>1, <2>3, <3>1, <4>1, <4>3
      <4> QED
        BY <4>2, <4>3
    <3> QED
      BY <2>3, <3>2
  <2> QED
    BY <2>1, <2>2, <2>4
<1>9. RunUpTo(l, IF Outstanding(l) THEN 1 ELSE 0)'
  BY <1>6, <1>8 DEF RunUpTo
<1> QED
  BY <1>3, <1>4, <1>9

\* The outstanding window is judged: it is the last that was scored, so the run
\* of its link now ends with it.
LEMMA JudgeKeepsRun ==
  ASSUME OrderInv, PostInv', NEW t \in Threads, H!Judge(t), NEW l \in Links,
         scored' = scored, wire' = wire, phase'[t] # "entered",
         \A u \in Threads \ {t} : phase'[u] = phase[u] /\ handles'[u] = handles[u]
  PROVE  /\ \A m \in Ahead' : m = Len(scored')
         /\ RunUpTo(l, IF Outstanding(l) THEN 1 ELSE 0)'
<1> PICK m, n : m = handles[t] /\ n = Len(verdicts[l]) + 1
  OBVIOUS
<1>1. PostInv /\ RunUpTo(l, IF Outstanding(l) THEN 1 ELSE 0)
  BY DEF OrderInv, AwaitInv
<1>2. phase[t] = "entered" /\ H!Busy(t)
  BY DEF H!Judge, H!Busy
<1>3. /\ obs[t] = scored[m] /\ m \in DOMAIN scored /\ m \notin wire
      /\ \A u \in Threads : (H!Busy(u) /\ handles[u] = m) => u = t
  BY <1>1, <1>2 DEF PostInv, PostsHandledOnce
<1>4. Ahead = {m} /\ Ahead' = {} /\ m = Len(scored)
  <2>1. Entered' = Entered \ {t} /\ t \in Entered
    BY <1>2 DEF Entered
  <2>2. \A u \in Entered \ {t} : handles'[u] = handles[u] /\ handles[u] # m
    BY <1>3 DEF Entered, H!Busy
  <2>3. Ahead' = Ahead \ {m} /\ m \in Ahead
    BY <1>3, <2>1, <2>2 DEF Ahead
  <2> QED
    BY <2>3 DEF OrderInv
<1>5. /\ verdicts' = [verdicts EXCEPT ![obs[t].link] = Append(@, obs[t].hot)]
      /\ verdicts \in [Links -> Seq(BOOLEAN)]
      /\ obs[t].link \in Links /\ obs[t].hot \in BOOLEAN
  BY <1>1, JudgeFacts DEF PostInv, ShapeOK, Observations, H!Observations
<1>6. Outstanding(l) <=> obs[t].link = l
  BY <1>3, <1>4 DEF Outstanding
<1>7. ~Outstanding(l)'
  BY <1>4 DEF Outstanding
<1>8. RunUpTo(l, 0)'
  <2>1. CASE obs[t].link # l
    <3>1. verdicts'[l] = verdicts[l] /\ RunUpTo(l, 0)
      BY <1>1, <1>5, <1>6, <2>1
    <3> QED
      BY <3>1 DEF RunUpTo, ScoredAfter
  <2>2. CASE obs[t].link = l
    <3>1. RunUpTo(l, 1)
      BY <1>1, <1>6, <2>2
    <3>2. verdicts'[l] = Append(verdicts[l], obs[t].hot) /\ verdicts[l] \in Seq(BOOLEAN)
      BY <1>5, <2>2
    <3>3. /\ n \in Nat \ {0} /\ DOMAIN verdicts[l] = 1 .. n - 1 /\ Len(verdicts[l]) = n - 1
          /\ DOMAIN verdicts'[l] = 1 .. n /\ verdicts'[l][n] = obs[t].hot
          /\ Len(verdicts'[l]) = n
          /\ \A k \in DOMAIN verdicts[l] : verdicts'[l][k] = verdicts[l][k]
      BY <1>5, <3>2, AppendFacts
    <3> SUFFICES ASSUME NEW k \in DOMAIN verdicts'[l]
                 PROVE  \E p \in DOMAIN scored :
                          /\ scored[p].link = l /\ scored[p].hot = verdicts'[l][k]
                          /\ ScoredAfter(l, p) = n - k
      <4>1. ASSUME NEW p PROVE ScoredAfter(l, p)' = ScoredAfter(l, p)
        BY DEF ScoredAfter
      <4>2. \A k \in DOMAIN verdicts'[l] : Len(verdicts'[l]) - k + 0 = n - k
        BY <3>3
      <4> QED
        BY <4>1, <4>2 DEF RunUpTo
    <3>4. CASE k \in DOMAIN verdicts[l]
      <4>1. PICK p \in DOMAIN scored :
              /\ scored[p].link = l /\ scored[p].hot = verdicts[l][k]
              /\ ScoredAfter(l, p) = Len(verdicts[l]) - k + 1
        BY <3>1, <3>4 DEF RunUpTo
      <4>2. ScoredAfter(l, p) = n - k /\ verdicts'[l][k] = verdicts[l][k]
        BY <3>3, <3>4, <4>1
      <4> QED
        BY <4>1, <4>2
    <3>5. CASE k = n
      <4>1. \A q \in DOMAIN scored : ~(q > m)
        <5>1. DOMAIN scored = 1 .. Len(scored) /\ Len(scored) \in Nat
          BY <1>1 DEF PostInv, ShapeOK
        <5> QED
          BY <1>4, <5>1
      <4>2. {q \in DOMAIN scored : q > m /\ scored[q].link = l} = {}
        BY <4>1
      <4>3. ScoredAfter(l, m) = 0
        BY <4>2, FS_EmptySet DEF ScoredAfter
      <4>4. n - k = 0
        BY <3>3, <3>5
      <4> QED
        BY <1>3, <2>2, <3>3, <3>5, <4>3, <4>4
    <3> QED
      BY <3>3, <3>4, <3>5
  <2> QED
    BY <2>1, <2>2
<1>9. RunUpTo(l, IF Outstanding(l) THEN 1 ELSE 0)'
  BY <1>7, <1>8
<1> QED
  BY <1>4, <1>9

\* A window leaves the outstanding ones unjudged, or none does.
LEMMA OthersKeepRun ==
  ASSUME OrderInv, NEW l \in Links, scored' = scored,
         Ahead' \subseteq Ahead,
         (verdicts' = verdicts /\ Ahead' = Ahead) \/ verdicts'[l] = << >>
  PROVE  /\ \A m \in Ahead' : m = Len(scored')
         /\ RunUpTo(l, IF Outstanding(l) THEN 1 ELSE 0)'
<1>1. \A m \in Ahead' : m = Len(scored')
  BY DEF OrderInv
<1>2. CASE verdicts' = verdicts /\ Ahead' = Ahead
  <2>1. Outstanding(l)' <=> Outstanding(l)
    BY <1>2 DEF Outstanding
  <2>2. RunUpTo(l, IF Outstanding(l) THEN 1 ELSE 0)
    BY DEF OrderInv
  <2> QED
    BY <1>1, <1>2, <2>1, <2>2 DEF RunUpTo, ScoredAfter
<1>3. CASE verdicts'[l] = << >>
  <2>1. DOMAIN verdicts'[l] = {}
    BY <1>3
  <2> QED
    BY <1>1, <2>1 DEF RunUpTo
<1> QED
  BY <1>2, <1>3

LEMMA NextOrderInv ==
  ASSUME OneReliableConnection
  PROVE  OrderInv /\ [Next]_vars => OrderInv'
<1> SUFFICES ASSUME OrderInv, [Next]_vars PROVE OrderInv'
  OBVIOUS
<1>0. AwaitInv /\ AwaitInv' /\ PostInv /\ PostInv'
  BY NextAwaitInv, NextPostInv DEF OrderInv, AwaitInv
<1>a. /\ phase \in [Threads -> {"idle", "entered", "rest", "grpc", "finish"}]
      /\ handles \in [Threads -> Nat]
      /\ wire \in SUBSET (DOMAIN scored)
  BY <1>0 DEF PostInv, ShapeOK
<1> DEFINE Goal(l) == /\ \A m \in Ahead' : m = Len(scored')
                      /\ RunUpTo(l, IF Outstanding(l) THEN 1 ELSE 0)'
<1>1. ASSUME Quiet, NEW l \in Links PROVE Goal(l)
  <2>1. wire' = wire
    <3>1. ASSUME NEW c \in Conns, Ingest(c) \/ Task(c) PROVE wire' = wire
      <4>1. CASE Post(c)
        BY <1>0, <1>1, <4>1, PostFacts DEF Quiet
      <4> QED
        BY <3>1, <4>1 DEF Ingest, Task, Read, PostReturns, PostFails, postVars
    <3>2. ASSUME NEW t \in Threads, NEW m \in wire, Deliver(t, m) PROVE FALSE
      BY <1>1, <1>a, <3>2, DeliverFacts DEF Quiet, H!Busy
    <3>3. ASSUME NEW t \in Threads, Egress(t) \/ Answer(t) PROVE wire' = wire
      BY <3>3 DEF Egress, Answer, postVars
    <3>4. ASSUME NEW m \in wire, Lose(m) PROVE FALSE
      BY <3>4 DEF Lose, OneReliableConnection
    <3>5. ASSUME HealerRestart \/ InferRestart \/ UNCHANGED vars PROVE wire' = wire
      BY <3>5 DEF HealerRestart, InferRestart, vars, postVars
    <3> QED
      BY <3>1, <3>2, <3>3, <3>4, <3>5 DEF Next
  <2>2. Ahead' = Ahead
    BY <1>1, <2>1 DEF Quiet, Ahead, Entered
  <2> QED
    BY <1>1, <2>2, OthersKeepRun DEF Quiet
<1>2. ASSUME NEW c \in Conns, Post(c), NEW l \in Links PROVE Goal(l)
  BY <1>0, <1>2, PostKeepsRun
<1>3. ASSUME NEW t \in Threads, NEW m \in wire, Deliver(t, m), NEW l \in Links PROVE Goal(l)
  <2>1. /\ phase[t] = "idle" /\ phase' = [phase EXCEPT ![t] = "entered"]
        /\ handles' = [handles EXCEPT ![t] = m]
        /\ wire' = wire \ {m} /\ UNCHANGED <<verdicts, scored>>
    BY <1>3, DeliverFacts DEF H!Busy
  <2>2. m \in Nat
    BY <1>0 DEF PostInv, ShapeOK
  <2>3. Entered' = Entered \union {t} /\ t \notin Entered
    BY <1>a, <2>1 DEF Entered
  <2>4. \A u \in Entered : handles'[u] = handles[u]
    BY <1>a, <2>1, <2>3 DEF Entered
  <2>5. handles'[t] = m
    BY <1>a, <2>1
  <2>6. Ahead' = Ahead
    BY <2>1, <2>3, <2>4, <2>5 DEF Ahead
  <2> QED
    BY <2>1, <2>6, OthersKeepRun
<1>4. ASSUME NEW t \in Threads, Egress(t) \/ Answer(t), NEW l \in Links PROVE Goal(l)
  <2>1. /\ scored' = scored /\ wire' = wire
        /\ \A u \in Threads \ {t} : phase'[u] = phase[u] /\ handles'[u] = handles[u]
        /\ phase'[t] \in {"idle", "rest", "grpc", "finish"}
        /\ \/ H!Judge(t)
           \/ verdicts' = verdicts /\ phase[t] \in {"rest", "grpc", "finish"}
    <3>1. CASE Egress(t)
      BY <1>0, <1>a, <3>1, EgressFacts
    <3>2. CASE Answer(t)
      BY <1>0, <1>a, <3>2, AnswerFacts
    <3> QED
      BY <1>4, <3>1, <3>2
  <2>2. CASE H!Judge(t)
    BY <1>0, <2>1, <2>2, JudgeKeepsRun
  <2>3. CASE verdicts' = verdicts /\ phase[t] \in {"rest", "grpc", "finish"}
    <3>1. Entered' = Entered /\ \A u \in Entered : handles'[u] = handles[u]
      BY <2>1, <2>3 DEF Entered
    <3>2. Ahead' = Ahead
      BY <2>1, <3>1 DEF Ahead
    <3> QED
      BY <2>1, <2>3, <3>2, OthersKeepRun
  <2> QED
    BY <2>1, <2>2, <2>3
<1>5. ASSUME HealerRestart, NEW l \in Links PROVE Goal(l)
  <2>1. verdicts'[l] = << >> /\ scored' = scored
    BY <1>5, RestartFacts
  <2>2. Ahead' \subseteq Ahead
    BY <1>5, RestartFacts DEF Ahead, Entered
  <2> QED
    BY <2>1, <2>2, OthersKeepRun
<1>6. \A l \in Links : Goal(l)
  BY <1>1, <1>2, <1>3, <1>4, <1>5, StepCases
<1> HIDE DEF Goal
<1>7. \A m \in Ahead' : scored'[m].link \in Links
  <2>1. Ahead' \subseteq DOMAIN scored' /\ scored' \in Seq(Observations)
    BY <1>0 DEF Ahead, Entered, PostInv, ShapeOK, PostsHandledOnce, H!Busy
  <2>2. \A m \in Ahead' : scored'[m] \in Observations
    BY <2>1
  <2> QED
    BY <2>2 DEF Observations, H!Observations
<1> QED
  BY <1>0, <1>6, <1>7 DEF OrderInv, Goal

\* One connection and no POST given up: the healer judges every window, once
\* and in the order infer scored them, since its start or its last restart,
\* however its pool runs: its counters see the windows the link really had.
THEOREM JudgedAsScoredHolds ==
  ASSUME OneReliableConnection
  PROVE  Spec => []JudgedAsScored
<1>1. OrderInv => JudgedAsScored
  BY DEF OrderInv, JudgedAsScored
<1>2. OrderInv /\ [Next]_vars => OrderInv'
  BY NextOrderInv
<1> QED
  BY <1>1, <1>2, InitOrderInv, PTL DEF Spec
=============================================================================
