------------------------- MODULE PathManagerProofs -------------------------
(***************************************************************************)
(* Proofs about PathManager, for every topology, every set of requests and *)
(* any number of handler threads and restarts.                             *)
(***************************************************************************)
EXTENDS PathManager, FiniteSetTheorems, TLAPS

\* What type correctness needs besides itself: a handler that has started
\* holds a request.
HandlersHoldRequests == \A w \in Workers : pc[w] # "idle" => request[w] \in Requests

TypeInv == PMTypeOK /\ HandlersHoldRequests

\* Every accepted move is known, and its target has a slot: the facts about
\* the step Accept that all the proofs below use.
LEMMA AcceptFacts ==
  ASSUME TypeInv, NEW w \in Workers, Accept(w)
  PROVE  /\ request[w] \in Requests
         /\ request[w].from \in Paths
         /\ request[w].to \in Paths
         /\ request[w].link \in Links
         /\ moved[request[w].link] # request[w].to
         /\ capacity[request[w].to] > 0
         /\ capacity' = [capacity EXCEPT ![request[w].to] = @ - 1]
         /\ status' = [status EXCEPT ![request[w].to] = "active",
                                     ![request[w].from] = "down"]
         /\ moved' = [moved EXCEPT ![request[w].link] = request[w].to]
         /\ reroutes' = Append(reroutes, request[w])
  BY PathManagerAssumption
     DEF TypeInv, HandlersHoldRequests, Accept, Known, AlreadyRides, HasSpare,
         CapacityAfter, StatusAfter, MovedAfter

LEMMA InitTypeInv == Init => TypeInv
  BY TopologyAssumption, PathManagerAssumption
     DEF Init, Fresh, InitialStatus, TypeInv, PMTypeOK, HandlersHoldRequests

LEMMA AcceptTypeInv ==
  ASSUME TypeInv, NEW w \in Workers, Accept(w)
  PROVE  TypeInv'
<1> DEFINE r == request[w]
<1> USE DEF TypeInv, PMTypeOK
<1>0. /\ r \in Requests /\ r.from \in Paths /\ r.to \in Paths /\ r.link \in Links
      /\ capacity[r.to] > 0
      /\ capacity' = [capacity EXCEPT ![r.to] = @ - 1]
      /\ status' = [status EXCEPT ![r.to] = "active", ![r.from] = "down"]
      /\ moved' = [moved EXCEPT ![r.link] = r.to]
      /\ reroutes' = Append(reroutes, r)
  BY AcceptFacts
<1> HIDE DEF r
<1>1. capacity' \in [Paths -> Nat]
  BY <1>0
<1>2. status' \in [Paths -> {"standby", "active", "down"}]
  BY <1>0
<1>3. moved' \in [Links -> Paths \union {None}]
  BY <1>0
<1>4. reroutes' \in Seq(Requests)
  BY <1>0
<1>5. HandlersHoldRequests'
  BY DEF Accept, HandlersHoldRequests
<1>6. /\ pc' \in [Workers -> {"idle", "called", "append", "reply"}]
      /\ request' \in [Workers -> Requests \union {None}]
      /\ accepted' \in [Workers -> BOOLEAN]
      /\ record' \in [Workers -> Nat]
  <2>1. Len(reroutes) + 1 \in Nat
    OBVIOUS
  <2> QED
    BY <2>1 DEF Accept
<1>7. UNCHANGED <<logVars, incarnation>>
  BY DEF Accept
<1> QED
  BY <1>1, <1>2, <1>3, <1>4, <1>5, <1>6, <1>7 DEF logVars

LEMMA RestartTypeInv == TypeInv /\ Restart => TypeInv'
  BY TopologyAssumption, PathManagerAssumption
     DEF Restart, Fresh, InitialStatus, TypeInv, PMTypeOK, HandlersHoldRequests

LEMMA NextTypeInv == TypeInv /\ [Next]_vars => TypeInv'
<1> SUFFICES ASSUME TypeInv, [Next]_vars PROVE TypeInv'
  OBVIOUS
<1> USE DEF TypeInv, PMTypeOK, HandlersHoldRequests, topologyVars, logVars
<1>1. ASSUME NEW w \in Workers, NEW r \in Requests, Receive(w, r) PROVE TypeInv'
  BY <1>1 DEF Receive
<1>2. ASSUME NEW w \in Workers, RejectUnknown(w) PROVE TypeInv'
  BY <1>2 DEF RejectUnknown, Answer
<1>3. ASSUME NEW w \in Workers, AlreadyApplied(w) PROVE TypeInv'
  BY <1>3 DEF AlreadyApplied, Answer
<1>4. ASSUME NEW w \in Workers, RejectNoCapacity(w) PROVE TypeInv'
  BY <1>4 DEF RejectNoCapacity, Answer
<1>5. ASSUME NEW w \in Workers, Accept(w) PROVE TypeInv'
  BY <1>5, AcceptTypeInv
<1>6. ASSUME NEW w \in Workers, AppendLog(w) PROVE TypeInv'
  <2>1. LogEntry(w) \in Nat \X Nat
    BY DEF LogEntry
  <2>2. logfile' \in Seq(Nat \X Nat)
    <3>1. CASE logfile' = Append(logfile, LogEntry(w))
      BY <2>1, <3>1
    <3>2. CASE UNCHANGED logfile
      BY <3>2
    <3> QED
      BY <1>6, <3>1, <3>2 DEF AppendLog
  <2>3. unlogged' \in SUBSET (Nat \X Nat)
    BY <1>6, <2>1, Zenon DEF AppendLog
  <2>4. UNCHANGED <<topologyVars, request, accepted, record, incarnation>>
    BY <1>6 DEF AppendLog
  <2>5. pc' = [pc EXCEPT ![w] = "reply"] /\ pc[w] = "append"
    BY <1>6 DEF AppendLog
  <2> QED
    BY <2>2, <2>3, <2>4, <2>5
<1>7. ASSUME NEW w \in Workers, Respond(w) PROVE TypeInv'
  BY <1>7 DEF Respond
<1>8. CASE Restart
  BY <1>8, RestartTypeInv
<1>9. CASE UNCHANGED vars
  BY <1>9 DEF vars, workerVars
<1> QED
  BY <1>1, <1>2, <1>3, <1>4, <1>5, <1>6, <1>7, <1>8, <1>9
     DEF Next, Serve, Apply

LEMMA TypeInvHolds == Spec => []TypeInv
  BY InitTypeInv, NextTypeInv, PTL DEF Spec

\* Type correctness of the path manager: among others, no interleaving of
\* the two pools takes a capacity below zero.
THEOREM TypeCorrect == Spec => []PMTypeOK
<1>1. TypeInv => PMTypeOK
  BY DEF TypeInv
<1> QED
  BY <1>1, TypeInvHolds, PTL

-----------------------------------------------------------------------------
(* The topology changes in two ways only *)

\* A step of the service either leaves the topology and its history alone,
\* accepts one request, or starts a new process.
LEMMA StepCases ==
  ASSUME [Next]_vars
  PROVE  \/ UNCHANGED topologyVars
         \/ \E w \in Workers : Accept(w)
         \/ Restart
  BY DEF Next, vars, Receive, Serve, Apply, RejectUnknown, AlreadyApplied,
         RejectNoCapacity, Answer, AppendLog, Respond

LEMMA InitCapacityAccounting == Init => CapacityAccounting
<1> SUFFICES ASSUME Init, NEW p \in Paths
             PROVE  capacity[p] + Cardinality(Onto(p)) = Capacity[p]
  BY DEF CapacityAccounting
<1>1. Onto(p) = {}
  BY DEF Init, Fresh, Onto
<1> QED
  BY <1>1, FS_EmptySet, TopologyAssumption DEF Init, Fresh

LEMMA NextCapacityAccounting ==
  TypeInv /\ CapacityAccounting /\ [Next]_vars => CapacityAccounting'
<1> SUFFICES ASSUME TypeInv, CapacityAccounting, [Next]_vars, NEW p \in Paths
             PROVE  capacity'[p] + Cardinality(Onto(p)') = Capacity[p]
  BY DEF CapacityAccounting
<1>0. capacity[p] \in Nat /\ capacity[p] + Cardinality(Onto(p)) = Capacity[p]
  BY DEF CapacityAccounting, TypeInv, PMTypeOK
<1>1. CASE UNCHANGED topologyVars
  BY <1>0, <1>1 DEF topologyVars, Onto
<1>2. ASSUME NEW w \in Workers, Accept(w)
      PROVE  capacity'[p] + Cardinality(Onto(p)') = Capacity[p]
  <2> DEFINE r == request[w]
             n == Len(reroutes) + 1
  <2>0. reroutes \in Seq(Requests)
    BY DEF TypeInv, PMTypeOK
  <2>1. r \in Requests /\ reroutes' = Append(reroutes, r)
    BY <1>2, AcceptFacts
  <2>2. /\ DOMAIN reroutes = 1 .. Len(reroutes)
        /\ DOMAIN reroutes' = 1 .. n
        /\ reroutes'[n] = r
        /\ \A i \in DOMAIN reroutes : reroutes'[i] = reroutes[i]
    BY <2>0, <2>1
  <2>3. IsFiniteSet(Onto(p)) /\ Cardinality(Onto(p)) \in Nat /\ n \notin Onto(p)
    <3>1. Onto(p) \subseteq 1 .. Len(reroutes)
      BY <2>2 DEF Onto
    <3>2. Len(reroutes) \in Nat
      BY <2>0
    <3>3. IsFiniteSet(1 .. Len(reroutes))
      BY <3>2, FS_Interval
    <3> QED
      BY <3>1, <3>2, <3>3, FS_Subset, FS_CardinalityType
  <2>4. CASE r.to = p
    <3>1. Onto(p)' = Onto(p) \union {n}
      BY <2>0, <2>2, <2>4 DEF Onto
    <3>2. Cardinality(Onto(p)') = Cardinality(Onto(p)) + 1
      BY <3>1, <2>3, FS_AddElement
    <3>3. capacity'[p] = capacity[p] - 1
      BY <1>2, <2>4, AcceptFacts DEF TypeInv, PMTypeOK
    <3> QED
      BY <1>0, <2>3, <3>2, <3>3
  <2>5. CASE r.to # p
    <3>1. Onto(p)' = Onto(p)
      BY <2>0, <2>2, <2>5 DEF Onto
    <3>2. capacity'[p] = capacity[p]
      BY <1>2, <2>5, AcceptFacts DEF TypeInv, PMTypeOK
    <3> QED
      BY <1>0, <3>1, <3>2
  <2> QED
    BY <2>4, <2>5
<1>3. CASE Restart
  <2>1. Onto(p)' = {}
    BY <1>3 DEF Restart, Fresh, Onto
  <2> QED
    BY <1>3, <2>1, FS_EmptySet, TopologyAssumption DEF Restart, Fresh
<1> QED
  BY <1>1, <1>2, <1>3, StepCases

\* No interleaving of the pools books a slot twice or loses one: at all times
\* a path's spare slots and the reroutes accepted onto it since the process
\* started add up to its configured capacity.
THEOREM CapacityAccountingHolds == Spec => []CapacityAccounting
  BY TypeInvHolds, InitCapacityAccounting, NextCapacityAccounting, PTL DEF Spec

-----------------------------------------------------------------------------
(* The idempotency map and the history *)

\* What Accept does to the history, place by place.
LEMMA AcceptHistory ==
  ASSUME TypeInv, NEW w \in Workers, Accept(w)
  PROVE  /\ Len(reroutes) \in Nat
         /\ DOMAIN reroutes = 1 .. Len(reroutes)
         /\ DOMAIN reroutes' = 1 .. Len(reroutes) + 1
         /\ reroutes'[Len(reroutes) + 1] = request[w]
         /\ \A i \in DOMAIN reroutes : reroutes'[i] = reroutes[i]
<1>1. reroutes \in Seq(Requests) /\ request[w] \in Requests
  BY AcceptFacts DEF TypeInv, PMTypeOK
<1>2. reroutes' = Append(reroutes, request[w])
  BY AcceptFacts
<1> QED
  BY <1>1, <1>2

LEMMA InitMovedIsLatestReroute == Init => MovedIsLatestReroute
<1> SUFFICES ASSUME Init, NEW l \in Links
             PROVE  moved[l] = None /\ \A i \in DOMAIN reroutes : reroutes[i].link # l
  BY DEF MovedIsLatestReroute
<1>1. DOMAIN reroutes = {}
  BY DEF Init, Fresh
<1> QED
  BY <1>1 DEF Init, Fresh

LEMMA NextMovedIsLatestReroute ==
  TypeInv /\ MovedIsLatestReroute /\ [Next]_vars => MovedIsLatestReroute'
<1> SUFFICES ASSUME TypeInv, MovedIsLatestReroute, [Next]_vars
             PROVE  MovedIsLatestReroute'
  OBVIOUS
<1>1. CASE UNCHANGED topologyVars
  BY <1>1 DEF topologyVars, MovedIsLatestReroute
<1>2. ASSUME NEW w \in Workers, Accept(w) PROVE MovedIsLatestReroute'
  <2> DEFINE r == request[w]
             n == Len(reroutes) + 1
  <2> SUFFICES ASSUME NEW l \in Links
               PROVE  \/ /\ moved'[l] = None
                         /\ \A i \in DOMAIN reroutes' : reroutes'[i].link # l
                      \/ \E i \in DOMAIN reroutes' :
                           /\ reroutes'[i].link = l
                           /\ reroutes'[i].to = moved'[l]
                           /\ \A j \in DOMAIN reroutes' :
                                j > i => reroutes'[j].link # l
    BY DEF MovedIsLatestReroute
  <2>1. /\ n \in Nat \ {0} /\ DOMAIN reroutes = 1 .. n - 1
        /\ DOMAIN reroutes' = 1 .. n /\ reroutes'[n] = r
        /\ \A i \in DOMAIN reroutes : reroutes'[i] = reroutes[i]
    BY <1>2, AcceptHistory
  <2>2. moved' = [moved EXCEPT ![r.link] = r.to] /\ r.link \in Links
    BY <1>2, AcceptFacts
  <2>3. moved \in [Links -> Paths \union {None}]
    BY DEF TypeInv, PMTypeOK
  <2> HIDE DEF r, n
  <2>4. CASE r.link = l
    <3>1. moved'[l] = r.to
      BY <2>2, <2>3, <2>4
    <3> QED
      BY <2>1, <2>4, <3>1
  <2>5. CASE r.link # l
    <3>1. moved'[l] = moved[l]
      BY <2>2, <2>3, <2>5
    <3>2. CASE moved[l] = None /\ \A i \in DOMAIN reroutes : reroutes[i].link # l
      BY <2>1, <2>5, <3>1, <3>2
    <3>3. ASSUME NEW i \in DOMAIN reroutes,
                 reroutes[i].link = l, reroutes[i].to = moved[l],
                 \A j \in DOMAIN reroutes : j > i => reroutes[j].link # l
          PROVE  /\ i \in DOMAIN reroutes'
                 /\ reroutes'[i].link = l
                 /\ reroutes'[i].to = moved'[l]
                 /\ \A j \in DOMAIN reroutes' : j > i => reroutes'[j].link # l
      BY <2>1, <2>5, <3>1, <3>3
    <3> QED
      BY <3>2, <3>3 DEF MovedIsLatestReroute
  <2> QED
    BY <2>4, <2>5
<1>3. CASE Restart
  BY <1>3 DEF Restart, Fresh, MovedIsLatestReroute
<1> QED
  BY <1>1, <1>2, <1>3, StepCases

\* The `moved` map, on which the idempotency of the two transports rests,
\* is never out of step with the accepted reroutes.
THEOREM MovedIsLatestRerouteHolds == Spec => []MovedIsLatestReroute
  BY TypeInvHolds, InitMovedIsLatestReroute, NextMovedIsLatestReroute, PTL
     DEF Spec

LEMMA InitNoRepeatedMove == Init => NoRepeatedMove
  BY DEF Init, Fresh, NoRepeatedMove

\* A move that repeats the latest one of its link is not accepted, because
\* moved holds the target of that latest one: so if an earlier reroute of the
\* link has the target of the new one, the latest is another and lies between.
LEMMA NextNoRepeatedMove ==
  TypeInv /\ MovedIsLatestReroute /\ NoRepeatedMove /\ [Next]_vars
    => NoRepeatedMove'
<1> SUFFICES ASSUME TypeInv, MovedIsLatestReroute, NoRepeatedMove, [Next]_vars
             PROVE  NoRepeatedMove'
  OBVIOUS
<1>1. CASE UNCHANGED topologyVars
  BY <1>1 DEF topologyVars, NoRepeatedMove
<1>2. ASSUME NEW w \in Workers, Accept(w) PROVE NoRepeatedMove'
  <2> DEFINE r == request[w]
             n == Len(reroutes) + 1
  <2> SUFFICES ASSUME NEW i \in DOMAIN reroutes', NEW j \in DOMAIN reroutes',
                      i < j, reroutes'[i].link = reroutes'[j].link,
                      reroutes'[i].to = reroutes'[j].to
               PROVE  \E k \in DOMAIN reroutes' :
                        /\ i < k /\ k < j
                        /\ reroutes'[k].link = reroutes'[i].link
                        /\ reroutes'[k].to # reroutes'[i].to
    BY DEF NoRepeatedMove
  <2>1. /\ n \in Nat \ {0} /\ DOMAIN reroutes = 1 .. n - 1
        /\ DOMAIN reroutes' = 1 .. n /\ reroutes'[n] = r
        /\ \A k \in DOMAIN reroutes : reroutes'[k] = reroutes[k]
    BY <1>2, AcceptHistory
  <2>2. r.link \in Links /\ r.to \in Paths /\ moved[r.link] # r.to
    BY <1>2, AcceptFacts
  <2> HIDE DEF r, n
  <2>3. i \in DOMAIN reroutes
    BY <2>1
  <2>4. CASE j \in DOMAIN reroutes
    <3>1. PICK k \in DOMAIN reroutes :
            /\ i < k /\ k < j
            /\ reroutes[k].link = reroutes[i].link
            /\ reroutes[k].to # reroutes[i].to
      BY <2>1, <2>3, <2>4 DEF NoRepeatedMove
    <3> QED
      BY <2>1, <2>3, <3>1
  <2>5. CASE j = n
    <3>1. reroutes[i].link = r.link /\ reroutes[i].to = r.to
      BY <2>1, <2>3, <2>5
    <3>2. PICK k \in DOMAIN reroutes :
            /\ reroutes[k].link = r.link
            /\ reroutes[k].to = moved[r.link]
            /\ \A m \in DOMAIN reroutes : m > k => reroutes[m].link # r.link
      BY <2>2, <2>3, <3>1 DEF MovedIsLatestReroute
    <3>3. k # i /\ ~(i > k)
      BY <2>2, <2>3, <3>1, <3>2
    <3>4. i < k /\ k < n
      BY <2>1, <2>3, <3>2, <3>3
    <3> QED
      BY <2>1, <2>2, <2>3, <2>5, <3>1, <3>2, <3>4
  <2> QED
    BY <2>1, <2>4, <2>5
<1>3. CASE Restart
  BY <1>3 DEF Restart, Fresh, NoRepeatedMove
<1> QED
  BY <1>1, <1>2, <1>3, StepCases

\* The REST and gRPC copies of one move are applied once, for any number of
\* copies and of threads.
THEOREM NoRepeatedMoveHolds == Spec => []NoRepeatedMove
  BY TypeInvHolds, MovedIsLatestRerouteHolds, InitNoRepeatedMove,
     NextNoRepeatedMove, PTL DEF Spec

-----------------------------------------------------------------------------
(* The status of the paths *)

LEMMA InitStatusFollowsHistory == Init => StatusFollowsHistory
<1> SUFFICES ASSUME Init, NEW p \in Paths
             PROVE  /\ status[p] = InitialStatus(p)
                    /\ \A i \in DOMAIN reroutes : ~Touches(i, p)
  BY DEF StatusFollowsHistory
<1>1. DOMAIN reroutes = {}
  BY DEF Init, Fresh
<1> QED
  BY <1>1 DEF Init, Fresh

LEMMA NextStatusFollowsHistory ==
  TypeInv /\ StatusFollowsHistory /\ [Next]_vars => StatusFollowsHistory'
<1> SUFFICES ASSUME TypeInv, StatusFollowsHistory, [Next]_vars
             PROVE  StatusFollowsHistory'
  OBVIOUS
<1>1. CASE UNCHANGED topologyVars
  BY <1>1 DEF topologyVars, StatusFollowsHistory, Touches
<1>2. ASSUME NEW w \in Workers, Accept(w) PROVE StatusFollowsHistory'
  <2> DEFINE r == request[w]
             n == Len(reroutes) + 1
  <2> SUFFICES ASSUME NEW p \in Paths
               PROVE  \/ /\ status'[p] = InitialStatus(p)
                         /\ \A i \in DOMAIN reroutes' : ~Touches(i, p)'
                      \/ \E i \in DOMAIN reroutes' :
                           /\ Touches(i, p)'
                           /\ \A j \in DOMAIN reroutes' : j > i => ~Touches(j, p)'
                           /\ status'[p] = IF reroutes'[i].from = p
                                             THEN "down" ELSE "active"
    BY DEF StatusFollowsHistory
  <2>1. /\ n \in Nat \ {0} /\ DOMAIN reroutes = 1 .. n - 1
        /\ DOMAIN reroutes' = 1 .. n /\ reroutes'[n] = r
        /\ \A i \in DOMAIN reroutes : reroutes'[i] = reroutes[i]
    BY <1>2, AcceptHistory
  <2>2. /\ status' = [status EXCEPT ![r.to] = "active", ![r.from] = "down"]
        /\ r.from \in Paths /\ r.to \in Paths
    BY <1>2, AcceptFacts
  <2>3. status \in [Paths -> {"standby", "active", "down"}]
    BY DEF TypeInv, PMTypeOK
  <2> HIDE DEF r, n
  <2>4. CASE r.from = p \/ r.to = p
    <3>1. status'[p] = IF r.from = p THEN "down" ELSE "active"
      BY <2>2, <2>3, <2>4
    <3> QED
      BY <2>1, <2>4, <3>1 DEF Touches
  <2>5. CASE r.from # p /\ r.to # p
    <3>1. status'[p] = status[p]
      BY <2>2, <2>3, <2>5
    <3>2. CASE status[p] = InitialStatus(p) /\ \A i \in DOMAIN reroutes : ~Touches(i, p)
      BY <2>1, <2>5, <3>1, <3>2 DEF Touches
    <3>3. ASSUME NEW i \in DOMAIN reroutes, Touches(i, p),
                 \A j \in DOMAIN reroutes : j > i => ~Touches(j, p),
                 status[p] = IF reroutes[i].from = p THEN "down" ELSE "active"
          PROVE  /\ i \in DOMAIN reroutes'
                 /\ Touches(i, p)'
                 /\ \A j \in DOMAIN reroutes' : j > i => ~Touches(j, p)'
                 /\ status'[p] = IF reroutes'[i].from = p THEN "down" ELSE "active"
      BY <2>1, <2>5, <3>1, <3>3 DEF Touches
    <3> QED
      BY <3>2, <3>3 DEF StatusFollowsHistory, Touches
  <2> QED
    BY <2>4, <2>5
<1>3. CASE Restart
  <2>1. DOMAIN reroutes' = {} /\ \A p \in Paths : status'[p] = InitialStatus(p)
    BY <1>3 DEF Restart, Fresh
  <2> QED
    BY <2>1 DEF StatusFollowsHistory
<1> QED
  BY <1>1, <1>2, <1>3, StepCases

\* The status map of the paths never disagrees with the accepted moves:
\* traffic that left a path and traffic that came to it are both recorded,
\* in the order in which the lock was taken.
THEOREM StatusFollowsHistoryHolds == Spec => []StatusFollowsHistory
  BY TypeInvHolds, InitStatusFollowsHistory, NextStatusFollowsHistory, PTL
     DEF Spec

-----------------------------------------------------------------------------
(* The answers *)

LEMMA InitAcceptedMeansMoved == Init => AcceptedMeansMoved
  BY DEF Init, Fresh, AcceptedMeansMoved

LEMMA NextAcceptedMeansMoved ==
  TypeInv /\ MovedIsLatestReroute /\ AcceptedMeansMoved /\ [Next]_vars
    => AcceptedMeansMoved'
<1> SUFFICES ASSUME TypeInv, MovedIsLatestReroute, AcceptedMeansMoved, [Next]_vars
             PROVE  AcceptedMeansMoved'
  OBVIOUS
<1> USE DEF AcceptedMeansMoved, topologyVars
<1>0. /\ pc \in [Workers -> {"idle", "called", "append", "reply"}]
      /\ request \in [Workers -> Requests \union {None}]
      /\ accepted \in [Workers -> BOOLEAN]
  BY DEF TypeInv, PMTypeOK
<1>1. ASSUME NEW w \in Workers, NEW r \in Requests, Receive(w, r)
      PROVE  AcceptedMeansMoved'
  BY <1>0, <1>1 DEF Receive
<1>2. ASSUME NEW w \in Workers, RejectUnknown(w) \/ RejectNoCapacity(w)
      PROVE  AcceptedMeansMoved'
  BY <1>0, <1>2 DEF RejectUnknown, RejectNoCapacity, Answer
<1>3. ASSUME NEW w \in Workers, AlreadyApplied(w) PROVE AcceptedMeansMoved'
  <2>1. /\ request[w].link \in Links /\ request[w].to \in Paths
        /\ moved[request[w].link] = request[w].to
        /\ pc[w] = "called"
    BY <1>3, PathManagerAssumption
       DEF AlreadyApplied, Known, AlreadyRides, TypeInv, HandlersHoldRequests
  <2>2. None \notin Paths
    BY TopologyAssumption DEF Paths
  <2>3. \E i \in DOMAIN reroutes :
          reroutes[i].link = request[w].link /\ reroutes[i].to = request[w].to
    BY <2>1, <2>2 DEF MovedIsLatestReroute
  <2> QED
    BY <1>0, <1>3, <2>3 DEF AlreadyApplied, Answer
<1>4. ASSUME NEW w \in Workers, Accept(w) PROVE AcceptedMeansMoved'
  <2>1. /\ Len(reroutes) \in Nat
        /\ DOMAIN reroutes = 1 .. Len(reroutes)
        /\ DOMAIN reroutes' = 1 .. Len(reroutes) + 1
        /\ reroutes'[Len(reroutes) + 1] = request[w]
        /\ \A i \in DOMAIN reroutes : reroutes'[i] = reroutes[i]
    BY <1>4, AcceptHistory
  <2>2. /\ pc' = [pc EXCEPT ![w] = "append"]
        /\ accepted' = [accepted EXCEPT ![w] = TRUE]
        /\ request' = request
    BY <1>4 DEF Accept
  <2> SUFFICES ASSUME NEW v \in Workers, pc'[v] \in {"append", "reply"}, accepted'[v]
               PROVE  \E i \in DOMAIN reroutes' :
                        /\ reroutes'[i].link = request[v].link
                        /\ reroutes'[i].to = request[v].to
    BY <2>2
  <2>3. CASE v = w
    BY <2>1, <2>3
  <2>4. CASE v # w
    BY <1>0, <2>1, <2>2, <2>4
  <2> QED
    BY <2>3, <2>4
<1>5. ASSUME NEW w \in Workers, AppendLog(w) PROVE AcceptedMeansMoved'
  BY <1>0, <1>5 DEF AppendLog
<1>6. ASSUME NEW w \in Workers, Respond(w) PROVE AcceptedMeansMoved'
  BY <1>0, <1>6 DEF Respond
<1>7. CASE Restart
  BY <1>7 DEF Restart, Fresh
<1>8. CASE UNCHANGED vars
  BY <1>8 DEF vars, workerVars
<1> QED
  BY <1>1, <1>2, <1>3, <1>4, <1>5, <1>6, <1>7, <1>8 DEF Next, Serve, Apply

\* A client that is told accepted=True is told the truth, by whichever
\* branch of apply_reroute its answer was built.
THEOREM AcceptedMeansMovedHolds == Spec => []AcceptedMeansMoved
  BY TypeInvHolds, MovedIsLatestRerouteHolds, InitAcceptedMeansMoved,
     NextAcceptedMeansMoved, PTL DEF Spec

-----------------------------------------------------------------------------
(* The reroute log *)

\* What the file and the failed writes hold of this incarnation are places of
\* its history; all else in the file was written by earlier incarnations.
LogKnowsIncarnation ==
  /\ \A k \in DOMAIN logfile :
       \/ logfile[k][1] < incarnation
       \/ logfile[k][1] = incarnation /\ logfile[k][2] \in DOMAIN reroutes
  /\ \A e \in unlogged : e[1] = incarnation /\ e[2] \in DOMAIN reroutes

LogInv == TypeInv /\ LogKnowsIncarnation /\ LogAccounting

\* A new process has nothing to log, whatever earlier ones left in the file.
LEMMA FreshLog ==
  ASSUME TypeInv, DOMAIN reroutes = {}, unlogged = {},
         \A w \in Workers : pc[w] # "append",
         \A k \in DOMAIN logfile : logfile[k][1] < incarnation,
         \A j, k \in DOMAIN logfile : logfile[j] = logfile[k] => j = k
  PROVE  LogInv
<1>1. Pending = {} /\ Failed = {}
  BY DEF Pending, Failed
<1> QED
  BY <1>1 DEF LogInv, LogKnowsIncarnation, LogAccounting

LEMMA InitLogInv == Init => LogInv
<1> SUFFICES ASSUME Init PROVE LogInv
  OBVIOUS
<1>1. TypeInv
  BY InitTypeInv
<1>2. /\ DOMAIN reroutes = {} /\ unlogged = {} /\ DOMAIN logfile = {}
      /\ \A w \in Workers : pc[w] # "append"
  BY DEF Init, Fresh
<1> QED
  BY <1>1, <1>2, FreshLog

\* A step that neither accepts nor logs: the same workers hold the same
\* records.
LEMMA QuietLogInv ==
  ASSUME LogInv, TypeInv', UNCHANGED <<reroutes, logfile, unlogged, incarnation>>,
         \A v \in Workers : /\ pc'[v] = "append" <=> pc[v] = "append"
                            /\ pc[v] = "append" => record'[v] = record[v]
  PROVE  LogInv'
<1>1. Logged' = Logged /\ Failed' = Failed
  BY DEF Logged, Failed
<1>2. Pending' = Pending
  BY DEF Pending
<1>3. LogAccounting'
  BY <1>1, <1>2 DEF LogInv, LogAccounting
<1> QED
  BY <1>3 DEF LogInv, LogKnowsIncarnation

\* The entries of the file are pairs of numbers.
LEMMA EntryType ==
  ASSUME TypeInv, NEW k \in DOMAIN logfile
  PROVE  /\ logfile[k] = <<logfile[k][1], logfile[k][2]>>
         /\ logfile[k][1] \in Nat /\ logfile[k][2] \in Nat
<1>1. logfile \in Seq(Nat \X Nat)
  BY DEF TypeInv, PMTypeOK
<1>2. logfile[k] \in Nat \X Nat
  BY <1>1
<1> QED
  BY <1>2

LEMMA AcceptLogInv ==
  ASSUME LogInv, TypeInv', NEW w \in Workers, Accept(w)
  PROVE  LogInv'
<1> DEFINE n == Len(reroutes) + 1
<1>1. /\ n \in Nat \ {0} /\ DOMAIN reroutes = 1 .. n - 1
      /\ DOMAIN reroutes' = 1 .. n
  BY AcceptHistory DEF LogInv
<1>2. /\ UNCHANGED <<logfile, unlogged, incarnation>>
      /\ pc' = [pc EXCEPT ![w] = "append"] /\ pc[w] = "called"
      /\ record' = [record EXCEPT ![w] = n]
  BY DEF Accept, logVars
<1>3. /\ pc \in [Workers -> {"idle", "called", "append", "reply"}]
      /\ record \in [Workers -> Nat] /\ incarnation \in Nat
      /\ unlogged \in SUBSET (Nat \X Nat)
  BY DEF LogInv, TypeInv, PMTypeOK
<1> HIDE DEF n
<1>4. Logged' = Logged /\ Failed' = Failed
  BY <1>2 DEF Logged, Failed
<1>5. /\ pc'[w] = "append" /\ record'[w] = n
      /\ \A v \in Workers \ {w} : pc'[v] = pc[v] /\ record'[v] = record[v]
  BY <1>2, <1>3
<1>6. Pending' = Pending \union {n}
  BY <1>2, <1>5 DEF Pending
<1>7. Logged \subseteq DOMAIN reroutes /\ Failed \subseteq DOMAIN reroutes
  <2>1. ASSUME NEW i \in Logged PROVE i \in DOMAIN reroutes
    <3>1. PICK k \in DOMAIN logfile : logfile[k] = <<incarnation, i>>
      BY DEF Logged
    <3> QED
      BY <1>3, <3>1 DEF LogInv, LogKnowsIncarnation
  <2>2. ASSUME NEW i \in Failed PROVE i \in DOMAIN reroutes
    BY DEF Failed, LogInv, LogKnowsIncarnation
  <2> QED
    BY <2>1, <2>2
<1>8. n \notin Logged /\ n \notin Failed /\ Pending \subseteq DOMAIN reroutes
  BY <1>1, <1>7 DEF LogInv, LogAccounting
<1>9. ASSUME NEW u \in Workers, NEW v \in Workers,
             pc'[u] = "append", pc'[v] = "append", record'[u] = record'[v]
      PROVE  u = v
  <2>1. \A x \in Workers : pc[x] = "append" => record[x] # n
    BY <1>1, <1>8 DEF Pending
  <2>2. CASE u = w \/ v = w
    BY <1>5, <1>9, <2>1, <2>2
  <2>3. CASE u # w /\ v # w
    BY <1>5, <1>9, <2>3 DEF LogInv, LogAccounting
  <2> QED
    BY <2>2, <2>3
<1>10. LogAccounting'
  <2>1. \A j, k \in DOMAIN logfile' : logfile'[j] = logfile'[k] => j = k
    BY <1>2 DEF LogInv, LogAccounting
  <2>2. \A i \in DOMAIN reroutes' : i \in Logged' \/ i \in Failed' \/ i \in Pending'
    BY <1>1, <1>4, <1>6 DEF LogInv, LogAccounting
  <2>3. \A i \in DOMAIN reroutes' : ~(i \in Logged' /\ i \in Failed')
    BY <1>1, <1>4, <1>8 DEF LogInv, LogAccounting
  <2>4. \A i \in Pending' : i \in DOMAIN reroutes' /\ i \notin Logged' /\ i \notin Failed'
    BY <1>1, <1>4, <1>6, <1>8 DEF LogInv, LogAccounting
  <2> QED
    BY <1>9, <2>1, <2>2, <2>3, <2>4 DEF LogAccounting
<1>11. LogKnowsIncarnation'
  BY <1>1, <1>2 DEF LogInv, LogKnowsIncarnation
<1> QED
  BY <1>10, <1>11 DEF LogInv

\* The record a worker holds is of this incarnation and not in the file yet,
\* so writing it repeats nothing.
LEMMA AppendLogInv ==
  ASSUME LogInv, TypeInv', NEW w \in Workers, AppendLog(w)
  PROVE  LogInv'
<1> DEFINE i0 == record[w]
           n  == Len(logfile) + 1
<1>1. /\ pc[w] = "append" /\ pc' = [pc EXCEPT ![w] = "reply"]
      /\ UNCHANGED <<reroutes, record, incarnation>>
  BY DEF AppendLog, topologyVars
<1>2. /\ pc \in [Workers -> {"idle", "called", "append", "reply"}]
      /\ record \in [Workers -> Nat] /\ incarnation \in Nat /\ i0 \in Nat
      /\ logfile \in Seq(Nat \X Nat)
  BY DEF LogInv, TypeInv, PMTypeOK
<1>3. /\ pc'[w] # "append"
      /\ \A v \in Workers \ {w} : pc'[v] = pc[v]
  BY <1>1, <1>2
<1>4. i0 \in Pending /\ i0 \in DOMAIN reroutes /\ i0 \notin Logged /\ i0 \notin Failed
  <2>1. i0 \in Pending
    BY <1>1 DEF Pending
  <2> QED
    BY <2>1 DEF LogInv, LogAccounting
<1>5. \A v \in Workers \ {w} : pc[v] = "append" => record[v] # i0
  BY <1>1 DEF LogInv, LogAccounting
<1>6. Pending' = Pending \ {i0}
  BY <1>1, <1>3, <1>5 DEF Pending
<1>7. \A u, v \in Workers :
        (pc'[u] = "append" /\ pc'[v] = "append" /\ record'[u] = record'[v]) => u = v
  BY <1>1, <1>3 DEF LogInv, LogAccounting
<1>8. CASE logfile' = Append(logfile, <<incarnation, i0>>) /\ unlogged' = unlogged
  <2> HIDE DEF i0
  <2>1. /\ n \in Nat \ {0} /\ DOMAIN logfile = 1 .. n - 1
        /\ DOMAIN logfile' = 1 .. n /\ logfile'[n] = <<incarnation, i0>>
        /\ \A k \in DOMAIN logfile : logfile'[k] = logfile[k]
    BY <1>2, <1>8
  <2> HIDE DEF n
  <2>2. \A k \in DOMAIN logfile : logfile[k] # <<incarnation, i0>>
    BY <1>2, <1>4 DEF Logged
  <2>3. Logged' = Logged \union {i0} /\ Failed' = Failed
    <3>1. ASSUME NEW i \in Nat
          PROVE  i \in Logged' <=> (i \in Logged \/ i = i0)
      <4>1. i \in Logged' <=> \E k \in DOMAIN logfile' : logfile'[k] = <<incarnation, i>>
        BY <1>1 DEF Logged
      <4>2. i \in Logged <=> \E k \in DOMAIN logfile : logfile[k] = <<incarnation, i>>
        BY DEF Logged
      <4> QED
        BY <2>1, <4>1, <4>2
    <3>2. Logged \subseteq Nat /\ Logged' \subseteq Nat
      BY DEF Logged
    <3>3. Failed' = Failed
      BY <1>1, <1>8 DEF Failed
    <3> QED
      BY <1>2, <3>1, <3>2, <3>3
  <2>4. \A j, k \in DOMAIN logfile' : logfile'[j] = logfile'[k] => j = k
    <3> SUFFICES ASSUME NEW j \in DOMAIN logfile', NEW k \in DOMAIN logfile',
                        logfile'[j] = logfile'[k]
                 PROVE  j = k
      OBVIOUS
    <3>1. CASE j \in DOMAIN logfile /\ k \in DOMAIN logfile
      BY <2>1, <3>1 DEF LogInv, LogAccounting
    <3>2. CASE j = n \/ k = n
      BY <2>1, <2>2, <3>2
    <3> QED
      BY <2>1, <3>1, <3>2
  <2>5. LogAccounting'
    BY <1>1, <1>4, <1>6, <1>7, <2>3, <2>4 DEF LogInv, LogAccounting
  <2>6. LogKnowsIncarnation'
    BY <1>1, <1>4, <1>8, <2>1 DEF LogInv, LogKnowsIncarnation
  <2> QED
    BY <2>5, <2>6 DEF LogInv
<1>9. CASE logfile' = logfile /\ unlogged' = unlogged \union {<<incarnation, i0>>}
  <2> HIDE DEF i0
  <2>1. Logged' = Logged /\ Failed' = Failed \union {i0}
    BY <1>1, <1>2, <1>9 DEF Logged, Failed
  <2>2. LogAccounting'
    BY <1>1, <1>4, <1>6, <1>7, <1>9, <2>1 DEF LogInv, LogAccounting
  <2>3. LogKnowsIncarnation'
    BY <1>1, <1>4, <1>9 DEF LogInv, LogKnowsIncarnation
  <2> QED
    BY <2>2, <2>3 DEF LogInv
<1> QED
  BY <1>8, <1>9 DEF AppendLog, LogEntry

LEMMA NextLogInv == LogInv /\ [Next]_vars => LogInv'
<1> SUFFICES ASSUME LogInv, [Next]_vars PROVE LogInv'
  OBVIOUS
<1>0. /\ TypeInv /\ TypeInv'
      /\ pc \in [Workers -> {"idle", "called", "append", "reply"}]
      /\ record \in [Workers -> Nat]
  BY NextTypeInv DEF LogInv, TypeInv, PMTypeOK
<1>1. ASSUME NEW w \in Workers, NEW r \in Requests, Receive(w, r) PROVE LogInv'
  BY <1>0, <1>1, QuietLogInv DEF Receive, topologyVars, logVars
<1>2. ASSUME NEW w \in Workers, RejectUnknown(w) \/ AlreadyApplied(w) \/ RejectNoCapacity(w)
      PROVE  LogInv'
  BY <1>0, <1>2, QuietLogInv
     DEF RejectUnknown, AlreadyApplied, RejectNoCapacity, Answer, topologyVars, logVars
<1>3. ASSUME NEW w \in Workers, Accept(w) PROVE LogInv'
  BY <1>0, <1>3, AcceptLogInv
<1>4. ASSUME NEW w \in Workers, AppendLog(w) PROVE LogInv'
  BY <1>0, <1>4, AppendLogInv
<1>5. ASSUME NEW w \in Workers, Respond(w) PROVE LogInv'
  BY <1>0, <1>5, QuietLogInv DEF Respond, topologyVars, logVars
<1>6. CASE Restart
  <2>1. /\ DOMAIN reroutes' = {} /\ unlogged' = {} /\ logfile' = logfile
        /\ \A w \in Workers : pc'[w] # "append"
        /\ incarnation' = incarnation + 1 /\ incarnation \in Nat
    BY <1>0, <1>6 DEF Restart, Fresh, TypeInv, PMTypeOK
  <2>2. \A k \in DOMAIN logfile : logfile[k][1] < incarnation + 1
    BY <1>0, <2>1, EntryType DEF LogInv, LogKnowsIncarnation
  <2>3. \A j, k \in DOMAIN logfile : logfile[j] = logfile[k] => j = k
    BY DEF LogInv, LogAccounting
  <2>4. Pending' = {} /\ Failed' = {}
    BY <2>1 DEF Pending, Failed
  <2>5. LogAccounting'
    BY <2>1, <2>3, <2>4 DEF LogAccounting
  <2>6. LogKnowsIncarnation'
    BY <2>1, <2>2 DEF LogKnowsIncarnation
  <2> QED
    BY <1>0, <2>5, <2>6 DEF LogInv
<1>7. CASE UNCHANGED vars
  BY <1>0, <1>7, QuietLogInv DEF vars, topologyVars, workerVars, logVars
<1> QED
  BY <1>1, <1>2, <1>3, <1>4, <1>5, <1>6, <1>7 DEF Next, Serve, Apply

\* The reroute log, written outside the lock, neither repeats nor forgets a
\* move of the running process, for any number of threads, failed writes and
\* restarts.
THEOREM LogAccountingHolds == Spec => []LogAccounting
<1>1. LogInv => LogAccounting
  BY DEF LogInv
<1> QED
  BY <1>1, InitLogInv, NextLogInv, PTL DEF Spec

-----------------------------------------------------------------------------
(* Refinement *)

LEMMA StepSimulation ==
  TypeInv /\ [Next]_vars => [Switch!Next]_<<moved, capacity>>
<1> SUFFICES ASSUME TypeInv, [Next]_vars
             PROVE  [Switch!Next]_<<moved, capacity>>
  OBVIOUS
<1>1. CASE UNCHANGED topologyVars
  BY <1>1 DEF topologyVars
<1>2. ASSUME NEW w \in Workers, Accept(w) PROVE Switch!Next
  <2>1. /\ request[w].link \in Links
        /\ request[w].to \in [l \in Links |-> Paths][request[w].link]
        /\ Switch!Switch(request[w].link, request[w].to)
    BY <1>2, AcceptFacts DEF Switch!Switch
  <2> QED
    BY <2>1 DEF Switch!Next
<1>3. CASE Restart
  BY <1>3 DEF Restart, Fresh, Switch!Next, Switch!Restart
<1> QED
  BY <1>1, <1>2, <1>3, StepCases

\* Seen from its topology, the threaded service is the one-step switch.
THEOREM Refinement == Spec => ImplementsSwitch
<1>1. Init => Switch!Init
  BY DEF Init, Fresh, Switch!Init
<1> QED
  BY <1>1, StepSimulation, TypeInvHolds, PTL
     DEF Spec, ImplementsSwitch, Switch!Spec
=============================================================================
