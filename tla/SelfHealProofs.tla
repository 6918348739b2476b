--------------------------- MODULE SelfHealProofs ---------------------------
(***************************************************************************)
(* Proofs about SelfHeal, for every topology, every number of threads in   *)
(* the three pools, and any number of calls lost, given up or late and of  *)
(* deaths of either process.                                               *)
(***************************************************************************)
EXTENDS SelfHeal, FiniteSetTheorems, WellFoundedInduction, TLAPS

HP == INSTANCE HealerProofs
PP == INSTANCE PathManagerProofs

-----------------------------------------------------------------------------
(* What the healer can ask for *)

LEMMA NatMin ==
  ASSUME NEW T \in SUBSET Nat, T # {}
  PROVE  \E m \in T : \A k \in T : m <= k
<1>1. IsWellFoundedOn(OpToRel(<, Nat), Nat)
  BY NatLessThanWellFounded
<1>2. PICK x \in T : \A y \in T : ~(<<y, x>> \in OpToRel(<, Nat))
  BY <1>1, WFMin
<1>3. \A y \in T : ~(y < x)
  BY <1>2 DEF OpToRel
<1> QED
  BY <1>3

\* The first working path of a link is a working path of the file.
LEMMA WorkingPathKnown ==
  ASSUME NEW l \in Links, WorkingPathForLink(l) # None
  PROVE  WorkingPathForLink(l) \in Paths /\ Role[WorkingPathForLink(l)] = "working"
<1>1. WorkingPlaces(l) # {}
  BY DEF WorkingPathForLink
<1>2. WorkingPlaces(l) \in SUBSET Nat
  BY TopologyAssumption DEF WorkingPlaces
<1>3. \E i \in WorkingPlaces(l) : \A j \in WorkingPlaces(l) : i <= j
  BY <1>1, <1>2, NatMin
<1>4. (CHOOSE i \in WorkingPlaces(l) : \A j \in WorkingPlaces(l) : i <= j) \in WorkingPlaces(l)
  BY <1>3
<1> QED
  BY <1>1, <1>4 DEF WorkingPathForLink, WorkingPlaces, Paths

\* The two operators below are those of Topology, which the healer extends.
LEMMA SameTopology ==
  /\ \A l : H!WorkingPathForLink(l) = WorkingPathForLink(l)
  /\ \A l : H!ProtectionPathForLink(l) = ProtectionPathForLink(l)
  /\ P!Paths = Paths
  BY DEF H!WorkingPathForLink, WorkingPathForLink, H!ProtectionPathForLink,
         ProtectionPathForLink, H!WorkingPlaces, WorkingPlaces, P!Paths, Paths

\* Every request is for a link's own pair of paths.
LEMMA RequestFacts ==
  ASSUME NEW r \in Requests
  PROVE  /\ r = [from |-> WorkingPathForLink(r.link),
                 to |-> Protection[r.link], link |-> r.link]
         /\ r.link \in Links /\ r.link \in DOMAIN Protection
         /\ r.from \in Paths
         /\ r.to \in PathNames
         /\ r.from = WorkingPathForLink(r.link)
         /\ r.to = Protection[r.link]
<1>1. PICK l \in Links : H!HasProtection(l) /\ r = H!Payload(l)
  BY DEF Requests
<1>2. WorkingPathForLink(l) # None /\ ProtectionPathForLink(l) # None
  BY <1>1, SameTopology DEF H!HasProtection
<1>3. l \in DOMAIN Protection /\ ProtectionPathForLink(l) = Protection[l]
  BY <1>2 DEF ProtectionPathForLink
<1>4. Protection[l] \in PathNames
  BY <1>3, TopologyAssumption
<1>5. WorkingPathForLink(l) \in Paths
  BY <1>2, WorkingPathKnown
<1>6. r = [from |-> WorkingPathForLink(l), to |-> Protection[l], link |-> l]
  BY <1>1, <1>3, SameTopology DEF H!Payload
<1> QED
  BY <1>3, <1>4, <1>5, <1>6

LEMMA Assumptions ==
  /\ HP!TopologyAssumption /\ HP!HealerAssumption
  /\ PP!TopologyAssumption /\ PP!PathManagerAssumption
<1>1. HP!TopologyAssumption /\ PP!TopologyAssumption
  BY TopologyAssumption DEF HP!TopologyAssumption, HP!Paths, PP!TopologyAssumption, PP!Paths, Paths
<1>2. HP!HealerAssumption
  BY SelfHealAssumption DEF H!HealerAssumption, HP!HealerAssumption
<1>3. Paths \subseteq PathNames
  BY TopologyAssumption DEF Paths
<1>4. Requests \subseteq [from : PathNames, to : PathNames, link : Links]
  BY <1>3, RequestFacts
<1> QED
  BY <1>1, <1>2, <1>4, SelfHealAssumption DEF PP!PathManagerAssumption

-----------------------------------------------------------------------------
(* The two processes keep their own specifications *)

\* Every step of the loop is a step of the healer's or leaves it alone.
LEMMA HealerSteps == [Next]_vars => [HP!Next]_(HP!vars)
<1> SUFFICES ASSUME [Next]_vars PROVE HP!Next \/ UNCHANGED HP!vars
  OBVIOUS
<1> USE DEF healerVars, HP!vars, HP!linkVars, HP!threadVars, HP!historyVars
<1>1. ASSUME NEW t \in Threads, Observe(t) PROVE HP!Next
  <2>1. \/ \E o \in H!Observations : H!Enter(t, o)
        \/ H!Return(t)
        \/ H!Finish(t)
    BY <1>1 DEF Observe
  <2>2. ASSUME NEW o \in H!Observations, H!Enter(t, o) PROVE HP!Next
    <3>1. HP!Enter(t, o) /\ o \in HP!Observations
      BY <2>2 DEF H!Enter, HP!Enter, H!Busy, HP!Busy, H!NowReadings, HP!NowReadings,
                  H!historyVars, H!Observations, HP!Observations
    <3> QED
      BY <3>1 DEF HP!Next
  <2>3. ASSUME H!Return(t) PROVE HP!Next
    <3>1. HP!Return(t)
      BY <2>3 DEF H!Return, HP!Return, H!BelowThreshold, HP!BelowThreshold, H!Count, HP!Count,
         H!Suppress, HP!Suppress, H!NoProtection, HP!NoProtection, H!Judge, HP!Judge,
         H!Leave, HP!Leave, H!Counting, HP!Counting, H!Suppressed, HP!Suppressed,
         H!HasProtection, HP!HasProtection, H!Link, HP!Link, H!ConsecutiveAfter,
         HP!ConsecutiveAfter, H!WorkingPathForLink, HP!WorkingPathForLink,
         H!ProtectionPathForLink, HP!ProtectionPathForLink, H!WorkingPlaces,
         HP!WorkingPlaces
    <3> QED
      BY <3>1 DEF HP!Next, HP!Handle
  <2>4. ASSUME H!Finish(t) PROVE HP!Next
    <3>1. HP!Finish(t)
      BY <2>4 DEF H!Finish, HP!Finish, H!HoldOffFrom, HP!HoldOffFrom, H!Link, HP!Link,
                  H!Leave, HP!Leave, H!historyVars
    <3> QED
      BY <3>1 DEF HP!Next, HP!Handle
  <2> QED
    BY <2>1, <2>2, <2>3, <2>4
<1>2. ASSUME NEW t \in Threads, EmitRest(t) PROVE HP!Next
  <2>1. HP!EmitRest(t)
    BY <1>2 DEF EmitRest, H!EmitRest, HP!EmitRest, H!Judge, HP!Judge,
       H!Counting, HP!Counting, H!Suppressed, HP!Suppressed,
       H!HasProtection, HP!HasProtection, H!Link, HP!Link, H!ConsecutiveAfter,
       HP!ConsecutiveAfter, H!WorkingPathForLink, HP!WorkingPathForLink,
       H!ProtectionPathForLink, HP!ProtectionPathForLink, H!WorkingPlaces,
       HP!WorkingPlaces
  <2> QED
    BY <2>1 DEF HP!Next, HP!Handle
<1>3. ASSUME NEW t \in Threads, RestReturns(t) \/ GrpcReturns(t) PROVE HP!Next
  <2>1. HP!RestReturns(t) \/ HP!GrpcReturns(t)
    BY <1>3 DEF RestReturns, GrpcReturns, H!RestReturns, HP!RestReturns, H!GrpcReturns,
                HP!GrpcReturns, H!linkVars, H!historyVars
  <2> QED
    BY <2>1 DEF HP!Next, HP!Handle
<1>4. ASSUME HealerRestart PROVE HP!Next
  <2>1. \A e : H!Reroute(e) = HP!Reroute(e)
    BY DEF H!Reroute, HP!Reroute
  <2>2. HP!Restart
    BY <1>4, <2>1 DEF HealerRestart, H!Restart, HP!Restart
  <2> QED
    BY <2>2 DEF HP!Next
<1>5. ASSUME NEW w \in Workers, WorkerStep(w) PROVE UNCHANGED HP!vars
  BY <1>5 DEF WorkerStep, Deliver, Work, Reply
<1>6. ASSUME NEW c \in wire, Lose(c) PROVE UNCHANGED HP!vars
  BY <1>6 DEF Lose
<1>7. ASSUME PathManagerRestart \/ UNCHANGED vars PROVE UNCHANGED HP!vars
  BY <1>7 DEF PathManagerRestart, vars
<1> QED
  BY <1>1, <1>2, <1>3, <1>4, <1>5, <1>6, <1>7 DEF Next, HealerStep

LEMMA HealerInside == Spec => HP!Spec
<1>1. Init => HP!Init
  BY DEF Init, H!Init, HP!Init
<1> QED
  BY <1>1, HealerSteps, PTL DEF Spec, HP!Spec

LEMMA HealerTypes == Spec => []HP!TypeInv
  BY HealerInside, HP!TypeInvHolds, Assumptions, PTL

\* What is on the wire was sent for a link with a protection path, and so
\* was what an emission still has to send; every call has a number of its own.
CallsOK ==
  /\ \A t \in Threads : phase[t] = "rest" => H!HasProtection(H!Link(t))
  /\ calls \in Nat
  /\ \A c \in wire : /\ c.req \in Requests
                     /\ c.id \in 1 .. calls
                     /\ c = [id |-> c.id, via |-> c.via, req |-> c.req]

LEMMA PayloadRequested ==
  ASSUME NEW l \in Links, H!HasProtection(l)
  PROVE  H!Payload(l) \in Requests
  BY DEF Requests

\* The steps that put a call on the wire, and what the others leave alone.
LEMMA InitCallsOK == Init => CallsOK
  BY DEF Init, H!Init, CallsOK

LEMMA NextCallsOK == HP!TypeInv /\ CallsOK /\ [Next]_vars => CallsOK'
<1> SUFFICES ASSUME HP!TypeInv, CallsOK, [Next]_vars PROVE CallsOK'
  OBVIOUS
<1>0. /\ phase \in [Threads -> {"idle", "entered", "rest", "grpc", "finish"}]
      /\ obs \in [Threads -> HP!Observations \union {None}]
      /\ \A t \in Threads : phase[t] # "idle" => obs[t].link \in Links
  BY DEF HP!TypeInv, HP!HealerTypeOK, HP!HandlersHoldObservations, HP!Busy,
         HP!Observations
<1>1. ASSUME NEW t \in Threads, Observe(t) PROVE CallsOK'
  <2>1. UNCHANGED <<wire, calls>> /\ phase' \in [Threads -> {"idle", "entered", "rest", "grpc", "finish"}]
    BY <1>0, <1>1 DEF Observe, networkVars, H!Enter, H!Return, H!Finish, H!Leave,
       H!BelowThreshold, H!Count, H!Suppress, H!NoProtection
  <2>2. \A u \in Threads : phase'[u] = "rest" => phase[u] = "rest" /\ obs'[u] = obs[u]
    BY <1>0, <1>1 DEF Observe, H!Enter, H!Return, H!Finish, H!Leave,
       H!BelowThreshold, H!Count, H!Suppress, H!NoProtection
  <2> QED
    BY <2>1, <2>2 DEF CallsOK, H!Link, H!HasProtection
<1>2. ASSUME NEW t \in Threads, EmitRest(t) PROVE CallsOK'
  <2>1. /\ H!HasProtection(obs[t].link) /\ obs' = obs /\ phase[t] = "entered"
        /\ phase' = [phase EXCEPT ![t] = "rest"]
        /\ calls' = calls + 1
        /\ wire' = wire \union {[id |-> calls + 1, via |-> "rest", req |-> H!Payload(obs[t].link)]}
    BY <1>2 DEF EmitRest, H!EmitRest, H!Judge, Send, H!Link
  <2>2. H!Payload(obs[t].link) \in Requests
    BY <1>0, <2>1, PayloadRequested
  <2>3. \A u \in Threads : phase'[u] = "rest" => H!HasProtection(H!Link(u))'
    BY <1>0, <2>1 DEF CallsOK, H!Link, H!HasProtection
  <2> QED
    BY <2>1, <2>2, <2>3 DEF CallsOK
<1>3. ASSUME NEW t \in Threads, RestReturns(t) PROVE CallsOK'
  <2>1. /\ phase[t] = "rest" /\ obs' = obs
        /\ phase' = [phase EXCEPT ![t] = IF GrpcStubs THEN "grpc" ELSE "finish"]
    BY <1>3 DEF RestReturns, H!RestReturns
  <2>2. \/ UNCHANGED <<wire, calls>>
        \/ /\ calls' = calls + 1
           /\ wire' = wire \union {[id |-> calls + 1, via |-> "grpc", req |-> H!Payload(obs[t].link)]}
    BY <1>3 DEF RestReturns, Send, H!Link
  <2>3. H!Payload(obs[t].link) \in Requests
    BY <1>0, <2>1, PayloadRequested DEF CallsOK, H!Link
  <2>4. \A u \in Threads : phase'[u] = "rest" => phase[u] = "rest"
    BY <1>0, <2>1
  <2>5. \A u \in Threads : phase'[u] = "rest" => H!HasProtection(H!Link(u))'
    BY <2>1, <2>4 DEF CallsOK, H!Link, H!HasProtection
  <2> QED
    BY <2>2, <2>3, <2>5 DEF CallsOK
<1>4. ASSUME NEW t \in Threads, GrpcReturns(t) PROVE CallsOK'
  <2>1. /\ obs' = obs /\ phase' = [phase EXCEPT ![t] = "finish"]
        /\ UNCHANGED <<wire, calls>>
    BY <1>4 DEF GrpcReturns, H!GrpcReturns
  <2> QED
    BY <1>0, <2>1 DEF CallsOK, H!Link, H!HasProtection
<1>5. ASSUME HealerRestart PROVE CallsOK'
  <2>1. phase' = [t \in Threads |-> "idle"] /\ UNCHANGED <<wire, calls>>
    BY <1>5 DEF HealerRestart, H!Restart
  <2> QED
    BY <2>1 DEF CallsOK
<1>6. ASSUME wire' \subseteq wire, UNCHANGED <<phase, obs, calls>> PROVE CallsOK'
  BY <1>6 DEF CallsOK, H!Link, H!HasProtection
<1>7. ASSUME NEW w \in Workers, WorkerStep(w) PROVE CallsOK'
  BY <1>6, <1>7 DEF WorkerStep, Deliver, Work, Reply, healerVars, networkVars
<1>8. ASSUME NEW c \in wire, Lose(c) PROVE CallsOK'
  BY <1>6, <1>8 DEF Lose, healerVars
<1>9. ASSUME PathManagerRestart \/ UNCHANGED vars PROVE CallsOK'
  BY <1>6, <1>9 DEF PathManagerRestart, vars, healerVars, networkVars
<1> QED
  BY <1>1, <1>2, <1>3, <1>4, <1>5, <1>7, <1>8, <1>9 DEF Next, HealerStep

LEMMA CallsOKHolds == Spec => []CallsOK
  BY InitCallsOK, NextCallsOK, HealerTypes, PTL DEF Spec

\* What a thread of either pool does is what the path manager's does.
LEMMA SameWork ==
  ASSUME NEW w \in Workers
  PROVE  /\ \A r : P!Receive(w, r) <=> PP!Receive(w, r)
         /\ P!RejectUnknown(w) <=> PP!RejectUnknown(w)
         /\ P!AlreadyApplied(w) <=> PP!AlreadyApplied(w)
         /\ P!RejectNoCapacity(w) <=> PP!RejectNoCapacity(w)
         /\ P!Accept(w) <=> PP!Accept(w)
         /\ P!AppendLog(w) <=> PP!AppendLog(w)
         /\ P!Respond(w) <=> PP!Respond(w)
<1>1. /\ P!topologyVars = PP!topologyVars
      /\ UNCHANGED P!topologyVars <=> UNCHANGED PP!topologyVars
      /\ UNCHANGED P!logVars <=> UNCHANGED PP!logVars
  BY DEF P!topologyVars, PP!topologyVars, P!logVars, PP!logVars
<1>2. /\ \A r : P!Known(r) <=> PP!Known(r)
      /\ \A r : P!AlreadyRides(r) <=> PP!AlreadyRides(r)
      /\ \A r : P!HasSpare(r) <=> PP!HasSpare(r)
  BY DEF P!Known, PP!Known, P!AlreadyRides, PP!AlreadyRides, P!HasSpare,
         PP!HasSpare, P!Paths, PP!Paths
<1>3. \A ok : P!Answer(w, ok) <=> PP!Answer(w, ok)
  BY DEF P!Answer, PP!Answer, P!topologyVars, PP!topologyVars, P!logVars, PP!logVars
<1>4. P!Accept(w) <=> PP!Accept(w)
  BY <1>2 DEF P!Accept, PP!Accept, P!CapacityAfter, PP!CapacityAfter,
         P!StatusAfter, PP!StatusAfter, P!MovedAfter, PP!MovedAfter,
         P!logVars, PP!logVars
<1>5. P!AppendLog(w) <=> PP!AppendLog(w)
  BY DEF P!AppendLog, PP!AppendLog, P!LogEntry, PP!LogEntry,
         P!topologyVars, PP!topologyVars
<1>6. P!Respond(w) <=> PP!Respond(w)
  BY DEF P!Respond, PP!Respond, P!topologyVars, PP!topologyVars, P!logVars, PP!logVars
<1>7. \A r : P!Receive(w, r) <=> PP!Receive(w, r)
  BY DEF P!Receive, PP!Receive, P!topologyVars, PP!topologyVars, P!logVars, PP!logVars
<1> QED
  BY <1>2, <1>3, <1>4, <1>5, <1>6, <1>7
     DEF P!RejectUnknown, PP!RejectUnknown, P!AlreadyApplied, PP!AlreadyApplied,
         P!RejectNoCapacity, PP!RejectNoCapacity

LEMMA SameRestart == P!Restart <=> PP!Restart
<1>1. \A p : P!InitialStatus(p) = PP!InitialStatus(p)
  BY DEF P!InitialStatus, PP!InitialStatus
<1>2. P!Paths = PP!Paths
  BY DEF P!Paths, PP!Paths
<1> QED
  BY <1>1, <1>2 DEF P!Restart, PP!Restart, P!Fresh, PP!Fresh

\* Every step of the loop is a step of the path manager's, asked only what
\* the healer may ask for, or leaves it alone.
LEMMA PathManagerSteps ==
  CallsOK /\ [Next]_vars => [PP!Next]_(PP!vars)
<1> SUFFICES ASSUME CallsOK, [Next]_vars PROVE PP!Next \/ UNCHANGED PP!vars
  OBVIOUS
<1> USE DEF pathManagerVars, PP!vars, PP!topologyVars, PP!workerVars, PP!logVars
<1>1. ASSUME NEW t \in Threads, HealerStep(t) PROVE UNCHANGED PP!vars
  BY <1>1 DEF HealerStep, Observe, EmitRest, RestReturns, GrpcReturns
<1>2. ASSUME NEW w \in Workers, NEW c \in wire, Deliver(w, c) PROVE PP!Next
  <2>1. PP!Receive(w, c.req) /\ c.req \in Requests
    BY <1>2, SameWork DEF Deliver, CallsOK
  <2> QED
    BY <2>1 DEF PP!Next
<1>3. ASSUME NEW w \in Workers, Work(w) \/ Reply(w) PROVE PP!Next
  <2>1. PP!Serve(w)
    BY <1>3, SameWork DEF Work, Reply, P!Apply, PP!Apply, PP!Serve
  <2> QED
    BY <2>1 DEF PP!Next
<1>4. ASSUME NEW c \in wire, Lose(c) PROVE UNCHANGED PP!vars
  BY <1>4 DEF Lose
<1>5. ASSUME PathManagerRestart PROVE PP!Next
  BY <1>5, SameRestart DEF PathManagerRestart, PP!Next
<1>6. ASSUME HealerRestart \/ UNCHANGED vars PROVE UNCHANGED PP!vars
  BY <1>6 DEF HealerRestart, vars
<1> QED
  BY <1>1, <1>2, <1>3, <1>4, <1>5, <1>6 DEF Next, WorkerStep

LEMMA PathManagerInside == Spec => PP!Spec
<1>1. Init => PP!Init
  <2>1. \A p : P!InitialStatus(p) = PP!InitialStatus(p)
    BY DEF P!InitialStatus, PP!InitialStatus
  <2>2. P!Paths = PP!Paths
    BY DEF P!Paths, PP!Paths
  <2> QED
    BY <2>1, <2>2 DEF Init, P!Init, PP!Init, P!Fresh, PP!Fresh
<1> QED
  BY <1>1, PathManagerSteps, CallsOKHolds, PTL DEF Spec, PP!Spec

LEMMA PathManagerTypes == Spec => []PP!TypeInv
  BY PathManagerInside, PP!TypeInvHolds, Assumptions, PTL

-----------------------------------------------------------------------------
(* A link is moved to its own protection path, and moved once *)

RidesOwnProtection ==
  \A l \in Links : moved[l] # None => l \in DOMAIN Protection /\ moved[l] = Protection[l]

\* The three ways in which a step can touch the topology.
LEMMA MoveCases ==
  ASSUME CallsOK, [Next]_vars
  PROVE  \/ UNCHANGED <<capacity, status, moved>>
         \/ \E w \in Workers : PP!Accept(w)
         \/ PP!Restart
<1>1. \/ UNCHANGED PP!topologyVars
      \/ \E w \in Workers : PP!Accept(w)
      \/ PP!Restart
  BY PathManagerSteps, PP!StepCases, Assumptions
<1> QED
  BY <1>1 DEF PP!topologyVars

\* The healer asks for one path per link, so a link that moves had not moved.
LEMMA FirstMove ==
  ASSUME PP!TypeInv, RidesOwnProtection, NEW w \in Workers, PP!Accept(w)
  PROVE  /\ request[w] \in Requests
         /\ request[w].link \in Links
         /\ request[w].to = Protection[request[w].link]
         /\ request[w].from = WorkingPathForLink(request[w].link)
         /\ request[w].link \in DOMAIN Protection
         /\ request[w].to \in Paths /\ request[w].from \in Paths
         /\ moved[request[w].link] = None
         /\ capacity[request[w].to] > 0
         /\ capacity' = [capacity EXCEPT ![request[w].to] = @ - 1]
         /\ status' = [status EXCEPT ![request[w].to] = "active",
                                     ![request[w].from] = "down"]
         /\ moved' = [moved EXCEPT ![request[w].link] = request[w].to]
<1>1. PP!Paths = Paths
  BY DEF PP!Paths, Paths
<1> QED
  BY <1>1, PP!AcceptFacts, Assumptions, RequestFacts DEF RidesOwnProtection

LEMMA MovedType ==
  ASSUME PP!TypeInv
  PROVE  /\ capacity \in [Paths -> Nat]
         /\ status \in [Paths -> {"standby", "active", "down"}]
         /\ moved \in [Links -> Paths \union {None}]
         /\ pc \in [Workers -> {"idle", "called", "append", "reply"}]
         /\ request \in [Workers -> Requests \union {None}]
         /\ accepted \in [Workers -> BOOLEAN]
         /\ incarnation \in Nat
         /\ \A w \in Workers : pc[w] # "idle" => request[w] \in Requests
  BY DEF PP!TypeInv, PP!PMTypeOK, PP!HandlersHoldRequests, PP!Paths, Paths

LEMMA FreshTopology ==
  ASSUME PP!Restart
  PROVE  /\ moved' = [l \in Links |-> None] /\ capacity' = Capacity
         /\ status' = [p \in Paths |-> P!InitialStatus(p)]
         /\ pc' = [w \in Workers |-> "idle"]
         /\ incarnation' = incarnation + 1
  BY DEF PP!Restart, PP!Fresh, PP!InitialStatus, P!InitialStatus, PP!Paths, Paths

LEMMA NextRidesOwnProtection ==
  PP!TypeInv /\ CallsOK /\ RidesOwnProtection /\ [Next]_vars => RidesOwnProtection'
<1> SUFFICES ASSUME PP!TypeInv, CallsOK, RidesOwnProtection, [Next]_vars
             PROVE  RidesOwnProtection'
  OBVIOUS
<1>1. CASE UNCHANGED <<capacity, status, moved>>
  BY <1>1 DEF RidesOwnProtection
<1>2. ASSUME NEW w \in Workers, PP!Accept(w) PROVE RidesOwnProtection'
  BY <1>2, FirstMove, MovedType DEF RidesOwnProtection
<1>3. CASE PP!Restart
  BY <1>3, FreshTopology DEF RidesOwnProtection
<1> QED
  BY <1>1, <1>2, <1>3, MoveCases

LEMMA InitRidesOwnProtection == Init => RidesOwnProtection
  BY DEF Init, P!Init, P!Fresh, RidesOwnProtection

LEMMA RidesOwnProtectionHolds == Spec => []RidesOwnProtection
  BY InitRidesOwnProtection, NextRidesOwnProtection, PathManagerTypes, CallsOKHolds,
     PTL DEF Spec

LEMMA SwitchSimulation ==
  PP!TypeInv /\ CallsOK /\ RidesOwnProtection /\ [Next]_vars
    => [Switch!Next]_<<moved, capacity>>
<1> SUFFICES ASSUME PP!TypeInv, CallsOK, RidesOwnProtection, [Next]_vars
             PROVE  Switch!Next \/ UNCHANGED <<moved, capacity>>
  OBVIOUS
<1>1. ASSUME NEW w \in Workers, PP!Accept(w) PROVE Switch!Next
  <2> DEFINE r == request[w]
  <2>1. /\ r.link \in Links /\ r.to = Protection[r.link] /\ r.link \in DOMAIN Protection
        /\ r.to \in Paths /\ moved[r.link] = None /\ capacity[r.to] > 0
        /\ capacity' = [capacity EXCEPT ![r.to] = @ - 1]
        /\ moved' = [moved EXCEPT ![r.link] = r.to]
    BY <1>1, FirstMove
  <2>2. r.to \in Targets[r.link]
    BY <2>1 DEF Targets
  <2>3. moved[r.link] # r.to
    BY <2>1, TopologyAssumption DEF Paths
  <2>4. Switch!Switch(r.link, r.to)
    BY <2>1, <2>3 DEF Switch!Switch
  <2> QED
    BY <2>1, <2>2, <2>4 DEF Switch!Next
<1>2. CASE PP!Restart
  BY <1>2, FreshTopology DEF Switch!Next, Switch!Restart
<1> QED
  BY <1>1, <1>2, MoveCases

\* The healer's threads, two transports that lose and delay calls, and two
\* pools of the path manager together do no more than the one-step switch of
\* a link to its own protection path.
THEOREM ProtectionRefinement == Spec => ImplementsProtection
<1>1. Init => Switch!Init
  BY DEF Init, P!Init, P!Fresh, Switch!Init
<1> QED
  BY <1>1, SwitchSimulation, PathManagerTypes, CallsOKHolds, RidesOwnProtectionHolds, PTL
     DEF Spec, ImplementsProtection, Switch!Spec

-----------------------------------------------------------------------------
(* The slots of a path *)

Riders(p) == {l \in Links : moved[l] = p}

SlotsAreRidden ==
  \A p \in Paths :
    /\ IsFiniteSet(Riders(p))
    /\ capacity[p] = Capacity[p] - Cardinality(Riders(p))

LEMMA NobodyRides ==
  ASSUME moved = [l \in Links |-> None], capacity = Capacity
  PROVE  SlotsAreRidden
<1> SUFFICES ASSUME NEW p \in Paths
             PROVE  IsFiniteSet(Riders(p)) /\ capacity[p] = Capacity[p] - Cardinality(Riders(p))
  BY DEF SlotsAreRidden
<1>1. Riders(p) = {}
  BY TopologyAssumption DEF Riders, Paths
<1>2. Capacity[p] \in Nat
  BY TopologyAssumption
<1> QED
  BY <1>1, <1>2, FS_EmptySet

LEMMA NextSlotsAreRidden ==
  PP!TypeInv /\ CallsOK /\ RidesOwnProtection /\ SlotsAreRidden /\ [Next]_vars
    => SlotsAreRidden'
<1> SUFFICES ASSUME PP!TypeInv, CallsOK, RidesOwnProtection, SlotsAreRidden, [Next]_vars
             PROVE  SlotsAreRidden'
  OBVIOUS
<1>1. CASE UNCHANGED <<capacity, status, moved>>
  BY <1>1 DEF SlotsAreRidden, Riders
<1>2. ASSUME NEW w \in Workers, PP!Accept(w) PROVE SlotsAreRidden'
  <2> DEFINE m == request[w].link
             q == request[w].to
  <2>1. /\ m \in Links /\ q \in Paths /\ moved[m] = None
        /\ capacity' = [capacity EXCEPT ![q] = @ - 1]
        /\ moved' = [moved EXCEPT ![m] = q]
    BY <1>2, FirstMove
  <2>2. moved \in [Links -> Paths \union {None}] /\ capacity \in [Paths -> Nat]
    BY MovedType
  <2> HIDE DEF m, q
  <2> SUFFICES ASSUME NEW p \in Paths
               PROVE  /\ IsFiniteSet(Riders(p)')
                      /\ capacity'[p] = Capacity[p] - Cardinality(Riders(p)')
    BY DEF SlotsAreRidden
  <2>3. /\ IsFiniteSet(Riders(p)) /\ Cardinality(Riders(p)) \in Nat
        /\ capacity[p] = Capacity[p] - Cardinality(Riders(p)) /\ Capacity[p] \in Nat
    BY FS_CardinalityType, TopologyAssumption DEF SlotsAreRidden
  <2>4. None \notin Paths
    BY TopologyAssumption DEF Paths
  <2>5. CASE p = q
    <3>1. Riders(p)' = Riders(p) \union {m} /\ m \notin Riders(p)
      BY <2>1, <2>2, <2>4, <2>5 DEF Riders
    <3>2. IsFiniteSet(Riders(p)') /\ Cardinality(Riders(p)') = Cardinality(Riders(p)) + 1
      BY <2>3, <3>1, FS_AddElement
    <3>3. capacity'[p] = capacity[p] - 1
      BY <2>1, <2>2, <2>5
    <3> QED
      BY <2>3, <3>2, <3>3
  <2>6. CASE p # q
    <3>1. Riders(p)' = Riders(p)
      BY <2>1, <2>2, <2>4, <2>6 DEF Riders
    <3> QED
      BY <2>1, <2>2, <2>3, <2>6, <3>1
  <2> QED
    BY <2>5, <2>6
<1>3. CASE PP!Restart
  <2>1. moved' = [l \in Links |-> None] /\ capacity' = Capacity
    BY <1>3, FreshTopology
  <2> SUFFICES ASSUME NEW p \in Paths
               PROVE  /\ IsFiniteSet(Riders(p)')
                      /\ capacity'[p] = Capacity[p] - Cardinality(Riders(p)')
    BY DEF SlotsAreRidden
  <2>2. Riders(p)' = {} /\ Capacity[p] \in Nat
    BY <2>1, TopologyAssumption DEF Riders, Paths
  <2> QED
    BY <2>1, <2>2, FS_EmptySet
<1> QED
  BY <1>1, <1>2, <1>3, MoveCases

\* No slot of a protection path leaks and none is sold twice, whatever is
\* lost, repeated on the second transport, or delivered to the next
\* incarnation.
THEOREM SpareIsCapacityLessRidersHolds == Spec => []SpareIsCapacityLessRiders
<1>1. Init => SlotsAreRidden
  BY NobodyRides DEF Init, P!Init, P!Fresh
<1>2. SlotsAreRidden => SpareIsCapacityLessRiders
  BY DEF SlotsAreRidden, Riders, SpareIsCapacityLessRiders
<1> QED
  BY <1>1, <1>2, NextSlotsAreRidden, PathManagerTypes, CallsOKHolds,
     RidesOwnProtectionHolds, PTL DEF Spec

-----------------------------------------------------------------------------
(* The answers *)

\* A move that a worker is about to confirm, or has confirmed, is in force as
\* long as the process lives: moved is never overwritten.
AnswersAreTrue ==
  /\ \A w \in Workers :
       (pc[w] \in {"append", "reply"} /\ accepted[w])
         => moved[request[w].link] = request[w].to
  /\ \A a \in answers :
       /\ a.from <= incarnation /\ a.from \in Nat
       /\ a.link \in Links /\ a.to \in PathNames
       /\ (a.accepted /\ a.from = incarnation) => moved[a.link] = a.to

LEMMA InitAnswersAreTrue == Init => AnswersAreTrue
  BY DEF Init, P!Init, P!Fresh, AnswersAreTrue

LEMMA AcceptAnswers ==
  ASSUME PP!TypeInv, RidesOwnProtection, AnswersAreTrue,
         NEW w \in Workers, P!Accept(w), UNCHANGED answers
  PROVE  AnswersAreTrue'
<1> DEFINE r == request[w]
<1>1. PP!Accept(w)
  BY SameWork
<1>2. /\ r \in Requests /\ r.link \in Links /\ r.to \in Paths
      /\ moved[r.link] = None /\ moved' = [moved EXCEPT ![r.link] = r.to]
  BY <1>1, FirstMove
<1>3. /\ pc' = [pc EXCEPT ![w] = "append"] /\ accepted' = [accepted EXCEPT ![w] = TRUE]
      /\ UNCHANGED <<request, incarnation>>
  BY DEF P!Accept
<1>4. /\ moved \in [Links -> Paths \union {None}]
      /\ pc \in [Workers -> {"idle", "called", "append", "reply"}]
      /\ accepted \in [Workers -> BOOLEAN]
      /\ \A v \in Workers : pc[v] # "idle" => request[v] \in Requests
  BY MovedType
<1>5. None \notin PathNames /\ Paths \subseteq PathNames
  BY TopologyAssumption DEF Paths
<1>6. ASSUME NEW v \in Workers, pc'[v] \in {"append", "reply"}, accepted'[v]
      PROVE  moved'[request[v].link] = request[v].to
  <2>1. CASE v = w
    BY <1>2, <1>4, <2>1
  <2>2. CASE v # w
    <3>1. /\ pc[v] \in {"append", "reply"} /\ accepted[v] /\ request[v] \in Requests
      BY <1>3, <1>4, <1>6, <2>2
    <3>2. /\ moved[request[v].link] = request[v].to /\ request[v].to \in PathNames
          /\ request[v].link \in Links
      BY <3>1, RequestFacts DEF AnswersAreTrue
    <3> QED
      BY <1>2, <1>4, <1>5, <3>2
  <2> QED
    BY <2>1, <2>2
<1>7. ASSUME NEW a \in answers, a.accepted, a.from = incarnation
      PROVE  moved'[a.link] = a.to
  BY <1>2, <1>4, <1>5, <1>7 DEF AnswersAreTrue
<1> QED
  BY <1>3, <1>6, <1>7 DEF AnswersAreTrue

LEMMA NextAnswersAreTrue ==
  PP!TypeInv /\ CallsOK /\ RidesOwnProtection /\ AnswersAreTrue /\ [Next]_vars
    => AnswersAreTrue'
<1> SUFFICES ASSUME PP!TypeInv, CallsOK, RidesOwnProtection, AnswersAreTrue, [Next]_vars
             PROVE  AnswersAreTrue'
  OBVIOUS
<1>0. /\ pc \in [Workers -> {"idle", "called", "append", "reply"}]
      /\ accepted \in [Workers -> BOOLEAN] /\ incarnation \in Nat
      /\ request \in [Workers -> Requests \union {None}]
      /\ \A v \in Workers : pc[v] # "idle" => request[v] \in Requests
  BY MovedType
<1>1. ASSUME answers' \subseteq answers, UNCHANGED pathManagerVars PROVE AnswersAreTrue'
  BY <1>1 DEF AnswersAreTrue, pathManagerVars
<1>2. ASSUME NEW t \in Threads, HealerStep(t) PROVE AnswersAreTrue'
  <2>1. answers' \subseteq answers /\ UNCHANGED pathManagerVars
    BY <1>2 DEF HealerStep, Observe, EmitRest, RestReturns, GrpcReturns, EndCall, networkVars
  <2> QED
    BY <1>1, <2>1
<1>3. ASSUME NEW w \in Workers, NEW c \in wire, Deliver(w, c) PROVE AnswersAreTrue'
  <2>1. /\ pc' = [pc EXCEPT ![w] = "called"] /\ request' = [request EXCEPT ![w] = c.req]
        /\ UNCHANGED <<moved, accepted, incarnation, answers>> /\ pc[w] = "idle"
    BY <1>3 DEF Deliver, P!Receive, P!topologyVars
  <2> QED
    BY <1>0, <2>1 DEF AnswersAreTrue
<1>4. ASSUME NEW w \in Workers, Work(w) PROVE AnswersAreTrue'
  <2>1. UNCHANGED answers
    BY <1>4 DEF Work, networkVars
  <2>2. ASSUME P!RejectUnknown(w) \/ P!RejectNoCapacity(w) PROVE AnswersAreTrue'
    <3>1. /\ accepted' = [accepted EXCEPT ![w] = FALSE] /\ pc' = [pc EXCEPT ![w] = "reply"]
          /\ UNCHANGED <<moved, request, incarnation>>
      BY <2>2 DEF P!RejectUnknown, P!RejectNoCapacity, P!Answer, P!topologyVars
    <3> QED
      BY <1>0, <2>1, <3>1 DEF AnswersAreTrue
  <2>3. ASSUME P!AlreadyApplied(w) PROVE AnswersAreTrue'
    <3>1. /\ accepted' = [accepted EXCEPT ![w] = TRUE] /\ pc' = [pc EXCEPT ![w] = "reply"]
          /\ moved[request[w].link] = request[w].to
          /\ UNCHANGED <<moved, request, incarnation>>
      BY <2>3 DEF P!AlreadyApplied, P!AlreadyRides, P!Answer, P!topologyVars
    <3> QED
      BY <1>0, <2>1, <3>1 DEF AnswersAreTrue
  <2>4. ASSUME P!Accept(w) PROVE AnswersAreTrue'
    BY <2>1, <2>4, AcceptAnswers
  <2>5. ASSUME P!AppendLog(w) PROVE AnswersAreTrue'
    <3>1. /\ pc' = [pc EXCEPT ![w] = "reply"] /\ pc[w] = "append"
          /\ UNCHANGED <<moved, accepted, request, incarnation>>
      BY <2>5 DEF P!AppendLog, P!topologyVars
    <3> QED
      BY <1>0, <2>1, <3>1 DEF AnswersAreTrue
  <2> QED
    BY <1>4, <2>2, <2>3, <2>4, <2>5 DEF Work, P!Apply
<1>5. ASSUME NEW w \in Workers, Reply(w) PROVE AnswersAreTrue'
  <2>1. /\ pc[w] = "reply" /\ pc' = [pc EXCEPT ![w] = "idle"]
        /\ accepted' = [accepted EXCEPT ![w] = FALSE]
        /\ request' = [request EXCEPT ![w] = None]
        /\ UNCHANGED <<moved, incarnation>>
    BY <1>5 DEF Reply, P!Respond, P!topologyVars
  <2>2. ASSUME NEW a \in answers', a \notin answers
        PROVE  /\ a.from = incarnation /\ a.link = request[w].link
               /\ a.to = request[w].to /\ a.accepted = accepted[w]
    BY <1>5, <2>2 DEF Reply
  <2>3. /\ request[w].link \in Links /\ request[w].to \in PathNames
        /\ accepted[w] => moved[request[w].link] = request[w].to
    BY <1>0, <2>1, RequestFacts DEF AnswersAreTrue
  <2>4. \A a \in answers' :
          /\ a.from <= incarnation /\ a.from \in Nat
          /\ a.link \in Links /\ a.to \in PathNames
          /\ (a.accepted /\ a.from = incarnation) => moved[a.link] = a.to
    BY <1>0, <2>2, <2>3 DEF AnswersAreTrue
  <2>5. \A v \in Workers :
          (pc'[v] \in {"append", "reply"} /\ accepted'[v])
            => moved[request'[v].link] = request'[v].to
    BY <1>0, <2>1 DEF AnswersAreTrue
  <2> QED
    BY <2>1, <2>4, <2>5 DEF AnswersAreTrue
<1>6. ASSUME PathManagerRestart PROVE AnswersAreTrue'
  <2>1. /\ pc' = [w \in Workers |-> "idle"] /\ incarnation' = incarnation + 1
        /\ UNCHANGED answers
    BY <1>6, SameRestart, FreshTopology DEF PathManagerRestart
  <2> QED
    BY <1>0, <2>1 DEF AnswersAreTrue
<1>7. ASSUME NEW c \in wire, Lose(c) PROVE AnswersAreTrue'
  BY <1>1, <1>7 DEF Lose
<1>8. ASSUME HealerRestart \/ UNCHANGED vars PROVE AnswersAreTrue'
  BY <1>1, <1>8 DEF HealerRestart, vars, networkVars
<1> QED
  BY <1>2, <1>3, <1>4, <1>5, <1>6, <1>7, <1>8 DEF Next, WorkerStep

\* An acceptance that travels back is true of the path manager that gave it,
\* however late it is read.
THEOREM AcceptanceIsTrueHolds == Spec => []AcceptanceIsTrue
<1>1. AnswersAreTrue => AcceptanceIsTrue
  BY DEF AnswersAreTrue, AcceptanceIsTrue
<1> QED
  BY <1>1, InitAnswersAreTrue, NextAnswersAreTrue, PathManagerTypes, CallsOKHolds,
     RidesOwnProtectionHolds, PTL DEF Spec

-----------------------------------------------------------------------------
(* The paths that traffic is on *)

\* A path is down only because its link was moved, and a path that a link was
\* moved to is active: no later move takes anything off a protection path.
TrafficIsOnActivePaths ==
  \A l \in Links :
    /\ (WorkingPathForLink(l) # None /\ status[WorkingPathForLink(l)] = "down")
         => moved[l] # None
    /\ moved[l] # None => status[moved[l]] = "active"

LEMMA FreshTrafficIsOnActivePaths ==
  ASSUME moved = [l \in Links |-> None], status = [p \in Paths |-> P!InitialStatus(p)]
  PROVE  TrafficIsOnActivePaths
<1> SUFFICES ASSUME NEW l \in Links, WorkingPathForLink(l) # None
             PROVE  status[WorkingPathForLink(l)] # "down"
  BY DEF TrafficIsOnActivePaths
<1> QED
  BY WorkingPathKnown DEF P!InitialStatus

LEMMA NextTrafficIsOnActivePaths ==
  ASSUME SeparatePaths
  PROVE  PP!TypeInv /\ CallsOK /\ RidesOwnProtection /\ TrafficIsOnActivePaths /\ [Next]_vars
           => TrafficIsOnActivePaths'
<1> SUFFICES ASSUME PP!TypeInv, CallsOK, RidesOwnProtection, TrafficIsOnActivePaths,
                    [Next]_vars
             PROVE  TrafficIsOnActivePaths'
  OBVIOUS
<1>1. CASE UNCHANGED <<capacity, status, moved>>
  BY <1>1 DEF TrafficIsOnActivePaths
<1>2. ASSUME NEW w \in Workers, PP!Accept(w) PROVE TrafficIsOnActivePaths'
  <2> DEFINE m == request[w].link
             from == request[w].from
             to == request[w].to
  <2>1. /\ m \in Links /\ m \in DOMAIN Protection
        /\ from = WorkingPathForLink(m) /\ to = Protection[m]
        /\ to \in Paths /\ from \in Paths /\ moved[m] = None
        /\ status' = [status EXCEPT ![to] = "active", ![from] = "down"]
        /\ moved' = [moved EXCEPT ![m] = to]
    BY <1>2, FirstMove
  <2>2. /\ status \in [Paths -> {"standby", "active", "down"}]
        /\ moved \in [Links -> Paths \union {None}]
        /\ None \notin Paths
    BY MovedType, TopologyAssumption DEF Paths
  <2> HIDE DEF m, from, to
  <2>3. to # from
    BY <2>1 DEF SeparatePaths
  <2> SUFFICES ASSUME NEW l \in Links
               PROVE  /\ (WorkingPathForLink(l) # None /\ status'[WorkingPathForLink(l)] = "down")
                           => moved'[l] # None
                      /\ moved'[l] # None => status'[moved'[l]] = "active"
    BY DEF TrafficIsOnActivePaths
  <2>4. CASE l = m
    BY <2>1, <2>2, <2>3, <2>4
  <2>5. CASE l # m
    <3>1. moved'[l] = moved[l]
      BY <2>1, <2>2, <2>5
    <3>2. WorkingPathForLink(l) # None
            => /\ WorkingPathForLink(l) \in Paths
               /\ WorkingPathForLink(l) # from /\ WorkingPathForLink(l) # to
      BY <2>1, <2>2, <2>5, WorkingPathKnown DEF SeparatePaths
    <3>3. moved[l] # None => moved[l] \in Paths /\ moved[l] # from
      BY <2>1, <2>2 DEF SeparatePaths, RidesOwnProtection
    <3>4. ASSUME NEW p \in Paths, p # from
          PROVE  status'[p] = IF p = to THEN "active" ELSE status[p]
      BY <2>1, <2>2, <3>4
    <3> QED
      BY <3>1, <3>2, <3>3, <3>4 DEF TrafficIsOnActivePaths
  <2> QED
    BY <2>4, <2>5
<1>3. ASSUME PP!Restart PROVE TrafficIsOnActivePaths'
  <2>1. /\ moved' = [l \in Links |-> None]
        /\ status' = [p \in Paths |-> P!InitialStatus(p)]
    BY <1>3, FreshTopology
  <2>2. \A l \in Links :
          WorkingPathForLink(l) # None => status'[WorkingPathForLink(l)] # "down"
    BY <2>1, WorkingPathKnown DEF P!InitialStatus
  <2> QED
    BY <2>1, <2>2 DEF TrafficIsOnActivePaths
<1> QED
  BY <1>1, <1>2, <1>3, MoveCases

\* Where the paths are separate, as in configs/topology.yaml, no interleaving
\* of the moves of several links leaves traffic on a path that is down or was
\* never activated.
THEOREM DownLinksRideActivePathHolds ==
  ASSUME SeparatePaths
  PROVE  Spec => []DownLinksRideActivePath
<1>1. Init => TrafficIsOnActivePaths
  BY FreshTrafficIsOnActivePaths DEF Init, P!Init, P!Fresh, P!Paths, Paths
<1>2. PP!TypeInv /\ TrafficIsOnActivePaths => DownLinksRideActivePath
  BY MovedType DEF TrafficIsOnActivePaths, DownLinksRideActivePath
<1> QED
  BY <1>1, <1>2, NextTrafficIsOnActivePaths, PathManagerTypes, CallsOKHolds,
     RidesOwnProtectionHolds, PTL DEF Spec

-----------------------------------------------------------------------------
(* The hold-off, with at most one fault *)

\* Nothing can undo the settlement of a protected link.
DoneFor(l) == l \in DOMAIN Protection /\ Settled(l)
Called(l)  == \E w \in Workers : pc[w] = "called" /\ request[w].link = l

\* Link l is settled, or a worker is about to settle it, or one call for it is
\* on the wire; and the same with two calls, of which one may still be lost.
Covered(l) == DoneFor(l) \/ Called(l) \/ \E c \in wire : c.req.link = l
CoveredTwice(l) ==
  \/ DoneFor(l)
  \/ Called(l)
  \/ \E c, d \in wire : c # d /\ c.req.link = l /\ d.req.link = l

\* Link l has a thread that sent the first of its two calls; both were sent.
Calling(l) == \E t \in Threads : phase[t] = "rest" /\ obs[t].link = l
Sent(l) == \/ rerouted[l]
           \/ \E t \in Threads : phase[t] \in {"grpc", "finish"} /\ obs[t].link = l

EmissionsAreCovered ==
  /\ faults \in Nat
  /\ ~Disturbed => \A l \in Links :
       /\ (Calling(l) /\ faults = 0) => Covered(l)
       /\ Sent(l) => Covered(l) /\ (faults = 0 => CoveredTwice(l))

LEMMA FreshEmissionsAreCovered ==
  ASSUME faults \in Nat, rerouted = [l \in Links |-> FALSE],
         phase = [t \in Threads |-> "idle"]
  PROVE  EmissionsAreCovered
  BY DEF EmissionsAreCovered, Calling, Sent

\* A settled link stays settled while the path manager lives.
LEMMA SettledForGood ==
  ASSUME PP!TypeInv, RidesOwnProtection, TwoTransports, NEW w \in Workers, P!Accept(w),
         NEW l \in Links, DoneFor(l)
  PROVE  DoneFor(l)'
<1> DEFINE m == request[w].link
           q == request[w].to
<1>1. /\ m \in Links /\ q = Protection[m] /\ m \in DOMAIN Protection
      /\ q \in Paths /\ moved[m] = None /\ capacity[q] > 0
      /\ capacity' = [capacity EXCEPT ![q] = @ - 1]
      /\ moved' = [moved EXCEPT ![m] = q]
  BY FirstMove, SameWork
<1>2. /\ moved \in [Links -> Paths \union {None}] /\ capacity \in [Paths -> Nat]
      /\ None \notin Paths
  BY MovedType, TopologyAssumption DEF Paths
<1> HIDE DEF m, q
<1>3. ProtectionPathForLink(l) = Protection[l] /\ Protection[l] \in Paths
  BY DEF DoneFor, TwoTransports, ProtectionPathForLink
<1>4. CASE moved[l] = ProtectionPathForLink(l)
  BY <1>1, <1>2, <1>3, <1>4 DEF DoneFor, Settled
<1>5. CASE capacity[ProtectionPathForLink(l)] = 0
  BY <1>1, <1>2, <1>3, <1>5 DEF DoneFor, Settled
<1> QED
  BY <1>4, <1>5 DEF DoneFor, Settled

\* The worker that has the lock settles the link of its request, whichever
\* of the four branches of apply_reroute it takes.
LEMMA ApplySettles ==
  ASSUME PP!TypeInv, RidesOwnProtection, TwoTransports, NEW w \in Workers, P!Apply(w),
         NEW m \in Links, m = request[w].link
  PROVE  DoneFor(m)'
<1> DEFINE q == request[w].to
<1>1. /\ m \in Links /\ q = Protection[m] /\ m \in DOMAIN Protection /\ q \in Paths
      /\ request[w].from \in Paths /\ q = ProtectionPathForLink(m)
  <2>1. pc[w] = "called"
    BY DEF P!Apply, P!RejectUnknown, P!AlreadyApplied, P!RejectNoCapacity, P!Accept
  <2>2. request[w] \in Requests
    BY <2>1, MovedType
  <2> QED
    BY <2>2, RequestFacts DEF TwoTransports, ProtectionPathForLink
<1>2. ~P!RejectUnknown(w)
  BY <1>1, SameTopology DEF P!RejectUnknown, P!Known
<1>3. CASE P!AlreadyApplied(w)
  BY <1>1, <1>3 DEF P!AlreadyApplied, P!AlreadyRides, P!Answer, P!topologyVars,
                    DoneFor, Settled
<1>4. CASE P!RejectNoCapacity(w)
  <2>1. capacity[q] \in Nat /\ ~(capacity[q] > 0) /\ UNCHANGED <<capacity, moved>>
    BY <1>1, <1>4, MovedType DEF P!RejectNoCapacity, P!HasSpare, P!Answer, P!topologyVars
  <2> QED
    BY <1>1, <2>1 DEF DoneFor, Settled
<1>5. CASE P!Accept(w)
  <2>1. moved' = [moved EXCEPT ![m] = q]
    BY <1>5, FirstMove, SameWork
  <2> QED
    BY <1>1, <2>1, MovedType DEF DoneFor, Settled
<1> QED
  BY <1>2, <1>3, <1>4, <1>5 DEF P!Apply

\* No step of a worker uncovers a link.
LEMMA WorkersCover ==
  ASSUME PP!TypeInv, RidesOwnProtection, CallsOK, TwoTransports,
         NEW w \in Workers, WorkerStep(w), NEW l \in Links
  PROVE  /\ Covered(l) => Covered(l)'
         /\ CoveredTwice(l) => CoveredTwice(l)'
<1>0. /\ pc \in [Workers -> {"idle", "called", "append", "reply"}]
      /\ request \in [Workers -> Requests \union {None}]
  BY MovedType
<1> USE DEF Covered, CoveredTwice
<1>1. ASSUME NEW c \in wire, Deliver(w, c)
      PROVE  (Covered(l) => Covered(l)') /\ (CoveredTwice(l) => CoveredTwice(l)')
  <2>1. /\ pc[w] = "idle" /\ pc' = [pc EXCEPT ![w] = "called"]
        /\ request' = [request EXCEPT ![w] = c.req] /\ wire' = wire \ {c}
        /\ UNCHANGED <<moved, capacity>>
    BY <1>1 DEF Deliver, P!Receive, P!topologyVars
  <2>2. DoneFor(l) => DoneFor(l)'
    BY <2>1 DEF DoneFor, Settled
  <2>3. Called(l) => Called(l)'
    BY <1>0, <2>1 DEF Called
  <2>4. c.req.link = l => Called(l)'
    BY <1>0, <2>1 DEF Called
  <2> QED
    BY <2>1, <2>2, <2>3, <2>4
<1>2. ASSUME P!Apply(w), UNCHANGED wire
      PROVE  (Covered(l) => Covered(l)') /\ (CoveredTwice(l) => CoveredTwice(l)')
  <2>1. DoneFor(l) => DoneFor(l)'
    <3>1. CASE P!Accept(w)
      BY <3>1, SettledForGood
    <3>2. CASE UNCHANGED <<moved, capacity>>
      BY <3>2 DEF DoneFor, Settled
    <3> QED
      BY <1>2, <3>1, <3>2 DEF P!Apply, P!RejectUnknown, P!AlreadyApplied,
         P!RejectNoCapacity, P!Answer, P!topologyVars
  <2>2. Called(l) => Called(l)' \/ DoneFor(l)'
    <3>1. \A v \in Workers : v # w => pc'[v] = pc[v] /\ request'[v] = request[v]
      BY <1>0, <1>2 DEF P!Apply, P!RejectUnknown, P!AlreadyApplied,
         P!RejectNoCapacity, P!Answer, P!Accept
    <3> SUFFICES ASSUME NEW v \in Workers, pc[v] = "called", request[v].link = l
                 PROVE  Called(l)' \/ DoneFor(l)'
      BY DEF Called
    <3>2. CASE v = w
      <4>1. l = request[w].link
        BY <3>2
      <4> QED
        BY <1>2, <4>1, ApplySettles
    <3>3. CASE v # w
      BY <3>1, <3>3 DEF Called
    <3> QED
      BY <3>2, <3>3
  <2> QED
    BY <1>2, <2>1, <2>2
<1>3. ASSUME P!AppendLog(w) \/ P!Respond(w), UNCHANGED wire
      PROVE  (Covered(l) => Covered(l)') /\ (CoveredTwice(l) => CoveredTwice(l)')
  <2>1. /\ pc[w] # "called" /\ UNCHANGED <<moved, capacity>>
        /\ \A v \in Workers : v # w => pc'[v] = pc[v] /\ request'[v] = request[v]
    BY <1>0, <1>3 DEF P!AppendLog, P!Respond, P!topologyVars
  <2>2. DoneFor(l) => DoneFor(l)'
    BY <2>1 DEF DoneFor, Settled
  <2>3. Called(l) => Called(l)'
    BY <2>1 DEF Called
  <2> QED
    BY <1>3, <2>2, <2>3
<1> QED
  BY <1>1, <1>2, <1>3 DEF WorkerStep, Work, Reply, networkVars

\* The healer's steps take no call back.
LEMMA CallersCover ==
  ASSUME EmissionsAreCovered, wire \subseteq wire', UNCHANGED pathManagerVars,
         faults' \in {faults, faults + 1},
         \A l \in Links : Calling(l)' => Calling(l),
         \A l \in Links : Sent(l)' => Sent(l)
  PROVE  EmissionsAreCovered'
<1>1. UNCHANGED <<moved, capacity, pc, request, incarnation>>
  BY DEF pathManagerVars
<1>2. ASSUME NEW l \in Links
      PROVE  (Covered(l) => Covered(l)') /\ (CoveredTwice(l) => CoveredTwice(l)')
  <2>1. (DoneFor(l) <=> DoneFor(l)') /\ (Called(l) <=> Called(l)')
    BY <1>1 DEF DoneFor, Settled, Called
  <2> QED
    BY <2>1 DEF Covered, CoveredTwice
<1>3. faults \in Nat /\ faults' \in Nat /\ (faults' = 0 => faults = 0) /\ (Disturbed => Disturbed')
  BY <1>1 DEF EmissionsAreCovered, Disturbed
<1> QED
  BY <1>2, <1>3 DEF EmissionsAreCovered

\* The second call of an emission has a number that no call on the wire has.
LEMMA RestReturnsCovers ==
  ASSUME HP!TypeInv, CallsOK, EmissionsAreCovered, TwoTransports,
         NEW t \in Threads, RestReturns(t), faults' \in {faults, faults + 1}
  PROVE  EmissionsAreCovered'
<1> DEFINE m == obs[t].link
           n == [id |-> calls + 1, via |-> "grpc", req |-> H!Payload(m)]
<1>1. /\ phase[t] = "rest" /\ phase' = [phase EXCEPT ![t] = "grpc"] /\ obs' = obs
      /\ wire' = wire \union {n} /\ rerouted' = rerouted
      /\ UNCHANGED <<moved, capacity, pc, request, incarnation>>
  BY DEF RestReturns, H!RestReturns, Send, H!Link, H!linkVars, pathManagerVars, TwoTransports
<1>2. phase \in [Threads -> {"idle", "entered", "rest", "grpc", "finish"}]
  BY DEF HP!TypeInv, HP!HealerTypeOK
<1>3. n \notin wire /\ n.req.link = m
  BY DEF CallsOK, H!Payload
<1> HIDE DEF m, n
<1>4. ASSUME NEW l \in Links
      PROVE  /\ Covered(l) => Covered(l)'
             /\ CoveredTwice(l) => CoveredTwice(l)'
             /\ l = m => Covered(l)'
             /\ l = m /\ Covered(l) => CoveredTwice(l)'
  <2>1. (DoneFor(l) <=> DoneFor(l)') /\ (Called(l) <=> Called(l)')
    BY <1>1 DEF DoneFor, Settled, Called
  <2> QED
    BY <1>1, <1>3, <2>1 DEF Covered, CoveredTwice
<1>5. \A l \in Links : Calling(l)' => Calling(l)
  BY <1>1, <1>2 DEF Calling
<1>6. \A l \in Links : Sent(l)' => Sent(l) \/ l = m
  BY <1>1, <1>2 DEF Sent, m
<1>7. faults \in Nat /\ faults' \in Nat /\ (faults' = 0 => faults = 0) /\ (Disturbed => Disturbed')
  BY <1>1 DEF EmissionsAreCovered, Disturbed
<1>8. Calling(m)
  BY <1>1 DEF Calling, m
<1>9. ASSUME ~Disturbed', NEW l \in Links
      PROVE  /\ (Calling(l)' /\ faults' = 0) => Covered(l)'
             /\ Sent(l)' => Covered(l)' /\ (faults' = 0 => CoveredTwice(l)')
  BY <1>4, <1>5, <1>6, <1>7, <1>8, <1>9 DEF EmissionsAreCovered
<1> QED
  BY <1>7, <1>9 DEF EmissionsAreCovered

LEMMA EmitRestCovers ==
  ASSUME HP!TypeInv, EmissionsAreCovered, NEW t \in Threads, EmitRest(t)
  PROVE  EmissionsAreCovered'
<1> DEFINE m == obs[t].link
           n == [id |-> calls + 1, via |-> "rest", req |-> H!Payload(m)]
<1>1. /\ phase' = [phase EXCEPT ![t] = "rest"] /\ obs' = obs
      /\ wire' = wire \union {n} /\ rerouted' = rerouted
      /\ UNCHANGED <<moved, capacity, pc, request, incarnation, faults>>
  BY DEF EmitRest, H!EmitRest, H!Judge, Send, H!Link, pathManagerVars
<1>2. phase \in [Threads -> {"idle", "entered", "rest", "grpc", "finish"}]
  BY DEF HP!TypeInv, HP!HealerTypeOK
<1>3. n.req.link = m
  BY DEF H!Payload
<1> HIDE DEF n
<1>4. ASSUME NEW l \in Links
      PROVE  /\ Covered(l) => Covered(l)'
             /\ CoveredTwice(l) => CoveredTwice(l)'
             /\ l = m => Covered(l)'
  <2>1. (DoneFor(l) <=> DoneFor(l)') /\ (Called(l) <=> Called(l)')
    BY <1>1 DEF DoneFor, Settled, Called
  <2> QED
    BY <1>1, <1>3, <2>1 DEF Covered, CoveredTwice
<1>5. \A l \in Links : Calling(l)' => Calling(l) \/ l = m
  BY <1>1, <1>2 DEF Calling
<1>6. \A l \in Links : Sent(l)' => Sent(l)
  BY <1>1, <1>2 DEF Sent
<1>7. faults \in Nat /\ (Disturbed => Disturbed')
  BY <1>1 DEF EmissionsAreCovered, Disturbed
<1>8. ASSUME ~Disturbed', NEW l \in Links
      PROVE  /\ (Calling(l)' /\ faults' = 0) => Covered(l)'
             /\ Sent(l)' => Covered(l)' /\ (faults' = 0 => CoveredTwice(l)')
  BY <1>1, <1>4, <1>5, <1>6, <1>7, <1>8 DEF EmissionsAreCovered
<1> QED
  BY <1>1, <1>7, <1>8 DEF EmissionsAreCovered

LEMMA NextEmissionsAreCovered ==
  ASSUME TwoTransports
  PROVE  HP!TypeInv /\ PP!TypeInv /\ CallsOK /\ RidesOwnProtection /\ EmissionsAreCovered
           /\ [Next]_vars => EmissionsAreCovered'
<1> SUFFICES ASSUME HP!TypeInv, PP!TypeInv, CallsOK, RidesOwnProtection,
                    EmissionsAreCovered, [Next]_vars
             PROVE  EmissionsAreCovered'
  OBVIOUS
<1>0. /\ phase \in [Threads -> {"idle", "entered", "rest", "grpc", "finish"}]
      /\ rerouted \in [Links -> BOOLEAN]
      /\ faults \in Nat /\ faults + 1 \in Nat /\ incarnation \in Nat
  BY MovedType DEF HP!TypeInv, HP!HealerTypeOK, EmissionsAreCovered
<1>1. ASSUME NEW t \in Threads, Observe(t) PROVE EmissionsAreCovered'
  <2>1. UNCHANGED <<pathManagerVars, wire, faults>>
    BY <1>1 DEF Observe, networkVars
  <2>2. ASSUME NEW o \in H!Observations, H!Enter(t, o) PROVE EmissionsAreCovered'
    <3>1. \A l \in Links : (Calling(l)' => Calling(l)) /\ (Sent(l)' => Sent(l))
      BY <1>0, <2>2 DEF H!Enter, H!Busy, Calling, Sent
    <3> QED
      BY <2>1, <3>1, CallersCover
  <2>3. ASSUME H!Return(t) PROVE EmissionsAreCovered'
    <3>1. /\ phase' = [phase EXCEPT ![t] = "idle"] /\ obs' = [obs EXCEPT ![t] = None]
          /\ rerouted' = rerouted
      BY <2>3 DEF H!Return, H!BelowThreshold, H!Count, H!Suppress, H!NoProtection,
                  H!Judge, H!Leave
    <3>2. \A l \in Links : (Calling(l)' => Calling(l)) /\ (Sent(l)' => Sent(l))
      BY <1>0, <3>1 DEF Calling, Sent
    <3> QED
      BY <2>1, <3>2, CallersCover
  <2>4. ASSUME H!Finish(t) PROVE EmissionsAreCovered'
    <3>1. /\ phase[t] = "finish"
          /\ phase' = [phase EXCEPT ![t] = "idle"] /\ obs' = [obs EXCEPT ![t] = None]
          /\ rerouted' = [rerouted EXCEPT ![obs[t].link] = TRUE]
      BY <2>4 DEF H!Finish, H!Leave, H!Link
    <3>2. \A l \in Links : rerouted'[l] => rerouted[l] \/ l = obs[t].link
      BY <1>0, <3>1
    <3>3. \A u \in Threads : phase'[u] \in {"rest", "grpc", "finish"}
                               => phase'[u] = phase[u] /\ obs'[u] = obs[u]
      BY <1>0, <3>1
    <3>4. \A l \in Links : Calling(l)' => Calling(l)
      BY <3>3 DEF Calling
    <3>5. \A l \in Links : Sent(l)' => Sent(l)
      BY <3>1, <3>2, <3>3 DEF Sent
    <3> QED
      BY <2>1, <3>4, <3>5, CallersCover
  <2> QED
    BY <1>1, <2>2, <2>3, <2>4 DEF Observe
<1>2. ASSUME NEW t \in Threads, EmitRest(t) PROVE EmissionsAreCovered'
  BY <1>2, EmitRestCovers
<1>3. ASSUME NEW t \in Threads, RestReturns(t) PROVE EmissionsAreCovered'
  <2>1. faults' \in {faults, faults + 1}
    BY <1>3 DEF RestReturns, EndCall, Fault
  <2> QED
    BY <1>3, <2>1, RestReturnsCovers
<1>4. ASSUME NEW t \in Threads, GrpcReturns(t) PROVE EmissionsAreCovered'
  <2>1. /\ phase[t] = "grpc" /\ phase' = [phase EXCEPT ![t] = "finish"]
        /\ UNCHANGED <<obs, rerouted, wire, pathManagerVars>>
        /\ faults' \in {faults, faults + 1}
    BY <1>4 DEF GrpcReturns, H!GrpcReturns, H!linkVars, EndCall, Fault
  <2>2. \A l \in Links : (Calling(l)' => Calling(l)) /\ (Sent(l)' => Sent(l))
    BY <1>0, <2>1 DEF Calling, Sent
  <2> QED
    BY <2>1, <2>2, CallersCover
<1>5. ASSUME NEW w \in Workers, WorkerStep(w) PROVE EmissionsAreCovered'
  <2>1. UNCHANGED <<phase, obs, rerouted, faults, incarnation>>
    BY <1>5 DEF WorkerStep, Deliver, Work, Reply, healerVars, networkVars, P!Receive,
       P!Apply, P!RejectUnknown, P!AlreadyApplied, P!RejectNoCapacity, P!Answer, P!Accept,
       P!AppendLog, P!Respond
  <2>2. \A l \in Links : (Calling(l)' => Calling(l)) /\ (Sent(l)' => Sent(l))
    BY <2>1 DEF Calling, Sent
  <2>3. \A l \in Links : (Covered(l) => Covered(l)') /\ (CoveredTwice(l) => CoveredTwice(l)')
    BY <1>5, WorkersCover
  <2>4. Disturbed' <=> Disturbed
    BY <2>1 DEF Disturbed
  <2> QED
    BY <2>1, <2>2, <2>3, <2>4 DEF EmissionsAreCovered
<1>6. ASSUME NEW c \in wire, Lose(c) PROVE EmissionsAreCovered'
  <2>1. /\ faults' = faults + 1 /\ wire' = wire \ {c}
        /\ UNCHANGED <<phase, obs, rerouted, moved, capacity, pc, request, incarnation>>
    BY <1>6 DEF Lose, Fault, healerVars, pathManagerVars
  <2>2. ASSUME NEW l \in Links
        PROVE  (CoveredTwice(l) => Covered(l)') /\ (Sent(l)' => Sent(l))
    <3>1. (DoneFor(l) <=> DoneFor(l)') /\ (Called(l) <=> Called(l)') /\ (Sent(l)' => Sent(l))
      BY <2>1 DEF DoneFor, Settled, Called, Sent
    <3> QED
      BY <2>1, <3>1 DEF Covered, CoveredTwice
  <2>3. ~Disturbed' => faults = 0 /\ ~Disturbed
    BY <1>0, <2>1 DEF Disturbed
  <2>4. faults' \in Nat /\ faults' # 0
    BY <1>0, <2>1
  <2> QED
    BY <2>2, <2>3, <2>4 DEF EmissionsAreCovered
<1>7. ASSUME HealerRestart PROVE EmissionsAreCovered'
  <2>1. /\ rerouted' = [l \in Links |-> FALSE] /\ phase' = [t \in Threads |-> "idle"]
        /\ faults' = faults + 1
    BY <1>7 DEF HealerRestart, H!Restart, Fault
  <2>2. \A l \in Links : ~Calling(l)' /\ ~Sent(l)'
    BY <2>1 DEF Calling, Sent
  <2> QED
    BY <1>0, <2>1, <2>2 DEF EmissionsAreCovered
<1>8. ASSUME PathManagerRestart PROVE EmissionsAreCovered'
  <2>1. incarnation' = incarnation + 1 /\ faults' = faults + 1
    BY <1>8, SameRestart, FreshTopology DEF PathManagerRestart, Fault
  <2> QED
    BY <1>0, <2>1 DEF EmissionsAreCovered, Disturbed
<1>9. ASSUME UNCHANGED vars PROVE EmissionsAreCovered'
  <2>1. UNCHANGED <<phase, obs, rerouted, wire, pathManagerVars, faults>>
    BY <1>9 DEF vars, healerVars, networkVars
  <2>2. \A l \in Links : (Calling(l)' => Calling(l)) /\ (Sent(l)' => Sent(l))
    BY <2>1 DEF Calling, Sent
  <2> QED
    BY <2>1, <2>2, CallersCover
<1> QED
  BY <1>1, <1>2, <1>3, <1>4, <1>5, <1>6, <1>7, <1>8, <1>9 DEF Next, HealerStep

\* The hold-off of 300 s never hides a move that was forgotten: one fault, be
\* it a call lost, a call given up or a death of the healer, leaves at least
\* one of the two calls of every emission to arrive or to have been applied.
THEOREM HoldOffMeansSettledHolds ==
  ASSUME TwoTransports
  PROVE  Spec => []HoldOffMeansSettled
<1>1. Init => EmissionsAreCovered
  BY FreshEmissionsAreCovered DEF Init, H!Init
<1>2. EmissionsAreCovered => HoldOffMeansSettled
  BY DEF EmissionsAreCovered, HoldOffMeansSettled, Sent, Covered, DoneFor, Called
<1> QED
  BY <1>1, <1>2, NextEmissionsAreCovered, HealerTypes, PathManagerTypes, CallsOKHolds,
     RidesOwnProtectionHolds, PTL DEF Spec
=============================================================================
