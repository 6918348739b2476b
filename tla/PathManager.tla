---------------------------- MODULE PathManager ----------------------------
(***************************************************************************)
(* The stub PCE (apps/path_manager): one TopologyState, shared by the REST *)
(* thread pool and the gRPC thread pool, whose apply_reroute holds the     *)
(* lock for the decision and the update, and releases it before it writes  *)
(* the reroute log and answers.                                            *)
(***************************************************************************)
EXTENDS Topology, FiniteSets

CONSTANTS
  Workers,      \* handler threads, of both pools
  Requests,     \* the RerouteRequests clients may send
  MaxRestarts   \* bound on process restarts

ASSUME PathManagerAssumption ==
  /\ Requests \subseteq [from : PathNames, to : PathNames, link : Links]
  /\ MaxRestarts \in Nat

VARIABLES
  capacity,     \* path -> paths[path]["capacity"]
  status,       \* path -> paths[path]["status"]
  moved,        \* link -> self.moved.get(link)
  reroutes,     \* self.reroutes
  pc,           \* worker -> where its handler is
  request,      \* worker -> the request it serves, or None
  accepted,     \* worker -> RerouteResponse.accepted, once decided
  record,       \* worker -> place in reroutes of the record it has to log
  logfile,      \* lines of reroutes.jsonl, as <<incarnation, place>>
  unlogged,     \* records of this incarnation whose log write failed
  incarnation   \* restarts so far

topologyVars == <<capacity, status, moved, reroutes>>
workerVars   == <<pc, request, accepted, record>>
logVars      == <<logfile, unlogged>>
vars == <<topologyVars, workerVars, logVars, incarnation>>

InitialStatus(p) == IF Role[p] = "protection" THEN "standby" ELSE "active"

\* TopologyState.__init__; every handler thread is new.
Fresh(cap, st, mv, rr, ph, rq, ac, rc) ==
  /\ cap = Capacity
  /\ st = [p \in Paths |-> InitialStatus(p)]
  /\ mv = [l \in Links |-> None]
  /\ rr = << >>
  /\ ph = [w \in Workers |-> "idle"]
  /\ rq = [w \in Workers |-> None]
  /\ ac = [w \in Workers |-> FALSE]
  /\ rc = [w \in Workers |-> 0]

Init ==
  /\ Fresh(capacity, status, moved, reroutes, pc, request, accepted, record)
  /\ logfile = << >>
  /\ unlogged = {}
  /\ incarnation = 0

\* POST /v1/reroute or PathControl.Reroute reaches a handler thread.
Receive(w, r) ==
  /\ pc[w] = "idle"
  /\ pc' = [pc EXCEPT ![w] = "called"]
  /\ request' = [request EXCEPT ![w] = r]
  /\ UNCHANGED <<topologyVars, accepted, record, logVars, incarnation>>

\* Mutants: the wrong path compared, a slot too many, and a slot too few.
AlreadyRidesByFrom(r) == moved[r.link] = r.from
HasSpareOrNone(r)     == capacity[r.to] >= 0
HasSpareForTwo(r)     == capacity[r.to] > 1

\* The conditions apply_reroute tests, in its order.
Known(r)        == r.from \in Paths /\ r.to \in Paths
AlreadyRides(r) == moved[r.link] = r.to
HasSpare(r)     == capacity[r.to] > 0

\* The lock is taken and released, and a RerouteResponse returned.
Answer(w, ok) ==
  /\ pc[w] = "called"
  /\ pc' = [pc EXCEPT ![w] = "reply"]
  /\ accepted' = [accepted EXCEPT ![w] = ok]
  /\ UNCHANGED <<topologyVars, request, record, logVars, incarnation>>

RejectUnknown(w) ==
  /\ pc[w] = "called" /\ ~Known(request[w])
  /\ Answer(w, FALSE)

AlreadyApplied(w) ==
  /\ pc[w] = "called" /\ Known(request[w]) /\ AlreadyRides(request[w])
  /\ Answer(w, TRUE)

\* Mutant: a refusal reported as accepted.
AcceptNoCapacity(w) ==
  /\ pc[w] = "called" /\ Known(request[w])
  /\ ~AlreadyRides(request[w]) /\ ~HasSpare(request[w])
  /\ Answer(w, TRUE)

RejectNoCapacity(w) ==
  /\ pc[w] = "called" /\ Known(request[w])
  /\ ~AlreadyRides(request[w]) /\ ~HasSpare(request[w])
  /\ Answer(w, FALSE)

\* Mutants: the slot taken from the path left, the status of either path
\* forgotten, and setdefault in place of the assignment to moved.
CapacityAfterLeaving(r) == [capacity EXCEPT ![r.from] = @ - 1]
StatusAfterArriving(r)  == [status EXCEPT ![r.to] = "active"]
StatusAfterLeaving(r)   == [status EXCEPT ![r.from] = "down"]
MovedAfterFirst(r)      == [moved EXCEPT ![r.link] = IF @ = None THEN r.to ELSE @]

CapacityAfter(r) == [capacity EXCEPT ![r.to] = @ - 1]
StatusAfter(r)   == [status EXCEPT ![r.to] = "active", ![r.from] = "down"]
MovedAfter(r)    == [moved EXCEPT ![r.link] = r.to]

\* The rest of the locked section: the move itself.
Accept(w) ==
  LET r == request[w] IN
  /\ pc[w] = "called" /\ Known(r) /\ ~AlreadyRides(r) /\ HasSpare(r)
  /\ capacity' = CapacityAfter(r)
  /\ status' = StatusAfter(r)
  /\ moved' = MovedAfter(r)
  /\ reroutes' = Append(reroutes, r)
  /\ pc' = [pc EXCEPT ![w] = "append"]
  /\ accepted' = [accepted EXCEPT ![w] = TRUE]
  /\ record' = [record EXCEPT ![w] = Len(reroutes) + 1]
  /\ UNCHANGED <<request, logVars, incarnation>>

\* Mutant: the latest record, read without the lock, is logged.
LogEntryLatest(w) == <<incarnation, Len(reroutes)>>

\* The entry _append_log writes for worker w.
LogEntry(w) == <<incarnation, record[w]>>

\* _append_log, outside the lock; an OSError is caught and the line is lost.
AppendLog(w) ==
  /\ pc[w] = "append"
  /\ pc' = [pc EXCEPT ![w] = "reply"]
  /\ \/ /\ logfile' = Append(logfile, LogEntry(w))
        /\ UNCHANGED unlogged
     \/ /\ unlogged' = unlogged \union {LogEntry(w)}
        /\ UNCHANGED logfile
  /\ UNCHANGED <<topologyVars, request, accepted, record, incarnation>>

\* The response leaves and the thread returns to its pool.
Respond(w) ==
  /\ pc[w] = "reply"
  /\ pc' = [pc EXCEPT ![w] = "idle"]
  /\ request' = [request EXCEPT ![w] = None]
  /\ accepted' = [accepted EXCEPT ![w] = FALSE]
  /\ record' = [record EXCEPT ![w] = 0]
  /\ UNCHANGED <<topologyVars, logVars, incarnation>>

\* The process dies at any point and is started again: the topology is in
\* memory only, the log file stays and is never read back.
Restart ==
  /\ incarnation < MaxRestarts
  /\ incarnation' = incarnation + 1
  /\ Fresh(capacity', status', moved', reroutes', pc', request', accepted', record')
  /\ unlogged' = {}
  /\ UNCHANGED logfile

Apply(w) ==
  RejectUnknown(w) \/ AlreadyApplied(w) \/ RejectNoCapacity(w) \/ Accept(w)

Serve(w) == Apply(w) \/ AppendLog(w) \/ Respond(w)

Next ==
  \/ \E w \in Workers : (\E r \in Requests : Receive(w, r)) \/ Serve(w)
  \/ Restart

Spec == Init /\ [][Next]_vars
-----------------------------------------------------------------------------
(* Properties *)

\* The shape of the state, capacity never below zero included.
PMTypeOK ==
  /\ capacity \in [Paths -> Nat]
  /\ status \in [Paths -> {"standby", "active", "down"}]
  /\ moved \in [Links -> Paths \union {None}]
  /\ reroutes \in Seq(Requests)
  /\ pc \in [Workers -> {"idle", "called", "append", "reply"}]
  /\ request \in [Workers -> Requests \union {None}]
  /\ accepted \in [Workers -> BOOLEAN]
  /\ record \in [Workers -> Nat]
  /\ logfile \in Seq(Nat \X Nat)
  /\ unlogged \in SUBSET (Nat \X Nat)
  /\ incarnation \in Nat

\* Reroutes accepted onto path p, by place in the history.
Onto(p) == {i \in DOMAIN reroutes : reroutes[i].to = p}

\* Capacity is booked exactly once per accepted reroute, whatever the two
\* pools interleave (apply_reroute, "target["capacity"] -= 1").
CapacityAccounting ==
  \A p \in Paths : capacity[p] + Cardinality(Onto(p)) = Capacity[p]

\* The idempotency map agrees with the history: a link is recorded on the
\* path of its latest accepted reroute, or nowhere if it has none.
MovedIsLatestReroute ==
  \A l \in Links :
    \/ /\ moved[l] = None
       /\ \A i \in DOMAIN reroutes : reroutes[i].link # l
    \/ \E i \in DOMAIN reroutes :
         /\ reroutes[i].link = l
         /\ reroutes[i].to = moved[l]
         /\ \A j \in DOMAIN reroutes : j > i => reroutes[j].link # l

\* The REST and gRPC copies of one move, in any order and on any threads,
\* are applied once: a link accepted twice onto the same path was accepted
\* onto another path in between.
NoRepeatedMove ==
  \A i, j \in DOMAIN reroutes :
    (i < j /\ reroutes[i].link = reroutes[j].link /\ reroutes[i].to = reroutes[j].to)
      => \E k \in DOMAIN reroutes :
           /\ i < k /\ k < j
           /\ reroutes[k].link = reroutes[i].link
           /\ reroutes[k].to # reroutes[i].to

Touches(i, p) == reroutes[i].from = p \/ reroutes[i].to = p

\* The status of a path is what the latest accepted reroute that names it
\* says: down if traffic left it, active if traffic came to it.
StatusFollowsHistory ==
  \A p \in Paths :
    \/ /\ status[p] = InitialStatus(p)
       /\ \A i \in DOMAIN reroutes : ~Touches(i, p)
    \/ \E i \in DOMAIN reroutes :
         /\ Touches(i, p)
         /\ \A j \in DOMAIN reroutes : j > i => ~Touches(j, p)
         /\ status[p] = IF reroutes[i].from = p THEN "down" ELSE "active"

Logged  == {i \in Nat : \E k \in DOMAIN logfile : logfile[k] = <<incarnation, i>>}
Failed  == {i \in Nat : <<incarnation, i>> \in unlogged}
Pending == {record[w] : w \in {v \in Workers : pc[v] = "append"}}

\* The append happens outside the lock, yet every accepted reroute of this
\* incarnation is in the file once, or its write failed, or a worker still
\* holds it: none is written twice and none is forgotten.
LogAccounting ==
  /\ \A j, k \in DOMAIN logfile : logfile[j] = logfile[k] => j = k
  /\ \A v, w \in Workers :
       (pc[v] = "append" /\ pc[w] = "append" /\ record[v] = record[w]) => v = w
  /\ \A i \in DOMAIN reroutes : i \in Logged \/ i \in Failed \/ i \in Pending
  /\ \A i \in DOMAIN reroutes : ~(i \in Logged /\ i \in Failed)
  /\ \A i \in Pending : i \in DOMAIN reroutes /\ i \notin Logged /\ i \notin Failed

\* A client told accepted=True asked for a move that this incarnation has
\* in its history: the answer, built after the lock is gone, is never a lie.
AcceptedMeansMoved ==
  \A w \in Workers :
    (pc[w] \in {"append", "reply"} /\ accepted[w])
      => \E i \in DOMAIN reroutes :
           reroutes[i].link = request[w].link /\ reroutes[i].to = request[w].to

\* The threaded service implements the one-step switch, any link to any path.
Switch == INSTANCE ProtectionSwitch
            WITH Targets <- [l \in Links |-> Paths], ride <- moved, spare <- capacity
ImplementsSwitch == Switch!Spec
=============================================================================
