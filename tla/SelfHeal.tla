------------------------------ MODULE SelfHeal ------------------------------
(***************************************************************************)
(* The self-healing loop: the healer's threads, the path manager's two     *)
(* pools, and the REST and gRPC calls between them.  A call may be lost,   *)
(* answered too late or not at all, and may be applied long after its      *)
(* caller gave it up; either process may die and come back with its memory *)
(* empty.  Nothing is ever sent twice on one transport: httpx.post and the *)
(* stub are called once per emission.                                      *)
(***************************************************************************)
EXTENDS Topology, FiniteSets

CONSTANTS
  Threads, ConsecutiveWindows, Hysteresis, Timestamps, ClockReadings,
  GrpcStubs, MaxObservations, MaxHealerRestarts,
  RestWorkers,   \* threads that serve POST /v1/reroute
  GrpcWorkers,   \* threads that serve PathControl.Reroute
  MaxRestarts,
  MaxFaults      \* bound on calls lost, calls given up too early and deaths
                 \* of either process, all together

VARIABLES
  consecutive, observations, lastReroute, rerouted, phase, obs, now,
  restarts, verdicts, emitted, earlier,
  capacity, status, moved, reroutes, pc, request, accepted, record,
  logfile, unlogged, incarnation,
  wire,      \* calls on their way to the path manager
  answers,   \* answers on their way back
  waiting,   \* thread -> the call it waits for, 0 if none
  serving,   \* worker -> the call it serves, 0 if none
  calls,     \* calls made so far
  faults     \* how many of these happened so far

H == INSTANCE Healer

Workers == RestWorkers \union GrpcWorkers
\* What the path manager is ever asked: the healer is its only client.
Requests == {H!Payload(l) : l \in {m \in Links : H!HasProtection(m)}}
P == INSTANCE PathManager

ASSUME SelfHealAssumption ==
  /\ H!HealerAssumption
  /\ MaxRestarts \in Nat
  /\ MaxFaults \in Nat

healerVars      == <<consecutive, observations, lastReroute, rerouted, phase,
                     obs, now, restarts, verdicts, emitted, earlier>>
pathManagerVars == <<capacity, status, moved, reroutes, pc, request, accepted,
                     record, logfile, unlogged, incarnation>>
networkVars     == <<wire, answers, waiting, serving, calls, faults>>
vars == <<healerVars, pathManagerVars, networkVars>>

Init ==
  /\ H!Init
  /\ P!Init
  /\ wire = {}
  /\ answers = {}
  /\ waiting = [t \in Threads |-> 0]
  /\ serving = [w \in Workers |-> 0]
  /\ calls = 0
  /\ faults = 0

Fault == faults < MaxFaults /\ faults' = faults + 1

\* Mutant: the gRPC channel leads nowhere.
SendRestOnly(t, via) ==
  /\ calls' = calls + 1
  /\ wire' = wire \union {c \in {[id |-> calls + 1, via |-> via, req |-> H!Payload(H!Link(t))]} :
                           via = "rest"}
  /\ waiting' = [waiting EXCEPT ![t] = calls + 1]

\* Thread t calls the path manager on one of the two transports.
Send(t, via) ==
  /\ calls' = calls + 1
  /\ wire' = wire \union {[id |-> calls + 1, via |-> via,
                           req |-> H!Payload(H!Link(t))]}
  /\ waiting' = [waiting EXCEPT ![t] = calls + 1]

\* observe up to the point where it returns or has to wait for the REST call.
Observe(t) ==
  /\ \/ \E o \in H!Observations : H!Enter(t, o)
     \/ H!Return(t)
     \/ H!Finish(t)
  /\ UNCHANGED <<pathManagerVars, networkVars>>

EmitRest(t) ==
  /\ H!EmitRest(t)
  /\ Send(t, "rest")
  /\ UNCHANGED <<pathManagerVars, answers, serving, faults>>

\* Mutant: a call without a deadline.
EndCallAnswered(t) ==
  \E a \in answers : a.id = waiting[t] /\ answers' = answers \ {a} /\ UNCHANGED faults

\* Nothing of call i is left to wait for: the connection has broken.
Broken(i) ==
  /\ \A c \in wire : c.id # i
  /\ \A w \in Workers : serving[w] # i
  /\ \A a \in answers : a.id # i

\* The call thread t waits for comes to its end: it is answered, its
\* connection breaks, or it is given up after 5 s, on either transport,
\* although it is still under way.  The result, whichever it is, is only logged.
EndCall(t) ==
  \/ \E a \in answers : a.id = waiting[t] /\ answers' = answers \ {a} /\ UNCHANGED faults
  \/ Broken(waiting[t]) /\ UNCHANGED <<answers, faults>>
  \/ /\ ~Broken(waiting[t]) /\ Fault
     /\ answers' = {a \in answers : a.id # waiting[t]}

\* _emit_rest returns and _emit_grpc is called, if the stubs are there.
RestReturns(t) ==
  /\ H!RestReturns(t)
  /\ EndCall(t)
  /\ IF GrpcStubs
       THEN Send(t, "grpc")
       ELSE waiting' = [waiting EXCEPT ![t] = 0] /\ UNCHANGED <<wire, calls>>
  /\ UNCHANGED <<pathManagerVars, serving>>

GrpcReturns(t) ==
  /\ H!GrpcReturns(t)
  /\ EndCall(t)
  /\ waiting' = [waiting EXCEPT ![t] = 0]
  /\ UNCHANGED <<pathManagerVars, wire, serving, calls>>

\* A call reaches a thread of the pool that serves its transport, whether
\* or not its caller still waits.
Deliver(w, c) ==
  /\ w \in IF c.via = "rest" THEN RestWorkers ELSE GrpcWorkers
  /\ P!Receive(w, c.req)
  /\ wire' = wire \ {c}
  /\ serving' = [serving EXCEPT ![w] = c.id]
  /\ UNCHANGED <<healerVars, answers, waiting, calls, faults>>

\* The connection is refused or breaks before the request is read.
Lose(c) ==
  /\ Fault
  /\ wire' = wire \ {c}
  /\ UNCHANGED <<healerVars, pathManagerVars, answers, waiting, serving, calls>>

Work(w) ==
  /\ P!Apply(w) \/ P!AppendLog(w)
  /\ UNCHANGED <<healerVars, networkVars>>

\* The answer travels back, to nobody if the caller has given up.
Reply(w) ==
  /\ P!Respond(w)
  /\ answers' = answers \union
       {[id |-> serving[w], link |-> request[w].link, to |-> request[w].to,
         accepted |-> accepted[w], from |-> incarnation] :
           t \in {u \in Threads : waiting[u] = serving[w]}}
  /\ serving' = [serving EXCEPT ![w] = 0]
  /\ UNCHANGED <<healerVars, wire, waiting, calls, faults>>

HealerRestart ==
  /\ H!Restart /\ Fault
  /\ answers' = {}
  /\ waiting' = [t \in Threads |-> 0]
  /\ UNCHANGED <<pathManagerVars, wire, serving, calls>>

\* Calls being served die with the process; those still on their way may
\* reach the new one.
PathManagerRestart ==
  /\ P!Restart /\ Fault
  /\ serving' = [w \in Workers |-> 0]
  /\ UNCHANGED <<healerVars, wire, answers, waiting, calls>>

HealerStep(t) == Observe(t) \/ EmitRest(t) \/ RestReturns(t) \/ GrpcReturns(t)
WorkerStep(w) == (\E c \in wire : Deliver(w, c)) \/ Work(w) \/ Reply(w)

Next ==
  \/ \E t \in Threads : HealerStep(t)
  \/ \E w \in Workers : WorkerStep(w)
  \/ \E c \in wire : Lose(c)
  \/ HealerRestart
  \/ PathManagerRestart

Spec == Init /\ [][Next]_vars

\* Fairness: a handler of either process that can take a step takes it, and
\* a pool serves the calls that wait for it.  No observation has to arrive.
FairSpec ==
  /\ Spec
  /\ \A t \in Threads :
       WF_vars((H!Busy(t) /\ Observe(t)) \/ EmitRest(t) \/ RestReturns(t) \/ GrpcReturns(t))
  /\ \A w \in Workers : WF_vars(WorkerStep(w))
-----------------------------------------------------------------------------
(* Properties *)

\* However many emissions, transports, late deliveries and restarts there
\* are, no slot of a path leaks: what is gone from its capacity is ridden, so
\* one incarnation of the path manager moves a link at most once.
SpareIsCapacityLessRiders ==
  \A p \in Paths :
    capacity[p] = Capacity[p] - Cardinality({l \in Links : moved[l] = p})

\* The shape of configs/topology.yaml: no two links share a working path,
\* and no link is protected by a working path.
SeparatePaths ==
  /\ \A l, m \in Links :
       (WorkingPathForLink(l) = WorkingPathForLink(m) /\ WorkingPathForLink(l) # None)
         => l = m
  /\ \A l \in DOMAIN Protection : \A m \in Links :
       Protection[l] # WorkingPathForLink(m)

\* Traffic is never taken off a working path without being on an active one,
\* where the paths are separate.
DownLinksRideActivePath ==
  \A l \in Links :
    LET p == WorkingPathForLink(l) IN
    (p # None /\ status[p] = "down")
      => moved[l] \in Paths /\ status[moved[l]] = "active"

\* An acceptance the healer has yet to read was given for a move that the
\* path manager still knows, unless it died since.
AcceptanceIsTrue ==
  \A a \in answers :
    (a.accepted /\ a.from = incarnation) => moved[a.link] = a.to

\* The whole loop implements the one-step switch: a link moves to its own
\* protection path and to no other.
Targets == [l \in Links |-> IF l \in DOMAIN Protection THEN {Protection[l]} ELSE {}]
Switch == INSTANCE ProtectionSwitch WITH ride <- moved, spare <- capacity
ImplementsProtection == Switch!Spec

\* What a link needs of the path manager: it was moved, or cannot be.
Settled(l) == \/ moved[l] = ProtectionPathForLink(l)
              \/ capacity[ProtectionPathForLink(l)] = 0

\* The gRPC stubs are there, and the path manager knows every path that the
\* protection map names: it refuses a move only for want of a slot.
TwoTransports == GrpcStubs /\ \A l \in DOMAIN Protection : Protection[l] \in Paths

\* A move is sent on two transports, so it takes two faults to lose it, or a
\* path manager that dies with its memory.
Disturbed == faults > 1 \/ incarnation > 0

\* One call lost or answered too late, or one death of the healer, does no
\* harm: the healer starts a hold-off only for a link that was moved, whose
\* protection path is full, or whose move is still on its way (given
\* TwoTransports).
HoldOffMeansSettled ==
  ~Disturbed => \A l \in Links : rerouted[l] =>
    \/ Settled(l)
    \/ \E c \in wire : c.req.link = l
    \/ \E w \in Workers : pc[w] # "idle" /\ request[w].link = l

\* And a link whose handler has started an emission is moved, or finds its
\* protection path full, however the pools schedule their threads.
EmissionSettles ==
  \A l \in Links :
    (\E t \in Threads : phase[t] = "rest" /\ obs[t].link = l)
      ~> (Settled(l) \/ Disturbed)

\* Every observation the healer took is answered, although its handler waits
\* in turn for a thread of each of the path manager's two pools.
ObservationsReturn == \A t \in Threads : []<>~H!Busy(t)
=============================================================================
