------------------------------- MODULE Healer -------------------------------
(***************************************************************************)
(* The healer (apps/healer/main.py): POST /v1/observation is a plain `def` *)
(* endpoint, so each observation is handled by a thread of the server's    *)
(* pool, and Healer.observe shares one LinkState per link between them     *)
(* with no lock.  A thread can be switched out at a call: on entry, and    *)
(* while it waits for the REST and then the gRPC egress.  The counter      *)
(* update and the two threshold tests in between make no call, and are one *)
(* step here.                                                              *)
(***************************************************************************)
EXTENDS Topology

CONSTANTS
  Threads,            \* handler threads
  ConsecutiveWindows, \* thresholds.consecutive_windows
  Hysteresis,         \* thresholds.hysteresis_s
  Timestamps,         \* event times an observation may carry; 0 means none
  ClockReadings,      \* what self.clock() may return
  GrpcStubs,          \* whether the generated stubs can be imported
  MaxObservations,    \* bound on observations per link and incarnation
  MaxHealerRestarts   \* bound on process restarts

ASSUME HealerAssumption ==
  /\ ConsecutiveWindows \in Nat \ {0}
  /\ Hysteresis \in Nat
  /\ Timestamps \subseteq Int
  /\ ClockReadings \subseteq Int
  /\ GrpcStubs \in BOOLEAN
  /\ MaxObservations \in Nat
  /\ MaxHealerRestarts \in Nat

\* The part of an Observation the policy looks at: hot stands for
\* p_fail_10m >= p_fail_threshold.
Observations == [link : Links, hot : BOOLEAN, ts : Timestamps]

VARIABLES
  consecutive,   \* link -> LinkState.consecutive
  observations,  \* link -> LinkState.observations
  lastReroute,   \* link -> LinkState.last_reroute_ts
  rerouted,      \* link -> LinkState.rerouted
  phase,         \* thread -> where its call of observe is
  obs,           \* thread -> the observation it handles, or None
  now,           \* thread -> its local `now`
  restarts,      \* process restarts so far
  verdicts,      \* link -> hot or not, in the order the counter saw them
  emitted,       \* emissions of this incarnation, in the order they started
  earlier        \* what the incarnations before it emitted, in that order

linkVars    == <<consecutive, observations, lastReroute, rerouted>>
threadVars  == <<phase, obs, now>>
historyVars == <<verdicts, emitted, earlier>>
vars == <<linkVars, threadVars, historyVars, restarts>>

\* A new process: links.setdefault gives every link LinkState().
Init ==
  /\ consecutive = [l \in Links |-> 0]
  /\ observations = [l \in Links |-> 0]
  /\ lastReroute = [l \in Links |-> None]
  /\ rerouted = [l \in Links |-> FALSE]
  /\ phase = [t \in Threads |-> "idle"]
  /\ obs = [t \in Threads |-> None]
  /\ now = [t \in Threads |-> 0]
  /\ restarts = 0
  /\ verdicts = [l \in Links |-> << >>]
  /\ emitted = << >>
  /\ earlier = << >>

Busy(t) == phase[t] # "idle"
Link(t) == obs[t].link

\* _now: the observation's own time, or the clock when it carries none.
NowReadings(o) == IF o.ts # 0 THEN {o.ts} ELSE ClockReadings

\* observe up to the threshold test: count the observation, read the time.
Enter(t, o) ==
  /\ ~Busy(t)
  /\ observations[o.link] < MaxObservations
  /\ observations' = [observations EXCEPT ![o.link] = @ + 1]
  /\ phase' = [phase EXCEPT ![t] = "entered"]
  /\ obs' = [obs EXCEPT ![t] = o]
  /\ \E n \in NowReadings(o) : now' = [now EXCEPT ![t] = n]
  /\ UNCHANGED <<consecutive, lastReroute, rerouted, historyVars, restarts>>

\* Mutants: a counter that leaks instead of being reset, and one that is
\* never reset.
ConsecutiveLeaking(o) == IF o.hot THEN consecutive[o.link] + 1
                                  ELSE consecutive[o.link] - 1
ConsecutiveKept(o)    == IF o.hot THEN consecutive[o.link] + 1
                                  ELSE consecutive[o.link]

\* The counter this observation leaves.
ConsecutiveAfter(o) == IF o.hot THEN consecutive[o.link] + 1 ELSE 0

\* Mutants: one window too few, and a hold-off that older events ignore.
CountingShort(o)     == ConsecutiveAfter(o) + 1 < ConsecutiveWindows
SuppressedLater(l, n) == /\ lastReroute[l] # None
                         /\ n >= lastReroute[l]
                         /\ n - lastReroute[l] < Hysteresis

\* The conditions observe tests, in its order.
Counting(o)       == ConsecutiveAfter(o) < ConsecutiveWindows
Suppressed(l, n)  == /\ lastReroute[l] # None
                     /\ n - lastReroute[l] < Hysteresis
HasProtection(l)  == /\ WorkingPathForLink(l) # None
                     /\ ProtectionPathForLink(l) # None

\* The counter update every observation makes, and the order it made it in.
Judge(t) ==
  /\ phase[t] = "entered"
  /\ consecutive' = [consecutive EXCEPT ![Link(t)] = ConsecutiveAfter(obs[t])]
  /\ verdicts' = [verdicts EXCEPT ![Link(t)] = Append(@, obs[t].hot)]
  /\ UNCHANGED <<observations, lastReroute, rerouted, earlier, restarts>>

\* The thread returns its verdict and goes back to the pool.
Leave(t) ==
  /\ phase' = [phase EXCEPT ![t] = "idle"]
  /\ obs' = [obs EXCEPT ![t] = None]
  /\ now' = [now EXCEPT ![t] = 0]

\* "below_threshold", "counting", "suppressed_hysteresis" and
\* "no_protection_path": observe returns with nothing sent.
BelowThreshold(t) ==
  /\ Judge(t) /\ ~obs[t].hot
  /\ Leave(t) /\ UNCHANGED emitted

Count(t) ==
  /\ Judge(t) /\ obs[t].hot /\ Counting(obs[t])
  /\ Leave(t) /\ UNCHANGED emitted

Suppress(t) ==
  /\ Judge(t) /\ obs[t].hot /\ ~Counting(obs[t])
  /\ Suppressed(Link(t), now[t])
  /\ Leave(t) /\ UNCHANGED emitted

NoProtection(t) ==
  /\ Judge(t) /\ obs[t].hot /\ ~Counting(obs[t])
  /\ ~Suppressed(Link(t), now[t]) /\ ~HasProtection(Link(t))
  /\ Leave(t) /\ UNCHANGED emitted

\* The request both transports carry.
Payload(l) == [from |-> WorkingPathForLink(l), to |-> ProtectionPathForLink(l),
               link |-> l]

\* All tests passed: _emit_rest is called, and this thread waits in it.
EmitRest(t) ==
  LET l == Link(t) IN
  /\ Judge(t) /\ obs[t].hot /\ ~Counting(obs[t])
  /\ ~Suppressed(l, now[t]) /\ HasProtection(l)
  /\ emitted' = Append(emitted, [link |-> l, now |-> now[t], by |-> t,
                                 seen |-> Len(verdicts[l]) + 1])
  /\ phase' = [phase EXCEPT ![t] = "rest"]
  /\ UNCHANGED <<obs, now>>

\* _emit_rest returns, whatever became of the call; _emit_grpc is called,
\* and returns at once when the stubs are missing.
RestReturns(t) ==
  /\ phase[t] = "rest"
  /\ phase' = [phase EXCEPT ![t] = IF GrpcStubs THEN "grpc" ELSE "finish"]
  /\ UNCHANGED <<linkVars, obs, now, historyVars, restarts>>

GrpcReturns(t) ==
  /\ phase[t] = "grpc"
  /\ phase' = [phase EXCEPT ![t] = "finish"]
  /\ UNCHANGED <<linkVars, obs, now, historyVars, restarts>>

\* Mutant: the raw timestamp, which may be missing.
HoldOffFromEvent(t) == obs[t].ts

\* Only now does the hold-off start, at the time this thread read on entry
\* and whether or not either egress succeeded.
HoldOffFrom(t) == now[t]
Finish(t) ==
  /\ phase[t] = "finish"
  /\ lastReroute' = [lastReroute EXCEPT ![Link(t)] = HoldOffFrom(t)]
  /\ rerouted' = [rerouted EXCEPT ![Link(t)] = TRUE]
  /\ Leave(t)
  /\ UNCHANGED <<consecutive, observations, historyVars, restarts>>

\* What one emission asked for, and when.
Reroute(e) == [link |-> e.link, now |-> e.now]

\* The process dies and is started again: every counter and every hold-off
\* is in memory only, but what was emitted was emitted.
Restart ==
  /\ restarts < MaxHealerRestarts
  /\ restarts' = restarts + 1
  /\ consecutive' = [l \in Links |-> 0]
  /\ observations' = [l \in Links |-> 0]
  /\ lastReroute' = [l \in Links |-> None]
  /\ rerouted' = [l \in Links |-> FALSE]
  /\ phase' = [t \in Threads |-> "idle"]
  /\ obs' = [t \in Threads |-> None]
  /\ now' = [t \in Threads |-> 0]
  /\ verdicts' = [l \in Links |-> << >>]
  /\ emitted' = << >>
  /\ earlier' = earlier \o [i \in DOMAIN emitted |-> Reroute(emitted[i])]

Return(t) == BelowThreshold(t) \/ Count(t) \/ Suppress(t) \/ NoProtection(t)

\* What thread t does with an observation once it holds one.
Handle(t) == Return(t) \/ EmitRest(t) \/ RestReturns(t) \/ GrpcReturns(t) \/ Finish(t)

Next ==
  \/ \E t \in Threads : (\E o \in Observations : Enter(t, o)) \/ Handle(t)
  \/ Restart

Spec == Init /\ [][Next]_vars

\* One connection of the ingest service feeds the infer service, and its
\* POSTs wait for their answers: a link has one observation in the healer at
\* a time, as long as no POST is given up before the healer answered it
\* (Detection implements this specification when none is).
EnterAlone(t, o) ==
  /\ \A u \in Threads : Busy(u) => Link(u) # o.link
  /\ Enter(t, o)

SerialNext ==
  \/ \E t \in Threads : (\E o \in Observations : EnterAlone(t, o)) \/ Handle(t)
  \/ Restart

SerialSpec == Init /\ [][SerialNext]_vars
-----------------------------------------------------------------------------
(* Properties *)

\* The shape of the state, counters never negative included.
HealerTypeOK ==
  /\ consecutive \in [Links -> Nat]
  /\ observations \in [Links -> Nat]
  /\ lastReroute \in [Links -> Int \union {None}]
  /\ rerouted \in [Links -> BOOLEAN]
  /\ phase \in [Threads -> {"idle", "entered", "rest", "grpc", "finish"}]
  /\ obs \in [Threads -> Observations \union {None}]
  /\ now \in [Threads -> Int]
  /\ restarts \in Nat
  /\ verdicts \in [Links -> Seq(BOOLEAN)]
  /\ emitted \in Seq([link : Links, now : Int, by : Threads, seen : Nat])
  /\ earlier \in Seq([link : Links, now : Int])

\* Two reroutes of a link in the sequence r are at least hysteresis_s of
\* event time apart.
HeldOff(r) ==
  \A i, j \in DOMAIN r :
    (i < j /\ r[i].link = r[j].link) => r[j].now - r[i].now >= Hysteresis

\* The hold-off of README section 7, "so the system cannot flap": of all that
\* the healer has emitted, whichever incarnation it was.
HysteresisHolds == HeldOff(earlier \o [i \in DOMAIN emitted |-> Reroute(emitted[i])])

\* What observe ensures with the test at line 129: the hold-off between the
\* reroutes of one incarnation, in the order of its emissions although it
\* starts only when both calls have returned.
IncarnationHoldsOff == HeldOff(emitted)

\* A reroute is emitted only after consecutive_windows observations in a row
\* were hot, however the threads of the pool interleave.
EmissionJustified ==
  \A i \in DOMAIN emitted :
    LET e == emitted[i] IN
    \A k \in 0 .. ConsecutiveWindows - 1 :
      e.seen - k \in DOMAIN verdicts[e.link] /\ verdicts[e.link][e.seen - k]

\* The shared counter is the length of the hot run the link is in, whichever
\* threads the link's observations were judged by; an update is one step here,
\* as the interpreter lock makes it.
CounterIsHotRun ==
  \A l \in Links :
    LET n == Len(verdicts[l]) IN
    /\ consecutive[l] <= n
    /\ \A k \in n - consecutive[l] + 1 .. n : verdicts[l][k]
    /\ consecutive[l] < n => ~verdicts[l][n - consecutive[l]]

\* Threads of link l between the emission and the end of observe.
Emitting(l) == {t \in Threads : phase[t] \in {"rest", "grpc", "finish"} /\ Link(t) = l}

\* Every emission either still has its thread waiting or has left its mark:
\* with no thread in the egress, the link state says "rerouted" exactly when
\* something was emitted, at the time of an emission.
EmissionsAreRecorded ==
  \A l \in Links :
    LET ofLink == {i \in DOMAIN emitted : emitted[i].link = l} IN
    /\ rerouted[l] <=> lastReroute[l] # None
    /\ rerouted[l] => \E i \in ofLink : emitted[i].now = lastReroute[l]
    /\ Emitting(l) = {} => (rerouted[l] <=> ofLink # {})
=============================================================================
