----------------------------- MODULE Detection ------------------------------
(***************************************************************************)
(* From frames to reroutes: the tasks of the infer service, the threads of *)
(* the healer, and the POSTs between them.  A task waits for its POST for  *)
(* 5 s at most; a POST it gave up is still handled by the healer, now or   *)
(* later, unless it was lost.  A POST is named by the place of its         *)
(* observation in `scored`.                                                *)
(***************************************************************************)
EXTENDS Topology, FiniteSets, Functions

CONSTANTS
  Threads, ConsecutiveWindows, Hysteresis, Timestamps, ClockReadings,
  GrpcStubs, MaxObservations, MaxHealerRestarts,
  Conns, Bad, Unscorable, MaxFrames, MaxInferRestarts,
  Unreliable     \* whether POSTs can be lost or given up

VARIABLES
  consecutive, observations, lastReroute, rerouted, phase, obs, now,
  restarts, verdicts, emitted, earlier,
  peer, arriving, task, line, frames, dropped, posted, sent, scored, inferRestarts,
  wire,       \* POSTs the healer has not read
  awaits,     \* connection -> the POST its task waits for, 0 if none
  handles,    \* thread -> the POST it handles, 0 if none
  answered    \* POSTs whose response is on its way to a task that waits

H == INSTANCE Healer
Observations == H!Observations
I == INSTANCE Infer

ASSUME DetectionAssumption ==
  /\ MaxFrames \in Nat
  /\ MaxInferRestarts \in Nat
  /\ Unreliable \in BOOLEAN
  /\ Bad # Unscorable
  /\ {Bad, Unscorable} \intersect Observations = {}
  /\ None \notin I!Lines
  /\ H!HealerAssumption

healerVars == <<consecutive, observations, lastReroute, rerouted, phase, obs,
                now, restarts, verdicts, emitted, earlier>>
inferVars  == <<peer, arriving, task, line, frames, dropped, posted, sent,
                scored, inferRestarts>>
postVars   == <<wire, awaits, handles, answered>>
vars == <<healerVars, inferVars, postVars>>

Init ==
  /\ H!Init
  /\ I!Init
  /\ wire = {}
  /\ awaits = [c \in Conns |-> 0]
  /\ handles = [t \in Threads |-> 0]
  /\ answered = {}

\* The ingest service connects, sends lines and goes.
Ingest(c) ==
  /\ I!Connect(c) \/ (\E f \in I!Lines : I!SendLine(c, f)) \/ I!Hangup(c)
  /\ UNCHANGED <<healerVars, postVars>>

\* The steps of a task that do not concern the healer.
Read(c) ==
  /\ I!DropBad(c) \/ I!StartScoring(c) \/ I!ScoreFails(c) \/ I!EndTask(c)
  /\ UNCHANGED <<healerVars, postVars>>

\* The observation is posted.
Post(c) ==
  /\ I!Scored(c)
  /\ wire' = wire \union {Len(scored')}
  /\ awaits' = [awaits EXCEPT ![c] = Len(scored')]
  /\ UNCHANGED <<healerVars, handles, answered>>

\* A thread of the healer's pool takes a POST, whether or not a task waits.
Deliver(t, m) ==
  /\ H!Enter(t, scored[m])
  /\ wire' = wire \ {m}
  /\ handles' = [handles EXCEPT ![t] = m]
  /\ UNCHANGED <<inferVars, awaits, answered>>

Egress(t) ==
  /\ H!EmitRest(t) \/ H!RestReturns(t) \/ H!GrpcReturns(t)
  /\ UNCHANGED <<inferVars, postVars>>

Answer(t) ==
  /\ H!Return(t) \/ H!Finish(t)
  /\ handles' = [handles EXCEPT ![t] = 0]
  /\ answered' = answered \union ({handles[t]} \intersect Range(awaits))
  /\ UNCHANGED <<inferVars, wire, awaits>>

\* The task no longer waits for its POST.
StopWaiting(c) ==
  /\ awaits' = [awaits EXCEPT ![c] = 0]
  /\ answered' = answered \ {awaits[c]}
  /\ UNCHANGED <<healerVars, handles>>

PostReturns(c) ==
  /\ awaits[c] \in answered
  /\ I!PostEnds(c, TRUE)
  /\ StopWaiting(c) /\ UNCHANGED wire

\* The connection of the POST broke: nobody will answer it.
Broken(m) == m \notin wire \union answered \union Range(handles)

\* Mutants: a POST that failed is sent once more, has no deadline, or is
\* given up at once.
PostFailsAtOnce(c) ==
  /\ I!PostEnds(c, FALSE)
  /\ StopWaiting(c) /\ UNCHANGED wire
PostRepeated(c) ==
  /\ Unreliable \/ Broken(awaits[c])
  /\ I!PostEnds(c, FALSE)
  /\ StopWaiting(c) /\ wire' = wire \union {awaits[c]}
PostWithoutDeadline(c) ==
  /\ Broken(awaits[c])
  /\ I!PostEnds(c, FALSE)
  /\ StopWaiting(c) /\ UNCHANGED wire

\* httpx raises: the deadline has passed, or the connection broke.  What
\* was sent is not taken back.
PostFails(c) ==
  /\ Unreliable \/ Broken(awaits[c])
  /\ I!PostEnds(c, FALSE)
  /\ StopWaiting(c) /\ UNCHANGED wire

Lose(m) ==
  /\ Unreliable
  /\ wire' = wire \ {m}
  /\ UNCHANGED <<healerVars, inferVars, awaits, handles, answered>>

HealerRestart ==
  /\ H!Restart
  /\ handles' = [t \in Threads |-> 0]
  /\ answered' = {}
  /\ UNCHANGED <<inferVars, wire, awaits>>

InferRestart ==
  /\ I!Restart
  /\ awaits' = [c \in Conns |-> 0]
  /\ answered' = {}
  /\ UNCHANGED <<healerVars, wire, handles>>

Task(c) == Read(c) \/ Post(c) \/ PostReturns(c) \/ PostFails(c)

Next ==
  \/ \E c \in Conns : Ingest(c) \/ Task(c)
  \/ \E t \in Threads : (\E m \in wire : Deliver(t, m)) \/ Egress(t) \/ Answer(t)
  \/ \E m \in wire : Lose(m)
  \/ HealerRestart
  \/ InferRestart

Spec == Init /\ [][Next]_vars

\* The event loop runs its tasks, and the deadline of a POST passes.  The
\* healer need not do anything.
FairSpec == Spec /\ \A c \in Conns : WF_vars(Task(c))
-----------------------------------------------------------------------------
(* Properties *)

\* The hot windows of link l that were scored, by place in `scored`, and those
\* the healer has judged, by place in the link's verdicts.
HotScored(l) == {i \in DOMAIN scored : scored[i].link = l /\ scored[i].hot}
HotJudged(l) == {k \in DOMAIN verdicts[l] : verdicts[l][k]}

\* No window counts twice in the healer, through give-ups, losses and late
\* deliveries: it has judged at most the hot windows that were scored.
NoWindowCountsTwice ==
  \A l \in Links : Cardinality(HotJudged(l)) <= Cardinality(HotScored(l))

\* A healer that hangs does not stop the scoring: what arrives is read.
FramesAreRead == \A c \in Conns : arriving[c] # << >> ~> arriving[c] = << >>

\* One connection and no POST given up: the healer sees each link's
\* observations one at a time, which is what HealerProofs builds on.
ImplementsSerial == H!SerialSpec

\* How many windows of link l were scored after the one at place p.
ScoredAfter(l, p) == Cardinality({q \in DOMAIN scored : q > p /\ scored[q].link = l})

\* The verdicts on link l are those on a run of consecutive windows, and the
\* number of windows scored after that run is `late`.
RunUpTo(l, late) ==
  \A k \in DOMAIN verdicts[l] :
    \E p \in DOMAIN scored :
      /\ scored[p].link = l /\ scored[p].hot = verdicts[l][k]
      /\ ScoredAfter(l, p) = Len(verdicts[l]) - k + late

\* And it judges every window in the order it was scored: its verdicts are a
\* run of consecutive windows up to the last one or the one before.
JudgedAsScored == \A l \in Links : \E late \in {0, 1} : RunUpTo(l, late)

\* The hot or cool windows of link l in the order infer scored them.
HotOf(l) ==
  LET s == SelectSeq(scored, LAMBDA o : o.link = l)
  IN [i \in DOMAIN s |-> s[i].hot]

\* README section 7, with the windows that were scored and not those that
\* arrived: a reroute is preceded by consecutive_windows hot ones in a row.
ConsecutiveWindowsHold ==
  \A i \in DOMAIN emitted :
    LET s == HotOf(emitted[i].link) IN
    \E p \in DOMAIN s : \A k \in p .. p + ConsecutiveWindows - 1 : k \in DOMAIN s /\ s[k]

\* The hold-off of README section 7, and that of one incarnation, as Healer
\* states them.
HysteresisHolds     == H!HysteresisHolds
IncarnationHoldsOff == H!IncarnationHoldsOff
=============================================================================
