------------------------------- MODULE Infer --------------------------------
(***************************************************************************)
(* The frame server of the infer service (apps/infer/main.py): one asyncio *)
(* task per ingest connection reads a frame, scores it on a thread, posts  *)
(* the observation to the healer and waits for the answer before it reads  *)
(* the next.  Tasks of different connections run side by side, so that a   *)
(* connection its ingest has left is still drained while a new one is      *)
(* already served.  What becomes of a POST is left to Detection.           *)
(***************************************************************************)
EXTENDS Integers, Sequences

CONSTANTS
  Conns,             \* connections of the ingest service
  Observations,      \* what score_frame may return
  Bad,               \* a line that is not a frame
  Unscorable,        \* a frame that score_frame raises an exception on
  MaxFrames,         \* bound on lines sent on all connections
  MaxInferRestarts,  \* bound on process restarts
  None

Lines == Observations \union {Bad, Unscorable}

VARIABLES
  peer,       \* connection -> "new", "open" or "closed" by the ingest
  arriving,   \* connection -> lines sent and not read yet
  task,       \* connection -> where its _handle_client is
  line,       \* connection -> what its handle_line is scoring or posting
  frames, dropped, posted,   \* the counters of InferRunner
  sent,       \* lines sent so far
  scored,     \* observations in the order they were made, ever
  inferRestarts

connVars    == <<peer, arriving, sent>>
taskVars    == <<task, line>>
counterVars == <<frames, dropped, posted, scored>>
vars == <<connVars, taskVars, counterVars, inferRestarts>>

Init ==
  /\ peer = [c \in Conns |-> "new"]
  /\ arriving = [c \in Conns |-> << >>]
  /\ task = [c \in Conns |-> "none"]
  /\ line = [c \in Conns |-> None]
  /\ frames = 0 /\ dropped = 0 /\ posted = 0
  /\ sent = 0
  /\ scored = << >>
  /\ inferRestarts = 0
-----------------------------------------------------------------------------
(* The ingest service: one connection at a time *)

Connect(c) ==
  /\ peer[c] = "new" /\ \A d \in Conns : peer[d] # "open"
  /\ peer' = [peer EXCEPT ![c] = "open"]
  /\ task' = [task EXCEPT ![c] = "read"]
  /\ UNCHANGED <<arriving, sent, line, counterVars, inferRestarts>>

SendLine(c, f) ==
  /\ peer[c] = "open" /\ sent < MaxFrames
  /\ arriving' = [arriving EXCEPT ![c] = Append(@, f)]
  /\ sent' = sent + 1
  /\ UNCHANGED <<peer, taskVars, counterVars, inferRestarts>>

Hangup(c) ==
  /\ peer[c] = "open"
  /\ peer' = [peer EXCEPT ![c] = "closed"]
  /\ UNCHANGED <<arriving, sent, taskVars, counterVars, inferRestarts>>
-----------------------------------------------------------------------------
(* _handle_client and handle_line *)

\* readuntil returns the next line of connection c.
ReadLine(c) ==
  /\ task[c] = "read" /\ arriving[c] # << >>
  /\ arriving' = [arriving EXCEPT ![c] = Tail(@)]
  /\ UNCHANGED <<peer, sent>>

\* Not JSON, or not a frame: counted, and the next line is read.
DropBad(c) ==
  /\ ReadLine(c) /\ Head(arriving[c]) = Bad
  /\ dropped' = dropped + 1
  /\ UNCHANGED <<taskVars, frames, posted, scored, inferRestarts>>

\* A frame goes to asyncio.to_thread(score_frame), and the task waits.
StartScoring(c) ==
  /\ ReadLine(c) /\ Head(arriving[c]) # Bad
  /\ task' = [task EXCEPT ![c] = "scoring"]
  /\ line' = [line EXCEPT ![c] = Head(arriving[c])]
  /\ UNCHANGED <<counterVars, inferRestarts>>

ScoreFails(c) ==
  /\ task[c] = "scoring" /\ line[c] = Unscorable
  /\ dropped' = dropped + 1
  /\ task' = [task EXCEPT ![c] = "read"]
  /\ line' = [line EXCEPT ![c] = None]
  /\ UNCHANGED <<connVars, frames, posted, scored, inferRestarts>>

\* The observation is there; post_observation is called, and the task waits.
Scored(c) ==
  /\ task[c] = "scoring" /\ line[c] \in Observations
  /\ frames' = frames + 1
  /\ scored' = Append(scored, line[c])
  /\ task' = [task EXCEPT ![c] = "posting"]
  /\ UNCHANGED <<connVars, line, dropped, posted, inferRestarts>>

\* The POST is over, with a response or with an exception that is logged.
\* Either way the observation is done with: nothing is posted twice.
PostEnds(c, responded) ==
  /\ task[c] = "posting"
  /\ posted' = IF responded THEN posted + 1 ELSE posted
  /\ task' = [task EXCEPT ![c] = "read"]
  /\ line' = [line EXCEPT ![c] = None]
  /\ UNCHANGED <<connVars, frames, dropped, scored, inferRestarts>>

\* readuntil meets the end of the connection, and the task ends.
EndTask(c) ==
  /\ task[c] = "read" /\ arriving[c] = << >> /\ peer[c] = "closed"
  /\ task' = [task EXCEPT ![c] = "none"]
  /\ UNCHANGED <<connVars, line, counterVars, inferRestarts>>

\* The process dies with its connections, and is started again.
Restart ==
  /\ inferRestarts < MaxInferRestarts
  /\ inferRestarts' = inferRestarts + 1
  /\ peer' = [c \in Conns |-> IF peer[c] = "new" THEN "new" ELSE "closed"]
  /\ arriving' = [c \in Conns |-> << >>]
  /\ task' = [c \in Conns |-> "none"]
  /\ line' = [c \in Conns |-> None]
  /\ frames' = 0 /\ dropped' = 0 /\ posted' = 0
  /\ UNCHANGED <<sent, scored>>
=============================================================================
