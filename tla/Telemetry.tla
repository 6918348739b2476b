------------------------------ MODULE Telemetry ------------------------------
(***************************************************************************)
(* Producers and the ingest service: the clients of Ingest are now runs of *)
(* stream_frames (apps/producer/main.py).  A producer tries to connect for *)
(* 30 s, writes its samples, keeps the 5 s timeout of the connect for      *)
(* every send, and never reconnects.  With --loop it sends them again and  *)
(* again, and does not end by itself.  A health check, which connects and  *)
(* closes at once, is a producer with nothing to send.                     *)
(***************************************************************************)
EXTENDS Ingest

CONSTANTS
  Streams,       \* client -> the runs it may be: its records, and --loop or not
  MaxPasses,     \* passes of a looping producer that are followed
  Foreground,    \* the producers that Ctrl-C reaches
  SocketBuffer,  \* lines a connection holds before send() has to wait
  MaxAttempts    \* connection attempts that fit in 30 s

ASSUME TelemetryAssumption ==
  /\ \A c \in Clients : \A r \in Streams[c] :
       r.records \in Seq(Samples) /\ (r.loop => r.records # << >>)
  /\ MaxPasses \in Nat \ {0}
  /\ Foreground \subseteq Clients
  /\ SocketBuffer \in Nat \ {0}
  /\ MaxAttempts \in Nat \ {0}

VARIABLES
  stream,    \* client -> its run of stream_frames: the frames and `loop`
  phase,     \* client -> "connecting", "streaming", or how it ended: "done",
             \* "cut" (the peer closed), "failed" (timeout), "gaveup",
             \* "interrupted" (Ctrl-C)
  attempts,  \* client -> connection attempts that failed
  next,      \* client -> place of the next record of this pass
  pass       \* client -> passes begun to a living peer

producerVars == <<stream, phase, attempts, next, pass>>
allVars      == <<vars, producerVars>>

TelemetryInit ==
  /\ Init
  /\ stream \in {s \in [Clients -> UNION {Streams[c] : c \in Clients}] :
                   \A c \in Clients : s[c] \in Streams[c]}
  /\ phase = [c \in Clients |-> "connecting"]
  /\ attempts = [c \in Clients |-> 0]
  /\ next = [c \in Clients |-> 1]
  /\ pass = [c \in Clients |-> 1]

Ended(c) == phase[c] \in {"done", "cut", "failed", "gaveup", "interrupted"}
-----------------------------------------------------------------------------
(* _connect *)

ConnectProducer(c) ==
  /\ phase[c] = "connecting" /\ attempts[c] < MaxAttempts
  /\ Connect(c)
  /\ phase' = [phase EXCEPT ![c] = "streaming"]
  /\ UNCHANGED <<stream, attempts, next, pass>>

\* Mutant: no deadline.
RetryForEver(c) ==
  /\ phase[c] = "connecting" /\ ~CanConnect
  /\ UNCHANGED allVars

\* Refused, or not answered because the backlog is full; it sleeps.
Retry(c) ==
  /\ phase[c] = "connecting" /\ attempts[c] < MaxAttempts
  /\ ~CanConnect
  /\ attempts' = [attempts EXCEPT ![c] = @ + 1]
  /\ UNCHANGED <<vars, stream, phase, next, pass>>

\* The deadline has passed: SystemExit.
GiveUp(c) ==
  /\ phase[c] = "connecting" /\ attempts[c] = MaxAttempts
  /\ phase' = [phase EXCEPT ![c] = "gaveup"]
  /\ UNCHANGED <<vars, stream, attempts, next, pass>>
-----------------------------------------------------------------------------
(* The loop of stream_frames *)

Sending(c) == phase[c] = "streaming" /\ next[c] <= Len(stream[c].records)
Room(c)    == Len(unread[c]) < SocketBuffer

SendRecord(c) ==
  /\ Sending(c) /\ Room(c)
  /\ Write(c, stream[c].records[next[c]])
  /\ next' = [next EXCEPT ![c] = @ + 1]
  /\ UNCHANGED <<stream, phase, attempts, pass>>

\* The other end is gone, and the kernel takes the line all the same: what
\* is sent before the reset arrives is lost.
SendToNobody(c) ==
  /\ Sending(c) /\ ~Attached(c)
  /\ next' = [next EXCEPT ![c] = @ + 1]
  /\ UNCHANGED <<vars, stream, phase, attempts, pass>>

\* Leaving the loop closes the socket, whatever the reason.
End(c, how) ==
  /\ phase' = [phase EXCEPT ![c] = how]
  /\ UNCHANGED <<stream, attempts, next, pass>>
Leave(c, how) == Close(c) /\ End(c, how)

\* BrokenPipeError or ConnectionResetError: caught and logged.
PeerClosed(c) == Sending(c) /\ ~Attached(c) /\ Leave(c, "cut")

\* No room for 5 s: sendall raises TimeoutError, which nobody catches; some
\* of the line may have been sent.
SendTimesOut(c) ==
  /\ Sending(c) /\ Attached(c) /\ ~Room(c)
  /\ Close(c) \/ CloseTorn(c, stream[c].records[next[c]])
  /\ End(c, "failed")

PassOver(c) == phase[c] = "streaming" /\ next[c] > Len(stream[c].records)

\* A bound of the model only: a looping producer is silent after MaxPasses
\* passes, and stays connected.  Once the service is told to stop it sends
\* another one.
Followed(c) == ~Attached(c) \/ pass[c] < MaxPasses + (IF running THEN 0 ELSE 1)

\* --loop: the same records again, with the same timestamps.
Repeat(c) ==
  /\ PassOver(c) /\ stream[c].loop /\ Followed(c)
  /\ next' = [next EXCEPT ![c] = 1]
  /\ pass' = IF Attached(c) THEN [pass EXCEPT ![c] = @ + 1] ELSE pass
  /\ UNCHANGED <<vars, stream, phase, attempts>>

\* Without it the only pass is the last.
Finish(c) == PassOver(c) /\ ~stream[c].loop /\ Leave(c, "done")
-----------------------------------------------------------------------------
\* Ctrl-C, wherever it is: sleeping, or waiting in a connect or a send.
Interrupt(c) ==
  /\ c \in Foreground /\ ~Ended(c)
  /\ \/ phase[c] = "connecting" /\ UNCHANGED vars
     \/ phase[c] = "streaming" /\ Close(c)
     \/ Sending(c) /\ ~Room(c) /\ CloseTorn(c, stream[c].records[next[c]])
  /\ End(c, "interrupted")

Producer(c) ==
  \/ ConnectProducer(c) \/ Retry(c) \/ GiveUp(c)
  \/ SendRecord(c) \/ SendToNobody(c) \/ PeerClosed(c) \/ SendTimesOut(c)
  \/ Repeat(c) \/ Finish(c)

TelemetryNext ==
  \/ (Server \/ Around) /\ UNCHANGED producerVars
  \/ \E c \in Clients : Producer(c) \/ Interrupt(c)

\* Every process goes on, and the infer service reads on in the end: its
\* tasks wait for a POST for 5 s at most (Detection, FramesAreRead).  The reset
\* from a peer that is gone arrives, after any number of sends.  Nobody has to
\* press Ctrl-C.
TelemetrySpec ==
  /\ TelemetryInit /\ [][TelemetryNext]_allVars
  /\ WF_allVars(Server /\ UNCHANGED producerVars)
  /\ WF_allVars(InferReads /\ UNCHANGED producerVars)
  /\ \A c \in Clients : WF_allVars(Producer(c)) /\ SF_allVars(PeerClosed(c))
-----------------------------------------------------------------------------
(* Properties *)

\* Every producer without --loop ends, although the service may never come up,
\* may serve another client first, perhaps for ever, may stop reading or may be
\* stopped; one with --loop ends when the service has exited.
ProducersEnd == \A c \in Clients : (~stream[c].loop \/ pc = "done") ~> Ended(c)

\* As one client is served at a time, all wait for a producer with --loop
\* until it ends.  If each of these ends some time, what any producer wrote is
\* handled once that has ended well or by Ctrl-C, however long its connection
\* waited in the backlog, unless the service is stopped.
StreamsAreHandled ==
  (\A d \in Clients : <>(Ended(d) \/ ~stream[d].loop))
    => \A c \in Clients :
         phase[c] \in {"done", "interrupted"}
           ~> (~running \/ (unread[c] = << >> /\ ~Attached(c)))
=============================================================================
