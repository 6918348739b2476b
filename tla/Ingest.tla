------------------------------- MODULE Ingest -------------------------------
(***************************************************************************)
(* optics_ingest (apps/ingest_cpp/src): one thread that accepts a          *)
(* telemetry client, reads its JSONL lines, keeps one rolling window per   *)
(* (link_id, channel_id) key, and sends a feature frame downstream for     *)
(* each sample that leaves a window full.  Around it: clients that         *)
(* connect, write and close, an infer service that dies and comes back or  *)
(* reads too slowly, the one-second clock of the reconnect backoff, and    *)
(* SIGTERM.                                                                *)
(*                                                                         *)
(* A line is one sample; LineFraming says when the reader keeps that true. *)
(***************************************************************************)
EXTENDS Integers, Sequences, FiniteSets, Functions

CONSTANTS
  Keys,        \* window_key(link_id, channel_id) of the samples
  Clients,     \* telemetry connections
  WindowN,     \* kWindowN
  Backlog,     \* the argument of listen()
  MaxLines,    \* bound on lines written by all clients
  MaxOutages,  \* bound on deaths of the infer service
  None

ASSUME IngestAssumption ==
  /\ WindowN \in Nat \ {0}
  /\ Backlog \in Nat \ {0}
  /\ MaxLines \in Nat
  /\ MaxOutages \in Nat
  /\ None \notin Clients
  /\ IsFiniteSet(Keys) /\ IsFiniteSet(Clients)

\* What a line holds: a sample, its time in sampling periods, and whether
\* parse_sample accepts it.
Samples == [key : Keys, ts : Nat, valid : BOOLEAN]

VARIABLES
  client,     \* client -> "new", "connected" or "closed" by the client
  unread,     \* client -> lines it wrote and the process has not received
  backlog,    \* connections waiting for accept
  serving,    \* the client handle_client serves, or None
  pending,    \* complete lines received and not handled yet
  running,    \* JsonlServer.running_
  pc,         \* "start", "accept", "handle", "recv", "send" or "done"
  windows,    \* key -> samples_ of its Window
  accepted, invalid, frames,   \* the counters of main
  sending,    \* the frame send_line was given, or None
  connected,  \* DownstreamClient.fd_ >= 0
  backoff,    \* less than kReconnectBackoffS since the last attempt
  infer,      \* whether the infer service is up
  peer,       \* whether the connection's other end still exists
  stalled,    \* the connection takes no more: its other end does not read
  sampled,    \* key -> samples taken of it so far, one per period
  outages,    \* deaths of the infer service so far
  history,    \* key -> the valid samples handled, in order
  received,   \* frames that reached a living infer service, in order
  lost        \* frames formed that reached none

clientVars   == <<client, unread, backlog, sampled>>
readerVars   == <<serving, pending, running, pc>>
windowVars   == <<windows, accepted, invalid, history>>
downVars     == <<frames, sending, connected, backoff, received, lost>>
inferVars    == <<infer, peer, stalled, outages>>
vars == <<clientVars, readerVars, windowVars, downVars, inferVars>>

Init ==
  /\ client = [c \in Clients |-> "new"]
  /\ unread = [c \in Clients |-> << >>]
  /\ backlog = << >>
  /\ sampled = [k \in Keys |-> 0]
  /\ serving = None
  /\ pending = << >>
  /\ running = FALSE
  /\ pc = "start"
  /\ windows = [k \in Keys |-> << >>]
  /\ accepted = 0 /\ invalid = 0 /\ frames = 0
  /\ history = [k \in Keys |-> << >>]
  /\ sending = None
  /\ connected = FALSE
  /\ backoff = FALSE
  /\ received = << >>
  /\ lost = 0
  /\ infer \in BOOLEAN
  /\ peer = FALSE
  /\ stalled = FALSE
  /\ outages = 0
-----------------------------------------------------------------------------
(* The clients *)

\* Somebody listens, and the queue of listen() has a place.
CanConnect == running /\ Len(backlog) < Backlog

Connect(c) ==
  /\ client[c] = "new" /\ CanConnect
  /\ client' = [client EXCEPT ![c] = "connected"]
  /\ backlog' = Append(backlog, c)
  /\ UNCHANGED <<unread, sampled, readerVars, windowVars, downVars, inferVars>>

Attached(c) == c = serving \/ \E i \in DOMAIN backlog : backlog[i] = c
Written     == SumFunction(sampled)

\* Sample s is written; the connection buffers it whether or not accept
\* has run yet.
Write(c, s) ==
  /\ client[c] = "connected" /\ Attached(c)
  /\ unread' = [unread EXCEPT ![c] = Append(@, s)]
  /\ sampled' = [sampled EXCEPT ![s.key] = @ + 1]
  /\ UNCHANGED <<client, backlog, readerVars, windowVars, downVars, inferVars>>

Close(c) ==
  /\ client[c] = "connected"
  /\ client' = [client EXCEPT ![c] = "closed"]
  /\ UNCHANGED <<unread, backlog, sampled, readerVars, windowVars, downVars, inferVars>>

\* Close in the middle of a line: the part that was sent is handled as a line
\* (the flush of handle_client), which parses only if it lacks no more than the
\* newline.
CloseTorn(c, s) ==
  /\ client[c] = "connected" /\ Attached(c)
  /\ client' = [client EXCEPT ![c] = "closed"]
  /\ \E ok \in {FALSE, s.valid} :
       unread' = [unread EXCEPT ![c] = Append(@, [s EXCEPT !.valid = ok])]
  /\ sampled' = [sampled EXCEPT ![s.key] = @ + 1]
  /\ UNCHANGED <<backlog, readerVars, windowVars, downVars, inferVars>>
-----------------------------------------------------------------------------
(* start, serve_forever and handle_client *)

Listen ==
  /\ pc = "start"
  /\ pc' = "accept" /\ running' = TRUE
  /\ UNCHANGED <<clientVars, serving, pending, windowVars, downVars, inferVars>>

\* The address cannot be bound: main returns 1.
ListenFails ==
  /\ pc = "start"
  /\ pc' = "done"
  /\ UNCHANGED <<clientVars, serving, pending, running, windowVars, downVars, inferVars>>

\* One client is served at a time; the others wait in the backlog.
Accept ==
  /\ pc = "accept" /\ running /\ backlog # << >>
  /\ serving' = Head(backlog)
  /\ backlog' = Tail(backlog)
  /\ pc' = "handle"
  /\ UNCHANGED <<client, unread, sampled, pending, running, windowVars, downVars, inferVars>>

\* Mutant: running_ is not tested between reads.
CallRecvAlways ==
  /\ pc = "handle" /\ pending = << >>
  /\ pc' = "recv"
  /\ UNCHANGED <<clientVars, serving, pending, running, windowVars, downVars, inferVars>>

\* All lines received are handled: running_ is tested, and recv called.
CallRecv ==
  /\ pc = "handle" /\ pending = << >> /\ running
  /\ pc' = "recv"
  /\ UNCHANGED <<clientVars, serving, pending, running, windowVars, downVars, inferVars>>

\* recv returns some of what the client wrote.  A signal does not end it
\* (std::signal restarts it), so its lines are handled even after stop().
Receive ==
  /\ pc = "recv"
  /\ \E n \in 1 .. Len(unread[serving]) :
       /\ pending' = SubSeq(unread[serving], 1, n)
       /\ unread' = [unread EXCEPT ![serving] = SubSeq(@, n + 1, Len(@))]
  /\ pc' = "handle"
  /\ UNCHANGED <<client, backlog, sampled, serving, running, windowVars,
                 downVars, inferVars>>

\* Mutant: recv is tried again at the end of a stream.
StreamEndsNever == pc = "handle" /\ pending = << >> /\ ~running

\* running_ is false, or recv returns 0.
StreamEnds ==
  \/ pc = "handle" /\ pending = << >> /\ ~running
  \/ pc = "recv" /\ client[serving] = "closed" /\ unread[serving] = << >>

\* The connection is closed with what it still holds, and serve_forever goes
\* on or ends.
Disconnect ==
  /\ StreamEnds
  /\ serving' = None
  /\ pc' = "accept"
  /\ UNCHANGED <<clientVars, pending, running, windowVars, downVars, inferVars>>

Exit ==
  /\ pc = "accept" /\ ~running
  /\ pc' = "done"
  /\ UNCHANGED <<clientVars, serving, pending, running, windowVars, downVars, inferVars>>

\* SIGINT or SIGTERM: stop() closes the listening socket and what waits on it.
Stop ==
  /\ running
  /\ running' = FALSE
  /\ backlog' = << >>
  /\ UNCHANGED <<client, unread, sampled, serving, pending, pc, windowVars,
                 downVars, inferVars>>
-----------------------------------------------------------------------------
(* The handler of main *)

\* Mutant: handling one line forgets the rest of what was received.
NextLineOnly == pc = "handle" /\ pending # << >> /\ pending' = << >>

NextLine == pc = "handle" /\ pending # << >> /\ pending' = Tail(pending)

\* parse_sample fails: the line is counted and dropped.
RejectLine ==
  /\ NextLine /\ ~Head(pending).valid
  /\ invalid' = invalid + 1
  /\ UNCHANGED <<clientVars, serving, running, pc, windows, accepted, history,
                 downVars, inferVars>>

\* Mutant: a full window drops the newest sample.
PushOldest(w, s) ==
  IF Len(w) = WindowN THEN w ELSE Append(w, s)

\* Window::push: append, then drop the oldest while over capacity.
Push(w, s) ==
  LET longer == Append(w, s) IN
  IF Len(longer) > WindowN THEN Tail(longer) ELSE longer

\* Mutant: a frame is made before the window is full.
AlmostFull(w) == Len(w) >= WindowN - 1

Full(w) == Len(w) = WindowN

\* The frame build_frame makes: the key and the samples it covers, with the
\* place of the last one in the key's history.
Frame(k, w, n) == [key |-> k, samples |-> w, last |-> n]

\* The window of the sample's key takes it; a full window is sent.
AcceptLine ==
  LET s == Head(pending)
      w == Push(windows[s.key], s)
      n == Len(history[s.key]) + 1
  IN
  /\ NextLine /\ s.valid
  /\ windows' = [windows EXCEPT ![s.key] = w]
  /\ history' = [history EXCEPT ![s.key] = Append(@, s)]
  /\ accepted' = accepted + 1
  /\ IF Full(w)
       THEN pc' = "send" /\ sending' = Frame(s.key, w, n)
       ELSE UNCHANGED <<pc, sending>>
  /\ UNCHANGED <<clientVars, serving, running, invalid, frames, connected, backoff,
                 received, lost, inferVars>>
-----------------------------------------------------------------------------
(* DownstreamClient *)

\* Mutant: the line goes out twice.
SentTwice(got) ==
  /\ frames' = frames + 1
  /\ received' = IF got THEN received \o <<sending, sending>> ELSE received
  /\ lost' = IF got THEN lost ELSE lost + 1

\* send_line returns, and the handler goes on to the next line.
Sent(got) ==
  /\ frames' = frames + 1
  /\ received' = IF got THEN Append(received, sending) ELSE received
  /\ lost' = IF got THEN lost ELSE lost + 1
NotSent ==
  /\ lost' = lost + 1
  /\ UNCHANGED <<frames, received>>
EndSend ==
  /\ pc = "send"
  /\ pc' = "handle"
  /\ sending' = None
  /\ UNCHANGED <<clientVars, serving, pending, running, windowVars, infer, outages>>

\* After this line the connection may take no more: the task at its other
\* end waits for the healer, and the buffers are full.
FillsUp(living) == stalled' \in IF living THEN BOOLEAN ELSE {FALSE}

\* send() on the open connection: it waits, without a deadline, while the
\* other end does not read.  If the other end is gone the kernel may still
\* take the line, and the frame is counted as sent.
SendOnConnection ==
  /\ EndSend /\ connected /\ ~stalled
  /\ Sent(peer)
  /\ FillsUp(peer)
  /\ UNCHANGED <<connected, backoff, peer>>

\* send() fails: the connection is dropped, and the frame with it.
SendFails ==
  /\ EndSend /\ connected /\ ~peer
  /\ NotSent
  /\ connected' = FALSE
  /\ UNCHANGED <<backoff, peer, stalled>>

\* ensure_connected, within a second of the last attempt.
SkipInBackoff ==
  /\ EndSend /\ ~connected /\ backoff
  /\ NotSent
  /\ UNCHANGED <<connected, backoff, peer, stalled>>

ConnectAndSend ==
  /\ EndSend /\ ~connected /\ ~backoff /\ infer
  /\ connected' = TRUE /\ peer' = TRUE /\ backoff' = TRUE
  /\ Sent(TRUE)
  /\ FillsUp(TRUE)

\* getaddrinfo or connect fails: it must if the infer service is down, and may
\* if it is up.
ConnectFails ==
  /\ EndSend /\ ~connected /\ ~backoff
  /\ backoff' = TRUE
  /\ NotSent
  /\ UNCHANGED <<connected, peer, stalled>>

\* now_seconds() passes the last attempt by kReconnectBackoffS.
BackoffEnds ==
  /\ backoff
  /\ backoff' = FALSE
  /\ UNCHANGED <<clientVars, readerVars, windowVars, frames, sending, connected,
                 received, lost, inferVars>>

\* The infer service dies, and with it the other end of the connection.
InferDies ==
  /\ infer /\ outages < MaxOutages
  /\ infer' = FALSE /\ peer' = FALSE /\ stalled' = FALSE
  /\ outages' = outages + 1
  /\ UNCHANGED <<clientVars, readerVars, windowVars, downVars>>

InferStarts ==
  /\ ~infer
  /\ infer' = TRUE
  /\ UNCHANGED <<clientVars, readerVars, windowVars, downVars, peer, stalled, outages>>

\* The task goes on to its next frames, and there is room again.
InferReads ==
  /\ stalled
  /\ stalled' = FALSE
  /\ UNCHANGED <<clientVars, readerVars, windowVars, downVars, infer, peer, outages>>
-----------------------------------------------------------------------------
Send == SendOnConnection \/ SendFails \/ SkipInBackoff \/ ConnectAndSend \/ ConnectFails

\* The process's own steps.
Server ==
  \/ Listen \/ ListenFails \/ Accept \/ CallRecv \/ Receive \/ Disconnect \/ Exit
  \/ RejectLine \/ AcceptLine \/ Send

Around == Stop \/ BackoffEnds \/ InferDies \/ InferStarts \/ InferReads

\* Clients of any kind: the next line holds the next sample of its key, one
\* period after the last.
AnyClient ==
  \E c \in Clients :
    \/ Connect(c) \/ Close(c)
    \/ \E k \in Keys, ok \in BOOLEAN :
         Written < MaxLines /\ Write(c, [key |-> k, ts |-> sampled[k], valid |-> ok])

Next == Server \/ Around \/ AnyClient

Spec == Init /\ [][Next]_vars
-----------------------------------------------------------------------------
(* Properties *)

\* The last n elements of h, or all of them (std::deque after push).
LastOf(h, n) == IF Len(h) <= n THEN h ELSE SubSeq(h, Len(h) - n + 1, Len(h))

\* A window holds the latest valid samples of its key, whichever connection
\* brought them and whatever happened to the frames made of them.
WindowIsRecentHistory == \A k \in Keys : windows[k] = LastOf(history[k], WindowN)

\* Every line a client wrote is waiting, received or judged: none is skipped
\* or handled twice, across reads, clients and shutdown, and the counters of
\* main tell accepted from invalid ones.
LinesAccounted ==
  /\ accepted + invalid + Len(pending) + SumFunction([c \in Clients |-> Len(unread[c])])
       = Written
  /\ accepted = SumFunction([k \in Keys |-> Len(history[k])])

\* Frames the samples handled so far call for: one for each of a key's
\* samples from the WindowN-th on.
Due(k) == IF Len(history[k]) < WindowN THEN 0 ELSE Len(history[k]) - WindowN + 1

\* Each of them was made once and was received, lost or is being sent; the
\* frames counter is never below what was received.
FramesAccounted ==
  /\ Len(received) + lost + (IF pc = "send" THEN 1 ELSE 0)
       = SumFunction([k \in Keys |-> Due(k)])
  /\ frames >= Len(received)
  /\ frames <= Len(received) + lost

\* What the infer service scores: full windows of consecutive valid samples
\* of one key, later at every frame, through outages and reconnections.
FramesInOrder ==
  /\ \A i \in DOMAIN received :
       LET f == received[i] IN
       f.samples = SubSeq(history[f.key], f.last - WindowN + 1, f.last)
  /\ \A i, j \in DOMAIN received :
       (i < j /\ received[i].key = received[j].key) => received[i].last < received[j].last

\* SIGTERM ends the process, although recv may be waiting for a client and
\* send for the infer service.
ShutdownCompletes == (~running /\ pc # "start") ~> pc = "done"
=============================================================================
