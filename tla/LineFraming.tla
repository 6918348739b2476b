----------------------------- MODULE LineFraming -----------------------------
(***************************************************************************)
(* The reader of JsonlServer::handle_client (jsonl_server.cpp): bytes come *)
(* in chunks of any size; complete lines go to the handler, the rest stays *)
(* pending.  The stream is fixed; a line is the interval <<a, b>> of the   *)
(* places of its bytes, and what is pending is the interval from .. got.   *)
(***************************************************************************)
EXTENDS Integers, Sequences, FiniteSetsExt

CONSTANTS
  MaxStream,   \* bound on the bytes of a stream
  MaxPending   \* the 1 MiB limit on a line without a newline

ASSUME FramingAssumption == MaxStream \in Nat /\ MaxPending \in Nat \ {0}

VARIABLES
  stream,   \* the bytes the client sends, by kind
  got,      \* bytes received so far
  from,     \* place of the first byte that is not dealt with
  lines,    \* what the handler was given, in order
  pc        \* "recv", "scan" for newlines, or "done"

vars == <<stream, got, from, lines, pc>>

Init ==
  /\ \E n \in 0 .. MaxStream : stream \in [1 .. n -> {"byte", "cr", "nl"}]
  /\ got = 0 /\ from = 1 /\ lines = << >> /\ pc = "recv"

Newlines(a, b) == {p \in a .. b : stream[p] = "nl"}

\* The bytes a .. b without a carriage return at their end.
Trimmed(a, b) == IF b >= a /\ stream[b] = "cr" THEN <<a, b - 1>> ELSE <<a, b>>

NonEmpty(line) == line[1] <= line[2]

\* recv returns n bytes.
Receive(n) ==
  /\ pc = "recv" /\ got + n <= Len(stream)
  /\ got' = got + n
  /\ pc' = "scan"
  /\ UNCHANGED <<stream, from, lines>>

\* Mutant: the search starts one byte late.
AheadLate == Newlines(from + 1, got)

\* The newlines among the pending bytes.
Ahead == Newlines(from, got)

\* The bytes before the next newline are handled, unless there are none.
TakeLine ==
  LET p == Min(Ahead)
      line == Trimmed(from, p - 1)
  IN
  /\ pc = "scan" /\ Ahead # {}
  /\ lines' = IF NonEmpty(line) THEN Append(lines, line) ELSE lines
  /\ from' = p + 1
  /\ UNCHANGED <<stream, got, pc>>

\* Mutant: a line of exactly the limit is dropped.
RunawayEarly == got - from + 1 >= MaxPending

\* Too long a line without a newline.
Runaway == got - from + 1 > MaxPending

\* No newline is left: the rest stays, unless it is too long.
KeepRest ==
  /\ pc = "scan" /\ Ahead = {}
  /\ from' = IF Runaway THEN got + 1 ELSE from
  /\ pc' = "recv"
  /\ UNCHANGED <<stream, got, lines>>

\* recv returns 0 or fails, or stop() was called: what is pending is handled
\* as it is.
EndOfStream ==
  /\ pc = "recv"
  /\ pc' = "done"
  /\ lines' = IF from <= got THEN Append(lines, <<from, got>>) ELSE lines
  /\ from' = got + 1
  /\ UNCHANGED <<stream, got>>

Next == (\E n \in 1 .. MaxStream : Receive(n)) \/ TakeLine \/ KeepRest \/ EndOfStream

Spec == Init /\ [][Next]_vars
-----------------------------------------------------------------------------
(* Properties *)

\* The lines <<a, p>> of the stream that end in a newline, at p, which is
\* received.
SentLines ==
  {s \in (1 .. got) \X (1 .. got) :
     /\ s[1] <= s[2] /\ stream[s[2]] = "nl"
     /\ s[1] = 1 \/ stream[s[1] - 1] = "nl"
     /\ Newlines(s[1], s[2] - 1) = {}}

Handled == {lines[i] : i \in DOMAIN lines}

\* However the stream is cut into chunks, and whatever runaway lines are
\* around it, a line within the limit is handled whole, without its line end,
\* before the reader waits for more.
ShortLinesSurvive ==
  pc # "scan" =>
    \A s \in SentLines :
      LET line == Trimmed(s[1], s[2] - 1) IN
      (s[2] - s[1] <= MaxPending /\ NonEmpty(line)) => line \in Handled

\* The handler is never given bytes of two lines, nor a line's beginning
\* without its end, unless the stream ends there: at worst the end of a runaway
\* line.  No byte is handled twice, and lines keep their order.
NoMixedLines ==
  /\ \A line \in Handled :
       /\ Newlines(line[1], line[2]) = {}
       /\ \/ pc = "done" /\ line[2] = got
          \/ \E s \in SentLines : line[2] = Trimmed(s[1], s[2] - 1)[2]
  /\ \A i, j \in DOMAIN lines : i < j => lines[i][2] < lines[j][1]
=============================================================================
