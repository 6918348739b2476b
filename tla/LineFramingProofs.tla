-------------------------- MODULE LineFramingProofs --------------------------
(***************************************************************************)
(* What the reader of JsonlServer makes of every stream, however it is cut *)
(* into chunks, and for every limit on a pending line.                     *)
(***************************************************************************)
EXTENDS LineFraming, WellFoundedInduction, SequenceTheorems, TLAPS

TypeInv ==
  /\ stream \in Seq({"byte", "cr", "nl"})
  /\ got \in 0 .. Len(stream)
  /\ from \in 1 .. got + 1
  /\ lines \in Seq(Int \X Int)
  /\ pc \in {"recv", "scan", "done"}

\* Place a is the start of a line, as far as place b.
StartsLine(a, b) ==
  /\ a \in 1 .. b
  /\ a = 1 \/ stream[a - 1] = "nl"
  /\ Newlines(a, b - 1) = {}

\* The line that the reader is in starts at the first byte it has not dealt
\* with, or so far before it that the line is beyond the limit.
InLine == \E a \in 1 .. from : StartsLine(a, from) /\ (a = from \/ from - a > MaxPending)

\* The lines that ended before `from` and are within the limit were handled.
ShortLines ==
  \A s \in SentLines :
    LET line == Trimmed(s[1], s[2] - 1) IN
    (s[2] < from /\ s[2] - s[1] <= MaxPending /\ NonEmpty(line)) => line \in Handled

\* And nothing else was, of what is before `from`.
WholeLines ==
  \A i \in DOMAIN lines :
    /\ lines[i][1] \in 1 .. lines[i][2] /\ lines[i][2] < from
    /\ Newlines(lines[i][1], lines[i][2]) = {}
    /\ \/ pc = "done" /\ lines[i][2] = got
       \/ \E s \in SentLines : lines[i][2] = Trimmed(s[1], s[2] - 1)[2]

InOrder == \A i, j \in DOMAIN lines : i < j => lines[i][2] < lines[j][1]

\* Between chunks no newline is pending.
Scanned == pc # "scan" => \A p \in 1 .. got : stream[p] = "nl" => p < from

FramingInv ==
  /\ TypeInv /\ Scanned
  /\ pc # "done" => InLine
  /\ ShortLines /\ WholeLines /\ InOrder
-----------------------------------------------------------------------------
\* The next newline is the first of those that are pending.
LEMMA FirstNewline ==
  ASSUME TypeInv, Ahead # {}
  PROVE  /\ Min(Ahead) \in from .. got
         /\ stream[Min(Ahead)] = "nl"
         /\ Newlines(from, Min(Ahead) - 1) = {}
<1>1. Ahead \in SUBSET Nat /\ Ahead \subseteq from .. got
  BY DEF TypeInv, Ahead, Newlines
<1>2. PICK m \in Ahead : \A k \in Ahead : m <= k
  <2>1. IsWellFoundedOn(OpToRel(<, Nat), Nat)
    BY NatLessThanWellFounded
  <2>2. PICK m \in Ahead : \A k \in Ahead : ~(<<k, m>> \in OpToRel(<, Nat))
    BY <1>1, <2>1, WFMin
  <2>3. \A k \in Ahead : ~(k < m)
    BY <1>1, <2>2 DEF OpToRel
  <2>. QED  BY <1>1, <2>3
<1>3. Min(Ahead) \in Ahead /\ \A k \in Ahead : Min(Ahead) <= k
  BY <1>2 DEF Min
<1>. DEFINE first == Min(Ahead)
<1>6. from \in Nat /\ got \in Nat
  BY DEF TypeInv
<1>7. first \in Ahead /\ first \in Nat /\ first \in from .. got
  BY <1>1, <1>3
<1>. HIDE DEF first
<1>4. ASSUME NEW p \in from .. first - 1, stream[p] = "nl"
      PROVE  FALSE
  <2>1. p \in Ahead /\ p < first
    BY <1>4, <1>6, <1>7 DEF Ahead, Newlines
  <2>2. first <= p
    BY <1>3, <2>1 DEF first
  <2>. QED  BY <1>4, <1>6, <1>7, <2>1, <2>2
<1>5. Newlines(from, Min(Ahead) - 1) = {}
  BY <1>4 DEF Newlines, first
<1>. QED  BY <1>1, <1>3, <1>5 DEF Ahead, Newlines

LEMMA AppendLine ==
  ASSUME TypeInv, NEW a \in Int, NEW b \in Int
  PROVE  LET n == Len(lines) + 1
             l == Append(lines, <<a, b>>)
         IN /\ l \in Seq(Int \X Int) /\ DOMAIN l = 1 .. n /\ DOMAIN lines = 1 .. n - 1
            /\ n \in Nat /\ l[n] = <<a, b>> /\ \A i \in 1 .. n - 1 : l[i] = lines[i]
  BY DEF TypeInv

\* One line start, and no newline after it, before place p: there is one line
\* only that ends at p.
LEMMA OneStart ==
  ASSUME NEW p \in Nat, NEW a, NEW b, StartsLine(a, p), StartsLine(b, p)
  PROVE  a = b
  BY DEF StartsLine, Newlines

\* SentLines are the lines that end in a newline.
LEMMA SentLine ==
  ASSUME TypeInv, NEW p \in 1 .. got, stream[p] = "nl", NEW a, StartsLine(a, p)
  PROVE  <<a, p>> \in SentLines
  BY DEF TypeInv, StartsLine, SentLines, Newlines

LEMMA SentLineFacts ==
  ASSUME TypeInv, NEW s \in SentLines
  PROVE  /\ s[2] \in 1 .. got /\ stream[s[2]] = "nl" /\ StartsLine(s[1], s[2])
         /\ s = <<s[1], s[2]>>
  BY DEF TypeInv, StartsLine, SentLines

LEMMA InitFramingInv == Init => FramingInv
<1>. SUFFICES ASSUME Init PROVE FramingInv
  OBVIOUS
<1>1. stream \in Seq({"byte", "cr", "nl"}) /\ Len(stream) \in Nat
  BY FramingAssumption DEF Init
<1>2. << >> \in Seq(Int \X Int) /\ DOMAIN lines = {}
  BY DEF Init
<1>3. TypeInv /\ WholeLines /\ InOrder
  BY <1>1, <1>2 DEF Init, TypeInv, WholeLines, InOrder
<1>4. SentLines = {}
  BY DEF Init, SentLines
<1>5. Scanned /\ ShortLines
  BY <1>4 DEF Init, Scanned, ShortLines
<1>6. InLine
  BY DEF Init, InLine, StartsLine, Newlines
<1>. QED  BY <1>3, <1>5, <1>6 DEF FramingInv

LEMMA TrimmedFacts ==
  ASSUME NEW a \in Int, NEW b \in Int
  PROVE  /\ Trimmed(a, b)[1] = a
         /\ Trimmed(a, b)[2] = IF b >= a /\ stream[b] = "cr" THEN b - 1 ELSE b
         /\ Trimmed(a, b) = <<a, Trimmed(a, b)[2]>> /\ Trimmed(a, b)[2] \in Int
  BY DEF Trimmed

\* Lines keep their order when one is appended that starts at `from`.
LEMMA AppendInOrder ==
  ASSUME FramingInv, NEW b \in Int, lines' = Append(lines, <<from, b>>)
  PROVE  InOrder'
<1>. PICK n : n = Len(lines) + 1
  OBVIOUS
<1>1. /\ n \in Nat /\ DOMAIN lines' = 1 .. n /\ DOMAIN lines = 1 .. n - 1
      /\ lines'[n] = <<from, b>> /\ \A i \in 1 .. n - 1 : lines'[i] = lines[i]
  <2>1. from \in Int /\ TypeInv
    BY DEF FramingInv, TypeInv
  <2>. QED  BY <2>1, AppendLine
<1>. SUFFICES ASSUME NEW i \in 1 .. n, NEW j \in 1 .. n, i < j
              PROVE  lines'[i][2] < lines'[j][1]
  BY <1>1 DEF InOrder
<1>2. i \in 1 .. n - 1 /\ lines'[i] = lines[i]
  BY <1>1
<1>3. CASE j = n
  BY <1>1, <1>2, <1>3 DEF FramingInv, WholeLines
<1>4. CASE j # n
  <2>1. j \in 1 .. n - 1 /\ lines'[j] = lines[j]
    BY <1>1, <1>4
  <2>. QED  BY <1>1, <1>2, <2>1 DEF FramingInv, InOrder
<1>. QED  BY <1>3, <1>4

\* One line taken: it is the one the reader is in.
LEMMA TakeLineKeepsFramingInv ==
  ASSUME FramingInv, TakeLine
  PROVE  FramingInv'
<1>. PICK p, line, n : p = Min(Ahead) /\ line = Trimmed(from, p - 1) /\ n = Len(lines) + 1
  OBVIOUS
<1>1. /\ TypeInv /\ pc = "scan" /\ Ahead # {} /\ from' = p + 1 /\ UNCHANGED <<stream, got, pc>>
      /\ lines' = IF NonEmpty(line) THEN Append(lines, line) ELSE lines
  BY DEF TakeLine, FramingInv
<1>2. p \in from .. got /\ stream[p] = "nl" /\ Newlines(from, p - 1) = {}
  BY <1>1, FirstNewline
<1>3. got \in Nat /\ from \in Nat \ {0} /\ p \in Nat /\ from <= p /\ p <= got
  BY <1>1, <1>2 DEF TypeInv
<1>4. /\ line[1] = from /\ line = <<from, line[2]>> /\ line[2] \in Int
      /\ line[2] = IF p - 1 >= from /\ stream[p - 1] = "cr" THEN p - 2 ELSE p - 1
  <2>1. p - 1 \in Int /\ from \in Int
    BY <1>3
  <2>. DEFINE t == Trimmed(from, p - 1)
  <2>2. /\ t[1] = from /\ t = <<from, t[2]>> /\ t[2] \in Int
        /\ t[2] = IF p - 1 >= from /\ stream[p - 1] = "cr" THEN p - 1 - 1 ELSE p - 1
    BY <2>1 DEF Trimmed
  <2>3. p - 1 - 1 = p - 2
    BY <1>3
  <2>4. t = line
    OBVIOUS
  <2>. HIDE DEF t
  <2>. QED  BY <2>2, <2>3, <2>4
<1>5. PICK a \in 1 .. from : StartsLine(a, from) /\ (a = from \/ from - a > MaxPending)
  BY <1>1 DEF FramingInv, InLine
<1>6. StartsLine(a, p)
  BY <1>2, <1>3, <1>5 DEF StartsLine, Newlines
<1>7. <<a, p>> \in SentLines /\ SentLines' = SentLines
  <2>1. p \in 1 .. got
    BY <1>3
  <2>2. <<a, p>> \in SentLines
    BY <1>1, <1>2, <1>6, <2>1, SentLine
  <2>3. SentLines' = SentLines
    BY <1>1 DEF SentLines, Newlines
  <2>. QED  BY <2>2, <2>3
<1>8. /\ n \in Nat \ {0} /\ DOMAIN lines = 1 .. n - 1
      /\ \/ UNCHANGED lines /\ ~NonEmpty(line)
         \/ /\ NonEmpty(line) /\ lines' \in Seq(Int \X Int)
            /\ DOMAIN lines' = 1 .. n /\ lines'[n] = line
            /\ \A i \in 1 .. n - 1 : lines'[i] = lines[i]
  <2>1. CASE NonEmpty(line)
    BY <1>1, <1>3, <1>4, <2>1, AppendLine
  <2>2. CASE ~NonEmpty(line)
    BY <1>1, <2>2 DEF TypeInv
  <2>. QED  BY <2>1, <2>2
<1>9. Handled \subseteq Handled' /\ (NonEmpty(line) => line \in Handled')
  <2>1. CASE UNCHANGED lines /\ ~NonEmpty(line)
    BY <2>1 DEF Handled
  <2>2. CASE /\ DOMAIN lines' = 1 .. n /\ lines'[n] = line
             /\ \A i \in 1 .. n - 1 : lines'[i] = lines[i]
    <3>1. line \in Handled'
      <4>1. n \in 1 .. n
        BY <1>8
      <4>. QED  BY <2>2, <4>1 DEF Handled
    <3>2. \A i \in 1 .. n - 1 : i \in 1 .. n
      <4>1. n \in Nat
        BY <1>8
      <4>. QED  BY <4>1
    <3>. QED  BY <1>8, <2>2, <3>1, <3>2 DEF Handled
  <2>. QED  BY <1>8, <2>1, <2>2
<1>10. TypeInv'
  <2>1. lines' \in Seq(Int \X Int)
    BY <1>1, <1>8 DEF TypeInv
  <2>. QED  BY <1>1, <1>3, <2>1 DEF TypeInv
<1>11. InLine'
  <2>1. StartsLine(p + 1, p + 1)'
    BY <1>1, <1>2, <1>3 DEF StartsLine, Newlines
  <2>. QED  BY <1>1, <1>3, <2>1 DEF InLine
<1>12. ShortLines'
  <2>. SUFFICES ASSUME NEW s \in SentLines, s[2] < p + 1, s[2] - s[1] <= MaxPending,
                       NonEmpty(Trimmed(s[1], s[2] - 1))
                PROVE  Trimmed(s[1], s[2] - 1) \in Handled'
    BY <1>1, <1>7 DEF ShortLines, Trimmed, NonEmpty
  <2>1. s[2] \in 1 .. got /\ stream[s[2]] = "nl" /\ StartsLine(s[1], s[2])
    BY <1>1, SentLineFacts
  <2>2. CASE s[2] < from
    BY <1>9, <2>2 DEF FramingInv, ShortLines
  <2>3. CASE s[2] >= from
    <3>1. s[2] = p
      BY <1>2, <1>3, <2>1, <2>3 DEF Newlines
    <3>2. s[1] = a
      BY <1>3, <1>6, <2>1, <3>1, OneStart
    <3>3. a = from
      BY <1>3, <1>5, <3>1, <3>2, FramingAssumption
    <3>. QED  BY <1>9, <3>1, <3>2, <3>3
  <2>. QED  BY <1>3, <2>1, <2>2, <2>3
<1>13. ASSUME NEW i \in DOMAIN lines
       PROVE  /\ lines[i][1] \in 1 .. lines[i][2] /\ lines[i][2] < from
              /\ Newlines(lines[i][1], lines[i][2]) = {}
              /\ \E s \in SentLines : lines[i][2] = Trimmed(s[1], s[2] - 1)[2]
  BY <1>1 DEF FramingInv, WholeLines
<1>14. ASSUME NonEmpty(line)
       PROVE  /\ line[1] \in 1 .. line[2] /\ line[2] < p + 1
              /\ Newlines(line[1], line[2]) = {}
              /\ \E s \in SentLines : line[2] = Trimmed(s[1], s[2] - 1)[2]
  <2>1. from <= line[2] /\ line[2] <= p - 1 /\ p - 1 >= a /\ a \in Int
    BY <1>3, <1>4, <1>5, <1>14 DEF NonEmpty
  <2>2. Newlines(line[1], line[2]) = {}
    BY <1>2, <1>3, <1>4, <2>1 DEF Newlines
  <2>3. Trimmed(a, p - 1)[2] = line[2]
    <3>1. Trimmed(a, p - 1)[2] = IF p - 1 >= a /\ stream[p - 1] = "cr" THEN p - 1 - 1 ELSE p - 1
      <4>1. p - 1 \in Int
        BY <1>3
      <4>. QED  BY <2>1, <4>1, TrimmedFacts
    <3>2. p - 1 >= from
      BY <1>3, <1>4, <2>1
    <3>. QED  BY <1>3, <1>4, <2>1, <3>1, <3>2
  <2>. DEFINE s == <<a, p>>
  <2>4. s \in SentLines /\ line[2] = Trimmed(s[1], s[2] - 1)[2]
    BY <1>7, <2>3
  <2>5. line[1] \in 1 .. line[2] /\ line[2] < p + 1
    BY <1>3, <1>4, <2>1
  <2>. QED  BY <2>2, <2>4, <2>5
<1>15. WholeLines'
  <2>. SUFFICES ASSUME NEW i \in DOMAIN lines'
                PROVE  /\ lines'[i][1] \in 1 .. lines'[i][2] /\ lines'[i][2] < p + 1
                       /\ Newlines(lines'[i][1], lines'[i][2]) = {}
                       /\ \E s \in SentLines : lines'[i][2] = Trimmed(s[1], s[2] - 1)[2]
    <3>1. /\ from' = p + 1 /\ SentLines' = SentLines /\ stream' = stream
      BY <1>1, <1>7
    <3>. QED  BY <3>1 DEF WholeLines, Newlines, Trimmed
  <2>1. \/ i \in DOMAIN lines /\ lines'[i] = lines[i]
        \/ NonEmpty(line) /\ lines'[i] = line
    <3>1. CASE UNCHANGED lines
      BY <3>1
    <3>2. CASE NonEmpty(line) /\ DOMAIN lines' = 1 .. n
      <4>1. i \in 1 .. n - 1 \/ i = n
        BY <1>8, <3>2
      <4>. QED  BY <1>8, <3>2, <4>1
    <3>. QED  BY <1>8, <3>1, <3>2
  <2>2. CASE i \in DOMAIN lines /\ lines'[i] = lines[i]
    <3>0. lines[i] \in Int \X Int
      BY <1>1, <2>2 DEF TypeInv
    <3>1. lines[i][2] < p + 1
      BY <1>3, <1>13, <2>2, <3>0
    <3>. QED  BY <1>13, <2>2, <3>1
  <2>3. CASE NonEmpty(line) /\ lines'[i] = line
    BY <1>14, <2>3
  <2>. QED  BY <2>1, <2>2, <2>3
<1>16. InOrder'
  BY <1>1, <1>4, AppendInOrder DEF FramingInv, InOrder
<1>17. Scanned'
  BY <1>1 DEF Scanned
<1>. QED  BY <1>10, <1>11, <1>12, <1>15, <1>16, <1>17 DEF FramingInv

\* What is received is only more to scan.
LEMMA ReceiveKeepsFramingInv ==
  ASSUME FramingInv, NEW n \in 1 .. MaxStream, Receive(n)
  PROVE  FramingInv'
<1>1. /\ TypeInv /\ pc = "recv" /\ pc' = "scan" /\ got + n <= Len(stream) /\ got' = got + n
      /\ UNCHANGED <<stream, from, lines>>
  BY DEF Receive, FramingInv
<1>2. got \in Nat /\ from \in Nat /\ from <= got + 1 /\ n \in Nat /\ Len(stream) \in Nat
  BY <1>1, FramingAssumption DEF TypeInv
<1>3. TypeInv'
  BY <1>1, <1>2 DEF TypeInv
<1>4. SentLines \subseteq SentLines'
  BY <1>1, <1>2 DEF SentLines, Newlines
<1>5. \A s \in SentLines' : s[2] < from => s \in SentLines
  BY <1>1, <1>2 DEF SentLines, Newlines
<1>6. Scanned' /\ InLine' /\ InOrder'
  BY <1>1 DEF FramingInv, Scanned, InLine, StartsLine, Newlines, InOrder
<1>7. ShortLines'
  BY <1>1, <1>5 DEF FramingInv, ShortLines, Handled, Trimmed, NonEmpty
<1>8. WholeLines'
  <2>. SUFFICES ASSUME NEW i \in DOMAIN lines
                PROVE  /\ lines[i][1] \in 1 .. lines[i][2] /\ lines[i][2] < from
                       /\ Newlines(lines[i][1], lines[i][2]) = {}
                       /\ \E s \in SentLines : lines[i][2] = Trimmed(s[1], s[2] - 1)[2]
    BY <1>1, <1>4 DEF WholeLines, Newlines, Trimmed
  <2>. QED  BY <1>1 DEF FramingInv, WholeLines
<1>. QED  BY <1>3, <1>6, <1>7, <1>8 DEF FramingInv

\* What is left after the last newline is the beginning of a line, and
\* dropping it leaves the reader in a line that is too long.
LEMMA KeepRestKeepsFramingInv ==
  ASSUME FramingInv, KeepRest
  PROVE  FramingInv'
<1>1. /\ TypeInv /\ pc = "scan" /\ pc' = "recv" /\ Ahead = {} /\ UNCHANGED <<stream, got, lines>>
      /\ from' = IF Runaway THEN got + 1 ELSE from
  BY DEF KeepRest, FramingInv
<1>2. /\ got \in Nat /\ from \in Nat \ {0} /\ from <= got + 1 /\ MaxPending \in Nat
      /\ from' \in Nat /\ from <= from' /\ from' <= got + 1
  BY <1>1, FramingAssumption DEF TypeInv
<1>3. TypeInv'
  BY <1>1, <1>2 DEF TypeInv
<1>4. \A p \in 1 .. got : stream[p] = "nl" => p < from
  BY <1>1, <1>2 DEF Ahead, Newlines
<1>5. Scanned' /\ InOrder'
  BY <1>1, <1>2, <1>4 DEF FramingInv, Scanned, InOrder
<1>6. InLine'
  <2>1. PICK a \in 1 .. from : StartsLine(a, from) /\ (a = from \/ from - a > MaxPending)
    BY <1>1 DEF FramingInv, InLine
  <2>2. StartsLine(a, from') /\ (a = from' \/ from' - a > MaxPending) /\ a \in 1 .. from'
    BY <1>1, <1>2, <1>4, <2>1 DEF StartsLine, Newlines, Runaway
  <2>. QED  BY <1>1, <2>2 DEF InLine, StartsLine, Newlines
<1>7. SentLines' = SentLines
  BY <1>1 DEF SentLines, Newlines
<1>8. ShortLines'
  <2>1. \A s \in SentLines : s[2] < from
    BY <1>1, <1>4, SentLineFacts
  <2>. QED  BY <1>1, <1>7, <2>1 DEF FramingInv, ShortLines, Handled, Trimmed, NonEmpty
<1>9. WholeLines'
  <2>. SUFFICES ASSUME NEW i \in DOMAIN lines
                PROVE  /\ lines[i][1] \in 1 .. lines[i][2] /\ lines[i][2] < from'
                       /\ Newlines(lines[i][1], lines[i][2]) = {}
                       /\ \E s \in SentLines : lines[i][2] = Trimmed(s[1], s[2] - 1)[2]
    BY <1>1, <1>7 DEF WholeLines, Newlines, Trimmed
  <2>1. /\ lines[i][1] \in 1 .. lines[i][2] /\ lines[i][2] < from
        /\ Newlines(lines[i][1], lines[i][2]) = {}
        /\ \E s \in SentLines : lines[i][2] = Trimmed(s[1], s[2] - 1)[2]
    BY <1>1 DEF FramingInv, WholeLines
  <2>2. lines[i] \in Int \X Int
    BY <1>1 DEF TypeInv
  <2>3. lines[i][2] < from'
    BY <1>2, <2>1, <2>2
  <2>. QED  BY <2>1, <2>3
<1>. QED  BY <1>1, <1>3, <1>5, <1>6, <1>8, <1>9 DEF FramingInv

\* At the end of the stream the beginning of a line is handled as if it were one.
LEMMA EndOfStreamKeepsFramingInv ==
  ASSUME FramingInv, EndOfStream
  PROVE  FramingInv'
<1>1. /\ TypeInv /\ pc = "recv" /\ pc' = "done" /\ from' = got + 1 /\ UNCHANGED <<stream, got>>
      /\ lines' = IF from <= got THEN Append(lines, <<from, got>>) ELSE lines
  BY DEF EndOfStream, FramingInv
<1>2. got \in Nat /\ from \in Nat \ {0} /\ from <= got + 1 /\ got \in Int /\ from \in Int
  BY <1>1 DEF TypeInv
<1>3. \A p \in 1 .. got : stream[p] = "nl" => p < from
  BY <1>1 DEF FramingInv, Scanned
<1>. PICK n : n = Len(lines) + 1
  OBVIOUS
<1>4. /\ n \in Nat \ {0} /\ DOMAIN lines = 1 .. n - 1
      /\ \/ UNCHANGED lines
         \/ /\ from <= got /\ lines' \in Seq(Int \X Int)
            /\ DOMAIN lines' = 1 .. n /\ lines'[n] = <<from, got>>
            /\ \A i \in 1 .. n - 1 : lines'[i] = lines[i]
  <2>1. CASE from <= got
    BY <1>1, <1>2, <2>1, AppendLine
  <2>2. CASE ~(from <= got)
    BY <1>1, <2>2 DEF TypeInv
  <2>. QED  BY <2>1, <2>2
<1>5. TypeInv' /\ Scanned'
  <2>1. lines' \in Seq(Int \X Int)
    BY <1>1, <1>4 DEF TypeInv
  <2>. QED  BY <1>1, <1>2, <2>1 DEF TypeInv, Scanned
<1>6. InOrder'
  BY <1>1, <1>2, AppendInOrder DEF FramingInv, InOrder
<1>7. SentLines' = SentLines /\ Handled \subseteq Handled'
  <2>1. SentLines' = SentLines
    BY <1>1 DEF SentLines, Newlines
  <2>2. Handled \subseteq Handled'
    <3>1. \A i \in DOMAIN lines : i \in DOMAIN lines' /\ lines'[i] = lines[i]
      BY <1>4
    <3>. QED  BY <3>1 DEF Handled
  <2>. QED  BY <2>1, <2>2
<1>8. ShortLines'
  <2>1. \A s \in SentLines : s[2] < from
    BY <1>1, <1>3, SentLineFacts
  <2>. QED  BY <1>1, <1>7, <2>1 DEF FramingInv, ShortLines, Trimmed, NonEmpty
<1>9. WholeLines'
  <2>. SUFFICES ASSUME NEW i \in DOMAIN lines'
                PROVE  /\ lines'[i][1] \in 1 .. lines'[i][2] /\ lines'[i][2] < got + 1
                       /\ Newlines(lines'[i][1], lines'[i][2]) = {}
                       /\ \/ lines'[i][2] = got
                          \/ \E s \in SentLines : lines'[i][2] = Trimmed(s[1], s[2] - 1)[2]
    <3>1. /\ from' = got + 1 /\ SentLines' = SentLines /\ stream' = stream /\ got' = got
          /\ pc' = "done"
      BY <1>1, <1>7
    <3>. QED  BY <3>1 DEF WholeLines, Newlines, Trimmed
  <2>1. \/ i \in DOMAIN lines /\ lines'[i] = lines[i]
        \/ from <= got /\ lines'[i] = <<from, got>>
    <3>1. CASE UNCHANGED lines
      BY <3>1
    <3>2. CASE from <= got /\ DOMAIN lines' = 1 .. n
      <4>1. i \in 1 .. n - 1 \/ i = n
        BY <1>4, <3>2
      <4>. QED  BY <1>4, <3>2, <4>1
    <3>. QED  BY <1>4, <3>1, <3>2
  <2>2. CASE i \in DOMAIN lines /\ lines'[i] = lines[i]
    <3>1. /\ lines[i][1] \in 1 .. lines[i][2] /\ lines[i][2] < from
          /\ Newlines(lines[i][1], lines[i][2]) = {}
          /\ \E s \in SentLines : lines[i][2] = Trimmed(s[1], s[2] - 1)[2]
      BY <1>1, <2>2 DEF FramingInv, WholeLines
    <3>2. lines[i] \in Int \X Int
      BY <1>1, <2>2 DEF TypeInv
    <3>3. lines[i][2] < got + 1
      BY <1>2, <3>1, <3>2
    <3>. QED  BY <2>2, <3>1, <3>3
  <2>3. CASE from <= got /\ lines'[i] = <<from, got>>
    <3>1. Newlines(from, got) = {}
      BY <1>2, <1>3 DEF Newlines
    <3>. QED  BY <1>2, <2>3, <3>1
  <2>. QED  BY <2>1, <2>2, <2>3
<1>. QED  BY <1>1, <1>5, <1>6, <1>8, <1>9 DEF FramingInv

LEMMA FramingInvStep == FramingInv /\ [Next]_vars => FramingInv'
<1>. SUFFICES ASSUME FramingInv, [Next]_vars
              PROVE  FramingInv'
  OBVIOUS
<1>1. CASE \E n \in 1 .. MaxStream : Receive(n)
  BY <1>1, ReceiveKeepsFramingInv
<1>2. CASE TakeLine
  BY <1>2, TakeLineKeepsFramingInv
<1>3. CASE KeepRest
  BY <1>3, KeepRestKeepsFramingInv
<1>4. CASE EndOfStream
  BY <1>4, EndOfStreamKeepsFramingInv
<1>5. CASE UNCHANGED vars
  <2>1. /\ stream' = stream /\ got' = got /\ from' = from /\ lines' = lines /\ pc' = pc
    BY <1>5 DEF vars
  <2>2. TypeInv' /\ Scanned' /\ InOrder'
    BY <2>1 DEF FramingInv, TypeInv, Scanned, InOrder
  <2>3. InLine' = InLine
    BY <2>1 DEF InLine, StartsLine, Newlines
  <2>4. SentLines' = SentLines
    BY <2>1 DEF SentLines, Newlines
  <2>5. ShortLines' = ShortLines
    BY <2>1, <2>4 DEF ShortLines, Handled, Trimmed, NonEmpty
  <2>6. WholeLines' = WholeLines
    BY <2>1, <2>4 DEF WholeLines, Newlines, Trimmed
  <2>. QED  BY <2>1, <2>2, <2>3, <2>5, <2>6 DEF FramingInv
<1>. QED  BY <1>1, <1>2, <1>3, <1>4, <1>5 DEF Next

LEMMA FramingInvHolds == Spec => []FramingInv
BY InitFramingInv, FramingInvStep, PTL DEF Spec

\* handle_client gives its handler every line within the limit, whole, however
\* the stream is cut and whatever lines beyond the limit are around it, before
\* it waits for more bytes.
THEOREM ShortLinesSurviveHolds == Spec => []ShortLinesSurvive
<1>1. FramingInv => ShortLinesSurvive
  <2>. SUFFICES ASSUME FramingInv, pc # "scan", NEW s \in SentLines
                PROVE  s[2] < from
    BY DEF ShortLinesSurvive, FramingInv, ShortLines
  <2>. QED  BY SentLineFacts DEF FramingInv, Scanned
<1>. QED  BY <1>1, FramingInvHolds, PTL

\* handle_client gives its handler no bytes of two lines, nothing that ends
\* within a line but at the end of the stream, and nothing twice or out of order.
THEOREM NoMixedLinesHolds == Spec => []NoMixedLines
<1>1. FramingInv => NoMixedLines
  BY DEF FramingInv, WholeLines, InOrder, NoMixedLines, Handled
<1>. QED  BY <1>1, FramingInvHolds, PTL
=============================================================================
