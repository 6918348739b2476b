------------------------------ MODULE Training -------------------------------
(***************************************************************************)
(* What train() does with a table of samples, between reading and saving:  *)
(* label each row with the failures ahead of it (gnpy_like.py), cut the    *)
(* rows of each link into windows (features.py), and set the threshold of  *)
(* the horizon head (horizon.py).  Beside it, the same table replayed      *)
(* through the streaming windows, which is how it looks when it is scored. *)
(* The models are fitted by libraries: here they may give a window any     *)
(* score, and the logistic regression may give any curve.                  *)
(***************************************************************************)
EXTENDS Integers, Sequences, FiniteSets, FiniteSetsExt

CONSTANTS
  Tables,       \* the tables train() may be given: sequences of rows
  Links,        \* (link_id, channel_id) pairs, as numbers: a replay sorts by them
  WindowN,      \* WINDOW_N
  HorizonRows,  \* int(HORIZON_S)
  Strides,      \* --stride
  MinNominal,   \* the 50 nominal windows train() asks for
  FprParts,     \* TARGET_NOMINAL_FPR is 1 / FprParts
  MaxScore,     \* combined scores are 0 .. MaxScore
  DefaultPoint  \* where the default curve reaches P_FAIL_THRESHOLD

\* valid: whether parse_sample takes the row.  hard: OSNR or BER beyond the
\* limit of a hard failure.
Rows == [link : Links, ts : Nat, hard : BOOLEAN, label : {"nominal", "soft_fail"},
         valid : BOOLEAN]

ASSUME TrainingAssumption ==
  /\ Links \subseteq Nat /\ IsFiniteSet(Links)
  /\ Tables \subseteq Seq(Rows)
  /\ \A t \in Tables : \A i, j \in DOMAIN t :
       i # j => t[i].link # t[j].link \/ t[i].ts # t[j].ts
  /\ {WindowN, HorizonRows, MinNominal, FprParts} \subseteq Nat \ {0}
  /\ Strides \subseteq Nat \ {0}
  /\ 2 * MinNominal <= FprParts + 1
  /\ MaxScore \in Nat /\ DefaultPoint \in 0 .. MaxScore

VARIABLES
  table, stride,
  pc,        \* the step train() is at, or "stopped" by SystemExit
  y,         \* row -> y_horizon
  batch,     \* link -> its windows, each with the row its meta is taken from
  replay,    \* rows cmd_replay has still to send
  buffer,    \* link -> the rows in its streaming window
  streamed,  \* link -> the frames made of them
  score,     \* nominal window, by link and number -> its combined score
  rising,    \* whether k > 0
  point      \* FprParts times the score at which p_fail_10m is P_FAIL_THRESHOLD

vars == <<table, stride, pc, y, batch, replay, buffer, streamed, score, rising, point>>

\* Row i comes before row j by (ts_unix_ms, link_id).
Before(i, j) == \/ table[i].ts < table[j].ts
                \/ table[i].ts = table[j].ts /\ table[i].link < table[j].link

RowsOf(l) == {i \in DOMAIN table : table[i].link = l}

Size(l) == Cardinality(RowsOf(l))

\* The place of row i when its group is sorted by ts_unix_ms.
Place(i) == Cardinality({j \in RowsOf(table[i].link) : table[j].ts <= table[i].ts})

RowAt(l, p) == CHOOSE i \in RowsOf(l) : Place(i) = p

Init ==
  /\ table \in Tables
  /\ stride \in Strides
  /\ pc = "label"
  /\ y = << >> /\ batch = << >>
  /\ replay = DOMAIN table
  /\ buffer = [l \in Links |-> << >>]
  /\ streamed = [l \in Links |-> << >>]
  /\ score = << >> /\ rising = TRUE /\ point = 0
-----------------------------------------------------------------------------
(* add_horizon_labels *)

\* Mutant: the horizon is one row short.
FutureShort(l, p) ==
  \E q \in p + 1 .. p + HorizonRows - 1 : q <= Size(l) /\ table[RowAt(l, q)].hard

\* The reversed rolling maximum of the failures, shifted by one row: whether
\* one of the HorizonRows rows behind place p of link l's group is a failure.
Future(l, p) ==
  \E q \in p + 1 .. p + HorizonRows : q <= Size(l) /\ table[RowAt(l, q)].hard

AddHorizonLabels ==
  /\ pc = "label"
  /\ y' = [i \in DOMAIN table |-> Future(table[i].link, Place(i))]
  /\ pc' = "slice"
  /\ UNCHANGED <<table, stride, batch, replay, buffer, streamed, score, rising, point>>
-----------------------------------------------------------------------------
(* windows_from_dataframe *)

\* Mutant: meta is taken one row too early.
MetaEarly(l, s) == RowAt(l, s + WindowN - (IF WindowN = 1 THEN 1 ELSE 2))

\* The row that labels the window starting at place s of link l's group.
MetaRow(l, s) == RowAt(l, s + WindowN - 1)

Window(l, s) == [rows |-> [k \in 1 .. WindowN |-> RowAt(l, s + k - 1)], meta |-> MetaRow(l, s)]

\* All full windows of a group, every stride-th of them.
WindowsOf(l) ==
  LET n == IF Size(l) < WindowN THEN 0 ELSE ((Size(l) - WindowN) \div stride) + 1
  IN [w \in 1 .. n |-> Window(l, (w - 1) * stride + 1)]

\* The windows of batch b by link and number, and those that are nominal.
Numbered(b) == UNION {{l} \X DOMAIN b[l] : l \in Links}
Nominal(b) == {w \in Numbered(b) : table[b[w[1]][w[2]].meta].label = "nominal"}

\* Group after group, and the two ways train() stops at too little data.
SliceWindows ==
  /\ pc = "slice"
  /\ batch' = [l \in Links |-> WindowsOf(l)]
  /\ pc' = IF Cardinality(Nominal(batch')) < MinNominal THEN "stopped" ELSE "fit"
  /\ UNCHANGED <<table, stride, y, replay, buffer, streamed, score, rising, point>>
-----------------------------------------------------------------------------
(* cmd_replay, the ingest service, iter_frames *)

\* The next row, as sort_values(["ts_unix_ms", "link_id"]) orders them, is
\* sent; if it is valid it enters its window, and a full window makes a frame.
Send(i) ==
  LET l == table[i].link
      longer == Append(buffer[l], i)
      w == IF Len(longer) > WindowN THEN Tail(longer) ELSE longer
  IN
  /\ pc \in {"done", "stopped"}
  /\ \A j \in replay \ {i} : Before(i, j)
  /\ replay' = replay \ {i}
  /\ IF table[i].valid
       THEN /\ buffer' = [buffer EXCEPT ![l] = w]
            /\ streamed' = IF Len(w) = WindowN
                             THEN [streamed EXCEPT ![l] = Append(@, w)]
                             ELSE streamed
       ELSE UNCHANGED <<buffer, streamed>>
  /\ UNCHANGED <<table, stride, pc, y, batch, score, rising, point>>
-----------------------------------------------------------------------------
(* HorizonHead *)

\* Both models score the nominal windows, and HorizonHead.fit finds a curve
\* through scores and labels: the default one if all labels are equal.
Fit ==
  /\ pc = "fit"
  /\ score' \in [Nominal(batch) -> 0 .. MaxScore]
  /\ \/ rising' = TRUE /\ point' = FprParts * DefaultPoint
     \/ /\ \E v, w \in Numbered(batch) :
             y[batch[v[1]][v[2]].meta] # y[batch[w[1]][w[2]].meta]
        /\ rising' \in BOOLEAN
        /\ point' \in {FprParts * s : s \in 0 .. MaxScore}
  /\ pc' = "calibrate"
  /\ UNCHANGED <<table, stride, y, batch, replay, buffer, streamed>>

\* The nominal score of rank p, counted from 0: the least that more than p
\* windows do not exceed.
Ranked(p) ==
  Min({v \in 0 .. MaxScore : Cardinality({w \in DOMAIN score : score[w] <= v}) > p})

\* Mutant: the quantile is taken at the wrong end.
QuantileLow == FprParts * Ranked(0)

\* FprParts times np.quantile(s, 1 - 1 / FprParts), linearly interpolated.
Quantile ==
  LET h == (Cardinality(DOMAIN score) - 1) * (FprParts - 1)
      p == h \div FprParts
      r == h % FprParts
  IN FprParts * Ranked(p) + (IF r = 0 THEN 0 ELSE r * (Ranked(p + 1) - Ranked(p)))

\* calibrate_threshold moves the curve to the right only, and leaves one
\* that does not rise alone.
CalibratedPoint == IF rising /\ Quantile > point THEN Quantile ELSE point

Calibrate ==
  /\ pc = "calibrate"
  /\ point' = CalibratedPoint
  /\ pc' = "done"
  /\ UNCHANGED <<table, stride, y, batch, replay, buffer, streamed, score, rising>>
-----------------------------------------------------------------------------
Replay == \E i \in replay : Send(i)

Next == AddHorizonLabels \/ SliceWindows \/ Fit \/ Calibrate \/ Replay

Spec == Init /\ [][Next]_vars
-----------------------------------------------------------------------------
(* Properties *)

\* Whether link l has a row for every second from its first to its last.
Gapless(l) ==
  \A i, j \in RowsOf(l) : \A t \in table[i].ts .. table[j].ts :
    \E m \in RowsOf(l) : table[m].ts = t

\* "Any sample in the next horizon_s seconds on the same link" fails hard:
\* every such row is labelled, in whatever order the table comes.  Rows are
\* counted for seconds, so only without gaps are they the only ones.
HorizonIsTrue ==
  pc # "label" =>
    \A i \in DOMAIN table :
      LET l == table[i].link
          ahead == \E j \in RowsOf(l) :
                     /\ table[j].ts - table[i].ts \in 1 .. HorizonRows
                     /\ table[j].hard
      IN /\ ahead => y[i]
         /\ Gapless(l) => (y[i] => ahead)

\* A link is trained on what it will be scored on: its windows are every
\* stride-th frame that the same table gives when it is replayed to the
\* ingest service, labelled by the sample the frame is sent at; unless the
\* service rejects one of its rows, which training keeps.
BatchMatchesStream ==
  (replay = {} /\ pc \in {"done", "stopped"}) =>
    \A l \in Links :
      (\A i \in RowsOf(l) : table[i].valid) =>
        /\ \A w \in DOMAIN batch[l] :
             LET n == (w - 1) * stride + 1 IN
             /\ n \in DOMAIN streamed[l]
             /\ batch[l][w].rows = streamed[l][n]
             /\ batch[l][w].meta = streamed[l][n][WindowN]
        /\ \A n \in DOMAIN streamed[l] :
             (n - 1) % stride = 0 => ((n - 1) \div stride) + 1 \in DOMAIN batch[l]

\* Nominal windows at or above the threshold: false_positive_rate times their
\* number.
FalsePositives == {w \in DOMAIN score : IF rising THEN FprParts * score[w] >= point
                                                  ELSE FprParts * score[w] <= point}

\* "Shift s0 right until the nominal FPR meets the gate" (1 / MinNominal):
\* it does for every number of windows train() accepts and every curve that
\* rises, unless windows tie at the quantile, as clipped scores may.
GateHolds ==
  (pc = "done" /\ rising
    /\ \A v, w \in DOMAIN score : v # w /\ FprParts * score[v] >= Quantile => score[v] # score[w])
    => Cardinality(FalsePositives) * MinNominal <= Cardinality(DOMAIN score)
=============================================================================
