----------------------------- MODULE MCTraining ------------------------------
(***************************************************************************)
(* Instances of Training for TLC: a nominal link with up to six rows, with *)
(* and without gaps, failures and a row the ingest service rejects, and    *)
(* beside it a short link that ages; in the order of the generator, in     *)
(* that of concatenated files, and backwards.                              *)
(***************************************************************************)
EXTENDS Training, SequencesExt

CONSTANT LastSecond

Row(l, t, hard, kind, ok) == [link |-> l, ts |-> t, hard |-> hard, label |-> kind, valid |-> ok]

\* The nominal link's row of each second, without the seconds it misses.
Main(missing, fails, bad) ==
  LET all == [t \in 1 .. LastSecond |-> Row(1, t, t = fails, "nominal", t # bad)]
  IN SelectSeq(all, LAMBDA row : row.ts # missing)
Side == <<Row(2, 2, FALSE, "soft_fail", TRUE), Row(2, 3, TRUE, "soft_fail", TRUE)>>

\* Zero is no second: nothing is missing, fails or is rejected.
MainTables ==
  {Main(missing, fails, bad) :
     missing \in 0 .. LastSecond, fails \in 0 .. LastSecond, bad \in {0, 2}}

Orders(m) ==
  {m, m \o Side, Reverse(m \o Side),
   SortSeq(m \o Side, LAMBDA a, b : a.ts < b.ts \/ (a.ts = b.ts /\ a.link < b.link))}

MCTables == UNION {Orders(m) : m \in MainTables}
=============================================================================
