---------------------------- MODULE MCTelemetry -----------------------------
(***************************************************************************)
(* An instance of Telemetry for TLC: a producer that sends two keys once,  *)
(* and one that loops for ever over one sample or is a health check.       *)
(***************************************************************************)
EXTENDS Telemetry, TLC

CONSTANTS A, B,     \* keys
          p1, p2    \* producers

At(k, t)  == [key |-> k, ts |-> t, valid |-> TRUE]
Broken(k, t) == [key |-> k, ts |-> t, valid |-> FALSE]

Once(records)    == [records |-> records, loop |-> FALSE]
Looping(records) == [records |-> records, loop |-> TRUE]

MCStreams ==
  (p1 :> {Once(<<At(A, 0), At(B, 0), At(A, 1)>>),
          Once(<<At(A, 0), Broken(A, 1), At(A, 2)>>)})
  @@ (p2 :> {Looping(<<At(A, 0)>>), Once(<< >>)})
=============================================================================
