---------------------------- MODULE MCDetection -----------------------------
(***************************************************************************)
(* Instances of Detection for TLC: a link with a protection path.          *)
(***************************************************************************)
EXTENDS Detection, TLC

CONSTANTS L1, L2, PWork1, PProt2

MCPathOrder  == <<PWork1, PProt2>>
MCPathLinks  == (PWork1 :> {L1}) @@ (PProt2 :> {})
MCRole       == (PWork1 :> "working") @@ (PProt2 :> "protection")
MCCapacity   == (PWork1 :> 1) @@ (PProt2 :> 1)
MCProtection == L1 :> PProt2

ThreadSymmetry == Permutations(Threads)
=============================================================================
