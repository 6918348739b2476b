------------------------------ MODULE MCHealer ------------------------------
(***************************************************************************)
(* Instances of Healer for TLC: a link the topology protects, and one that *)
(* it does not (L2 is crossed by the protection path only).                *)
(***************************************************************************)
EXTENDS Healer, TLC

CONSTANTS L1, L2, PWork1, PProt2

MCPathOrder  == <<PWork1, PProt2>>
MCPathLinks  == (PWork1 :> {L1}) @@ (PProt2 :> {L2})
MCRole       == (PWork1 :> "working") @@ (PProt2 :> "protection")
MCCapacity   == (PWork1 :> 1) @@ (PProt2 :> 1)
MCProtection == L1 :> PProt2

ThreadSymmetry == Permutations(Threads)
=============================================================================
