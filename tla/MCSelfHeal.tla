----------------------------- MODULE MCSelfHeal -----------------------------
(***************************************************************************)
(* Instances of SelfHeal for TLC, over configs/topology.yaml: two working  *)
(* links compete for the one slot of the protection path (L2, which only   *)
(* the protection path crosses, is left out).                              *)
(***************************************************************************)
EXTENDS SelfHeal, TLC

CONSTANTS L1, L3, PWork1, PProt2, PWork3

MCPathOrder  == <<PWork1, PProt2, PWork3>>
MCPathLinks  == (PWork1 :> {L1}) @@ (PProt2 :> {}) @@ (PWork3 :> {L3})
MCRole       == (PWork1 :> "working") @@ (PProt2 :> "protection") @@ (PWork3 :> "working")
MCCapacity   == (PWork1 :> 1) @@ (PProt2 :> 1) @@ (PWork3 :> 1)
MCProtection == (L1 :> PProt2) @@ (L3 :> PProt2)

\* The hypotheses under which SelfHealProofs proves two of the invariants.
ASSUME TopologyYaml == SeparatePaths /\ TwoTransports
=============================================================================
