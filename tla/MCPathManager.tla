--------------------------- MODULE MCPathManager ---------------------------
(***************************************************************************)
(* Instances of PathManager for TLC: the repository's topology, and one    *)
(* with roomier paths so that a link can move more than once.              *)
(***************************************************************************)
EXTENDS PathManager, TLC

CONSTANTS L1, L2, L3, PWork1, PProt2, PWork3, Nowhere

WorkerSymmetry == Permutations(Workers)

MCPathOrder  == <<PWork1, PProt2, PWork3>>
MCPathLinks  == (PWork1 :> {L1}) @@ (PProt2 :> {L2}) @@ (PWork3 :> {L3})
MCRole       == (PWork1 :> "working") @@ (PProt2 :> "protection") @@ (PWork3 :> "working")
MCCapacity   == (PWork1 :> 1) @@ (PProt2 :> 1) @@ (PWork3 :> 1)
MCRoomy      == (PWork1 :> 1) @@ (PProt2 :> 2) @@ (PWork3 :> 0)
MCProtection == (L1 :> PProt2) @@ (L3 :> PProt2)

\* Both links to the protection path, one of them back, and requests that
\* name one path twice or a path the file does not have.
MCRequests ==
  {[from |-> PWork1, to |-> PProt2, link |-> L1],
   [from |-> PProt2, to |-> PWork1, link |-> L1],
   [from |-> PWork3, to |-> PProt2, link |-> L3],
   [from |-> PProt2, to |-> PProt2, link |-> L3],
   [from |-> Nowhere, to |-> PProt2, link |-> L1]}
=============================================================================
