------------------------------ MODULE Topology ------------------------------
(***************************************************************************)
(* configs/topology.yaml as the healer and the path manager load it: the   *)
(* lightpaths in file order, the links each one crosses, its role and      *)
(* capacity, and the protection map.  Nothing in the code validates the    *)
(* file, so the protection map may leave a link out or name a path that    *)
(* does not exist.                                                         *)
(***************************************************************************)
EXTENDS Integers, Sequences

CONSTANTS
  Links,       \* link identifiers
  PathNames,   \* every path name a request can carry, known or not
  PathOrder,   \* the keys of "paths", in file order
  PathLinks,   \* path -> links it crosses
  Role,        \* path -> "working" or "protection"
  Capacity,    \* path -> "capacity" of the file
  Protection,  \* the "protection" map, link -> path name
  None         \* Python's None

Paths == {PathOrder[i] : i \in DOMAIN PathOrder}

ASSUME TopologyAssumption ==
  /\ PathOrder \in Seq(PathNames)
  /\ PathLinks \in [Paths -> SUBSET Links]
  /\ Role \in [Paths -> {"working", "protection"}]
  /\ Capacity \in [Paths -> Nat]
  /\ \E D \in SUBSET Links : Protection \in [D -> PathNames]
  /\ None \notin PathNames
  /\ None \notin Int

\* The working paths that cross link l, by their place in the file.
WorkingPlaces(l) ==
  {i \in DOMAIN PathOrder :
     Role[PathOrder[i]] = "working" /\ l \in PathLinks[PathOrder[i]]}

\* The first working path that crosses link l, or None.
WorkingPathForLink(l) ==
  IF WorkingPlaces(l) = {}
    THEN None
    ELSE PathOrder[CHOOSE i \in WorkingPlaces(l) :
                     \A j \in WorkingPlaces(l) : i <= j]

\* protection.get(link_id).
ProtectionPathForLink(l) ==
  IF l \in DOMAIN Protection THEN Protection[l] ELSE None
=============================================================================
