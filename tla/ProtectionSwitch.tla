-------------------------- MODULE ProtectionSwitch --------------------------
(***************************************************************************)
(* What the path computation element promises, with no threads, locks,     *)
(* transports or logs: a link is switched onto one of the paths allowed    *)
(* for it, in one step, only while that path has a spare slot, and never   *)
(* onto the path it already rides.  A restart forgets everything.          *)
(***************************************************************************)
EXTENDS Integers

CONSTANTS Links, Paths, Capacity, None,
          Targets      \* link -> the paths it may be switched to

VARIABLES ride,        \* link -> path it was switched to, or None
          spare        \* path -> slots left

Init ==
  /\ ride = [l \in Links |-> None]
  /\ spare = Capacity

Switch(l, p) ==
  /\ ride[l] # p
  /\ spare[p] > 0
  /\ ride' = [ride EXCEPT ![l] = p]
  /\ spare' = [spare EXCEPT ![p] = @ - 1]

Restart ==
  /\ ride' = [l \in Links |-> None]
  /\ spare' = Capacity

Next ==
  \/ \E l \in Links : \E p \in Targets[l] : Switch(l, p)
  \/ Restart

Spec == Init /\ [][Next]_<<ride, spare>>
=============================================================================
