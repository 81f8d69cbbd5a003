------------------------------- MODULE SlotPool -------------------------------
(***************************************************************************)
(* What runner creation promises, without generations, rows, tickets or    *)
(* Kubernetes: a bounded set of members hold a slot, and a member's runner *)
(* may exist in the cluster only while the member holds its slot.          *)
(***************************************************************************)
EXTENDS Naturals, FiniteSets

CONSTANTS Members,   \* who may hold a slot
          Limit      \* how many may hold one at a time

VARIABLES holders,   \* members that hold a slot
          running    \* members whose runner exists or may still appear

Init == holders = {} /\ running = {}

Acquire(m) ==
  /\ m \in Members \ holders
  /\ Cardinality(holders) < Limit
  /\ holders' = holders \cup {m}
  /\ UNCHANGED running

Start(m) ==
  /\ m \in holders \ running
  /\ running' = running \cup {m}
  /\ UNCHANGED holders

Finish(m) ==
  /\ m \in running
  /\ running' = running \ {m}
  /\ UNCHANGED holders

Return(m) ==
  /\ m \in holders \ running
  /\ holders' = holders \ {m}
  /\ UNCHANGED running

Next == \E m \in Members : Acquire(m) \/ Start(m) \/ Finish(m) \/ Return(m)

Spec == Init /\ [][Next]_<<holders, running>>
=============================================================================
