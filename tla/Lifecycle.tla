------------------------------ MODULE Lifecycle ------------------------------
(***************************************************************************)
(* The lifecycle kernel of one owner's runner, backend/runner/lifecycle.py.*)
(* It is a set of pure decisions over one registry row: each operator      *)
(* below is a guard (the `require`s) or a result (the `replace`).  The row *)
(* is what runner_runtime.registry stores.  Clock values and identifiers   *)
(* that never differ for one owner (owner, state_id) are left out.         *)
(***************************************************************************)
EXTENDS Naturals

NoPod == 0      \* pod_uid IS NULL; every real Pod UID is a positive number

Phases == { "not_prepared", "provisioning", "capacity_wait", "ready",
            "runner_unreachable", "runner_failed", "stopping", "idle_stopped" }

Creating == { "provisioning", "capacity_wait" }      \* an entry waits for its Pod
Live     == { "ready", "runner_unreachable" }        \* a Pod is bound and not stopping

(* The shape of a row whose counters are arbitrary. *)
Rows == [ phase : Phases, gen : Nat, rev : Nat, pod : Nat,
          active : Nat, ambiguous : BOOLEAN ]

NewRow == [ phase |-> "not_prepared", gen |-> 0, rev |-> 0, pod |-> NoPod,
            active |-> 0, ambiguous |-> FALSE ]

(* State.__post_init__: what a row must satisfy before it can be read back.*)
WellFormed(s) ==
  /\ s.phase = "not_prepared" => s.gen = 0 /\ s.pod = NoPod
  /\ s.phase # "not_prepared" => s.gen > 0
  /\ s.phase \in Live \cup {"stopping"} => s.pod # NoPod
  /\ (s.active > 0 \/ s.ambiguous) => s.pod # NoPod
  /\ s.phase \in {"not_prepared", "idle_stopped", "stopping", "capacity_wait"}
       => s.active = 0 /\ ~s.ambiguous
  /\ s.phase \in {"idle_stopped", "capacity_wait"} => s.pod = NoPod

(* What a caller remembers of a row before it looks outside the database.  *)
FenceOf(s) == [ gen |-> s.gen, rev |-> s.rev, pod |-> s.pod ]

Fences == [ gen : Nat, rev : Nat, pod : Nat ]

-----------------------------------------------------------------------------
(* entry: coalesce preparations, never ask for a second live Pod.          *)
CanEnter(s) ==
  \/ s.phase \in Creating
  \/ s.phase # "stopping" /\ s.pod # NoPod /\ s.phase \in Live
  \/ s.phase # "stopping" /\ s.pod = NoPod /\ s.active = 0 /\ ~s.ambiguous

(* An entry begins a new generation only when no Pod is bound.             *)
StartsGeneration(s) == s.phase \notin Creating /\ s.pod = NoPod

Entered(s) ==
  IF s.phase \in Creating THEN s
  ELSE IF s.pod # NoPod THEN [s EXCEPT !.rev = @ + 1]     \* last_activity only
  ELSE [s EXCEPT !.phase = "provisioning", !.gen = @ + 1, !.rev = @ + 1]

(* capacity: the slot decision of the creation controller.                 *)
CanDecideCapacity(s, fence) ==
  /\ FenceOf(s) = fence
  /\ s.phase \in Creating
  /\ s.pod = NoPod

CapacityDecided(s, admitted) ==
  LET phase == IF admitted THEN "provisioning" ELSE "capacity_wait"
  IN  IF s.phase = phase THEN s ELSE [s EXCEPT !.phase = phase, !.rev = @ + 1]

(* observed: bind or refresh the Pod seen outside.                         *)
CanObserve(s, fence, pod) ==
  /\ FenceOf(s) = fence
  /\ s.phase \in Live \cup {"provisioning"}
  /\ s.pod \in {NoPod, pod}

Observed(s, pod, ready, active, ambiguous) ==
  [s EXCEPT !.pod = pod, !.rev = @ + 1, !.active = active, !.ambiguous = ambiguous,
            !.phase = IF ready THEN "ready" ELSE "runner_unreachable"]

(* Mutant: the ambiguity of the live Pod is carried into the stop.         *)
DrainedStillAmbiguous(s) == [s EXCEPT !.phase = "stopping", !.rev = @ + 1, !.active = 0]

(* A drained or dead runner (accept_drain, _accept_closed): dispatch is    *)
(* fenced off, the Pod and its slot are kept.                              *)
Drained(s) ==
  [s EXCEPT !.phase = "stopping", !.rev = @ + 1, !.active = 0, !.ambiguous = FALSE]

(* stopped: the only decision that gives the Pod up.                       *)
CanFinishStop(s, fence, pod) ==
  /\ FenceOf(s) = fence
  /\ s.phase = "stopping"
  /\ s.pod = pod

Stopped(s) == [s EXCEPT !.phase = "idle_stopped", !.rev = @ + 1, !.pod = NoPod]

-----------------------------------------------------------------------------
(* A row that Registry.read accepts.                                       *)
Row(s) == s \in Rows /\ WellFormed(s)
=============================================================================
