---------------------------- MODULE MCRunnerStop ----------------------------
(* The stop of runners for TLC, and what operators' programs do once and   *)
(* for good: the decommission of a stopped owner's runner, the rehearsal's *)
(* single Pod creation, the namespace finalized by hand, and the bounded   *)
(* connection trial.  They run at different times on different clusters,   *)
(* so a behaviour here is one of one of them, and the others rest in an    *)
(* initial state.                                                          *)
(* What must eventually happen to a runner that is stopped or dies is asked*)
(* of two smaller instances of the stop: one whose user sends a message and*)
(* whose Pod may die at any step, and one without conversations whose      *)
(* native process may lack its credentials.                                *)
EXTENDS RunnerStop

CONSTANTS Disks, MaxRev, Runs, MaxPods, Kinds, MaxVersion, MaxWrites

VARIABLES
  part,                                                                           \* which one is explored
  rows, body, objects, dying, disk, fence, export, tool, orphan, wrapper, applied, touched,  \* Decommission
  boot, permit, uidFile, bound, only, made, flying, sent, restored, run,          \* OneShotCreate
  space, holds, failing, pass, wrote,                                             \* NamespaceFinal
  named, holder, requests, saved, marks, broker, control, records, past           \* NumericTrial

decomVars == << rows, body, objects, dying, disk, fence, export, tool, orphan, wrapper, applied, touched >>
shotVars  == << boot, permit, uidFile, bound, only, made, flying, sent, restored, run >>
spaceVars == << space, holds, failing, pass, wrote >>
trialVars == << named, holder, requests, saved, marks, broker, control, records, past >>

Removal  == INSTANCE Decommission
Shot     == INSTANCE OneShotCreate WITH row <- bound, pod <- only
Terminal == INSTANCE NamespaceFinal
Trial    == INSTANCE NumericTrial
Dying    == INSTANCE RunnerStop WITH MaxGen <- 1, MaxTurns <- 1, Faults <- {"lost_submit", "pod_death"}
Quiet    == INSTANCE RunnerStop WITH MaxGen <- 2, MaxTurns <- 0, Faults <- {"unsupplied", "supply_failure"}

ASSUME PartsAssumption ==
  /\ Removal!DecommissionAssumption /\ Shot!OneShotAssumption /\ Terminal!NamespaceAssumption
  /\ Trial!NumericAssumption

AllInit ==
  /\ part \in {"stop", "removal", "shot", "namespace", "trial"}
  /\ Init /\ Removal!Init /\ Shot!Init /\ Terminal!Init /\ Trial!Init
  /\ part # "removal" => rows.proved /\ ~rows.busy
  /\ part # "namespace" => holds = {} /\ failing = {}

AllNext ==
  \/ part = "stop" /\ Next /\ UNCHANGED << part, decomVars, shotVars, spaceVars, trialVars >>
  \/ part = "removal" /\ Removal!Next /\ UNCHANGED << part, vars, shotVars, spaceVars, trialVars >>
  \/ part = "shot" /\ Shot!Next /\ UNCHANGED << part, vars, decomVars, spaceVars, trialVars >>
  \/ part = "namespace" /\ Terminal!Next /\ UNCHANGED << part, vars, decomVars, shotVars, trialVars >>
  \/ part = "trial" /\ Trial!Next /\ UNCHANGED << part, vars, decomVars, shotVars, spaceVars >>

AllSpec == AllInit /\ [][AllNext]_<< part, vars, decomVars, shotVars, spaceVars, trialVars >>

LiveInit ==
  /\ part \in {"dying", "quiet"}
  /\ Init /\ Removal!Init /\ Shot!Init /\ Terminal!Init /\ Trial!Init
  /\ rows.proved /\ ~rows.busy /\ holds = {} /\ failing = {}

LiveNext ==
  /\ IF part = "dying" THEN Dying!Next ELSE Quiet!Next
  /\ UNCHANGED << part, decomVars, shotVars, spaceVars, trialVars >>

(* The controller's and the kubelet's fair actions are the same in both:   *)
(* the bounds and the faults only limit what the rest of the world does.   *)
LiveSpec ==
  LiveInit /\ [][LiveNext]_<< part, vars, decomVars, shotVars, spaceVars, trialVars >>
  /\ Quiet!ControllerFairness /\ Quiet!WorldFairness

-----------------------------------------------------------------------------
(* Of the part that moves; the others rest where they began.               *)
AllTypeOK ==
  CASE part = "stop" -> TypeOK [] part = "removal" -> Removal!TypeOK
    [] part = "shot" -> Shot!TypeOK [] part = "namespace" -> Terminal!TypeOK
    [] part = "trial" -> Trial!TypeOK

(* Nothing is deleted but behind its proof: a Pod behind its stop's        *)
(* receipt; an owner's rows behind a proved stop and as they were          *)
(* reviewed, then the objects, then the files, and nothing of another; a   *)
(* namespace that was listed empty; the trial's objects as they were made, *)
(* once, and what a trial says of them when it ends is true and stays so.  *)
DeletionFollowsProof ==
  /\ DeletionFollowsReceipt
  /\ Removal!RowsGoAtRest /\ Removal!OthersStay /\ [][Removal!NothingDangles' /\ Removal!CodesAreMeant']_decomVars
  /\ Terminal!OnlyTheEmptyOne /\ Terminal!CodesAreMeant
  /\ Trial!DeletesOwnOnce /\ Trial!CompletedIsMeant /\ [][Trial!RecordsNameTheRest']_trialVars

(* What is decided once is not decided again: a stop's receipt; the        *)
(* permission to create the rehearsal's Pod, and which Pod that is.        *)
DecidedOnce ==
  /\ ReceiptIsFinal
  /\ [][Shot!OnePost']_shotVars /\ Shot!UidKept /\ Shot!ResultNamesOnePod

(* A runner whose process or Pod is gone is released: its slot comes back, *)
(* and no conversation stays "running" behind the fence but for the moment *)
(* its own dispatch needs to fail it.                                      *)
DyingRunnerReleased ==
  Dying!DeadRunnerReleased /\ [][Quiet!FenceStrandsNoMessage']_vars

(* A stop of a runner that holds no work is carried through, and a request *)
(* queued behind it begins a new runner unless its session or the account's*)
(* permission ended in between; but for a runner that was never supplied on*)
(* a volume that an earlier one used, whose drain stays refused for ever.  *)
QuietStopCompletes == part = "quiet" => Quiet!StopCompletes /\ Quiet!QueuedEntryServed
=============================================================================
