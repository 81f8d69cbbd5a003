------------------------------ MODULE RunnerStop ------------------------------
(***************************************************************************)
(* How one owner's runner is stopped, freed and begun again: the stop and  *)
(* deferred-entry bookkeeping (runner_termination_control), the resident   *)
(* runner controller (ops/runner_controller_service.Service.step), the     *)
(* operator's `reclaim`, the Pod, the runner process in it with its turn   *)
(* and its mapping file on the retained volume, and the API's message and  *)
(* refresh path as far as it meets a stop.                                 *)
(*                                                                         *)
(* Owners do not interact here: every transaction holds the owner's lock.  *)
(* Each HTTP call, Kubernetes call and transaction is a step of its own,   *)
(* and between two of them its process may die or everything else may move.*)
(* The creation of a Pod is one step; module PodCreation refines it.       *)
(* The owner has one conversation; a Pod's UID is its generation (module   *)
(* PodCreation: one object per generation).                                *)
(***************************************************************************)
EXTENDS Lifecycle, FiniteSets

CONSTANTS Keys,       \* Idempotency-Keys of prepare requests
          Sessions,   \* login sessions of the owner
          MaxGen,     \* bound: generations begun
          MaxTurns,   \* bound: messages sent
          Faults      \* which of AllFaults may happen

AllFaults == { "api_crash",      \* the API process dies between two of its steps
               "lost_submit",    \* a turn's POST never reaches the runner
               "native_exit",    \* the native process dies under a live runner
               "turn_fails",     \* a turn ends without success
               "dirty_close",    \* the native process does not shut down cleanly
               "pod_death",      \* the runner container exits or the Pod vanishes
               "unsupplied",     \* no credential was ever supplied
               "supply_failure"  \* native cannot start, or loses its authorization
             }

ASSUME StopAssumption ==
  /\ MaxGen \in Nat \ {0}
  /\ MaxTurns \in Nat
  /\ Faults \subseteq AllFaults

VARIABLES
  row,       \* the owner's row of runner_runtime.registry
  receipts,  \* keys in runner_runtime.entry_receipts
  entries,   \* runner_termination.entries: what a key was queued with, or Unqueued
  sessions,  \* sessions that have not expired
  eligible,  \* account approved with role editor or admin
  rested,    \* now - last_activity has reached the idle period
  stop,      \* the runner_termination.stops row of row.gen
  conv,      \* state of the conversation row
  turns,     \* messages accepted by the API so far
  mapping,   \* the conversation's entry in the runner's mapping file
  home,      \* the native's home is on the retained volume (state/codex)
  pod,       \* the Pod object, or NoObject
  runner,    \* the runner process in it
  ctl,       \* the resident controller between two steps
  op,        \* the operator's reclaim between two steps
  msg        \* the API's message request and its background dispatch

accountVars == << receipts, entries, sessions, eligible >>
podVars     == << mapping, home, pod, runner >>
apiVars     == << conv, turns, msg >>
vars == << row, rested, stop, accountVars, apiVars, podVars, ctl, op >>

-----------------------------------------------------------------------------
Unqueued == [ session |-> "none", gen |-> 0 ]

NoObject == [ uid |-> 0, phase |-> "none", deleting |-> FALSE ]
PodPhases == { "pending", "running", "dead" }   \* dead: Failed or runner terminated

NoStop == [ open |-> FALSE, receipt |-> "none" ]
Receipts == { "drained",      \* version 1, clean = true
              "terminal",     \* version 2
              "unavailable",  \* version 3
              "operator" }    \* version 4

(* native: never supplied, failed to start, started, started but refused   *)
(* (blocked_reason), exited, or both.  drained: the stored receipt.        *)
Natives == { "unsupplied", "down", "up", "blocked", "exited", "blocked_exited" }
Drains  == { "no", "clean", "dirty", "unavailable" }
Fresh   == [ native |-> "unsupplied", turn |-> FALSE, drained |-> "no" ]

(* ctl.obj, ctl.gen, ctl.receipt: the Pod object, generation and receipt   *)
(* as step() read them; failure: /health named why native never started;   *)
(* answer: the drain response.                                             *)
Idle == [ pc |-> "idle", obj |-> NoObject, gen |-> 0, receipt |-> "none",
          failure |-> FALSE, answer |-> "no" ]
CtlPcs == { "idle", "looked", "quiet", "stopping", "asked", "answered", "delete" }

OpIdle == [ pc |-> "idle", gen |-> 0 ]
OpPcs  == { "idle", "observed", "requested", "refused" }
MsgPcs == { "idle", "checked", "launched", "submitting" }

TypeOK ==
  /\ row \in Rows /\ WellFormed(row)
  /\ receipts \subseteq Keys
  /\ entries \in [Keys -> [session : Sessions, gen : Nat] \cup {Unqueued}]
  /\ sessions \subseteq Sessions
  /\ eligible \in BOOLEAN /\ rested \in BOOLEAN
  /\ stop \in [open : BOOLEAN, receipt : Receipts \cup {"none"}]
  /\ conv \in {"idle", "running", "failed"} /\ turns \in Nat
  /\ mapping \in [state : {"idle", "running", "failed"}, current : BOOLEAN] /\ home \in BOOLEAN
  /\ pod \in [uid : Nat, phase : PodPhases, deleting : BOOLEAN] \cup {NoObject}
  /\ runner \in [native : Natives, turn : BOOLEAN, drained : Drains]
  /\ ctl \in [pc : CtlPcs, obj : [uid : Nat, phase : PodPhases \cup {"none"}, deleting : BOOLEAN],
              gen : Nat, receipt : Receipts \cup {"none"}, failure : BOOLEAN, answer : Drains]
  /\ op \in [pc : OpPcs, gen : Nat]
  /\ msg \in MsgPcs

Init ==
  /\ row = NewRow
  /\ receipts = {}
  /\ entries = [k \in Keys |-> Unqueued]
  /\ sessions = Sessions
  /\ eligible = TRUE
  /\ rested = FALSE
  /\ stop = NoStop
  /\ conv = "idle" /\ turns = 0 /\ msg = "idle"
  /\ mapping = [state |-> "idle", current |-> FALSE] /\ home = FALSE
  /\ pod = NoObject
  /\ runner = Fresh
  /\ ctl = Idle
  /\ op = OpIdle

-----------------------------------------------------------------------------
(* What callers can ask of the runner                                      *)
Started == runner.native \in {"up", "blocked", "exited", "blocked_exited"}

Exited == runner.native \in {"exited", "blocked_exited"}

Answers(uid) == pod.uid = uid /\ pod.phase = "running"

(* BoundRunner.call up to its HTTP request, without the stop check.        *)
Bound == eligible /\ row.phase \in Live /\ Answers(row.pod)

Available == runner.native = "up" /\ runner.drained = "no"

(* /health answers available=false for a reason other than "unavailable".  *)
HealthBlocked == runner.drained = "no" /\ runner.native \notin {"up", "exited"}

(* Mutant: only runner admissions are looked at, not conversations.        *)
AdmissionsOnly == TRUE

NoWork == conv # "running"                     \* no_pending_work

(* What a handler that gives up on the turn makes of the conversation.     *)
Failed == IF conv = "running" THEN "failed" ELSE conv

QuietMapping == ~runner.turn /\ mapping.state = "idle"

-----------------------------------------------------------------------------
(* API: prepare, stop, logout; an account without a session asks nothing   *)
LoggedIn == sessions # {}

Prepare(k) ==
  /\ eligible /\ LoggedIn
  /\ ~stop.open /\ row.phase \notin {"stopping", "runner_failed"}
  /\ k \in receipts \/ CanEnter(row)
  /\ k \notin receipts /\ StartsGeneration(row) => row.gen < MaxGen
  /\ row' = IF k \in receipts THEN row ELSE Entered(row)
  /\ rested' = (rested /\ row' = row)
  /\ receipts' = receipts \cup {k}
  /\ UNCHANGED << entries, sessions, eligible, stop, apiVars, podVars, ctl, op >>

(* StopRequested: the entry is queued, tied to the session that asked.     *)
QueueEntry(k, s) ==
  /\ eligible
  /\ stop.open \/ row.phase = "stopping"
  /\ s \in sessions
  /\ k \notin receipts /\ row.gen < MaxGen
  /\ entries[k] = Unqueued                     \* ON CONFLICT DO NOTHING
  /\ entries' = [entries EXCEPT ![k] = [session |-> s, gen |-> row.gen]]
  /\ UNCHANGED << row, rested, stop, receipts, sessions, eligible, apiVars, podVars, ctl, op >>

(* request_stop: the guard on the row, and the intent it records once.     *)
Stoppable == row.pod # NoPod /\ row.phase \in Live \cup {"stopping"}
OpenStop  == IF stop.open THEN stop ELSE [open |-> TRUE, receipt |-> "none"]

RequestStop ==
  /\ eligible /\ LoggedIn
  /\ Stoppable
  /\ stop' = OpenStop
  /\ UNCHANGED << row, rested, accountVars, apiVars, podVars, ctl, op >>

(* A session row goes, and with it the entries it queued (ON DELETE).      *)
DeleteSessions(gone) ==
  /\ sessions' = sessions \ gone
  /\ entries' = [k \in Keys |-> IF entries[k].session \in gone THEN Unqueued ELSE entries[k]]

(* Logout stops the runner first; without a Pod only "never entered" and   *)
(* "stopped" let it go on.                                                 *)
Logout(s) ==
  /\ s \in sessions
  /\ Stoppable \/ row.phase \in {"not_prepared", "runner_failed", "idle_stopped"}
  /\ stop' = IF Stoppable THEN OpenStop ELSE stop
  /\ DeleteSessions({s})
  /\ UNCHANGED << row, rested, receipts, eligible, apiVars, podVars, ctl, op >>

(* Expiry leaves the row and its entries; a new login is a new session.    *)
SessionExpires(s) ==
  /\ s \in sessions
  /\ sessions' = sessions \ {s}
  /\ UNCHANGED << row, rested, stop, receipts, entries, eligible, apiVars, podVars, ctl, op >>

Login(s) ==
  /\ s \notin sessions
  /\ \A k \in Keys : entries[k].session # s
  /\ sessions' = sessions \cup {s}
  /\ UNCHANGED << row, rested, stop, receipts, entries, eligible, apiVars, podVars, ctl, op >>

(* An administrator changes approval or role; every session is deleted.    *)
ChangeMembership ==
  /\ eligible' \in BOOLEAN
  /\ DeleteSessions(Sessions)
  /\ UNCHANGED << row, rested, stop, receipts, apiVars, podVars, ctl, op >>

(* The idle period passes without an entry.                                *)
Rest ==
  /\ ~rested
  /\ rested' = TRUE
  /\ UNCHANGED << row, stop, accountVars, apiVars, podVars, ctl, op >>

-----------------------------------------------------------------------------
(* API: a message.  Its checks (registry_status, /health) come before its  *)
(* commit, and neither takes the owner lock for the transaction.           *)
CheckMessage ==
  /\ msg = "idle" /\ LoggedIn
  /\ turns < MaxTurns
  /\ conv # "running"
  /\ ~stop.open
  /\ Bound /\ Available
  /\ msg' = "checked"
  /\ UNCHANGED << row, rested, stop, accountVars, conv, turns, podVars, ctl, op >>

CommitMessage ==
  /\ msg = "checked"
  /\ msg' = "launched"
  /\ conv' = "running"
  /\ turns' = turns + 1
  /\ mapping' = [mapping EXCEPT !.current = FALSE]     \* a new request id
  /\ UNCHANGED << row, rested, stop, accountVars, home, pod, runner, ctl, op >>

(* launch: reread the row, then runner_for (again a /health).              *)
Preflight ==
  /\ msg = "launched"
  /\ IF conv = "running" /\ Bound /\ Available
       THEN msg' = "submitting" /\ UNCHANGED conv
       ELSE msg' = "idle" /\ conv' = Failed
  /\ UNCHANGED << row, rested, stop, accountVars, turns, podVars, ctl, op >>

(* launch: runner.submit ends in BoundRunner's own checks, which the       *)
(* handler keeps as an ambiguous outcome ...                               *)
Dispatchable == Bound /\ ~stop.open

SubmitRefusedLocally ==
  /\ msg = "submitting"
  /\ ~Dispatchable
  /\ msg' = "idle"
  /\ UNCHANGED << row, rested, stop, accountVars, conv, turns, podVars, ctl, op >>

(* ... or in Native.accept, which reserves the turn before it runs it ...  *)
Accepts == Available /\ ~runner.turn

SubmitAccepted ==
  /\ msg = "submitting"
  /\ Dispatchable /\ Accepts
  /\ msg' = "idle"
  /\ runner' = [runner EXCEPT !.turn = TRUE]
  /\ mapping' = [state |-> "running", current |-> TRUE]
  /\ UNCHANGED << row, rested, stop, accountVars, conv, turns, home, pod, ctl, op >>

(* ... or in its refusal: definite for 409 and for a known reason, while   *)
(* 503 codex_unavailable or codex_runner_stopped leaves it as it is.       *)
DefiniteRefusal  == runner.drained = "no" /\ runner.native \notin {"unsupplied", "exited"}
AmbiguousRefusal == runner.drained # "no" \/ runner.native \in {"unsupplied", "exited", "down"}

SubmitRejected ==
  /\ msg = "submitting"
  /\ Dispatchable /\ ~Accepts
  /\ msg' = "idle"
  /\ \/ DefiniteRefusal /\ conv' = Failed
     \/ AmbiguousRefusal /\ UNCHANGED conv
  /\ UNCHANGED << row, rested, stop, accountVars, turns, podVars, ctl, op >>

Submit == SubmitRefusedLocally \/ SubmitAccepted \/ SubmitRejected

SubmitLost ==
  /\ "lost_submit" \in Faults
  /\ msg = "submitting"
  /\ msg' = "idle"
  /\ UNCHANGED << row, rested, stop, accountVars, conv, turns, podVars, ctl, op >>

ApiCrash ==
  /\ "api_crash" \in Faults
  /\ msg # "idle"
  /\ msg' = "idle"
  /\ UNCHANGED << row, rested, stop, accountVars, conv, turns, podVars, ctl, op >>

(* refresh: adopt the runner's own record of this very request.            *)
Refresh ==
  /\ conv = "running" /\ LoggedIn
  /\ Bound
  /\ Started /\ runner.drained = "no"
  /\ mapping.current /\ ~runner.turn
  /\ conv' = mapping.state
  /\ UNCHANGED << row, rested, stop, accountVars, turns, msg, podVars, ctl, op >>

-----------------------------------------------------------------------------
(* Pod and runner process                                                  *)
CreatePod ==
  /\ row.phase = "provisioning" /\ row.pod = NoPod
  /\ eligible
  /\ pod = NoObject
  /\ pod' = [uid |-> row.gen, phase |-> "pending", deleting |-> FALSE]
  /\ row' = Observed(row, row.gen, FALSE, 0, TRUE)
  /\ UNCHANGED << rested, stop, accountVars, apiVars, mapping, home, runner, ctl, op >>

(* A starting Native turns interrupted entries into failed ones.           *)
Interrupted == [mapping EXCEPT !.state = IF @ = "running" THEN "failed" ELSE @]

(* A native that starts makes its home on the volume, and nothing removes  *)
(* it; one that fails to start may fail before that or after it.           *)
StartsAs(native) ==
  /\ runner' = [Fresh EXCEPT !.native = native]
  /\ mapping' = IF native = "up" THEN Interrupted ELSE mapping
  /\ home' \in CASE native = "up" -> {TRUE} [] native = "down" -> {home, TRUE} [] OTHER -> {home}

PodStarts ==
  /\ pod.phase = "pending" /\ ~pod.deleting
  /\ pod' = [pod EXCEPT !.phase = "running"]
  /\ \/ StartsAs("up")
     \/ "unsupplied" \in Faults /\ StartsAs("unsupplied")
     \/ "supply_failure" \in Faults /\ StartsAs("down")
  /\ UNCHANGED << row, rested, stop, accountVars, apiVars, ctl, op >>

(* A credential arrives: it starts native or fails to, or unblocks it      *)
(* between turns.                                                          *)
Supplied ==
  /\ pod.phase = "running"
  /\ runner.drained = "no" /\ ~runner.turn
  /\ runner.native \in {"unsupplied", "down", "blocked"}
  /\ IF runner.native = "blocked"
       THEN runner' = [runner EXCEPT !.native = "up"] /\ UNCHANGED << mapping, home >>
       ELSE \/ StartsAs("up")
            \/ "supply_failure" \in Faults /\ StartsAs("down")
  /\ UNCHANGED << row, rested, stop, accountVars, apiVars, pod, ctl, op >>

LosesNative(native) ==
  /\ pod.phase = "running"
  /\ runner.drained = "no"
  /\ \/ native = "blocked" /\ "supply_failure" \in Faults /\ runner.native = "up"
     \/ native = "exited" /\ "native_exit" \in Faults /\ runner.native = "up"
     \/ native = "blocked_exited" /\ "native_exit" \in Faults /\ runner.native = "blocked"
  /\ runner' = [runner EXCEPT !.native = native]
  /\ UNCHANGED << row, rested, stop, accountVars, apiVars, mapping, home, pod, ctl, op >>

FinishTurn ==
  /\ runner.turn
  /\ runner' = [runner EXCEPT !.turn = FALSE]
  /\ \/ runner.native = "up" /\ mapping' = [mapping EXCEPT !.state = "idle"]
     \/ /\ runner.native # "up" \/ "turn_fails" \in Faults
        /\ mapping' = [mapping EXCEPT !.state = "failed"]
  /\ UNCHANGED << row, rested, stop, accountVars, apiVars, home, pod, ctl, op >>

(* The process and its turn end; the mapping stays on the volume.          *)
PodDies ==
  /\ "pod_death" \in Faults
  /\ pod.phase \in {"pending", "running"}
  /\ pod' \in {[pod EXCEPT !.phase = "dead"], NoObject}
  /\ runner' = Fresh
  /\ UNCHANGED << row, rested, stop, accountVars, apiVars, mapping, home, ctl, op >>

DeletionCompletes ==
  /\ pod.deleting
  /\ pod' = NoObject
  /\ runner' = Fresh
  /\ UNCHANGED << row, rested, stop, accountVars, apiVars, mapping, home, ctl, op >>

(* What a runner says of itself that was never supplied: it is unused only *)
(* if no earlier generation's native left its home on the volume.          *)
Unused == ~home

UnsuppliedAnswer == IF Unused THEN "clean" ELSE "dirty"

(* POST /lifecycle/drain: what the runner may store and answer; none when  *)
(* it refuses (409).  A repeated request gets the stored receipt.          *)
(* Mutant: a busy runner drains too.                                       *)
DrainAnswersBusy ==
  CASE runner.drained # "no"        -> {runner.drained}
    [] Exited                       -> {"dirty"}
    [] runner.native = "down"       -> {"unavailable"}
    [] runner.native = "unsupplied" -> {UnsuppliedAnswer}
    [] OTHER                        -> {"clean"}

(* Mutant: a runner whose native never started refuses (before #61).       *)
DrainAnswersBefore61 ==
  CASE runner.drained # "no"        -> {runner.drained}
    [] runner.native = "down"       -> {}
    [] Started /\ ~QuietMapping     -> {}
    [] Exited                       -> {"dirty"}
    [] runner.native = "unsupplied" -> {UnsuppliedAnswer}
    [] OTHER                        -> {"clean"}

DrainAnswers ==
  IF runner.drained # "no" THEN {runner.drained}
  ELSE IF Started /\ ~QuietMapping THEN {}
  ELSE CASE Exited                       -> {"dirty"}
         [] runner.native = "down"       -> {"unavailable"}
         [] runner.native = "unsupplied" -> {UnsuppliedAnswer}
         [] OTHER -> {"clean"} \cup (IF "dirty_close" \in Faults THEN {"dirty"} ELSE {})

StoreDrain(answer) == runner' = [runner EXCEPT !.drained = answer]

-----------------------------------------------------------------------------
(* Resident controller: Service.step, one pass over this owner             *)
ctlOnly == << row, rested, stop, accountVars, apiVars, podVars, op >>

Look ==
  /\ ctl.pc = "idle"
  /\ stop.open \/ Stoppable
  /\ ctl' = [Idle EXCEPT !.pc = "looked", !.obj = pod]
  /\ UNCHANGED ctlOnly

(* The pass ends without an effect: nothing to do, a refusal, an error of  *)
(* Kubernetes, HTTP or the database, or the controller's own restart.      *)
EndPass ==
  /\ ctl.pc # "idle"
  /\ ctl' = Idle
  /\ UNCHANGED ctlOnly

(* The registry row and stop are read after the object.                    *)
Known == ctl.pc = "looked" /\ row.pod # NoPod /\ ctl.obj.uid \in {row.pod, 0}

(* Mutant: a Pod that has not started yet is taken for a dead one.         *)
NotRunning(obj) == obj.phase # "running"

Dead(obj) == obj.phase \in {"dead", "none"}       \* terminal_evidence

FindStop ==
  /\ Known /\ stop.open
  /\ ctl' = [ctl EXCEPT !.pc = "stopping", !.gen = row.gen, !.receipt = stop.receipt]
  /\ UNCHANGED ctlOnly

(* A dead runner is stopped without being asked.                           *)
StopDead ==
  /\ Known /\ ~stop.open /\ Dead(ctl.obj)
  /\ Stoppable
  /\ stop' = OpenStop
  /\ ctl' = [ctl EXCEPT !.pc = "stopping", !.gen = row.gen]
  /\ UNCHANGED << row, rested, accountVars, apiVars, podVars, op >>

(* POST /lifecycle/idle answered idle=true.                                *)
AskIdle ==
  /\ Known /\ ~stop.open /\ ctl.obj.phase = "running"
  /\ row.phase \in Live /\ row.active = 0 /\ rested
  /\ Answers(row.pod) /\ runner.drained = "no"
  /\ Started => QuietMapping
  /\ runner.native = "unsupplied" => Unused
  /\ ctl' = [ctl EXCEPT !.pc = "quiet", !.gen = row.gen]
  /\ UNCHANGED ctlOnly

(* request_idle_stop: everything is checked again under the owner lock.    *)
RequestIdleStop ==
  /\ ctl.pc = "quiet"
  /\ \/ stop.open
     \/ row.phase \in Live /\ row.active = 0 /\ NoWork /\ rested
  /\ stop' = OpenStop
  /\ ctl' = [ctl EXCEPT !.pc = "stopping", !.gen = row.gen, !.receipt = stop'.receipt]
  /\ UNCHANGED << row, rested, accountVars, apiVars, podVars, op >>

Present == ctl.pc = "stopping" /\ ctl.obj # NoObject /\ ~ctl.obj.deleting

(* Mutant: the recorded receipt is not awaited.                            *)
SkipToDeleteUnproved ==
  /\ Present
  /\ ctl' = [ctl EXCEPT !.pc = "delete"]
  /\ UNCHANGED ctlOnly

SkipToDelete ==
  /\ Present /\ ctl.receipt # "none"
  /\ ctl' = [ctl EXCEPT !.pc = "delete"]
  /\ UNCHANGED ctlOnly

(* Mutant: the dead runner's conversations stay running.                   *)
StillRunning == conv

(* close_dead_work: running turns become failed/codex_runner_lost.         *)
Closed == Failed

(* accept_drain and _accept_closed on the stop this pass found.            *)
Acceptable(gen) == stop.open /\ row.gen = gen /\ row.phase \in Live \cup {"stopping"}

(* Mutant: a receipt that is already stored is replaced.                   *)
RecordAnyway(receipt) == stop' = [stop EXCEPT !.receipt = receipt] /\ row' = Drained(row)

Record(receipt) ==
  IF stop.receipt = "none"
    THEN stop' = [stop EXCEPT !.receipt = receipt] /\ row' = Drained(row)
    ELSE row.phase = "stopping" /\ UNCHANGED << stop, row >>

AcceptTerminal ==
  /\ Present /\ ctl.receipt = "none" /\ Dead(ctl.obj)
  /\ Acceptable(ctl.gen)
  /\ Record("terminal")
  /\ conv' = Closed
  /\ ctl' = [ctl EXCEPT !.pc = "delete"]
  /\ UNCHANGED << rested, accountVars, turns, msg, podVars, op >>

AskHealth ==
  /\ Present /\ ctl.receipt = "none" /\ ctl.obj.phase = "running"
  /\ Answers(ctl.obj.uid)
  /\ ctl' = [ctl EXCEPT !.pc = "asked", !.failure = (runner.native = "down")]
  /\ UNCHANGED ctlOnly

Drain ==
  /\ ctl.pc = "asked"
  /\ Answers(ctl.obj.uid)
  /\ \E answer \in DrainAnswers :
       /\ StoreDrain(answer)
       /\ ctl' = [ctl EXCEPT !.pc = "answered", !.answer = answer]
  /\ UNCHANGED << row, rested, stop, accountVars, apiVars, mapping, home, pod, op >>

AcceptDrain ==
  /\ ctl.pc = "answered" /\ ctl.answer = "clean"
  /\ Acceptable(ctl.gen) /\ NoWork
  /\ stop.receipt \in {"none", "drained"}
  /\ Record("drained")
  /\ ctl' = [ctl EXCEPT !.pc = "delete"]
  /\ UNCHANGED << rested, accountVars, apiVars, podVars, op >>

AcceptUnavailable ==
  /\ ctl.pc = "answered" /\ ctl.answer = "unavailable"
  /\ ctl.failure                               \* health_failure_matches
  /\ Acceptable(ctl.gen)
  /\ stop.receipt \in {"none", "unavailable"}
  /\ Record("unavailable")
  /\ conv' = Closed
  /\ ctl' = [ctl EXCEPT !.pc = "delete"]
  /\ UNCHANGED << rested, accountVars, turns, msg, podVars, op >>

(* DELETE with the UID the pass read as precondition.                      *)
DeletePod ==
  /\ ctl.pc = "delete"
  /\ pod' = IF pod.uid = ctl.obj.uid THEN [pod EXCEPT !.deleting = TRUE] ELSE pod
  /\ ctl' = Idle
  /\ UNCHANGED << row, rested, stop, accountVars, apiVars, mapping, home, runner, op >>

(* Mutant: the login session of the request is not validated again.        *)
HonouredWithoutLogin ==
  IF eligible THEN { k \in Keys \ receipts : entries[k].gen = row.gen /\ row.gen > 0 } ELSE {}

(* Mutant: entries are matched with the generation to begin.               *)
HonouredNextGeneration ==
  IF eligible
    THEN { k \in Keys \ receipts : entries[k].gen = row.gen + 1 /\ entries[k].session \in sessions }
    ELSE {}

(* The queued entries that release consumes.                               *)
Honoured == IF eligible
              THEN { k \in Keys \ receipts : entries[k].gen = row.gen /\ entries[k].session \in sessions }
              ELSE {}

(* The object was missing in this pass and is missing still (Service.proof)*)
Absent == ctl.obj = NoObject /\ pod = NoObject

(* The object is gone: absence is read again next to the Node, and one     *)
(* transaction accepts a missing receipt, releases the slot and enters for *)
(* the queued requests.                                                    *)
Release ==
  /\ ctl.pc = "stopping" /\ Absent
  /\ Acceptable(ctl.gen)
  /\ ctl.receipt # "none" => NoWork             \* otherwise its own close_dead_work
  /\ LET dead  == ctl.receipt = "none" /\ stop.receipt = "none"
         freed == Stopped(IF dead THEN Drained(row) ELSE row)
     IN  /\ dead \/ row.phase = "stopping"
         /\ row' = IF Honoured = {} THEN freed ELSE Entered(freed)
  /\ conv' = IF ctl.receipt = "none" THEN Closed ELSE conv
  /\ rested' = (rested /\ Honoured = {})
  /\ receipts' = receipts \cup Honoured
  /\ stop' = NoStop
  /\ ctl' = Idle
  /\ UNCHANGED << entries, sessions, eligible, turns, msg, podVars, op >>

-----------------------------------------------------------------------------
(* Operator: Service.reclaim in a process of its own                       *)
OpObserve ==
  /\ op.pc = "idle"
  /\ Stoppable
  /\ Answers(row.pod) /\ ~pod.deleting
  /\ stop.receipt = "none"
  /\ HealthBlocked
  /\ op' = [pc |-> "observed", gen |-> row.gen]
  /\ UNCHANGED << row, rested, stop, accountVars, apiVars, podVars, ctl >>

OpRequest ==
  /\ op.pc = "observed"
  /\ Stoppable
  /\ stop' = OpenStop
  /\ op' = [op EXCEPT !.pc = "requested"]
  /\ UNCHANGED << row, rested, accountVars, apiVars, podVars, ctl >>

(* The runner is asked to drain after all; only its refusal goes on.       *)
OpDrain ==
  /\ op.pc = "requested"
  /\ Answers(op.gen)
  /\ IF DrainAnswers = {}
       THEN op' = [op EXCEPT !.pc = "refused"] /\ UNCHANGED runner
       ELSE op' = OpIdle /\ \E answer \in DrainAnswers : StoreDrain(answer)
  /\ UNCHANGED << row, rested, stop, accountVars, apiVars, mapping, home, pod, ctl >>

OpAccept ==
  /\ op.pc = "refused"
  /\ row.pod = op.gen
  /\ Acceptable(op.gen)
  /\ stop.receipt = "none"                     \* never replaces a receipt
  /\ Record("operator")
  /\ conv' = Closed
  /\ op' = OpIdle
  /\ UNCHANGED << rested, accountVars, turns, msg, podVars, ctl >>

OpEnds ==
  /\ op.pc # "idle"
  /\ op' = OpIdle
  /\ UNCHANGED << row, rested, stop, accountVars, apiVars, podVars, ctl >>

-----------------------------------------------------------------------------
ApiStep ==
  \/ \E k \in Keys : Prepare(k)
  \/ \E k \in Keys, s \in Sessions : QueueEntry(k, s)
  \/ RequestStop
  \/ \E s \in Sessions : Logout(s) \/ SessionExpires(s) \/ Login(s)
  \/ ChangeMembership
  \/ Rest

MessageStep ==
  CheckMessage \/ CommitMessage \/ Preflight \/ Submit \/ SubmitLost \/ ApiCrash \/ Refresh

PodStep ==
  \/ CreatePod \/ PodStarts \/ Supplied \/ \E native \in Natives : LosesNative(native)
  \/ FinishTurn \/ PodDies \/ DeletionCompletes

ControllerWork ==
  \/ FindStop \/ StopDead \/ AskIdle \/ RequestIdleStop \/ SkipToDelete \/ AcceptTerminal
  \/ AskHealth \/ Drain \/ AcceptDrain \/ AcceptUnavailable \/ DeletePod \/ Release

OperatorWork == OpObserve \/ OpRequest \/ OpDrain \/ OpAccept

Next == ApiStep \/ MessageStep \/ PodStep \/ Look \/ ControllerWork \/ EndPass \/ OperatorWork \/ OpEnds

Spec == Init /\ [][Next]_vars

(* The controller rescans every candidate, so what a pass can do at one of *)
(* its points again and again is done: its errors do not repeat for ever.  *)
Decides     == FindStop \/ StopDead \/ AskIdle
Carries     == SkipToDelete \/ AcceptTerminal \/ AskHealth \/ Release
TakesAnswer == AcceptDrain \/ AcceptUnavailable

ControllerFairness ==
  /\ WF_vars(Look)
  /\ WF_vars(ctl.pc # "idle" /\ (ControllerWork \/ EndPass))
  /\ SF_vars(Decides) /\ SF_vars(RequestIdleStop) /\ SF_vars(Carries)
  /\ SF_vars(Drain) /\ SF_vars(TakesAnswer) /\ SF_vars(DeletePod)

(* The API's own steps follow each other, a turn ends, the kubelet acts.   *)
WorldFairness ==
  /\ WF_vars(CommitMessage \/ Preflight \/ Submit \/ SubmitLost)
  /\ WF_vars(FinishTurn)
  /\ WF_vars(PodStarts)
  /\ WF_vars(DeletionCompletes)

FairSpec == Spec /\ ControllerFairness /\ WorldFairness

-----------------------------------------------------------------------------
(* A Pod that exists is the one the row is bound to, in its generation: the*)
(* slot is given up, and a later generation begun, only when no object of  *)
(* that name is left (release after GET 404).                              *)
PodIsBound == pod # NoObject => row.pod = pod.uid /\ row.gen = pod.uid

(* Once a stop is accepted on the runner's own receipt, or on its death, no*)
(* turn runs in that Pod any more: the dispatch fence in the database and  *)
(* the drained process agree, whatever was in flight.                      *)
FencedRunnerIsQuiet ==
  row.phase = "stopping" /\ stop.receipt # "operator" => ~runner.turn

(* "Receipt and dispatch fence are committed; ordinary graceful deletion of*)
(* that UID only" (Service.step): a deletion begins only under a recorded  *)
(* receipt, and ends a live turn only if an operator took that decision.   *)
DeletionFollowsReceipt ==
  [][~pod.deleting /\ pod'.deleting =>
       /\ row.phase = "stopping" /\ stop.receipt # "none" /\ row.pod = pod.uid
       /\ runner.turn => stop.receipt = "operator"]_vars

(* "An uncertain conversation is never failed without a person deciding it"*)
(* (rollout README): while the runner still works on a conversation's turn,*)
(* nothing but the operator's reclaim marks the conversation as failed.    *)
LiveTurnNeverDeclaredLost ==
  [][conv = "running" /\ conv' = "failed" /\ runner.turn /\ mapping.current =>
       op.pc = "refused"]_vars

(* A stop strands no message: once dispatch is fenced off, a conversation  *)
(* is still "running" only while its own dispatch is about to fail it.     *)
(* (An API crash in that window strands it; see DeadRunnerReleased.)       *)
FenceStrandsNoMessage ==
  row.phase = "stopping" /\ conv = "running" => msg = "launched"

(* A receipt, once stored, is what the stop ends with: the controller and  *)
(* the operator never overwrite each other's evidence.                     *)
ReceiptIsFinal ==
  [][stop.receipt # "none" => stop'.receipt = stop.receipt \/ stop' = NoStop]_vars

(* A generation that follows a stop directly was asked for during that very*)
(* generation, by a session that is still logged in, of an account that may*)
(* still use a runner.                                                     *)
RestartWasAskedFor ==
  [][row.phase = "stopping" /\ row'.gen # row.gen =>
       /\ eligible
       /\ \E k \in Keys \ receipts :
            k \in receipts' /\ entries[k].gen = row.gen /\ entries[k].session \in sessions]_vars

(* A runner whose process or Pod is gone is released: its slot comes back. *)
DeadRunner(gen) == row.gen = gen /\ row.pod # NoPod /\ Dead(pod)

DeadRunnerReleased ==
  \A gen \in 1..MaxGen : DeadRunner(gen) ~> (row.gen # gen \/ row.pod = NoPod)

(* A stop of a runner that holds no work is carried through, with one      *)
(* exception that the code makes: the runner was never supplied, a runner  *)
(* before it was, and what that one left on the volume makes it answer the *)
(* drain with clean=false, which no receipt may say, now and ever after.   *)
StuckUnsupplied == runner.native = "unsupplied" /\ home /\ runner.drained = "dirty"

StopCompletes == stop.open ~> (~stop.open \/ StuckUnsupplied)

(* A queued request begins a new runner, unless its session or its         *)
(* account's permission ended in between, or the stop is that exception.   *)
QueuedEntryServed ==
  \A k \in Keys :
    (stop.open /\ entries[k].gen = row.gen /\ row.gen > 0)
      ~> (k \in receipts \/ entries[k].session \notin sessions \/ ~eligible \/ StuckUnsupplied)

-----------------------------------------------------------------------------
(* What the repository says, and the code does not do                      *)

(* "A dead runner cannot finish its turns: fail them visibly"              *)
(* (Service.close_dead_work): a turn whose conversation was failed that way*)
(* is over; no runner begins it afterwards.                                *)
ClosedTurnNeverRuns == [][~runner.turn /\ runner'.turn => conv = "running"]_vars

=============================================================================
