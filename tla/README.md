# Verification of the research site and its per-user Codex runners

This directory holds TLA+ models of the programs in this repository, the TLC
runs that check them, and proofs in TLAPS. The models follow the parts in which a
mistake is expensive and hard to test: how a member's runner Pod is created, used,
stopped and begun again; how a conversation's turns reach it; the credentials it
works with; the research store with several writers; what the browser keeps while a
request's fate is unknown; and the operators' scripts that act on the live cluster.

Source paths are relative to the repository; `app/`, `runner/`, `broker/`, `ops/` and
`db/` are those of `src/backend`, `lib/` and `components/` those of `src/src`, and
`issue61/`, `issue66/` those of `src/infra/hosting/m3/multi-user-runners`.

## The system

A member of the site writes documents and posts and keeps research conversations.
A conversation's turns run in a *runner*, a Kubernetes Pod of the member's own with a
retained volume and a native Codex process. The API process (FastAPI) receives requests,
PostgreSQL keeps all durable state, a resident *runner controller* in the cluster
creates and deletes Pods, and a *broker* holds the operator's login. Operators have
commands for what the controller refuses to decide, and one-shot scripts for changing
the installation.

| Component | State | Operations | Interacts with |
| --- | --- | --- | --- |
| Lifecycle kernel `runner/lifecycle.py` | none (decisions over a row) | `entry`, `capacity`, `observed`, `stopped` | the registry calls it inside a transaction |
| Registry `app/runner_registry.py` | registry row, entry receipts, outbox | `enter`, `capacity`, `observe`, `stopped` | advisory lock per owner |
| Creation `app/runner_controller.py`, `app/runner_kube.py` | settled outbox rows; fences and tickets in memory | `reserve`, `ensure`, `reconcile`, `pending` | registry, Kubernetes; a lock around the slot count |
| Stop control `app/runner_termination_control.py` | stops, queued entries | `request_stop`, `request_idle_stop`, `queue_entry`, four receipts, `release` | registry, conversations, sessions |
| Controller `ops/runner_controller_service.py` | memory of one pass | `ensure`, `step`, `reclaim`, `reconcile` | all of the above, runner HTTP |
| Conversations `app/conversations.py` | conversation rows | `message`, `launch` (background), `refresh`, `archive` | runner HTTP, tools |
| Runner `runner/app.py` | native process, mapping file, turn, drain receipt | `/health`, `/turn`, `/lifecycle/*`, supply, `run_turn`, history reads | ledger, broker, shell, tools |
| Authorization `runner/service_access.py`, `runner/access.py`, `runner/auth.py`, `runner/broker_client.py` | ledgers, tokens in memory, the personal login's cache | install, check, consume, block, pull, rotate, clean | broker, native process |
| Broker `broker/credentials.py` | `auth.json` | `access` with refresh | runners, operator, app-server |
| Shell `runner/shell_*.py`, `executor/server.py` | lease, connections, workspace | lease, authorize, run, revoke | runner, native process |
| Research store `app/research.py`, `app/writing.py`, `app/document_proposals.py`, `app/publications.py`, `app/post*.py` | items, versions, drafts, proposals, releases, images | mutations behind idempotency receipts, reads | browser, tools |
| Browser `lib/research`, `components/research`, `components/auth` | buffers, pending sends, what a tab believes | autosave, send, retry, poll, log in and out | the API |
| Operators' programs `ops/runner_*`, `issue61/*`, `issue66/decommission.sh`, `m3/access_numeric_trial.py` | evidence files, permits, exports | remove, create once, reboot, install, roll back, move, observe, enter, try a connection | cluster, database, host |

`PROJECT.json` lists every component with what is modelled of it, and under `hazards` every
case that is hard to test, at its line, with the property about it.

### What makes the parts hard, and what makes them correct

- **Creation.** Several creators run the same two transactions, with a POST in the second that
  may be lost, answered late, or take effect after its sender is gone. Correct: never more slots than
  the limit, one create per generation, no unaccounted Pod, a lost answer repaired by lookup.
- **Stop.** Fencing dispatch, draining, recording the evidence, deleting, seeing the object gone
  and releasing the slot are six steps of three processes. Correct: no turn is cut off except by
  an operator's decision, no slot is given up while the object exists, evidence is final,
  stops end, and a restart was asked for by somebody who may still ask.
- **Turns.** A message is committed, submitted in the background and learned of by polling, and
  either process may die. Correct: one request runs one native turn, no input is
  lost, what is shown happened, and no older record overwrites a reservation.
- **Tools, shell, models.** A call may arrive after its turn, its login or its owner's permission is
  gone. Correct: a call works for the turn it was made for, writes once, and an answer another model
  gave is not shown.
- **Credentials.** Tokens are renewed by somebody else while they are used. Correct: every
  dispatch is charged before it is sent, tokens never go back, refreshes are orderly.
- **Store.** Callers hold old copies. Correct: nobody's text is silently overwritten, a text becomes
  one version, a reader gets the release that was confirmed, an image that is referred to has its bytes.
- **Browser.** A timed-out request may still be delivered. Correct: typed text lands or the
  person is told, one editor makes one draft, a question is not lost or sent twice, a tab
  shows the identity and state that the server has.
- **Scripts.** They may be killed anywhere while others change the cluster. Correct: what is
  done, is done once and to one's own objects, and an exit code or a record says what was proved.

## The modules

| Module | Models |
| --- | --- |
| `Lifecycle` | the decisions of the kernel over one row, with lemmas about them; `WellFormed` is `State.__post_init__` |
| `PodCreation`, `SlotPool` | entry, creators and the Kubernetes API for several owners; what creation promises |
| `RunnerStop` | one owner: stop bookkeeping, resident controller, reclaim, Pod, runner, message and refresh |
| `Decommission`, `OneShotCreate`, `NamespaceFinal` | removal of an owner's runner; the rehearsal's one create; a namespace finalized by hand |
| `TurnDispatch` | two conversations' turns: service, background dispatch, polling, runner, mapping file, history reads |
| `ModelQuarantine` | what is shown of turns another model served |
| `ShellLease` | shell leases, bridge calls and the executor |
| `TurnTools` | tool tokens, the relay, the handler's locks and transactions |
| `OwnerLocks` | row locks, advisory locks and pooled connections of one owner's requests |
| `OperatorAccess`, `BrokerCredentials` | the operator's token at a runner; the broker that renews it |
| `PersonalCache`, `AccessWindow` | a person's own login in its cache; windows supplied by hand |
| `DocumentWriting`, `VersionLog` | drafts, versions, proposals, archive; the append-only log they implement |
| `PostWriting`, `PostImages`, `Publication` | posts; images and their files; publishing with cited materials |
| `DraftAutosave`, `ChatComposer`, `RunnerStatus` | the editor's autosave; the chat's composer; a tab's login and environment |
| `NumericTrial` | one bounded connection trial: a controller without a network, its broker, requests that take effect late, cleanup from files |
| `RebootGate`, `ControllerInstall`, `BindingWindow`, `TokenRotation`, `EntryGate` | the scripts of `issue61` |
| `MC...` | what TLC runs, see below; `MCGates` also composes the two attempts of the gate |
| `PodCreationProofs`, `StopProofs`, `TurnProofs`, `ResearchProofs`, `AccessProofs`, `DraftProofs` | theorems |

### Compositions

`MCPodCreation`, `MCRunnerStop`, `MCTurnDispatch`, `MCAccess`, `MCResearch`, `MCDraftAutosave`, `MCGates` and
`MCLiveness` each put several component modules side by side. The parts of one such module share no state
in the program either (each models what it needs to know of its neighbours itself: `RunnerStop` has its own
runner, `TurnDispatch` its own service), so their product would multiply states
without adding a behaviour. A variable `part` chooses the one that moves, the others rest in an initial
state, and TLC explores the *sum* of the state spaces. The invariant of a composition is the
conjunction of the parts', and its proof is that of each part.
`LiveSpec` of `MCRunnerStop` puts two instances of `RunnerStop` side by side in the same way.

### State and actions against the code

**Atomicity.** A database transaction is one action when it takes, before its first read, the lock
that all its competitors take: the owner's advisory lock (registry, stop control), the graph lock
(documents, posts, images, publications). `OwnerLocks` opens these transactions to see
whether they can wait for each other. Conversation rows and tool calls are not covered by such a lock; there the
transaction is split at each lock it takes (`TurnTools`: `ReadRow`, `LockAccount`, `Mutate`, `Commit`).
Python and JavaScript run between two awaits, HTTP calls or unlocks as one action; what was read before is
kept in the program's local state (`job`, `ctl`, `op`, `poll`, `history`, `handled`, `tab`, `view`, `pass`, ...), and
anything else may happen before it is used. A request that leaves a process is an element of a set (`net`, `posts`,
`orphans`, `prepares`, `loads`) until it is delivered; where the caller may time out it stays there.

**Crashes.** `ApiCrash`, `RunnerDies`, `Crash` and the like clear what is in memory and keep what is
in the database or on the volume; a script's kill leaves its last record and its running command.

**PodCreation.** `reg[o]` is the registry row, `settled` the generations whose create permission was issued, `kube[o]` the
object `runner-<owner>`, `posts` the creates that may still take effect; `sent` and `born` are history.
The second transaction of `Controller.ensure` holds the owner lock across its lookup and its POST, so the outcomes of POST
and commit are outcomes of one action. The stop appears through its effects on a row.

**RunnerStop.** `ctl.pc` says where `Service.step` is between two calls: `looked` (object read), `quiet` (idle answer
read), `stopping` (stop and row read), `asked` (health read), `answered` (drain read), `delete`. `op` is the same for
`Service.reclaim`, `msg` for a message and its `launch`. A Pod is created in one step, with its generation as UID. `home` is what outlives it:
the retained volume holds a native home (`state/codex`), which `Native.__init__` makes when a runner is first supplied and nothing
removes. A runner that was not supplied looks at it before it calls itself idle or a drain clean. An operator's `reclaim` acts on
a health answer that may be old by then; what keeps a live turn safe from it is the runner's own refusal to drain.

**TurnDispatch.** `launch[r]` is the background task of request `r`, `net` the submissions under way, `mem` and `disk` the
runner's mapping in memory and on the volume, `worker` the step of `run_turn`, `native` the native history, `history` a history
read between its begin and its end, `poll` a refresh between its read and its write.

**Store.** A version is an entry that remembers where it came from instead of its text, so that "overwritten" can be
said of it. A mutation's `expectedVersion`, revision or head is any value that was current once. The receipts of
`Store.mutate` are modelled where a retry matters, in `DraftAutosave` and `ChatComposer`.

**RebootGate.** `run[p]` is a script under way, `rec` its `run.json` by kind of step, `lock` the file it
holds. The gate was run in two attempts by two sets of scripts (`w6-*`, `w6a2-*`) that differ in their generations, their
lock and records, and in what attempt 2 demands of the first one's record. `MCGates` instantiates `RebootGate` once
more for attempt 1 (its variables end in 1) and lets the two share guest and cluster. Neither takes the other's lock and attempt
1 does not know of attempt 2, so that the guest is rebooted once in all follows from times and records
only: a precheck of attempt 1 may be older than attempt 2.

**NumericTrial.** `control` is the controller at work (`step` is what it does next, `of` the object it is about), `broker` the
one the host's broker serves: the first, the one that only cleans up, or none. `saved` and `marks` are the evidence files,
`requests` what was sent and not answered, `records` the two result files. Time is left out: a stage
that is late is one that fails, which any step may do. The first controller's `Create` and cleanup's `Delete` each have three
outcomes (answered, refused, without an answer), and `Breaks` cuts off any step after arming.

**Abstractions.** Clocks are replaced by what they decide (`rested`, `life`, `forced`), or by small numbers where two times are
compared (`AccessWindow`: units of 60 s; `RebootGate`: the fence of 1200 s and the idle drain of 1800 s are 2 and 4 ticks; `TokenRotation`, `EntryGate`). Rendered
specifications, digests and names are represented by what they identify. Wording, logging and layout are left out.

## The runs

States and times are of one measurement with four workers.

| Run | Question | Instance | Distinct states |
| --- | --- | --- | --- |
| `creation` | Slot limit, one create per generation, Pod identity, keys and generations, refinement of `SlotPool`; and what a tab believes of its login and environment | 2 owners, 2 creators, 2 keys, 1 slot, 2 generations; 2 sessions, 3 identities, 1 lost answer | 350,187 (37 s) |
| `stop` | Stop, evidence, deletion, reclaim, restart; the four programs that decide once and for good | 2 keys, 1 session, 2 generations, 1 message, all eight faults; 2 disks, 3 revisions; 2 runs, 2 Pods; 2 kinds, 2 changes; 2 objects of 2 versions | 802,947 (88 s) |
| `runner_liveness` | Is a dead runner released and a quiet stop completed? | one generation with message, lost submits, deaths; two generations without messages | 53,736 (55 s) |
| `turns` | Does a request run once, is what is shown true, do shell and tools work for their turn only? | 2 conversations, 2 requests, with and without redelivery; 3 turns; 2 shell calls, 2 leases; 2 messages, 2 tool calls | 560,147 (41 s) |
| `access` | Charging, refresh, order of tokens | 2 turns, 2 tokens; 2 callers, 3 files; 3 turns of a grant of 2; 2 windows | 536,025 (57 s) |
| `research` | Versions, proposals, releases, images; refinement of `VersionLog` | 1 document, 2 drafts, 1 proposal, 4 versions; 2 posts; 1 material, 2 relations; 2 images | 211,113 (18 s) |
| `drafts` | Is text overwritten unseen, is a question kept? | 2 tabs, 3 typed texts, 1 lost; 2 composers, 2 requests and edits, 2 questions, 1 fault | 1,886,240 (69 s) |
| `gates` | Are things done once and to one's own, do codes and records mean what they say? | one attempt with 2 scripts at a time and 3 boots, two attempts with one script each and 2 boots; 5 UIDs; 3 tokens, 2 containers; one entry with two ticks | 1,536,029 (69 s) |
| `liveness` | Do requests end, does typed text land, does a tab catch up? | one request of each kind, 2 connections; 1 creator; 1 tab; 2 callers; 1 composer | 34,884 (56 s) |
| `stale_dispatch`, `autosave_twin`, `dead_stop_locks` | the disagreements below | | violations |

**Bounds and why they are enough.** Two of what competes (owners for a slot, creators for a permission, tabs for a
draft, runs for a permit, calls for an executor) and one of what is competed for; a third only waits.
Two generations, windows, leases or Pods are the least in which something of the first can disturb the second.
Guards ask whether *some* conversation runs, so one message suffices for the stop; the order of
turns needs two requests of two conversations (`TurnDispatch`). Versions, revisions, clocks and
identifiers are bounded so that something can become stale twice. In `Gates.cfg` the first
entry has no poll interval to speak of (`Interval = 0`) and two ticks of its hour, which lets the session expire or not at each step.
The safety of creation, stop, turns, the research store, credentials and drafts does not depend on the bounds: it is proved.

**Narrow parts.** Some parts of the sums are narrower than their modules. In `creation`, `Bounded` explores the tab twice: logins and logouts
with environments that do not become ready and no press, and what the panel shows with one session, no logout and at most one new
identity; a logout in front of a ready panel is left to the proof (`TabShowsItself`), which has no such bound. `research` publishes from
one tab (the theorems are for any number). In `runner_liveness` the API does not crash. In `liveness`, the locks have no dead stop (its deadlock is the run
`dead_stop_locks`), the panel has no logout, fixed permissions and no press, and the editor is alone. In `gates`, `OneEach` lets each attempt run one script at
a time, and a deadline lies a few ticks ahead: both of its sides are reached, long waits are not.

**Symmetry** is used only in safety runs, over sets whose elements no definition names.

**Deadlock** is checked except where a system really rests: editors and composers without input, requests that have all
ended, and parts of the sum that use up their bounds.

**Fairness.** `PodCreation!Fairness`: an attempt ends (calls have deadlines), and the controller's loop visits every waiting owner,
so that what is possible again and again is done. No fairness for admission, Kubernetes or users.
`RunnerStop!FairSpec`: the loop looks again at every candidate and a pass does not fail at the same point
for ever (strong fairness per point of `step`); the API's own steps follow one another, a turn ends
(120 s of silence or the end of its authorization fail it), a Pod starts, and one that is being deleted goes.
No fairness for users, faults, credentials or the API's restart. `OwnerLocks`: a thread goes on and a pool wait
times out. `BrokerCredentials`: RPCs have timeouts. `DraftAutosave`, `ChatComposer`, `RunnerStatus`: timers fire, requests are
taken and answered, turns end and environments start; nobody has to type, choose or look.
The service's `LIMIT 100` scan is fair only below that many waiting owners.

**Mutants.** Every property of a passing run has a mutant in `PROJECT.json`: the named definition replaced by a
plausible mistake (it stands before the definition, marked `Mutant`), under which TLC finds the property
violated. Properties that are conjunctions over parts have one listed mutant; further ones, for the
other conjuncts, stand in the part modules and were each seen to be found.

## Disagreements found while modelling

Three have a run whose counterexample shows them; their quotes are in `PROJECT.json`.

1. `stale_dispatch` — `launch` reads the conversation once and does not look again before it submits: a message
   that was failed as lost with its runner runs on the next generation's Pod (`app/conversations.py:337`).
2. `autosave_twin` — a repeated uncertain create that is refused before its key is looked at (403, 503) is
   forgotten; "try again" sends a new key, and two drafts exist (`lib/research/useServerDraft.ts:172`).
3. `dead_stop_locks` — a reader of a conversation holds its row and waits for the owner's lock in a second
   session; `close_dead_work` holds that lock and waits for the row. The database cannot see the cycle, and no timeout is
   set (`ops/runner_controller_service.py:160`).

The others were met while modelling; the models follow the code, and no run is kept for them:

- A runner that is never supplied, on a volume that an earlier generation's runner was supplied on, answers every drain with `clean: false`
  (`runner/app.py:1032`; the comment says "Never supplied: nothing was installed or started."). No receipt is acceptable, it is
  never idle, and `reclaim` gets no further, since the drain made its health "unavailable": the stop is open until the Pod is deleted by hand.
  `QuietStopCompletes` excepts this state (`StuckUnsupplied`) and no other, under the faults its part has.
- An idle native process that exits by itself makes every drain unclean; no receipt is acceptable and `reclaim`
  refuses, until the Pod dies (`runner/app.py:773`; the rollout README, line 411, promises an ordinary drain).
- One failed turn makes a healthy, available runner refuse to drain, and `reclaim` refuses an available runner
  (`ops/runner_controller_service.py:289`; README 412 sends this to the operator).
- An API crash between committing a message and dispatching it, with the runner's death accepted in between, leaves a running
  conversation for which `release` waits for ever (`app/runner_termination_control.py:245`).
- A dispatch refused by the API's own stop check is taken for an ambiguous submit and stays `running` (`app/conversations.py:348`).
- `resume` without a draft keeps the closed draft's text as saved; typing back to it shows "clean" although nothing has it
  (`useServerDraft.ts:286`). Once the longest-wait timer fires during a request it is never armed again (`useServerDraft.ts:209`).
- A runner that dies between `turn/start` and its answer: the input is filed as unrecorded although the native
  history holds it, and is shown twice (`app/conversations.py:327`).
- `Service.step` takes the owner's lock and then, in `release`, the account row; the comment at
  `runner_termination_control.py:230` states the opposite order.
- A pull that is applied after a 401 refresh replaced its token latches `policy_refused`, which no later answer clears
  (`runner/app.py:300`); a block for `unavailable` overwrites a stickier reason (`runner/app.py:302`).
- A device login between `before` and the refresh's answer leaves the broker's event chain unbroken (`broker/credentials.py:176`).
- `w6a2-enter.py`: an error after the evidence directory is made ends in code 3 ("no evidence directory is created"), and a
  session insert that commits after `finish` counted stays for its hour. `w4-enter.py`: code 3 may follow an error after the session
  insert; a late insert stays likewise; two simultaneous runs are not excluded by a lock. `w4-observe.py`: code 5 although the stop completed
  just before the deadline.
- `w5-rotation.py`: a container replaced after the last look at the Pod hides an earlier `reconciliation_required`
  (the property exempts `noted.late`).
- Quarantine: an announcement of another model that reaches a history read, or the error path of another turn, only
  blocks; without a baseline the turn is later shown unmarked. A failed last save, a clean stop and an operator's release
  lose a refusal that was not saved, so the property speaks of saved refusals (`caught`).
- Composer: a first attempt that is refused (401, 503) removes the stored request though a later composer has
  repeated it, so the question can be sent under a new key (`pendingSend.ts`). A first status query that fails uncertainly is not polled
  again; another tab's login can make a status answer for another account, since reads are not bound to the CSRF token.
- `issue66/decommission.sh` deletes `provision-output/<owner>` by owner and relies on the documented single window.
  `runner_one_shot.py` commits the Pod's UID before it compares it with the bound file, and may record a result
  for which a restored database lost the row.

## The proofs

A proof covers every value of the constants; the only assumptions are the named `ASSUME`s of the modules (bounds are natural
numbers, a null value is none of the real ones, finite sets where something is counted).

The first lemmas of `PodCreationProofs` and `StopProofs` say what each decision of the kernel (`Lifecycle`) returns. The proof modules prove:

| Module | Theorem | What it says |
| --- | --- | --- |
| `PodCreationProofs` | `TypeCorrect` (`TypeOK`) | Every variable keeps its type and every registry row is well formed as the Python State demands, for any owners, creators, keys and slot limit. |
| `PodCreationProofs` | `InFlightCurrent` | Every ticket, every POST under way and every Pod object belongs to a generation and owner that still accounts for it. |
| `PodCreationProofs` | `AtMostOneCreate` (`OneCreatePerGeneration`) | No generation of an owner is ever posted twice, however creators race, die and lose answers. |
| `PodCreationProofs` | `OwnPodOnly` (`NoForeignPod`) | A Pod under an owner's name is always one this owner's current generation issued. |
| `PodCreationProofs` | `PodsHoldSlots` (`LivePodsHoldSlots`) | Whatever runs or may still appear holds a slot in the registry. |
| `PodCreationProofs` | `ImplementsPool` (`PoolSpec`) | The creation protocol refines the abstract slot pool: every step is a pool step or a stutter. |
| `PodCreationProofs` | `SlotLimit` | Never more runners than the configured limit, through the refinement and for every limit. |
| `PodCreationProofs` | `GenerationsAreFresh` (`FreshGeneration`) | A generation begins only when nothing of the earlier one is left. |
| `PodCreationProofs` | `KeysBeginGenerations` (`EveryGenerationHasItsKey`) | A key begins at most one generation, so a replay never restarts a runner. |
| `TurnProofs` | `DispatchIsSafe` (`ReservationStands`) | For any callers, requests and bounds: types, at most one turn per request, no older entry put back over a reservation while a worker runs, and every accepted input kept. |
| `TurnProofs` | `OutcomesSettle` | When the network repeats no request, an outcome that a conversation shows has no work left behind it (SettledIsSettled under ~Duplicates). |
| `TurnProofs` | `PartsAreTyped` (`AllTypeOK`) | Dispatch, answers, shell and turn tools keep their types in every reachable state. |
| `TurnProofs` | `EverythingRunsOnce` (`RunsOnceAndAlone`) | A request runs one turn; a shell connection belongs to the running turn and one command runs in it; a tool runs for the turn whose token it carries and writes once. |
| `TurnProofs` | `ReservationsStand` (`ReservationStands`) | The composed system keeps a reservation against history reads that were under way. |
| `TurnProofs` | `OutcomesAreShown` (`OutcomesAreTrue`) | No input is lost, outcomes are settled, a saved refusal is never shown, what is shown stays shown, and no tool writes for an owner whose permission was taken. |
| `StopProofs` | `StopIsSafe` (`FencedRunnerIsQuiet`) | For any keys, sessions and faults: types, the Pod bound to its row's generation, and no turn in a runner whose stop was decided on its own receipt. |
| `StopProofs` | `PartsAreTyped` (`AllTypeOK`) | The stop, the removal, the one-shot creation, the finalized namespace and the connection trial keep their types. |
| `StopProofs` | `FencedRunnersAreQuiet` (`FencedRunnerIsQuiet`) | The same for the composed system: a receipt of the runner means that no turn runs there any more. |
| `StopProofs` | `LiveTurnsAreNotDeclaredLost` (`LiveTurnNeverDeclaredLost`) | Nothing but the operator's reclaim after a refused answer fails a conversation whose turn still runs. |
| `StopProofs` | `RestartsWereAskedFor` (`RestartWasAskedFor`) | A generation that follows a stop directly was asked for during it by a session that still stands. |
| `StopProofs` | `DeletionsFollowProof` (`DeletionFollowsProof`) | A Pod, an owner's rows, objects and files, and a namespace's finalizer are each removed only behind the proof their program demands, the trial's objects once and as they were made; exit codes and records say what was done and what is left. |
| `StopProofs` | `DecisionsStand` (`DecidedOnce`) | A stop's receipt, the permit for the one-shot Pod, its recorded UID and the Pod a result names are never decided twice. |
| `ResearchProofs` | `StoreIsTyped` (`StoreTypeOK`) | Documents, posts, releases and images keep the shapes of their tables and files, for any bounds. |
| `ResearchProofs` | `UpdatesAreNotLost` (`NoUpdateIsLost`) | Every version was written on the one before it, and no release is replaced by a page that did not know of it. |
| `ResearchProofs` | `TextsBecomeOneVersion` (`TextBecomesOneVersion`) | An item has one active draft, a draft and a proposal make exactly the version that closed them, and one draft never two posts. |
| `ResearchProofs` | `ReleasesAreAsShown` (`ReadersSeeTheRelease`) | A release is the bundle its tab was shown, a reader gets materials of the release it opened, archived posts are private, public images have their bytes. |
| `ResearchProofs` | `ImagesStayStored` (`ImagesAreStored`) | Between any two writes, a crash included, every reference is to a kept row with its bytes, and the files are within the quota. |
| `ResearchProofs` | `StoreRefinesLogs` (`StoreImplementsLogs`) | Documents and posts implement VersionLog: from the start and with every step. |
| `ResearchProofs` | `ClosedThingsStayClosed` (`NothingIsReopened`) | Closed drafts and proposals, archived rows and confirmed removals stay so, and a live post keeps its first date. |
| `AccessProofs` | `AccessIsTyped` (`AllTypeOK`) | The runner's ledger, the broker, a person's cache and a hand-supplied window keep their types, for any requests, logins and bounds. |
| `AccessProofs` | `DispatchesAreCharged` (`EveryDispatchIsCharged`) | A request reaches the provider once, on a receipt or charge written before, within the grant and every window's budget, whatever died in between. |
| `AccessProofs` | `RefreshesAreOrderly` (`RefreshIsOrderly`) | One forced refresh a minute, one app-server, never the refused token back, and a chain of events that only another writer breaks. |
| `AccessProofs` | `CredentialsNeverReturn` | TokensNeverReturn, the safety half of TokensGoForward: no rejected token serves, no left one is installed, refreshes and processes run on the current login, cleaned stays clean, and no window serves beyond its time. |
| `DraftProofs` | `NothingIsOverwrittenUnseen` (`NoSilentOverwrite`) | For any tabs, texts and bounds: whoever wrote a revision of a draft knew the text it replaced, though answers are lost, late or replayed. |
| `DraftProofs` | `BrowserIsTyped` (`AllTypeOK`) | The autosave, the server's drafts and the composer keep their types in every reachable state. |
| `DraftProofs` | `QuestionsAreKept` (`QuestionIsKept`) | A question of unknown outcome is never asked again under a new key, and what was entered last is on the screen, comes back to it, or was taken. |
| `DraftProofs` | `EditorsKeepTheirWord` | One tab that is refused nothing calls a text saved only if the server has it, makes one draft and meets no conflict with itself, whatever is lost or late, for any texts and bounds. |
| `PodCreationProofs` | `TabsAreWhoTheyShow` (`TabIsWhoItShows`) | A tab prepares an environment once for each identity, stays logged out, and shows the last thing it asked for as who it is, for any bounds on sessions, queries and losses. |
| `PodCreationProofs` | `TabShowsItself` (`TabIsWhoItShows`) | The same tab without the run's split: logins and logouts in front of panels that are ready, for any bounds. |

### The arguments

**Creation.** That no generation is posted twice needs that a creator which may create holds a permission nobody
has used, and that two never hold the same one; that no foreign Pod appears needs that every POST under way belongs
to the current generation, hence that a generation is not left while one is under way.
`InFlightIsCurrent` collects these facts, and `Inv == TypeOK /\ InFlightIsCurrent` is inductive. From it every step maps to a
step of `SlotPool` or a stutter, and the slot limit is proved there. `FreshGeneration` and
`EveryGenerationHasItsKey` follow from `OnlyEntriesBegin`. In the tab, epochs only grow and each is
prepared in turn (`EntryHolds`); one query of the current epoch is under way at a time, and it is not older than what is shown
(`LoadHolds`, `ShownHolds`); until a logout is confirmed no valid answer speaks of who was there before (`LoginHolds`). `TabInv` is these.

**Stop.** A deletion follows a receipt only because what a pass of the controller read still bounds what is there when it acts:
an object that was missing is missing, a dead one is not alive again, an answered drain leaves no turn, and
the generation cannot change while the pass holds its stop. `PassHolds` says this, `MessageHolds` that the mapping does not know a
request before it is submitted, `StopHolds` that receipt and fence come together. `RemovalInv` carries what each step of the wrapper found
and still relies on; `PermitHolds` that the permit has one holder who sent nothing before it posts, and `UidHolds` that a UID in a run is one
that was or will be bound; `SpaceInv` that what was listed empty stays empty while the namespace is the one that was read.

**Turns.** `RunnerInv` says that a request the native process has is reserved in memory and on disk with its conversation (`NativeReserved`), and that records hold
only requests that the native history has. `SettledInv` adds, when nothing is delivered twice, that a request under
way is its conversation's current one and unknown to the runner. `AnswerInv` ties a shown turn to the entry's marks at each step of the worker,
`ShellInv` an open connection to the lease it was authorized for, `ToolInv` a call to the turn whose token it carries and a
mutation to its single commit under the account's lock.

**Trial.** The evidence is ahead of the cluster: an object that exists, or whose create may still land, is intended on file, and one that is
acknowledged there will not be created again (`EvidenceHolds`); hence nothing that may exist is unknown to a controller at work
(`NoneOverlooked`), though one is cut off and the next knows the files only, and a create may be on file that was never sent.
A DELETE under way names a version at which the object was as it was made, and the version only grows (`DeleteMeant` in
`CleanupHolds`), so that it is either meant or refused, however late. `ScopeHolds` says the same of the policy and the version in scope.

**Research.** A request is one step under the owner's graph lock, so what can go wrong is what a row says of another one long
afterwards. `ClosingsKnown` and `ProposalsKnown` say of every entry of a log which draft it closed, with which revision, and which
proposal it came from, and of every closed row that its entry is there (for posts also that a first version of a proposal closes the
draft the proposal stood on, hence `NoTwinPost`). `DocInv` and `PostInv` are inductive with them, and each step
of either maps to one of `VersionLog` or a stutter. `ScreensRight` says that a preview's bundle and token are of the same rows: a token that
still matches means that the bundle does. `HeadsKnown` ties the history of heads to the document's version. `WriterRight` is what an upload
or purge leaves between the file and the row, `BytesKnown` and `ReferencesKept` what a crash there cannot break.

**Access.** The invariants say what somebody who is between two steps still holds. A turn that is admitted has its receipt and was
not sent (`TurnKnown`), and whoever may work holds the ledger's token, which is not rejected (`Coherent`, `CheckedFirst`). The broker's
requests hold the lock from their first read on; the file is then no older than the login they read, and the app-server that is driven
loaded that file (`HolderFits`); the last event ends where the file, or the `before` of the driven request, is, unless somebody else
wrote (`EventsChain`). A login that no process holds is the exported one and the latest (`LoginRight`). A window's deadline lies in its
first `Length` and in the life of the token in memory through every supply (`WindowRight`).

**Drafts.** A text is not overwritten unseen because a key stands for one request for ever: what a tab repeats, what is still under way and
what the server answered under one key are the same text on the same base. `Agreed` says this of one table from keys to requests, and `DraftInv` that some
such table exists. In the composer at most one request has an unknown outcome, and it is the stored one and, with a screen open, the pending
one (`UnsettledOK`, `ScreenOK`); `EnteredOK` follows the last input through every screen that is closed over it.
For one editor that is refused nothing, `WordInv` says where the rows are: where the tab believes them, or one revision further while
the kept key still stands for the request that made it, so that a repetition gets that receipt and every other save names the latest revision.

### Only model-checked

Liveness (`RequestsEnd`, `TabCatchesUp`, `DyingRunnerReleased`, `QuietStopCompletes`, and the fairness behind them) and anything that needs `ENABLED`: the
prover has no rule for them here. `EditorsKeepTheirWord` is about one tab that is refused nothing (`Tabs = {t}`, `Faults = {}`), as in `liveness`, where TLC checks it; with
several tabs, or a draft closed elsewhere, a conflict is a real one and the property is not claimed.
The properties of `gates` have no theorem either.

## Assumptions of the models

- `ControllerInstall`: one script at a time; a rollback begins when no earlier command is under way. Each of `Rest` is any of a plain object,
  the pool Secret (applied only with the data it has, so that a rollback neither compares nor replaces it) or the network policy (a step of
  its own, never created); the run has one such object at a time.
- `PersonalCache`: a native process that exits 0 on EOF has written what it rotated.
- `AccessWindow`: the native process's death counts as the runner's stop.
- `BindingWindow`: a COMMIT that PostgreSQL has received is over when the tool's container is gone (the script waits a second after
  removing one, and does not ask the database); nobody else scales the two Deployments, and
  bindings change only through the tool.
- `TurnTools`: the conversation row and the login are read without a lock, so a write whose checks passed may commit after the turn
  closed or after a logout, but not after the membership was taken.
- `NamespaceFinal`: a Terminating namespace gains no objects, and the metrics API stores none.
- `EntryGate`: the API's authentication and start are one step; the observer is modelled after the entry has ended.
- `NumericTrial`: a DELETE is applied with both its preconditions or refused; a batch of reads is one look at the cluster.
- `RunnerStop`: one conversation; `PodCreation` shows that there is one object per generation.

## Not modelled

The admission ledger of the kernel (`admitted_request`, `completed_request`), the direct `Runtime` mode without the termination
schema, the controller's wake-up thread and Pod watch, OAuth transactions, TokenReview, the provisioning of host
storage, block documents and Markdown (pure conversions), rendered manifests, the node access rehearsals but for the connection trial,
sandboxing and output limits, and rendering. The map covers three tenths of the implementation's lines: the rest is mostly these, and pure input and output around what is modelled.

## Running

    tlasany PodCreation.tla
    tlc -workers 2 -config PodCreation.cfg MCPodCreation
    tlc -workers 2 -config RunnerStop.cfg MCRunnerStop
    tlapm StopProofs.tla
