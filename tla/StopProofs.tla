----------------------------- MODULE StopProofs -----------------------------
(***************************************************************************)
(* The stop of runners, proved for every value of the constants: the       *)
(* controller's passes, the operator's reclaim, the Pod, its runner and    *)
(* the API's messages (RunnerStop), and the four programs that decide      *)
(* once and for good, each behind the invariant that it needs.  A step of  *)
(* one of the five leaves the others where they began, so the composed     *)
(* invariant is the conjunction of the five.                               *)
(***************************************************************************)
EXTENDS MCRunnerStop, TLAPS

-----------------------------------------------------------------------------
(* The invariants                                                          *)

(* A row is bound to the Pod of its own generation, while it is live or    *)
(* stopping.                                                               *)
RowHolds(r) ==
  /\ Row(r)
  /\ r.pod # NoPod => r.phase \in Live \cup {"stopping"} /\ r.pod = r.gen

(* A stop is of a bound Pod, and its receipt and the dispatch fence come   *)
(* together.                                                               *)
StopHolds(r, s) ==
  /\ s \in [open : BOOLEAN, receipt : Receipts \cup {"none"}]
  /\ s.open => r.pod # NoPod
  /\ s.receipt # "none" <=> r.phase = "stopping"
  /\ s.receipt # "none" => s.open

PodObjects == [uid : Nat \ {0}, phase : PodPhases, deleting : BOOLEAN] \cup {NoObject}

(* PodIsBound, with what tells an object from none.                        *)
PodHolds(r, p) ==
  /\ p \in PodObjects
  /\ p # NoObject => r.pod = p.uid /\ r.gen = p.uid

(* A turn runs in a running container whose native was started, and ends   *)
(* before the runner drains.                                               *)
RunnerHolds(p, n) ==
  /\ n \in [native : Natives, turn : BOOLEAN, drained : Drains]
  /\ n.turn => /\ p.phase = "running" /\ n.drained = "no"
               /\ n.native \in {"up", "blocked", "exited", "blocked_exited"}
  /\ n.drained # "no" => p.phase = "running"

(* FencedRunnerIsQuiet of these values.                                    *)
FenceHolds(r, s, n) == r.phase = "stopping" /\ s.receipt # "operator" => ~n.turn

Passes == [pc : CtlPcs, obj : PodObjects, gen : Nat, receipt : Receipts \cup {"none"},
           failure : BOOLEAN, answer : Drains]

(* A pass never outlives the generation that it looked at, so what it read *)
(* then still bounds what is there: an object that was missing is missing, *)
(* a dead one is not alive again, an answered drain leaves no turn.        *)
PassHolds(c, r, s, p, n) ==
  /\ c \in Passes
  /\ c.pc # "idle" =>
       /\ r.pod # NoPod
       /\ c.obj = NoObject => p = NoObject
       /\ c.obj # NoObject => c.obj.uid = r.pod
       /\ Dead(c.obj) => p.phase \in {"dead", "none"}
  /\ c.pc \in {"quiet", "stopping", "asked", "answered", "delete"} => c.gen = r.gen
  /\ c.pc \in {"asked", "answered", "delete"} => c.obj # NoObject
  /\ c.pc # "idle" /\ c.receipt # "none" => s.receipt # "none"
  /\ c.pc = "delete" => s.receipt # "none"
  /\ c.pc = "answered" => p.phase \in {"dead", "none"} \/ n.drained # "no"

(* The mapping file does not know a request that was not delivered yet.    *)
MessageHolds(m, g) ==
  /\ m \in MsgPcs
  /\ g \in [state : {"idle", "running", "failed"}, current : BOOLEAN]
  /\ m \in {"launched", "submitting"} => ~g.current

(* What the accounts, the operator and the conversation may hold.          *)
AccountTyped ==
  /\ receipts \subseteq Keys
  /\ entries \in [Keys -> [session : Sessions, gen : Nat] \cup {Unqueued}]
  /\ sessions \subseteq Sessions
  /\ eligible \in BOOLEAN /\ rested \in BOOLEAN
  /\ conv \in {"idle", "running", "failed"} /\ turns \in Nat
  /\ op \in [pc : OpPcs, gen : Nat]

StopInv ==
  /\ RowHolds(row) /\ StopHolds(row, stop) /\ PodHolds(row, pod) /\ RunnerHolds(pod, runner)
  /\ FenceHolds(row, stop, runner) /\ PassHolds(ctl, row, stop, pod, runner)
  /\ MessageHolds(msg, mapping) /\ AccountTyped

(* The removal of an owner's runner: what each step of the wrapper found   *)
(* still holds while it goes on.                                           *)
RemovalRows ==
  /\ body => rows.state = 1 /\ rows.phase = "up"
  /\ tool \in {"deleted", "already"} => rows.state # 1
  /\ wrapper.step \in {"look", "delete", "wait", "post"} => rows.state # 1
  /\ applied => rows.state # 1

RemovalObjects ==
  /\ \A o \in dying : objects[o] = 1
  /\ dying # {} => rows.state # 1
  /\ applied => \A o \in Removal!Objects : objects[o] # 1

RemovalDisk ==
  /\ wrapper.step \in {"unmount", "remove", "output", "compared"} => applied /\ ~disk.bound
  /\ wrapper.step \in {"remove", "output", "compared"} => disk.mounts = {}
  /\ wrapper.step \in {"output", "compared"} => ~disk.dir
  /\ disk.images # Disks \/ disk.mounts # Disks => applied
  /\ disk.mounts \subseteq disk.images /\ (disk.bound => disk.mounts = Disks)
  /\ ~disk.output => ~disk.dir

RemovalCodes ==
  /\ tool \in {"running", "refused"} => wrapper.step = "tool" /\ ~touched
  /\ wrapper.step \in {"report", "compare"} => ~touched
  /\ wrapper.step = "idle" /\ wrapper.code = 3 => ~touched
  /\ wrapper.step \in {"idle", "report", "compare"} => tool = "none"

RemovalInv == Removal!TypeOK /\ RemovalRows /\ RemovalObjects /\ RemovalDisk /\ RemovalCodes

(* The permit has one holder, who has sent nothing until it posts.         *)
PermitHolds ==
  /\ sent \in {0, 1} /\ (~permit => sent = 0)
  /\ \A r \in Runs : run[r].fresh => permit /\ run[r].step \notin {"new", "read"}
  /\ \A r, other \in Runs : run[r].fresh /\ run[other].fresh => r = other
  /\ \A r \in Runs : run[r].step \in {"reserve", "look", "preflight", "again", "post"} => run[r].fresh
  /\ \A r \in Runs : run[r].fresh /\ run[r].step \in {"claimed", "reserve", "look", "preflight", "again", "post"} =>
                       sent = 0

(* A UID that a run holds is one that was bound or recorded, or will be.   *)
UidHolds ==
  /\ bound.owner # Shot!None => bound.uid = 0
  /\ \A r \in Runs :
       /\ run[r].step \in {"bind", "observe", "keep", "reconcile", "reread", "rebind", "health"} => run[r].uid # 0
       /\ run[r].step = "keep" => run[r].known \in {0, run[r].uid}
       /\ run[r].known # 0 => restored \/ bound.uid = run[r].known
       /\ run[r].step \in {"rebind", "health"} => restored \/ bound.uid = run[r].uid
       /\ run[r].step = "health" => uidFile = run[r].uid

ShotInv == Shot!TypeOK /\ PermitHolds /\ UidHolds

(* What was listed empty stays empty while it is the namespace that was    *)
(* read; a PUT that was applied is the end of the script.                  *)
SpaceInv ==
  /\ Terminal!TypeOK
  /\ pass.step \in {"list", "put"} /\ space.uid = 1 => pass.listed \cap holds = {}
  /\ pass.step = "put" => Kinds \subseteq pass.listed
  /\ pass.step \in {"list", "put", "gone"} => pass.code = Terminal!NoCode
  /\ pass.step = "idle" /\ pass.code = Terminal!NoCode => pass.listed = {}
  /\ pass.step = "gone" => wrote
  /\ wrote => pass.step = "gone" \/ (pass.step = "idle" /\ pass.code \in {0, 5, 8})

(* The trial (NumericTrial): a create whose request may still take effect; *)
(* what precedes an object.                                                *)
Asked(k) == \E r \in requests : r.verb = "create" /\ r.of = k
Precedes(k) == IF k = "Job" THEN {} ELSE {"Job"}

(* An object exists with a version.  It may exist only when its create was *)
(* intended in the files; what is acknowledged there will not be created   *)
(* again, the Job was before the policy, and only that is ever deleted.    *)
EvidenceHolds ==
  /\ \A k \in Trial!Objects : Trial!Mine(k) => named[k].rv # 0
  /\ \A k \in Trial!Objects : Trial!MayExist(k) => k \in saved["uncertain"]
  /\ \A k \in saved["owned"] : ~Asked(k) /\ Precedes(k) \subseteq saved["owned"]
  /\ saved["owned"] \subseteq saved["uncertain"]
  /\ past.deleted \subseteq saved["delete"] /\ saved["delete"] \subseteq saved["owned"] /\ ~past.again

(* What the controller believes of its objects, step by step.              *)
BeliefHolds ==
  /\ control.step \in {"begin", "arm", "armed", "admit", "create", "acked", "original", "collect", "binding"} =>
       control.owned \cup control.uncertain = saved["uncertain"]
  /\ control.step \notin {"acked", "over"} => control.owned \subseteq saved["owned"]
  /\ "Policy" \in control.owned => "Job" \in control.owned
  /\ control.step \in {"begin", "arm", "armed"} => control.of = "Job"
  /\ control.step \in {"begin", "arm", "armed", "admit", "create", "acked"} =>
       saved["owned"] = Precedes(control.of)
  /\ control.step \in {"begin", "arm", "armed", "admit"} => control.owned = saved["owned"] /\ control.uncertain = {}
  /\ control.step = "create" =>
       control.owned = saved["owned"] /\ control.uncertain = {control.of} /\ ~Trial!MayExist(control.of)
  /\ control.step = "acked" =>
       control.owned = Precedes(control.of) \cup {control.of} /\ control.uncertain = {} /\ ~Asked(control.of)
  /\ control.step \in {"original", "collect", "binding"} =>
       control.of = "Job" /\ saved["owned"] = {"Job"} /\ control.owned = {"Job"} /\ control.uncertain = {}
  /\ control.step \in {"realize", "dispatch", "check"} => control.of = "Policy" /\ "Policy" \in control.owned
  /\ control.step = "check" => past.ran

(* No object that may exist is unknown to a controller at work.            *)
NoneOverlooked ==
  control.step \notin {"load", "over"} =>
    \A k \in Trial!Objects : Trial!MayExist(k) => k \in control.owned \cup control.uncertain

(* Whom the broker serves, and what has been recorded by then.             *)
BrokerHolds ==
  /\ broker = "closed" => control.step = "over"
  /\ broker = "cleanup" => control.step \in Trial!Cleaning \cup {"load", "clean", "delete", "record"}
  /\ broker = "main" => control.step # "load" /\ records["cleanup"].status = "none"
  /\ broker = "main" /\ control.step # "record" => records["main"].status = "none"
  /\ control.status # "none" => control.step \in {"record", "over"}
  /\ \A p \in {"main", "cleanup"} : records[p].status = "verified" => records[p].names = {}
  /\ Trial!RecordsNameTheRest

(* A DELETE that may still take effect, or is about to be sent, names a    *)
(* version that the object has only as it was made.                        *)
DeleteMeant(k, rv) == Trial!Mine(k) => rv <= named[k].rv /\ (named[k].rv = rv => named[k].same)

CleanupHolds ==
  /\ \A r \in requests : r.verb = "delete" => r.of \in saved["delete"] /\ DeleteMeant(r.of, r.rv)
  /\ control.step \in {"attempt", "delete", "confirm"} => control.of \in control.owned
  /\ control.step \in {"attempt", "delete"} => DeleteMeant(control.of, control.read)
  /\ control.step = "delete" => control.of \in saved["delete"] \ past.deleted
  /\ control.step \in Trial!Cleaning \cup {"delete", "record"} =>
       \A k \in control.owned \ control.left : ~Trial!MayExist(k)
  /\ control.step \in {"look", "attempt", "delete", "confirm"} /\ control.of = "Policy" /\ "Job" \in control.owned =>
       ~Trial!MayExist("Job") /\ holder \notin Trial!Present
  /\ control.step = "record" /\ control.status = "verified" =>
       holder \notin Trial!Present /\ \A k \in Trial!Objects : ~Trial!MayExist(k)
  /\ control.step = "record" /\ control.status = "not_armed" => saved["uncertain"] = {}

(* The policy that has the version it had in scope is as it was then.      *)
ScopeHolds ==
  /\ control.scope # 0 =>
       /\ "Policy" \in control.owned \cap saved["owned"]
       /\ control.step \notin {"begin", "arm", "armed", "admit", "create", "acked", "original", "collect", "binding", "realize"}
       /\ Trial!Mine("Policy") => control.scope <= named["Policy"].rv
       /\ Trial!Mine("Policy") /\ named["Policy"].rv = control.scope /\ ~named["Policy"].going => ~past.written
  /\ broker = "main" /\ control.scope = 0 => ~past.written

TrialInv ==
  Trial!TypeOK /\ EvidenceHolds /\ BeliefHolds /\ BrokerHolds /\ CleanupHolds /\ ScopeHolds /\ NoneOverlooked

PartsInv ==
  /\ part \in {"stop", "removal", "shot", "namespace", "trial"}
  /\ StopInv /\ home \in BOOLEAN /\ RemovalInv /\ ShotInv /\ SpaceInv /\ TrialInv

-----------------------------------------------------------------------------
(* What the kernel's decisions return, for every row                       *)

(* A row that was never prepared can be read back (Registry.enter inserts  *)
(* it before it decides).                                                  *)
LEMMA NewRowSound == Row(NewRow)
  BY DEF Row, Rows, WellFormed, NewRow, Phases, Creating, Live, NoPod

(* entry keeps the row readable; it begins a generation only without a Pod,*)
(* and otherwise leaves generation, Pod and phase alone.                   *)
LEMMA EnteredSound ==
  ASSUME NEW s, Row(s), CanEnter(s)
  PROVE  /\ Row(Entered(s))
         /\ Entered(s).pod = s.pod
         /\ StartsGeneration(s) =>
              Entered(s).gen = s.gen + 1 /\ Entered(s).phase = "provisioning" /\ s.pod = NoPod
         /\ ~StartsGeneration(s) => Entered(s).gen = s.gen /\ Entered(s).phase = s.phase
<1>1. CASE s.phase \in Creating
  BY <1>1 DEF Row, Entered, StartsGeneration
<1>2. CASE s.phase \notin Creating /\ s.pod # NoPod
  <2>1. Entered(s) = [s EXCEPT !.rev = @ + 1]
    BY <1>2 DEF Entered
  <2>2. /\ Entered(s) \in Rows
        /\ Entered(s).phase = s.phase /\ Entered(s).gen = s.gen /\ Entered(s).pod = s.pod
        /\ Entered(s).active = s.active /\ Entered(s).ambiguous = s.ambiguous
    BY <2>1 DEF Row, Rows
  <2> QED BY <1>2, <2>2 DEF Row, WellFormed, StartsGeneration
<1>3. CASE s.phase \notin Creating /\ s.pod = NoPod
  <2> DEFINE t == Entered(s)
  <2>1. t = [s EXCEPT !.phase = "provisioning", !.gen = @ + 1, !.rev = @ + 1]
    BY <1>3 DEF Entered
  <2>2. /\ t.phase = "provisioning" /\ t.gen = s.gen + 1 /\ t.rev = s.rev + 1
        /\ t.pod = s.pod /\ t.active = s.active /\ t.ambiguous = s.ambiguous
    BY <2>1 DEF Row, Rows
  <2>3. t = [phase |-> t.phase, gen |-> t.gen, rev |-> t.rev, pod |-> t.pod,
             active |-> t.active, ambiguous |-> t.ambiguous]
    BY <2>1 DEF Row, Rows
  <2>4. s.gen \in Nat /\ s.rev \in Nat /\ s.active = 0 /\ ~s.ambiguous
    BY <1>3 DEF Row, Rows, CanEnter
  <2>5. t \in Rows
    BY <1>3, <2>2, <2>3, <2>4 DEF Phases, Row, Rows
  <2>6. WellFormed(t)
    BY <1>3, <2>2, <2>4 DEF WellFormed, Live
  <2> QED BY <1>3, <2>2, <2>5, <2>6 DEF Row, StartsGeneration
<1> QED BY <1>1, <1>2, <1>3

(* observed binds a real Pod to a generation that has begun.               *)
LEMMA ObservedSound ==
  ASSUME NEW s, Row(s), NEW uid \in Nat \ {0}, s.phase = "provisioning"
  PROVE  /\ Row(Observed(s, uid, FALSE, 0, TRUE))
         /\ Observed(s, uid, FALSE, 0, TRUE).pod = uid
         /\ Observed(s, uid, FALSE, 0, TRUE).gen = s.gen
         /\ Observed(s, uid, FALSE, 0, TRUE).phase = "runner_unreachable"
<1> DEFINE t == Observed(s, uid, FALSE, 0, TRUE)
<1>1. t = [s EXCEPT !.pod = uid, !.rev = @ + 1, !.active = 0, !.ambiguous = TRUE,
                    !.phase = "runner_unreachable"]
  BY DEF Observed
<1>2. /\ t.phase = "runner_unreachable" /\ t.gen = s.gen /\ t.rev = s.rev + 1
      /\ t.pod = uid /\ t.active = 0 /\ t.ambiguous = TRUE
  BY <1>1 DEF Row, Rows
<1>3. t = [phase |-> t.phase, gen |-> t.gen, rev |-> t.rev, pod |-> t.pod,
           active |-> t.active, ambiguous |-> t.ambiguous]
  BY <1>1 DEF Row, Rows
<1>4. s.gen \in Nat /\ s.rev \in Nat /\ s.gen > 0
  BY DEF Row, Rows, WellFormed
<1>5. t \in Rows
  <2> HIDE DEF t
  <2>1. /\ t.phase \in Phases /\ t.gen \in Nat /\ t.rev \in Nat /\ t.pod \in Nat
        /\ t.active \in Nat
    BY <1>2, <1>4 DEF Phases
  <2>2. t.ambiguous \in BOOLEAN
    BY <1>2, Zenon
  <2> QED BY <1>3, <2>1, <2>2 DEF Rows
<1>6. WellFormed(t)
  BY <1>2, <1>4 DEF WellFormed, Live, NoPod
<1> QED BY <1>2, <1>4, <1>5, <1>6 DEF Row

(* A drain keeps the Pod and its generation.                               *)
LEMMA DrainedSound ==
  ASSUME NEW s, Row(s), s.phase \in Live
  PROVE  /\ Row(Drained(s))
         /\ Drained(s).pod = s.pod
         /\ Drained(s).gen = s.gen
         /\ Drained(s).phase = "stopping"
         /\ s.pod # NoPod
<1> DEFINE t == Drained(s)
<1>1. t = [s EXCEPT !.phase = "stopping", !.rev = @ + 1, !.active = 0, !.ambiguous = FALSE]
  BY DEF Drained
<1>2. /\ t.phase = "stopping" /\ t.gen = s.gen /\ t.rev = s.rev + 1
      /\ t.pod = s.pod /\ t.active = 0 /\ t.ambiguous = FALSE
  BY <1>1 DEF Row, Rows
<1>3. t = [phase |-> t.phase, gen |-> t.gen, rev |-> t.rev, pod |-> t.pod,
           active |-> t.active, ambiguous |-> t.ambiguous]
  BY <1>1 DEF Row, Rows
<1>4. s.gen \in Nat /\ s.rev \in Nat /\ s.gen > 0 /\ s.pod \in Nat /\ s.pod # NoPod
  BY DEF Row, Rows, WellFormed, Live
<1>5. t \in Rows
  <2> HIDE DEF t
  <2>1. /\ t.phase \in Phases /\ t.gen \in Nat /\ t.rev \in Nat /\ t.pod \in Nat
        /\ t.active \in Nat
    BY <1>2, <1>4 DEF Phases
  <2>2. t.ambiguous \in BOOLEAN
    BY <1>2, Zenon
  <2> QED BY <1>3, <2>1, <2>2 DEF Rows
<1>6. WellFormed(t)
  BY <1>2, <1>4 DEF WellFormed, Live, NoPod
<1> QED BY <1>2, <1>4, <1>5, <1>6 DEF Row

(* stopped gives the Pod up and keeps the generation.                      *)
LEMMA StoppedSound ==
  ASSUME NEW s, Row(s), s.phase = "stopping"
  PROVE  /\ Row(Stopped(s))
         /\ Stopped(s).pod = NoPod
         /\ Stopped(s).gen = s.gen
         /\ Stopped(s).phase = "idle_stopped"
         /\ s.pod # NoPod
<1> DEFINE t == Stopped(s)
<1>1. t = [s EXCEPT !.phase = "idle_stopped", !.rev = @ + 1, !.pod = NoPod]
  BY DEF Stopped
<1>2. /\ t.phase = "idle_stopped" /\ t.gen = s.gen /\ t.rev = s.rev + 1
      /\ t.pod = NoPod /\ t.active = s.active /\ t.ambiguous = s.ambiguous
  BY <1>1 DEF Row, Rows
<1>3. t = [phase |-> t.phase, gen |-> t.gen, rev |-> t.rev, pod |-> t.pod,
           active |-> t.active, ambiguous |-> t.ambiguous]
  BY <1>1 DEF Row, Rows
<1>4. /\ s.gen \in Nat /\ s.rev \in Nat /\ s.gen > 0 /\ s.pod # NoPod
      /\ s.active = 0 /\ ~s.ambiguous
  BY DEF Row, Rows, WellFormed, NoPod
<1>5. t \in Rows
  BY <1>2, <1>3, <1>4 DEF Phases, NoPod, Row, Rows
<1>6. WellFormed(t)
  BY <1>2, <1>4 DEF WellFormed, Live, NoPod
<1> QED BY <1>2, <1>4, <1>5, <1>6 DEF Row

-----------------------------------------------------------------------------
(* Rows, stops and objects                                                 *)

(* An object is told from none by its UID.                                 *)
LEMMA ObjectSound ==
  ASSUME NEW p \in PodObjects
  PROVE  /\ p.uid \in Nat /\ p.phase \in PodPhases \cup {"none"} /\ p.deleting \in BOOLEAN
         /\ p = NoObject <=> p.uid = 0
         /\ p = NoObject <=> p.phase = "none"
         /\ p = NoObject => ~p.deleting
<1>1. CASE p = NoObject
  BY <1>1 DEF NoObject
<1>2. CASE p # NoObject
  <2>1. p \in [uid : Nat \ {0}, phase : PodPhases, deleting : BOOLEAN]
    BY <1>2 DEF PodObjects
  <2> QED BY <1>2, <2>1 DEF PodPhases
<1> QED BY <1>1, <1>2

(* A row that is bound to no Pod has no object.                            *)
LEMMA UnboundHasNone ==
  ASSUME StopInv, row.pod = NoPod
  PROVE  pod = NoObject /\ ~stop.open /\ ctl.pc = "idle"
<1>1. pod \in PodObjects /\ (pod # NoObject => row.pod = pod.uid)
  BY DEF StopInv, PodHolds
<1>2. pod = NoObject
  BY <1>1, ObjectSound DEF NoPod
<1> QED BY <1>2 DEF StopInv, StopHolds, PassHolds

(* A stop that is opened, or was open, keeps its receipt.                  *)
LEMMA OpenStopHolds ==
  ASSUME StopInv, row.pod # NoPod
  PROVE  StopHolds(row, OpenStop) /\ OpenStop.receipt = stop.receipt
<1> USE DEF StopInv, StopHolds
<1>1. CASE stop.open
  BY <1>1 DEF OpenStop
<1>2. CASE ~stop.open
  <2>1. OpenStop.open = TRUE /\ OpenStop.receipt = "none"
    BY <1>2 DEF OpenStop
  <2>2. OpenStop \in [open : BOOLEAN, receipt : Receipts \cup {"none"}]
    BY <1>2 DEF OpenStop
  <2> QED BY <1>2, <2>1, <2>2
<1> QED BY <1>1, <1>2

(* Recording a receipt fences the row off, which by then has no turn unless*)
(* an operator decides.                                                    *)
LEMMA Recorded ==
  ASSUME StopInv, NEW receipt \in Receipts, Acceptable(row.gen), Record(receipt),
         receipt # "operator" => ~runner.turn
  PROVE  /\ RowHolds(row') /\ StopHolds(row', stop') /\ PodHolds(row', pod)
         /\ FenceHolds(row', stop', runner)
         /\ row'.pod = row.pod /\ row'.gen = row.gen /\ row.pod # NoPod
         /\ row'.phase = "stopping" /\ stop'.receipt # "none"
         /\ stop.receipt # "none" => stop'.receipt = stop.receipt
<1>1. RowHolds(row) /\ StopHolds(row, stop) /\ PodHolds(row, pod) /\ FenceHolds(row, stop, runner)
  BY DEF StopInv
<1>2. CASE stop.receipt # "none"
  <2>1. row.phase = "stopping" /\ row' = row /\ stop' = stop
    BY <1>2 DEF Record
  <2>2. row.pod # NoPod
    BY <1>1, <1>2 DEF StopHolds
  <2> QED BY <1>1, <1>2, <2>1, <2>2
<1>3. CASE stop.receipt = "none"
  <2>1. stop' = [stop EXCEPT !.receipt = receipt] /\ row' = Drained(row)
    BY <1>3 DEF Record
  <2>2. row.phase \in Live /\ stop.open
    BY <1>1, <1>3 DEF Acceptable, StopHolds
  <2>3. /\ Row(row') /\ row'.pod = row.pod /\ row'.gen = row.gen /\ row'.phase = "stopping"
        /\ row.pod # NoPod
    BY <1>1, <2>1, <2>2, DrainedSound DEF RowHolds
  <2>4. /\ stop' \in [open : BOOLEAN, receipt : Receipts \cup {"none"}]
        /\ stop'.receipt = receipt /\ stop'.open = stop.open
    BY <1>1, <2>1 DEF StopHolds
  <2>5. receipt # "none"
    BY DEF Receipts
  <2>6. RowHolds(row')
    BY <1>1, <2>3 DEF RowHolds
  <2>7. StopHolds(row', stop')
    BY <2>2, <2>3, <2>4, <2>5 DEF StopHolds
  <2>8. PodHolds(row', pod)
    BY <1>1, <2>3 DEF PodHolds
  <2>9. FenceHolds(row', stop', runner)
    BY <2>4 DEF FenceHolds
  <2> QED BY <1>3, <2>3, <2>4, <2>5, <2>6, <2>7, <2>8, <2>9
<1> QED BY <1>2, <1>3

-----------------------------------------------------------------------------
(* What a step may leave alone                                             *)

(* The stop may be opened, the accounts, the conversation and the operator *)
(* may move, and a pass may go on.                                         *)
LEMMA PassMoves ==
  ASSUME StopInv, UNCHANGED << row, pod, runner, msg, mapping >>,
         StopHolds(row, stop'), stop'.receipt = stop.receipt,
         PassHolds(ctl', row, stop, pod, runner), AccountTyped'
  PROVE  StopInv'
<1>1. FenceHolds(row, stop', runner)
  BY DEF StopInv, FenceHolds
<1>2. PassHolds(ctl', row, stop', pod, runner)
  BY DEF PassHolds
<1>3. MessageHolds(msg', mapping')
  BY DEF StopInv
<1> QED BY <1>1, <1>2, <1>3 DEF StopInv

(* An account or operator step.                                            *)
LEMMA AccountMoves ==
  ASSUME StopInv, UNCHANGED << row, pod, runner, msg, mapping, ctl >>,
         StopHolds(row, stop'), stop'.receipt = stop.receipt, AccountTyped'
  PROVE  StopInv'
<1>1. PassHolds(ctl', row, stop, pod, runner)
  BY DEF StopInv
<1> QED BY <1>1, PassMoves

(* A step of the message, which the runner does not see.                   *)
LEMMA MessageMoves ==
  ASSUME StopInv, UNCHANGED << row, stop, pod, runner, ctl >>,
         MessageHolds(msg', mapping'), AccountTyped'
  PROVE  StopInv'
  BY DEF StopInv

(* A step of the runner in the container that it runs in.                  *)
LEMMA RunnerMoves ==
  ASSUME StopInv, UNCHANGED << row, stop, pod, ctl >>,
         RunnerHolds(pod, runner'), FenceHolds(row, stop, runner'),
         runner.drained # "no" => runner'.drained # "no",
         MessageHolds(msg', mapping'), AccountTyped'
  PROVE  StopInv'
<1>1. PassHolds(ctl, row, stop, pod, runner')
  BY DEF StopInv, PassHolds
<1> QED BY <1>1 DEF StopInv

(* A container begins, or it ends and its turn with it.                    *)
LEMMA PodMoves ==
  ASSUME StopInv, UNCHANGED << row, stop, ctl, msg >>,
         PodHolds(row, pod'), RunnerHolds(pod', runner'), ~runner'.turn,
         pod = NoObject => pod' = NoObject,
         pod.phase \in {"dead", "none"} => pod'.phase \in {"dead", "none"},
         pod'.phase \in {"dead", "none"} \/ pod.phase = "pending",
         MessageHolds(msg, mapping'), AccountTyped'
  PROVE  StopInv'
<1>1. ctl.pc = "answered" => pod'.phase \in {"dead", "none"}
  BY DEF StopInv, PassHolds, RunnerHolds
<1>2. PassHolds(ctl, row, stop, pod', runner')
  BY <1>1 DEF StopInv, PassHolds
<1>3. FenceHolds(row, stop, runner')
  BY DEF FenceHolds
<1> QED BY <1>2, <1>3 DEF StopInv

-----------------------------------------------------------------------------
(* The steps of RunnerStop                                                 *)

(* Requests, logins, expiry and rest.                                      *)
LEMMA ApiStepHolds == ASSUME StopInv, ApiStep PROVE StopInv'
<1> USE DEF StopInv
<1>0. /\ StopHolds(row, stop) /\ AccountTyped
      /\ row.gen \in Nat
  BY DEF RowHolds, Row, Rows
<1>1. ASSUME NEW k \in Keys, Prepare(k) PROVE StopInv'
  <2>1. row.phase # "stopping" /\ stop' = stop /\ ~stop.open /\ stop.receipt = "none"
    BY <1>0, <1>1 DEF Prepare, StopHolds
  <2>2. /\ RowHolds(row') /\ row'.pod = row.pod /\ row'.phase # "stopping"
        /\ row.pod # NoPod => row'.gen = row.gen
    <3>1. CASE k \in receipts
      BY <1>1, <2>1, <3>1 DEF Prepare
    <3>2. CASE k \notin receipts
      <4>1. row' = Entered(row) /\ CanEnter(row) /\ Row(row)
        BY <1>1, <3>2 DEF Prepare, RowHolds
      <4>2. /\ Row(row') /\ row'.pod = row.pod
            /\ StartsGeneration(row) => row'.phase = "provisioning" /\ row.pod = NoPod
            /\ ~StartsGeneration(row) => row'.gen = row.gen /\ row'.phase = row.phase
        BY <4>1, EnteredSound
      <4>3. RowHolds(row')
        BY <4>2 DEF RowHolds
      <4> QED BY <2>1, <4>2, <4>3
    <3> QED BY <3>1, <3>2
  <2>3. UNCHANGED << stop, pod, runner, ctl, msg, mapping, entries, sessions, eligible, conv, turns, op >>
    BY <1>1 DEF Prepare, apiVars, podVars
  <2>4. PodHolds(row', pod)
    <3>1. CASE row.pod = NoPod
      BY <3>1, UnboundHasNone DEF PodHolds
    <3>2. CASE row.pod # NoPod
      BY <2>2, <3>2 DEF PodHolds
    <3> QED BY <3>1, <3>2
  <2>5. StopHolds(row', stop)
    BY <1>0, <2>1, <2>2 DEF StopHolds
  <2>6. FenceHolds(row', stop, runner)
    BY <2>2 DEF FenceHolds
  <2>7. PassHolds(ctl, row', stop, pod, runner)
    <3>1. CASE row.pod = NoPod
      BY <2>2, <3>1, UnboundHasNone DEF PassHolds
    <3>2. CASE row.pod # NoPod
      BY <2>2, <3>2 DEF PassHolds
    <3> QED BY <3>1, <3>2
  <2>8. AccountTyped'
    <3>1. receipts' \subseteq Keys
      BY <1>0, <1>1 DEF Prepare, AccountTyped
    <3>2. rested' = (rested /\ row' = row)
      BY <1>1 DEF Prepare
    <3>3. rested' \in BOOLEAN
      BY <3>2
    <3> QED BY <1>0, <2>3, <3>1, <3>3 DEF AccountTyped
  <2> QED BY <2>2, <2>3, <2>4, <2>5, <2>6, <2>7, <2>8
<1> DEFINE Rest1 == UNCHANGED << row, pod, runner, msg, mapping, ctl >>
<1>2. ASSUME NEW k \in Keys, NEW s \in Sessions, QueueEntry(k, s) PROVE StopInv'
  <2>1. Rest1 /\ UNCHANGED << stop, rested, receipts, sessions, eligible, conv, turns, op >>
    BY <1>2 DEF QueueEntry, apiVars, podVars
  <2>2. entries' = [entries EXCEPT ![k] = [session |-> s, gen |-> row.gen]]
    BY <1>2 DEF QueueEntry
  <2>3. [session |-> s, gen |-> row.gen] \in [session : Sessions, gen : Nat]
    BY <1>0
  <2>4. AccountTyped'
    BY <1>0, <2>1, <2>2, <2>3 DEF AccountTyped
  <2> QED BY <1>0, <2>1, <2>4, AccountMoves
<1>3. ASSUME RequestStop PROVE StopInv'
  <2>1. Rest1 /\ UNCHANGED << rested, receipts, entries, sessions, eligible, conv, turns, op >>
    BY <1>3 DEF RequestStop, accountVars, apiVars, podVars
  <2>2. stop' = OpenStop /\ row.pod # NoPod
    BY <1>3 DEF RequestStop, Stoppable
  <2>3. StopHolds(row, stop') /\ stop'.receipt = stop.receipt
    BY <2>2, OpenStopHolds
  <2>4. AccountTyped'
    BY <1>0, <2>1 DEF AccountTyped
  <2> QED BY <2>1, <2>3, <2>4, AccountMoves
<1>4. ASSUME NEW gone \in SUBSET Sessions, DeleteSessions(gone),
             UNCHANGED << receipts, rested, conv, turns, op >>, eligible' \in BOOLEAN
      PROVE  AccountTyped'
  <2>1. sessions' \subseteq Sessions
    BY <1>0, <1>4 DEF DeleteSessions, AccountTyped
  <2>2. entries' = [k \in Keys |-> IF entries[k].session \in gone THEN Unqueued ELSE entries[k]]
    BY <1>4 DEF DeleteSessions
  <2>3. entries' \in [Keys -> [session : Sessions, gen : Nat] \cup {Unqueued}]
    BY <1>0, <2>2 DEF AccountTyped
  <2> QED BY <1>0, <1>4, <2>1, <2>3 DEF AccountTyped
<1>5. ASSUME NEW s \in Sessions, Logout(s) PROVE StopInv'
  <2>1. Rest1 /\ UNCHANGED << rested, receipts, eligible, conv, turns, op >> /\ DeleteSessions({s})
    BY <1>5 DEF Logout, apiVars, podVars
  <2>2. AccountTyped'
    <3>1. eligible' \in BOOLEAN
      BY <1>0, <2>1 DEF AccountTyped
    <3>2. {s} \in SUBSET Sessions
      OBVIOUS
    <3> QED BY <1>4, <2>1, <3>1, <3>2
  <2>3. StopHolds(row, stop') /\ stop'.receipt = stop.receipt
    <3>1. CASE Stoppable
      BY <1>5, <3>1, OpenStopHolds DEF Logout, Stoppable
    <3>2. CASE ~Stoppable
      BY <1>0, <1>5, <3>2 DEF Logout
    <3> QED BY <3>1, <3>2
  <2> QED BY <2>1, <2>2, <2>3, AccountMoves
<1>6. ASSUME NEW s \in Sessions, SessionExpires(s) \/ Login(s) PROVE StopInv'
  <2>1. Rest1 /\ UNCHANGED << stop, rested, receipts, entries, eligible, conv, turns, op >>
    BY <1>6 DEF SessionExpires, Login, apiVars, podVars
  <2>2. AccountTyped'
    BY <1>0, <1>6, <2>1 DEF AccountTyped, SessionExpires, Login
  <2> QED BY <1>0, <2>1, <2>2, AccountMoves
<1>7. ASSUME ChangeMembership PROVE StopInv'
  <2>1. /\ Rest1 /\ UNCHANGED << stop, rested, receipts, conv, turns, op >>
        /\ DeleteSessions(Sessions) /\ eligible' \in BOOLEAN
    BY <1>7 DEF ChangeMembership, apiVars, podVars
  <2>2. AccountTyped'
    BY <1>4, <2>1
  <2> QED BY <1>0, <2>1, <2>2, AccountMoves
<1>8. ASSUME Rest PROVE StopInv'
  <2>1. /\ Rest1 /\ UNCHANGED << stop, receipts, entries, sessions, eligible, conv, turns, op >>
        /\ rested' = TRUE
    BY <1>8 DEF Rest, accountVars, apiVars, podVars
  <2>2. AccountTyped'
    BY <1>0, <2>1 DEF AccountTyped
  <2> QED BY <1>0, <2>1, <2>2, AccountMoves
<1> QED BY <1>1, <1>2, <1>3, <1>5, <1>6, <1>7, <1>8 DEF ApiStep

(* Until the turn's POST is delivered the runner sees nothing of it.       *)
LEMMA MessageStepHolds == ASSUME StopInv, MessageStep PROVE StopInv'
<1>0. /\ MessageHolds(msg, mapping) /\ AccountTyped /\ RunnerHolds(pod, runner)
  BY DEF StopInv
<1>1. ASSUME CheckMessage \/ Preflight \/ SubmitRefusedLocally \/ SubmitRejected \/ SubmitLost \/ ApiCrash
             \/ Refresh
      PROVE  StopInv'
  <2>1. /\ UNCHANGED << row, stop, pod, runner, ctl, mapping, receipts, entries, sessions, eligible, rested, op >>
        /\ turns' = turns
    BY <1>1 DEF CheckMessage, Preflight, SubmitRefusedLocally, SubmitRejected, SubmitLost, ApiCrash,
                Refresh, accountVars, podVars
  <2>2. msg' \in {"idle", "checked"} \/ msg' = msg \/ (msg' = "submitting" /\ msg = "launched")
    BY <1>1 DEF CheckMessage, Preflight, SubmitRefusedLocally, SubmitRejected, SubmitLost, ApiCrash, Refresh
  <2>3. MessageHolds(msg', mapping')
    BY <1>0, <2>1, <2>2 DEF MessageHolds, MsgPcs
  <2>4. conv' = conv \/ conv' = Failed \/ conv' = mapping.state
    BY <1>1 DEF CheckMessage, Preflight, SubmitRefusedLocally, SubmitRejected, SubmitLost, ApiCrash, Refresh
  <2>5. conv' \in {"idle", "running", "failed"}
    BY <1>0, <2>4 DEF AccountTyped, MessageHolds, Failed
  <2>6. AccountTyped'
    BY <1>0, <2>1, <2>5 DEF AccountTyped
  <2> QED BY <2>1, <2>3, <2>6, MessageMoves
<1>2. ASSUME CommitMessage PROVE StopInv'
  <2>1. /\ UNCHANGED << row, stop, pod, runner, ctl, receipts, entries, sessions, eligible, rested, op >>
        /\ turns' = turns + 1 /\ conv' = "running" /\ msg' = "launched"
        /\ mapping' = [mapping EXCEPT !.current = FALSE]
    BY <1>2 DEF CommitMessage, accountVars
  <2>2. MessageHolds(msg', mapping')
    BY <1>0, <2>1 DEF MessageHolds, MsgPcs
  <2>3. AccountTyped'
    BY <1>0, <2>1 DEF AccountTyped
  <2> QED BY <2>1, <2>2, <2>3, MessageMoves
<1>3. ASSUME SubmitAccepted PROVE StopInv'
  <2>1. /\ UNCHANGED << row, stop, pod, ctl, receipts, entries, sessions, eligible, rested, op, conv, turns >>
        /\ msg' = "idle" /\ runner' = [runner EXCEPT !.turn = TRUE]
        /\ mapping' = [state |-> "running", current |-> TRUE]
    BY <1>3 DEF SubmitAccepted, accountVars
  <2>2. pod.phase = "running" /\ runner.native = "up" /\ runner.drained = "no" /\ row.phase \in Live
    BY <1>3 DEF SubmitAccepted, Dispatchable, Accepts, Bound, Answers, Available
  <2>3. /\ runner' \in [native : Natives, turn : BOOLEAN, drained : Drains]
        /\ runner'.native = runner.native /\ runner'.drained = runner.drained
    BY <1>0, <2>1 DEF RunnerHolds
  <2>4. RunnerHolds(pod, runner')
    BY <2>2, <2>3 DEF RunnerHolds
  <2>5. FenceHolds(row, stop, runner')
    BY <2>2 DEF FenceHolds, Live
  <2>6. MessageHolds(msg', mapping')
    BY <2>1 DEF MessageHolds, MsgPcs
  <2>7. AccountTyped'
    BY <1>0, <2>1 DEF AccountTyped
  <2> QED BY <2>1, <2>3, <2>4, <2>5, <2>6, <2>7, RunnerMoves
<1> QED BY <1>1, <1>2, <1>3 DEF MessageStep, Submit

(* What a drain may be answered with, and that it is answered only without *)
(* a turn.                                                                 *)
LEMMA DrainAnswersSound ==
  ASSUME StopInv, NEW answer \in DrainAnswers
  PROVE  answer \in Drains \ {"no"} /\ ~runner.turn
<1>1. RunnerHolds(pod, runner)
  BY DEF StopInv
<1>2. CASE runner.drained # "no"
  BY <1>1, <1>2 DEF DrainAnswers, RunnerHolds
<1>3. CASE runner.drained = "no"
  <2>1. ~(Started /\ ~QuietMapping)
    BY <1>3 DEF DrainAnswers
  <2>2. ~runner.turn
    BY <1>1, <2>1 DEF Started, QuietMapping, RunnerHolds
  <2>3. answer \in {"dirty", "unavailable", "clean"}
    BY <1>3, <2>1 DEF DrainAnswers, UnsuppliedAnswer
  <2> QED BY <2>2, <2>3 DEF Drains
<1> QED BY <1>2, <1>3

(* A stored drain answer.                                                  *)
LEMMA DrainStored ==
  ASSUME StopInv, NEW answer \in DrainAnswers, StoreDrain(answer), pod.phase = "running"
  PROVE  /\ RunnerHolds(pod, runner') /\ FenceHolds(row, stop, runner')
         /\ runner'.drained # "no" /\ ~runner'.turn
<1>1. answer \in Drains /\ answer # "no" /\ ~runner.turn
  BY DrainAnswersSound
<1>2. runner' = [runner EXCEPT !.drained = answer] /\ RunnerHolds(pod, runner)
  BY DEF StopInv, StoreDrain
<1>3. /\ runner' \in [native : Natives, turn : BOOLEAN, drained : Drains]
      /\ runner'.turn = runner.turn /\ runner'.drained = answer
  BY <1>1, <1>2 DEF RunnerHolds
<1> QED BY <1>1, <1>3 DEF RunnerHolds, FenceHolds

(* A runner that starts has neither a turn nor a receipt.                  *)
LEMMA StartsAsSound ==
  ASSUME StopInv, NEW native \in Natives, StartsAs(native)
  PROVE  /\ runner' \in [native : Natives, turn : BOOLEAN, drained : Drains]
         /\ ~runner'.turn /\ runner'.drained = "no"
         /\ MessageHolds(msg, mapping')
<1>1. runner' = [Fresh EXCEPT !.native = native]
  BY DEF StartsAs
<1>2. /\ runner' \in [native : Natives, turn : BOOLEAN, drained : Drains]
      /\ ~runner'.turn /\ runner'.drained = "no"
  BY <1>1 DEF Fresh, Natives, Drains
<1>3. MessageHolds(msg, mapping)
  BY DEF StopInv
<1>4. mapping' = mapping \/ mapping' = Interrupted
  BY DEF StartsAs
<1>5. ASSUME mapping' = Interrupted PROVE MessageHolds(msg, mapping')
  <2>1. /\ mapping' \in [state : {"idle", "running", "failed"}, current : BOOLEAN]
        /\ mapping'.current = mapping.current
    BY <1>3, <1>5 DEF Interrupted, MessageHolds
  <2> QED BY <1>3, <2>1 DEF MessageHolds
<1>6. MessageHolds(msg, mapping')
  BY <1>3, <1>4, <1>5
<1> QED BY <1>2, <1>6

(* The Pod and the process in it.                                          *)
LEMMA PodStepHolds == ASSUME StopInv, PodStep PROVE StopInv'
<1>0. /\ RowHolds(row) /\ StopHolds(row, stop) /\ PodHolds(row, pod) /\ RunnerHolds(pod, runner)
      /\ MessageHolds(msg, mapping) /\ AccountTyped
  BY DEF StopInv
<1> DEFINE Others == UNCHANGED << stop, ctl, msg, receipts, entries, sessions, eligible, rested, op, conv, turns >>
<1>a. ASSUME Others PROVE AccountTyped'
  BY <1>0, <1>a DEF AccountTyped
<1>f. /\ Fresh \in [native : Natives, turn : BOOLEAN, drained : Drains]
      /\ ~Fresh.turn /\ Fresh.drained = "no"
  BY DEF Fresh, Natives, Drains
<1>p. /\ pod \in PodObjects /\ (pod # NoObject => row.pod = pod.uid /\ row.gen = pod.uid)
      /\ pod = NoObject <=> pod.phase = "none"
  BY <1>0, ObjectSound DEF PodHolds
<1>1. ASSUME CreatePod PROVE StopInv'
  <2>1. /\ Others /\ UNCHANGED << mapping, runner >> /\ row.phase = "provisioning" /\ row.pod = NoPod
        /\ pod' = [uid |-> row.gen, phase |-> "pending", deleting |-> FALSE]
        /\ row' = Observed(row, row.gen, FALSE, 0, TRUE)
    BY <1>1 DEF CreatePod, accountVars, apiVars
  <2>2. pod = NoObject /\ ~stop.open /\ ctl.pc = "idle"
    BY <2>1, UnboundHasNone
  <2>3. row.gen \in Nat \ {0} /\ Row(row)
    BY <1>0, <2>1 DEF RowHolds, Row, Rows, WellFormed
  <2>4. /\ Row(row') /\ row'.pod = row.gen /\ row'.gen = row.gen /\ row'.phase = "runner_unreachable"
    BY <2>1, <2>3, ObservedSound
  <2>5. RowHolds(row')
    BY <2>4 DEF RowHolds, Live
  <2>6. PodHolds(row', pod')
    <3>1. pod' \in PodObjects
      BY <2>1, <2>3 DEF PodObjects, PodPhases
    <3> QED BY <2>1, <2>4, <3>1 DEF PodHolds
  <2>7. RunnerHolds(pod', runner')
    <3>1. pod.phase = "none" /\ runner' = runner
      BY <1>p, <2>1, <2>2
    <3> QED BY <1>0, <3>1 DEF RunnerHolds
  <2>8. StopHolds(row', stop')
    <3>1. stop.receipt = "none" /\ stop' = stop
      BY <1>0, <2>1, <2>2 DEF StopHolds
    <3> QED BY <1>0, <2>2, <2>4, <3>1 DEF StopHolds
  <2>9. FenceHolds(row', stop', runner')
    BY <2>4 DEF FenceHolds
  <2>10. PassHolds(ctl', row', stop', pod', runner')
    BY <2>1, <2>2 DEF StopInv, PassHolds
  <2> QED BY <1>0, <1>a, <2>1, <2>5, <2>6, <2>7, <2>8, <2>9, <2>10 DEF StopInv
<1>2. ASSUME PodStarts PROVE StopInv'
  <2>1. /\ Others /\ row' = row /\ pod.phase = "pending" /\ pod' = [pod EXCEPT !.phase = "running"]
        /\ \E native \in Natives : StartsAs(native)
    BY <1>2 DEF PodStarts, accountVars, apiVars, Natives
  <2>2. /\ runner' \in [native : Natives, turn : BOOLEAN, drained : Drains]
        /\ ~runner'.turn /\ runner'.drained = "no" /\ MessageHolds(msg, mapping')
    BY <2>1, StartsAsSound
  <2>3. pod \in [uid : Nat \ {0}, phase : PodPhases, deleting : BOOLEAN]
    BY <1>p, <2>1 DEF PodObjects
  <2>4. pod' \in [uid : Nat \ {0}, phase : PodPhases, deleting : BOOLEAN] /\ pod'.uid = pod.uid /\ pod'.phase = "running"
    BY <2>1, <2>3 DEF PodPhases
  <2>5. PodHolds(row, pod')
    BY <1>p, <2>1, <2>4 DEF PodHolds, PodObjects
  <2>6. RunnerHolds(pod', runner')
    BY <2>2 DEF RunnerHolds
  <2> QED BY <1>a, <1>p, <2>1, <2>2, <2>4, <2>5, <2>6, PodMoves
<1>3. ASSUME Supplied PROVE StopInv'
  <2>1. /\ Others /\ UNCHANGED << row, pod >> /\ pod.phase = "running" /\ runner.drained = "no" /\ ~runner.turn
    BY <1>3 DEF Supplied, accountVars, apiVars
  <2>2. /\ runner' \in [native : Natives, turn : BOOLEAN, drained : Drains]
        /\ ~runner'.turn /\ runner'.drained = "no" /\ MessageHolds(msg', mapping')
    <3>1. CASE runner.native = "blocked"
      <4>1. runner' = [runner EXCEPT !.native = "up"] /\ mapping' = mapping
        BY <1>3, <3>1 DEF Supplied
      <4> QED BY <1>0, <2>1, <4>1 DEF RunnerHolds, Natives
    <3>2. CASE runner.native # "blocked"
      <4>1. (StartsAs("up") \/ StartsAs("down")) /\ "up" \in Natives /\ "down" \in Natives
        BY <1>3, <3>2 DEF Supplied, Natives
      <4> QED BY <2>1, <4>1, StartsAsSound
    <3> QED BY <3>1, <3>2
  <2>3. RunnerHolds(pod, runner') /\ FenceHolds(row, stop, runner')
    BY <2>2 DEF RunnerHolds, FenceHolds
  <2> QED BY <1>a, <2>1, <2>2, <2>3, RunnerMoves
<1>4. ASSUME NEW native \in Natives, LosesNative(native) PROVE StopInv'
  <2>1. /\ Others /\ UNCHANGED << row, pod, mapping >> /\ pod.phase = "running" /\ runner.drained = "no"
        /\ runner' = [runner EXCEPT !.native = native] /\ native \in {"blocked", "exited", "blocked_exited"}
    BY <1>4 DEF LosesNative, accountVars, apiVars
  <2>2. /\ runner' \in [native : Natives, turn : BOOLEAN, drained : Drains]
        /\ runner'.turn = runner.turn /\ runner'.drained = "no" /\ runner'.native = native
    BY <1>0, <2>1 DEF RunnerHolds
  <2>3. RunnerHolds(pod, runner')
    BY <2>1, <2>2 DEF RunnerHolds
  <2>4. FenceHolds(row, stop, runner')
    BY <2>2 DEF StopInv, FenceHolds
  <2> QED BY <1>0, <1>a, <2>1, <2>3, <2>4, RunnerMoves
<1>5. ASSUME FinishTurn PROVE StopInv'
  <2>1. /\ Others /\ UNCHANGED << row, pod >> /\ runner.turn /\ runner' = [runner EXCEPT !.turn = FALSE]
        /\ \E state \in {"idle", "failed"} : mapping' = [mapping EXCEPT !.state = state]
    BY <1>5 DEF FinishTurn, accountVars, apiVars
  <2>2. /\ runner' \in [native : Natives, turn : BOOLEAN, drained : Drains]
        /\ ~runner'.turn /\ runner'.drained = runner.drained
    BY <1>0, <2>1 DEF RunnerHolds
  <2>3. RunnerHolds(pod, runner') /\ FenceHolds(row, stop, runner')
    BY <1>0, <2>2 DEF RunnerHolds, FenceHolds
  <2>4. MessageHolds(msg', mapping')
    BY <1>0, <2>1 DEF MessageHolds
  <2> QED BY <1>a, <2>1, <2>2, <2>3, <2>4, RunnerMoves
<1>6. ASSUME PodDies \/ DeletionCompletes PROVE StopInv'
  <2>1. /\ Others /\ UNCHANGED << row, mapping >> /\ runner' = Fresh
        /\ pod # NoObject /\ pod' \in {[pod EXCEPT !.phase = "dead"], NoObject}
    BY <1>6, <1>p, ObjectSound DEF PodDies, DeletionCompletes, accountVars, apiVars
  <2>2. PodHolds(row, pod') /\ pod'.phase \in {"dead", "none"}
    <3>1. CASE pod' = NoObject
      BY <3>1 DEF PodHolds, PodObjects, NoObject
    <3>2. CASE pod' = [pod EXCEPT !.phase = "dead"]
      <4>1. pod \in [uid : Nat \ {0}, phase : PodPhases, deleting : BOOLEAN]
        BY <1>p, <2>1 DEF PodObjects
      <4>2. /\ pod' \in [uid : Nat \ {0}, phase : PodPhases, deleting : BOOLEAN]
            /\ pod'.uid = pod.uid /\ pod'.phase = "dead"
        BY <3>2, <4>1 DEF PodPhases
      <4> QED BY <1>p, <2>1, <4>2 DEF PodHolds, PodObjects
    <3> QED BY <2>1, <3>1, <3>2
  <2>3. RunnerHolds(pod', runner') /\ ~runner'.turn
    BY <1>f, <2>1 DEF RunnerHolds
  <2> QED BY <1>0, <1>a, <2>1, <2>2, <2>3, PodMoves
<1> QED BY <1>1, <1>2, <1>3, <1>4, <1>5, <1>6 DEF PodStep

(* A step of the pass in which it takes another point of the same          *)
(* generation.                                                             *)
LEMMA PassGoesOn ==
  ASSUME StopInv, NEW pc \in CtlPcs, ctl.pc # "idle",
         ctl' \in Passes, ctl'.pc = pc, ctl'.obj = ctl.obj,
         pc \in {"quiet", "stopping", "asked", "answered", "delete"} => ctl'.gen = row.gen,
         pc \in {"asked", "answered", "delete"} => ctl.obj # NoObject,
         ctl'.receipt # "none" => stop.receipt # "none",
         pc = "delete" => stop.receipt # "none",
         pc = "answered" => pod.phase \in {"dead", "none"} \/ runner.drained # "no"
  PROVE  PassHolds(ctl', row, stop, pod, runner)
  BY DEF StopInv, PassHolds

(* The pass of the resident controller.                                    *)
LEMMA ControllerStepHolds == ASSUME StopInv, Look \/ ControllerWork \/ EndPass PROVE StopInv'
<1>0. /\ RowHolds(row) /\ StopHolds(row, stop) /\ PodHolds(row, pod) /\ RunnerHolds(pod, runner)
      /\ MessageHolds(msg, mapping) /\ AccountTyped
      /\ ctl \in Passes /\ row.gen \in Nat /\ pod \in PodObjects
  BY DEF StopInv, RowHolds, PassHolds, Row, Rows, PodHolds
<1>t. /\ ctl.pc \in CtlPcs /\ ctl.obj \in PodObjects /\ ctl.gen \in Nat /\ ctl.receipt \in Receipts \cup {"none"}
      /\ ctl.failure \in BOOLEAN /\ ctl.answer \in Drains
  BY <1>0 DEF Passes
<1>s. stop.receipt \in Receipts \cup {"none"}
  BY <1>0 DEF StopHolds
<1>i. Idle \in Passes /\ Idle.pc = "idle" /\ Idle.receipt = "none"
  BY DEF Idle, Passes, CtlPcs, PodObjects, Drains
<1>x. ASSUME NEW c, c = Idle, NEW r, NEW s, NEW p, NEW n PROVE PassHolds(c, r, s, p, n)
  BY <1>i, <1>x DEF PassHolds
<1>l. ctl.pc # "idle" =>
        /\ row.pod # NoPod
        /\ ctl.obj = NoObject => pod = NoObject
        /\ ctl.obj # NoObject => ctl.obj.uid = row.pod
        /\ Dead(ctl.obj) => pod.phase \in {"dead", "none"}
        /\ ctl.receipt # "none" => stop.receipt # "none"
  BY DEF StopInv, PassHolds
<1>g. ctl.pc \in {"quiet", "stopping", "asked", "answered", "delete"} => ctl.gen = row.gen
  BY DEF StopInv, PassHolds
<1> DEFINE Others == UNCHANGED << row, pod, runner, msg, mapping, receipts, entries, sessions, eligible, rested,
                                  op, conv, turns >>
<1>a. ASSUME Others PROVE AccountTyped'
  BY <1>0, <1>a DEF AccountTyped
<1>1. ASSUME Look PROVE StopInv'
  <2>1. Others /\ stop' = stop /\ ctl' = [Idle EXCEPT !.pc = "looked", !.obj = pod] /\ row.pod # NoPod
    BY <1>0, <1>1 DEF Look, ctlOnly, accountVars, apiVars, podVars, Stoppable, StopHolds
  <2>2. ctl' \in Passes /\ ctl'.pc = "looked" /\ ctl'.obj = pod /\ ctl'.receipt = "none"
    BY <1>0, <2>1 DEF Idle, Passes, CtlPcs, Drains, Receipts
  <2>3. pod # NoObject => pod.uid = row.pod
    BY <1>0 DEF PodHolds
  <2>4. PassHolds(ctl', row, stop, pod, runner)
    BY <2>1, <2>2, <2>3 DEF PassHolds, Dead
  <2> QED BY <1>0, <1>a, <2>1, <2>4, PassMoves
<1>2. ASSUME EndPass PROVE StopInv'
  <2>1. Others /\ stop' = stop /\ ctl' = Idle
    BY <1>2 DEF EndPass, ctlOnly, accountVars, apiVars, podVars
  <2>2. PassHolds(ctl', row, stop, pod, runner)
    BY <1>x, <2>1
  <2> QED BY <1>0, <1>a, <2>1, <2>2, PassMoves
<1>3. ASSUME FindStop \/ StopDead \/ RequestIdleStop PROVE StopInv'
  <2>1. Others /\ ctl.pc \in {"looked", "quiet"} /\ stop' \in {stop, OpenStop}
    BY <1>3 DEF FindStop, StopDead, RequestIdleStop, Known, ctlOnly, accountVars, apiVars, podVars
  <2>2. StopHolds(row, stop') /\ stop'.receipt = stop.receipt
    BY <1>0, <1>l, <2>1, OpenStopHolds
  <2>3. /\ ctl' \in Passes /\ ctl'.pc = "stopping" /\ ctl'.obj = ctl.obj
        /\ ctl'.receipt \in {ctl.receipt, stop.receipt} /\ ctl'.gen = row.gen
    <3>1. CASE FindStop
      <4>1. ctl' = [ctl EXCEPT !.pc = "stopping", !.gen = row.gen, !.receipt = stop.receipt]
        BY <3>1 DEF FindStop
      <4> QED BY <1>0, <1>s, <4>1 DEF Passes, CtlPcs
    <3>2. CASE StopDead
      <4>1. ctl' = [ctl EXCEPT !.pc = "stopping", !.gen = row.gen]
        BY <3>2 DEF StopDead
      <4> QED BY <1>0, <4>1 DEF Passes, CtlPcs
    <3>3. CASE RequestIdleStop
      <4>1. ctl' = [ctl EXCEPT !.pc = "stopping", !.gen = row.gen, !.receipt = stop.receipt]
        BY <2>2, <3>3 DEF RequestIdleStop
      <4> QED BY <1>0, <1>s, <4>1 DEF Passes, CtlPcs
    <3> QED BY <1>3, <3>1, <3>2, <3>3
  <2>4. PassHolds(ctl', row, stop, pod, runner)
    BY <1>l, <2>1, <2>3, PassGoesOn DEF CtlPcs
  <2> QED BY <1>0, <1>a, <2>1, <2>2, <2>4, PassMoves
<1>4. ASSUME AskIdle \/ AskHealth \/ SkipToDelete PROVE StopInv'
  <2>1. Others /\ stop' = stop /\ ctl.pc # "idle"
    BY <1>4 DEF AskIdle, AskHealth, SkipToDelete, Known, Present, ctlOnly, accountVars, apiVars, podVars
  <2>2. PassHolds(ctl', row, stop, pod, runner)
    <3>1. CASE AskIdle
      <4>1. ctl' = [ctl EXCEPT !.pc = "quiet", !.gen = row.gen]
        BY <3>1 DEF AskIdle
      <4>2. ctl' \in Passes /\ ctl'.pc = "quiet" /\ ctl'.obj = ctl.obj /\ ctl'.receipt = ctl.receipt /\ ctl'.gen = row.gen
        BY <1>0, <4>1 DEF Passes, CtlPcs
      <4> QED BY <1>l, <2>1, <4>2, PassGoesOn DEF CtlPcs
    <3>2. CASE AskHealth
      <4>1. ctl' = [ctl EXCEPT !.pc = "asked", !.failure = (runner.native = "down")] /\ ctl.obj # NoObject /\ ctl.pc = "stopping"
        BY <3>2 DEF AskHealth, Present
      <4>2. ctl' \in Passes /\ ctl'.pc = "asked" /\ ctl'.obj = ctl.obj /\ ctl'.receipt = ctl.receipt /\ ctl'.gen = ctl.gen
        BY <1>0, <4>1 DEF Passes, CtlPcs
      <4> QED BY <1>g, <1>l, <2>1, <4>1, <4>2, PassGoesOn DEF CtlPcs
    <3>3. CASE SkipToDelete
      <4>1. /\ ctl' = [ctl EXCEPT !.pc = "delete"] /\ ctl.obj # NoObject /\ ctl.pc = "stopping"
            /\ ctl.receipt # "none"
        BY <3>3 DEF SkipToDelete, Present
      <4>2. ctl' \in Passes /\ ctl'.pc = "delete" /\ ctl'.obj = ctl.obj /\ ctl'.receipt = ctl.receipt /\ ctl'.gen = ctl.gen
        BY <1>0, <4>1 DEF Passes, CtlPcs
      <4> QED BY <1>g, <1>l, <2>1, <4>1, <4>2, PassGoesOn DEF CtlPcs
    <3> QED BY <1>4, <3>1, <3>2, <3>3
  <2> QED BY <1>0, <1>a, <2>1, <2>2, PassMoves
<1>5. ASSUME Drain PROVE StopInv'
  <2>1. PICK answer \in DrainAnswers : /\ StoreDrain(answer)
                                       /\ ctl' = [ctl EXCEPT !.pc = "answered", !.answer = answer]
    BY <1>5 DEF Drain
  <2>2. /\ UNCHANGED << row, stop, pod, msg, mapping, receipts, entries, sessions, eligible, rested, op, conv, turns >>
        /\ ctl.pc = "asked" /\ pod.phase = "running"
    BY <1>5 DEF Drain, accountVars, apiVars, Answers
  <2>3. RunnerHolds(pod, runner') /\ FenceHolds(row, stop, runner') /\ runner'.drained # "no"
    BY <2>1, <2>2, DrainStored
  <2>4. answer \in Drains
    BY DrainAnswersSound
  <2>5. ctl' \in Passes /\ ctl'.pc = "answered" /\ ctl'.obj = ctl.obj /\ ctl'.receipt = ctl.receipt /\ ctl'.gen = ctl.gen
    BY <1>0, <2>1, <2>4 DEF Passes, CtlPcs
  <2>6. ctl.obj # NoObject
    BY <2>2 DEF StopInv, PassHolds
  <2>7. PassHolds(ctl', row, stop, pod, runner')
    BY <1>g, <1>l, <2>2, <2>3, <2>5, <2>6 DEF PassHolds
  <2>8. AccountTyped'
    BY <1>0, <2>2 DEF AccountTyped
  <2> QED BY <1>0, <2>2, <2>3, <2>7, <2>8 DEF StopInv
<1>6. ASSUME AcceptTerminal \/ AcceptDrain \/ AcceptUnavailable PROVE StopInv'
  <2>1. /\ UNCHANGED << pod, runner, msg, mapping, receipts, entries, sessions, eligible, rested, op, turns >>
        /\ ctl.pc \in {"stopping", "answered"} /\ ctl.obj # NoObject
        /\ ctl' = [ctl EXCEPT !.pc = "delete"] /\ conv' \in {conv, Failed}
    <3>1. ctl.pc = "answered" => ctl.obj # NoObject
      BY DEF StopInv, PassHolds
    <3> QED BY <1>6, <3>1 DEF AcceptTerminal, AcceptDrain, AcceptUnavailable, Present, Closed, accountVars, apiVars, podVars
  <2>2. PICK receipt \in Receipts \ {"operator"} : Record(receipt) /\ Acceptable(row.gen)
    <3>1. ctl.gen = row.gen
      BY <1>g, <2>1
    <3> QED BY <1>6, <3>1 DEF AcceptTerminal, AcceptDrain, AcceptUnavailable, Receipts
  <2>3. ~runner.turn
    <3>1. CASE AcceptTerminal
      BY <1>0, <1>l, <2>1, <3>1 DEF AcceptTerminal, RunnerHolds
    <3>2. CASE ctl.pc = "answered"
      <4>1. pod.phase \in {"dead", "none"} \/ runner.drained # "no"
        BY <3>2 DEF StopInv, PassHolds
      <4> QED BY <1>0, <4>1 DEF RunnerHolds
    <3> QED BY <1>6, <3>1, <3>2 DEF AcceptDrain, AcceptUnavailable
  <2>4. /\ RowHolds(row') /\ StopHolds(row', stop') /\ PodHolds(row', pod)
        /\ FenceHolds(row', stop', runner)
        /\ row'.pod = row.pod /\ row'.gen = row.gen
        /\ stop'.receipt # "none"
    BY <2>2, <2>3, Recorded
  <2>5. ctl' \in Passes /\ ctl'.pc = "delete" /\ ctl'.obj = ctl.obj /\ ctl'.receipt = ctl.receipt /\ ctl'.gen = ctl.gen
    BY <1>0, <2>1 DEF Passes, CtlPcs
  <2>6. PassHolds(ctl', row', stop', pod, runner)
    BY <1>g, <1>l, <2>1, <2>4, <2>5 DEF PassHolds
  <2>7. AccountTyped'
    BY <1>0, <2>1 DEF AccountTyped, Failed
  <2> QED BY <1>0, <2>1, <2>4, <2>6, <2>7 DEF StopInv
<1>7. ASSUME DeletePod PROVE StopInv'
  <2>1. /\ UNCHANGED << row, stop, runner, msg, mapping, receipts, entries, sessions, eligible, rested, op, conv, turns >>
        /\ ctl' = Idle /\ ctl.pc = "delete"
        /\ pod' = IF pod.uid = ctl.obj.uid THEN [pod EXCEPT !.deleting = TRUE] ELSE pod
    BY <1>7 DEF DeletePod, accountVars, apiVars
  <2>2. ctl.obj # NoObject
    BY <2>1 DEF StopInv, PassHolds
  <2>3. PodHolds(row, pod') /\ pod'.phase = pod.phase
    <3>1. CASE pod.uid = ctl.obj.uid
      <4>1. pod # NoObject
        <5>1. ctl.obj.uid # 0
          BY <1>t, <2>2, ObjectSound
        <5> QED BY <3>1, <5>1 DEF NoObject
      <4>2. pod \in [uid : Nat \ {0}, phase : PodPhases, deleting : BOOLEAN]
        BY <1>0, <4>1 DEF PodObjects
      <4>3. /\ pod' \in [uid : Nat \ {0}, phase : PodPhases, deleting : BOOLEAN]
            /\ pod'.uid = pod.uid /\ pod'.phase = pod.phase
        BY <2>1, <3>1, <4>2
      <4> QED BY <1>0, <4>1, <4>3 DEF PodHolds, PodObjects
    <3>2. CASE pod.uid # ctl.obj.uid
      BY <1>0, <2>1, <3>2
    <3> QED BY <3>1, <3>2
  <2>4. RunnerHolds(pod', runner')
    BY <1>0, <2>1, <2>3 DEF RunnerHolds
  <2>5. PassHolds(ctl', row', stop', pod', runner')
    BY <1>x, <2>1
  <2>6. AccountTyped'
    BY <1>0, <2>1 DEF AccountTyped
  <2> QED BY <1>0, <2>1, <2>3, <2>4, <2>5, <2>6 DEF StopInv
<1>8. ASSUME Release PROVE StopInv'
  <2> DEFINE dead  == ctl.receipt = "none" /\ stop.receipt = "none"
             freed == Stopped(IF dead THEN Drained(row) ELSE row)
  <2>1. /\ UNCHANGED << pod, runner, msg, mapping, entries, sessions, eligible, op, turns >>
        /\ ctl' = Idle /\ stop' = NoStop /\ pod = NoObject /\ ctl.pc = "stopping"
        /\ Acceptable(ctl.gen)
        /\ dead \/ row.phase = "stopping"
        /\ row' = IF Honoured = {} THEN freed ELSE Entered(freed)
        /\ conv' \in {conv, Failed} /\ receipts' = receipts \cup Honoured /\ rested' = (rested /\ Honoured = {})
    BY <1>8 DEF Release, Absent, Closed, podVars
  <2>2. Row(freed) /\ freed.pod = NoPod /\ freed.gen = row.gen /\ freed.phase = "idle_stopped"
    <3>1. CASE dead
      <4>1. row.phase \in Live /\ Row(row)
        BY <1>0, <2>1, <3>1 DEF Acceptable, StopHolds, RowHolds
      <4>2. Row(Drained(row)) /\ Drained(row).phase = "stopping" /\ Drained(row).gen = row.gen
        BY <4>1, DrainedSound
      <4> QED BY <3>1, <4>2, StoppedSound
    <3>2. CASE ~dead
      BY <1>0, <2>1, <3>2, StoppedSound DEF RowHolds
    <3> QED BY <3>1, <3>2
  <2> HIDE DEF freed
  <2>3. CanEnter(freed)
    BY <2>2 DEF CanEnter, Row, WellFormed, NoPod
  <2>4. Row(Entered(freed)) /\ Entered(freed).pod = NoPod /\ Entered(freed).phase = "provisioning"
    BY <2>2, <2>3, EnteredSound DEF StartsGeneration, Creating
  <2>5. Row(row') /\ row'.pod = NoPod /\ row'.phase \in {"idle_stopped", "provisioning"}
    BY <2>1, <2>2, <2>4
  <2>6. RowHolds(row')
    BY <2>5 DEF RowHolds
  <2>7. StopHolds(row', stop')
    BY <2>1, <2>5 DEF StopHolds, NoStop
  <2>8. PodHolds(row', pod')
    BY <1>0, <2>1 DEF PodHolds
  <2>9. FenceHolds(row', stop', runner')
    BY <2>5 DEF FenceHolds
  <2>10. PassHolds(ctl', row', stop', pod', runner')
    BY <1>x, <2>1
  <2>11. AccountTyped'
    <3>1. Honoured \subseteq Keys
      BY DEF Honoured
    <3>2. rested' \in BOOLEAN
      BY <2>1
    <3> QED BY <1>0, <2>1, <3>1, <3>2 DEF AccountTyped, Failed
  <2> QED BY <1>0, <2>1, <2>6, <2>7, <2>8, <2>9, <2>10, <2>11 DEF StopInv
<1> QED BY <1>1, <1>2, <1>3, <1>4, <1>5, <1>6, <1>7, <1>8 DEF ControllerWork

(* The operator's reclaim, which may outlive the generation that it began  *)
(* in: what it decides then is checked against the row again.              *)
LEMMA OperatorStepHolds == ASSUME StopInv, OperatorWork \/ OpEnds PROVE StopInv'
<1>0. /\ RowHolds(row) /\ StopHolds(row, stop) /\ PodHolds(row, pod) /\ RunnerHolds(pod, runner)
      /\ MessageHolds(msg, mapping) /\ AccountTyped
      /\ row.gen \in Nat /\ op \in [pc : OpPcs, gen : Nat]
  BY DEF StopInv, RowHolds, Row, Rows, AccountTyped
<1>1. ASSUME OpObserve \/ OpRequest \/ OpEnds PROVE StopInv'
  <2>1. UNCHANGED << row, pod, runner, msg, mapping, ctl, receipts, entries, sessions, eligible, rested, conv, turns >>
    BY <1>1 DEF OpObserve, OpRequest, OpEnds, accountVars, apiVars, podVars
  <2>2. StopHolds(row, stop') /\ stop'.receipt = stop.receipt
    BY <1>0, <1>1, OpenStopHolds DEF OpObserve, OpRequest, OpEnds, Stoppable
  <2>3. op' \in [pc : OpPcs, gen : Nat]
    BY <1>0, <1>1 DEF OpObserve, OpRequest, OpEnds, OpIdle, OpPcs
  <2>4. AccountTyped'
    BY <1>0, <2>1, <2>3 DEF AccountTyped
  <2> QED BY <2>1, <2>2, <2>4, AccountMoves
<1>2. ASSUME OpDrain PROVE StopInv'
  <2>1. /\ UNCHANGED << row, stop, pod, ctl, msg, mapping, receipts, entries, sessions, eligible, rested, conv, turns >>
        /\ pod.phase = "running" /\ op' \in {OpIdle, [op EXCEPT !.pc = "refused"]}
        /\ runner' = runner \/ \E answer \in DrainAnswers : StoreDrain(answer)
    BY <1>2 DEF OpDrain, accountVars, apiVars, Answers
  <2>2. RunnerHolds(pod, runner') /\ FenceHolds(row, stop, runner') /\ (runner.drained # "no" => runner'.drained # "no")
    <3>1. CASE runner' = runner
      BY <1>0, <3>1 DEF StopInv
    <3>2. CASE \E answer \in DrainAnswers : StoreDrain(answer)
      BY <2>1, <3>2, DrainStored
    <3> QED BY <2>1, <3>1, <3>2
  <2>3. op' \in [pc : OpPcs, gen : Nat]
    BY <1>0, <2>1 DEF OpIdle, OpPcs
  <2>4. AccountTyped'
    BY <1>0, <2>1, <2>3 DEF AccountTyped
  <2> QED BY <1>0, <2>1, <2>2, <2>4, RunnerMoves
<1>3. ASSUME OpAccept PROVE StopInv'
  <2>1. /\ UNCHANGED << pod, runner, msg, mapping, ctl, receipts, entries, sessions, eligible, rested, turns >>
        /\ op' = OpIdle /\ conv' = Failed /\ Record("operator") /\ Acceptable(row.gen)
    BY <1>3 DEF OpAccept, Closed, Acceptable, accountVars, podVars
  <2>2. /\ RowHolds(row') /\ StopHolds(row', stop') /\ PodHolds(row', pod)
        /\ FenceHolds(row', stop', runner)
        /\ row'.pod = row.pod /\ row'.gen = row.gen
        /\ stop'.receipt # "none"
    BY <2>1, Recorded DEF Receipts
  <2>3. PassHolds(ctl, row', stop', pod, runner)
    BY <2>2 DEF StopInv, PassHolds
  <2>4. op' \in [pc : OpPcs, gen : Nat]
    BY <2>1 DEF OpIdle, OpPcs
  <2>5. AccountTyped'
    BY <1>0, <2>1, <2>4 DEF AccountTyped, Failed
  <2> QED BY <1>0, <2>1, <2>2, <2>3, <2>5 DEF StopInv
<1> QED BY <1>1, <1>2, <1>3 DEF OperatorWork

-----------------------------------------------------------------------------
(* What follows for a runner                                               *)

LEMMA StopInit == Init => StopInv
<1> SUFFICES ASSUME Init PROVE StopInv
  OBVIOUS
<1> USE DEF Init
<1>1. RowHolds(row)
  BY NewRowSound DEF RowHolds, NewRow
<1>2. StopHolds(row, stop)
  BY DEF StopHolds, NoStop, NewRow
<1>3. PodHolds(row, pod)
  BY DEF PodHolds, PodObjects
<1>4. RunnerHolds(pod, runner) /\ FenceHolds(row, stop, runner)
  BY DEF RunnerHolds, FenceHolds, Fresh, Natives, Drains
<1>5. PassHolds(ctl, row, stop, pod, runner)
  BY DEF PassHolds, Idle, Passes, CtlPcs, PodObjects, Drains
<1>6. MessageHolds(msg, mapping)
  BY DEF MessageHolds, MsgPcs
<1>7. AccountTyped
  BY DEF AccountTyped, OpIdle, OpPcs
<1> QED BY <1>1, <1>2, <1>3, <1>4, <1>5, <1>6, <1>7 DEF StopInv

LEMMA StopStep == StopInv /\ [Next]_vars => StopInv'
<1>1. ASSUME StopInv, UNCHANGED vars PROVE StopInv'
  BY <1>1 DEF vars, accountVars, apiVars, podVars, StopInv, AccountTyped
<1> QED BY <1>1, ApiStepHolds, MessageStepHolds, PodStepHolds, ControllerStepHolds, OperatorStepHolds DEF Next

(* What a native left on the volume stays there: no step removes its home. *)
LEMMA HomeStays ==
  ASSUME [Next]_vars
  PROVE  home' = home \/ home' = TRUE
<1>1. ASSUME NEW native, StartsAs(native) PROVE home' = home \/ home' = TRUE
  BY <1>1 DEF StartsAs
<1>2. PodStep => home' = home \/ home' = TRUE
  BY <1>1 DEF PodStep, CreatePod, PodStarts, Supplied, LosesNative, FinishTurn, PodDies, DeletionCompletes
<1>3. ApiStep \/ MessageStep => home' = home
  BY DEF ApiStep, Prepare, QueueEntry, RequestStop, Logout, SessionExpires, Login, ChangeMembership, Rest, MessageStep,
         CheckMessage, CommitMessage, Preflight, Submit, SubmitRefusedLocally, SubmitAccepted, SubmitRejected,
         SubmitLost, ApiCrash, Refresh, podVars
<1>4. Look \/ EndPass \/ ControllerWork => home' = home
  BY DEF Look, EndPass, ControllerWork, FindStop, StopDead, AskIdle, RequestIdleStop, SkipToDelete, AcceptTerminal,
         AskHealth, Drain, AcceptDrain, AcceptUnavailable, DeletePod, Release, ctlOnly, podVars
<1>5. OperatorWork \/ OpEnds => home' = home
  BY DEF OperatorWork, OpObserve, OpRequest, OpDrain, OpAccept, OpEnds, podVars
<1> QED BY <1>2, <1>3, <1>4, <1>5 DEF Next, vars, podVars

(* What the invariant says in the words of the module.                     *)
LEMMA StopFollows == StopInv /\ home \in BOOLEAN => TypeOK /\ PodIsBound /\ FencedRunnerIsQuiet
<1> SUFFICES ASSUME StopInv, home \in BOOLEAN PROVE TypeOK /\ PodIsBound /\ FencedRunnerIsQuiet
  OBVIOUS
<1> USE DEF StopInv
<1>1. PodIsBound /\ FencedRunnerIsQuiet
  BY DEF PodHolds, PodIsBound, FenceHolds, FencedRunnerIsQuiet
<1>2. PodObjects \subseteq [uid : Nat, phase : PodPhases, deleting : BOOLEAN] \cup {NoObject}
  BY DEF PodObjects
<1>3. ctl \in [pc : CtlPcs, obj : [uid : Nat, phase : PodPhases \cup {"none"}, deleting : BOOLEAN],
               gen : Nat, receipt : Receipts \cup {"none"}, failure : BOOLEAN, answer : Drains]
  <2>1. PodObjects \subseteq [uid : Nat, phase : PodPhases \cup {"none"}, deleting : BOOLEAN]
    <3>1. NoObject \in [uid : Nat, phase : PodPhases \cup {"none"}, deleting : BOOLEAN]
      BY DEF NoObject
    <3>2. [uid : Nat \ {0}, phase : PodPhases, deleting : BOOLEAN]
            \subseteq [uid : Nat, phase : PodPhases \cup {"none"}, deleting : BOOLEAN]
      OBVIOUS
    <3> QED BY <3>1, <3>2 DEF PodObjects
  <2> QED BY <2>1 DEF PassHolds, Passes
<1>4. TypeOK
  BY <1>2, <1>3 DEF TypeOK, RowHolds, Row, StopHolds, PodHolds, RunnerHolds, MessageHolds, AccountTyped
<1> QED BY <1>1, <1>4

(* A step that begins a deletion is DeletePod's.                           *)
LEMMA DeletionStep ==
  ASSUME StopInv, Next, ~pod.deleting, pod'.deleting
  PROVE  /\ row.phase = "stopping" /\ stop.receipt # "none" /\ row.pod = pod.uid
         /\ runner.turn => stop.receipt = "operator"
<1>0. pod \in PodObjects /\ StopHolds(row, stop) /\ PodHolds(row, pod)
  BY DEF StopInv, PodHolds
<1>1. CASE DeletePod
  <2>1. ctl.pc = "delete" /\ pod.uid = ctl.obj.uid
    BY <1>1 DEF DeletePod
  <2>2. ctl.obj # NoObject /\ ctl.obj \in PodObjects /\ ctl.obj.uid = row.pod /\ stop.receipt # "none"
    BY <2>1 DEF StopInv, PassHolds, Passes
  <2>3. row.phase = "stopping"
    BY <1>0, <2>2 DEF StopHolds
  <2> QED BY <2>1, <2>2, <2>3 DEF StopInv, FenceHolds
<1>2. ~CreatePod /\ ~PodDies /\ ~DeletionCompletes /\ ~PodStarts
  <2>1. CreatePod => ~pod'.deleting
    BY DEF CreatePod
  <2>2. DeletionCompletes => ~pod'.deleting
    BY DEF DeletionCompletes, NoObject
  <2>3. pod # NoObject => pod \in [uid : Nat \ {0}, phase : PodPhases, deleting : BOOLEAN]
    BY <1>0 DEF PodObjects
  <2>4. PodDies => ~pod'.deleting
    BY <2>3 DEF PodDies, NoObject
  <2>5. PodStarts => ~pod'.deleting
    BY <2>3 DEF PodStarts, NoObject
  <2> QED BY <2>1, <2>2, <2>4, <2>5
<1>3. pod' = pod \/ DeletePod
  <2>1. ApiStep => pod' = pod
    BY DEF ApiStep, Prepare, QueueEntry, RequestStop, Logout, SessionExpires, Login, ChangeMembership, Rest, podVars
  <2>2. MessageStep => pod' = pod
    BY DEF MessageStep, CheckMessage, CommitMessage, Preflight, Submit, SubmitRefusedLocally, SubmitAccepted,
           SubmitRejected, SubmitLost, ApiCrash, Refresh, podVars
  <2>3. PodStep => pod' = pod
    BY <1>2 DEF PodStep, Supplied, LosesNative, FinishTurn
  <2>4. Look \/ EndPass \/ ControllerWork => pod' = pod \/ DeletePod
    BY DEF Look, EndPass, ControllerWork, FindStop, StopDead, AskIdle, RequestIdleStop, SkipToDelete, AcceptTerminal,
           AskHealth, Drain, AcceptDrain, AcceptUnavailable, Release, ctlOnly, podVars
  <2>5. OperatorWork \/ OpEnds => pod' = pod
    BY DEF OperatorWork, OpObserve, OpRequest, OpDrain, OpAccept, OpEnds, podVars
  <2> QED BY <2>1, <2>2, <2>3, <2>4, <2>5 DEF Next
<1> QED BY <1>1, <1>3

(* The runner is at rest wherever a conversation is failed without a       *)
(* person: the message path fails one that the runner does not know, a     *)
(* refresh one that it has ended, the controller one whose runner is dead  *)
(* or drained.                                                             *)
LEMMA LostStep ==
  ASSUME StopInv, Next, conv = "running", conv' = "failed", runner.turn, mapping.current
  PROVE  op.pc = "refused"
<1>0. RunnerHolds(pod, runner) /\ MessageHolds(msg, mapping)
  BY DEF StopInv
<1>1. ~ApiStep
  BY DEF ApiStep, Prepare, QueueEntry, RequestStop, Logout, SessionExpires, Login, ChangeMembership, Rest, apiVars
<1>2. ~MessageStep
  BY <1>0 DEF MessageStep, CheckMessage, CommitMessage, Preflight, Submit, SubmitRefusedLocally, SubmitAccepted,
              SubmitRejected, SubmitLost, ApiCrash, Refresh, MessageHolds
<1>3. ~PodStep
  BY DEF PodStep, CreatePod, PodStarts, Supplied, LosesNative, FinishTurn, PodDies, DeletionCompletes, apiVars
<1>4. ~Look /\ ~EndPass /\ ~ControllerWork
  <2>1. ~AcceptTerminal /\ ~Release
    <3>1. ctl.pc # "idle" /\ Dead(ctl.obj) => pod.phase \in {"dead", "none"}
      BY DEF StopInv, PassHolds
    <3>2. ctl.pc # "idle" => ~Dead(ctl.obj)
      BY <1>0, <3>1 DEF RunnerHolds
    <3> QED BY <3>2 DEF AcceptTerminal, Release, Present, Absent, Dead, NoObject
  <2>2. ctl.pc # "answered"
    <3>1. ctl.pc = "answered" => pod.phase \in {"dead", "none"} \/ runner.drained # "no"
      BY DEF StopInv, PassHolds
    <3> QED BY <1>0, <3>1 DEF RunnerHolds
  <2>3. ~AcceptDrain /\ ~AcceptUnavailable
    BY <2>2 DEF AcceptDrain, AcceptUnavailable
  <2>4. Look \/ EndPass \/ FindStop \/ StopDead \/ AskIdle \/ RequestIdleStop \/ SkipToDelete \/ AskHealth \/ Drain
          \/ DeletePod => conv' = conv
    BY DEF Look, EndPass, FindStop, StopDead, AskIdle, RequestIdleStop, SkipToDelete, AskHealth, Drain, DeletePod,
           ctlOnly, apiVars
  <2> QED BY <2>1, <2>3, <2>4 DEF ControllerWork
<1>5. OperatorWork \/ OpEnds => op.pc = "refused"
  BY DEF OperatorWork, OpObserve, OpRequest, OpDrain, OpAccept, OpEnds, apiVars
<1> QED BY <1>1, <1>2, <1>3, <1>4, <1>5 DEF Next

(* Who writes the stop: it is opened, given its first receipt, or closed.  *)
LEMMA ReceiptStep ==
  ASSUME StopInv, Next, stop.receipt # "none"
  PROVE  stop'.receipt = stop.receipt \/ stop' = NoStop
<1>0. stop.open
  BY DEF StopInv, StopHolds
<1>1. OpenStop = stop
  BY <1>0 DEF OpenStop
<1>2. ASSUME NEW receipt, Record(receipt) PROVE stop' = stop
  BY <1>2 DEF Record
<1>3. ApiStep => stop' = stop
  BY <1>1 DEF ApiStep, Prepare, QueueEntry, RequestStop, Logout, SessionExpires, Login, ChangeMembership, Rest
<1>4. MessageStep => stop' = stop
  BY DEF MessageStep, CheckMessage, CommitMessage, Preflight, Submit, SubmitRefusedLocally, SubmitAccepted,
         SubmitRejected, SubmitLost, ApiCrash, Refresh
<1>5. PodStep => stop' = stop
  BY DEF PodStep, CreatePod, PodStarts, Supplied, LosesNative, FinishTurn, PodDies, DeletionCompletes
<1>6. Look \/ EndPass \/ ControllerWork => stop' = stop \/ stop' = NoStop
  BY <1>1, <1>2 DEF Look, EndPass, ControllerWork, FindStop, StopDead, AskIdle, RequestIdleStop, SkipToDelete,
     AcceptTerminal, AskHealth, Drain, AcceptDrain, AcceptUnavailable, DeletePod, Release, ctlOnly
<1>7. OperatorWork \/ OpEnds => stop' = stop
  BY <1>1, <1>2 DEF OperatorWork, OpObserve, OpRequest, OpDrain, OpAccept, OpEnds
<1> QED BY <1>3, <1>4, <1>5, <1>6, <1>7 DEF Next

(* Out of a stop only the release begins a generation, for the requests    *)
(* that it honours.                                                        *)
LEMMA RestartStep ==
  ASSUME StopInv, Next, row.phase = "stopping", row'.gen # row.gen
  PROVE  /\ eligible
         /\ \E k \in Keys \ receipts :
              k \in receipts' /\ entries[k].gen = row.gen /\ entries[k].session \in sessions
<1>0. Row(row) /\ stop.receipt # "none"
  BY DEF StopInv, RowHolds, StopHolds
<1>1. ASSUME NEW receipt, Record(receipt) PROVE row' = row
  BY <1>0, <1>1 DEF Record
<1>2. ApiStep => row' = row
  BY DEF ApiStep, Prepare, QueueEntry, RequestStop, Logout, SessionExpires, Login, ChangeMembership, Rest
<1>3. MessageStep => row' = row
  BY DEF MessageStep, CheckMessage, CommitMessage, Preflight, Submit, SubmitRefusedLocally, SubmitAccepted,
         SubmitRejected, SubmitLost, ApiCrash, Refresh
<1>4. PodStep => row' = row
  BY DEF PodStep, CreatePod, PodStarts, Supplied, LosesNative, FinishTurn, PodDies, DeletionCompletes
<1>5. Look \/ EndPass \/ ControllerWork => row' = row \/ Release
  BY <1>1 DEF Look, EndPass, ControllerWork, FindStop, StopDead, AskIdle, RequestIdleStop, SkipToDelete,
     AcceptTerminal, AskHealth, Drain, AcceptDrain, AcceptUnavailable, DeletePod, ctlOnly
<1>6. OperatorWork \/ OpEnds => row' = row
  BY <1>1 DEF OperatorWork, OpObserve, OpRequest, OpDrain, OpAccept, OpEnds
<1>7. CASE Release
  <2>1. row' = (IF Honoured = {} THEN Stopped(row) ELSE Entered(Stopped(row))) /\ receipts' = receipts \cup Honoured
    BY <1>0, <1>7 DEF Release
  <2>2. Honoured # {}
    BY <1>0, <2>1, StoppedSound
  <2> QED BY <2>1, <2>2 DEF Honoured
<1> QED BY <1>2, <1>3, <1>4, <1>5, <1>6, <1>7 DEF Next

(* The stop of a runner is typed, its Pod is the one its row is bound to,  *)
(* and behind a receipt of its own the runner has no turn (RunnerStop's    *)
(* PodIsBound and FencedRunnerIsQuiet).                                    *)
THEOREM StopIsSafe == Spec => [](TypeOK /\ PodIsBound /\ FencedRunnerIsQuiet)
<1>1. Init => home \in BOOLEAN
  BY DEF Init
<1>2. home \in BOOLEAN /\ [Next]_vars => (home \in BOOLEAN)'
  BY HomeStays
<1> QED BY <1>1, <1>2, StopInit, StopStep, StopFollows, PTL DEF Spec

-----------------------------------------------------------------------------
(* The removal of an owner's runner (Decommission)                         *)

Steps == {"idle", "report", "compare", "tool", "look", "delete", "wait", "post", "unmount", "remove", "output", "compared"}
Wrappers == [step : Steps, todo : SUBSET Removal!Objects, code : {0, 3, 5, 8}]
OwnerRows == [state : 0..2, phase : {"none", "rest", "up", "new"}, rev : 0..MaxRev, proved : BOOLEAN, busy : BOOLEAN]
HostFiles == [mounts : SUBSET Disks, images : SUBSET Disks, dir : BOOLEAN, output : BOOLEAN, bound : BOOLEAN]

LEMMA RevisionRange == MaxRev \in Nat \ {0} /\ 0 \in 0..MaxRev /\ 1 \in 0..MaxRev
  BY PartsAssumption DEF Removal!DecommissionAssumption

LEMMA NoRowsSound == Removal!None \in OwnerRows /\ Removal!None.state = 0
  BY RevisionRange DEF Removal!None, OwnerRows

(* What the script changes leaves the world as it is.                      *)
LEMMA ScriptMoves ==
  ASSUME RemovalInv, UNCHANGED << rows, body, objects, dying, disk >>,
         wrapper' \in Wrappers, tool' \in {"none", "running", "deleted", "already", "refused"},
         fence' \in {fence, rows.rev, 0}, export' \in {export, rows, Removal!None},
         orphan' \in BOOLEAN, applied' \in BOOLEAN, touched' \in BOOLEAN,
         applied => applied',
         applied' => applied \/ (rows.state # 1 /\ \A o \in Removal!Objects : objects[o] # 1),
         RemovalRows', RemovalDisk', RemovalCodes'
  PROVE  RemovalInv'
<1>1. Removal!TypeOK'
  <2>1. rows.rev \in 0..MaxRev
    BY DEF RemovalInv, Removal!TypeOK
  <2>2. export' \in OwnerRows
    BY NoRowsSound DEF RemovalInv, Removal!TypeOK, OwnerRows
  <2>3. fence' \in 0..MaxRev
    BY <2>1, RevisionRange DEF RemovalInv, Removal!TypeOK
  <2> QED BY <2>2, <2>3 DEF RemovalInv, Removal!TypeOK, OwnerRows, Wrappers, Steps
<1>2. RemovalObjects'
  BY DEF RemovalInv, RemovalObjects
<1> QED BY <1>1, <1>2 DEF RemovalInv

(* The wrapper goes on, with what it knows.                                *)
LEMMA WrapperGoes ==
  ASSUME RemovalInv, NEW step \in Steps, Removal!Goes(step)
  PROVE  wrapper' \in Wrappers /\ wrapper'.step = step /\ wrapper'.code = wrapper.code
  BY DEF RemovalInv, Removal!TypeOK, Removal!Goes, Wrappers, Steps

(* The wrapper ends; its code tells whether this run touched anything.     *)
LEMMA WrapperExits ==
  ASSUME RemovalInv, NEW code \in {0, 3, 5, 8}, Removal!Exits(code), code = 3 => ~touched',
         UNCHANGED << rows, body, objects, dying, disk, fence >>, export' \in {export, rows},
         touched' \in BOOLEAN, applied' \in BOOLEAN, applied => applied',
         applied' => applied \/ (rows.state # 1 /\ \A o \in Removal!Objects : objects[o] # 1)
  PROVE  RemovalInv'
<1>1. wrapper' = [Removal!Resting EXCEPT !.code = code] /\ tool' = "none"
      /\ orphan' = (orphan \/ tool = "running")
  BY DEF Removal!Exits
<1>2. wrapper' \in Wrappers /\ wrapper'.step = "idle" /\ wrapper'.code = code
  BY <1>1 DEF Removal!Resting, Wrappers, Steps
<1>3. orphan' \in BOOLEAN
  BY <1>1 DEF RemovalInv, Removal!TypeOK
<1>4. RemovalRows'
  BY <1>1, <1>2 DEF RemovalInv, RemovalRows
<1>5. RemovalDisk'
  BY <1>2 DEF RemovalInv, RemovalDisk
<1>6. RemovalCodes'
  BY <1>1, <1>2 DEF RemovalInv, RemovalCodes
<1> QED BY <1>1, <1>2, <1>3, <1>4, <1>5, <1>6, ScriptMoves

(* The user, the controller, the kubelet and others.                       *)
LEMMA RemovalWorldHolds ==
  ASSUME RemovalInv,
         \/ Removal!UserStarts \/ Removal!PodAppears \/ Removal!Stops \/ Removal!Settles \/ Removal!WorkArrives
         \/ Removal!EntersAnew \/ Removal!KubeletLetsGo \/ Removal!Vanishes \/ Removal!OthersReplace
  PROVE  RemovalInv'
<1> USE DEF Removal!Scripts
<1>0. /\ rows \in OwnerRows /\ disk \in HostFiles /\ objects \in [Removal!Objects -> 0..2] /\ dying \subseteq Removal!Objects
      /\ (rows.state = 0 <=> rows = Removal!None)
      /\ RemovalRows /\ RemovalObjects /\ RemovalDisk /\ RemovalCodes
  BY DEF RemovalInv, Removal!TypeOK, OwnerRows, HostFiles
<1>s. UNCHANGED << fence, export, tool, orphan, wrapper, applied, touched >>
  BY DEF Removal!UserStarts, Removal!PodAppears, Removal!Stops, Removal!Settles, Removal!WorkArrives,
         Removal!EntersAnew, Removal!KubeletLetsGo, Removal!Vanishes, Removal!OthersReplace
<1>c. RemovalCodes'
  BY <1>0, <1>s DEF RemovalCodes
<1>t. ASSUME rows' \in OwnerRows, rows'.state = 0 <=> rows' = Removal!None, body' \in BOOLEAN, disk' \in HostFiles,
             objects' \in [Removal!Objects -> 0..2], dying' \subseteq Removal!Objects
      PROVE  Removal!TypeOK'
  BY <1>s, <1>t DEF RemovalInv, Removal!TypeOK, OwnerRows, HostFiles
<1>b. body \in BOOLEAN
  BY DEF RemovalInv, Removal!TypeOK
<1>n. Removal!None.phase = "none" /\ Removal!None.state = 0
  BY DEF Removal!None
<1>1. ASSUME Removal!UserStarts \/ Removal!Stops \/ Removal!Settles \/ Removal!WorkArrives PROVE RemovalInv'
  <2>1. rows' \in OwnerRows /\ rows'.state = rows.state /\ rows.state # 0
    <3>1. rows.state # 0
      BY <1>0, <1>1, <1>n DEF Removal!UserStarts, Removal!Stops, Removal!Settles, Removal!WorkArrives
    <3>2. CASE Removal!UserStarts
      <4>1. rows' = [rows EXCEPT !.phase = "up", !.rev = @ + 1, !.proved = FALSE, !.busy = TRUE] /\ rows.rev < MaxRev
        BY <3>2 DEF Removal!UserStarts
      <4>2. rows.rev + 1 \in 0..MaxRev
        BY <1>0, <4>1, RevisionRange DEF OwnerRows
      <4> QED BY <1>0, <3>1, <4>1, <4>2 DEF OwnerRows
    <3>3. CASE Removal!Stops
      <4>1. PICK busy \in BOOLEAN : rows' = [rows EXCEPT !.phase = "rest", !.rev = @ + 1, !.proved = TRUE, !.busy = busy]
        BY <3>3 DEF Removal!Stops
      <4>2. rows.rev < MaxRev
        BY <3>3 DEF Removal!Stops
      <4>3. rows.rev + 1 \in 0..MaxRev
        BY <1>0, <4>2, RevisionRange DEF OwnerRows
      <4> QED BY <1>0, <3>1, <4>1, <4>3 DEF OwnerRows
    <3>4. CASE Removal!Settles \/ Removal!WorkArrives
      <4>1. PICK busy \in BOOLEAN : rows' = [rows EXCEPT !.busy = busy]
        BY <3>4 DEF Removal!Settles, Removal!WorkArrives
      <4> QED BY <1>0, <3>1, <4>1 DEF OwnerRows
    <3> QED BY <1>1, <3>2, <3>3, <3>4
  <2>2. /\ UNCHANGED << objects, dying, disk >> /\ body' \in BOOLEAN
        /\ body' => rows'.phase = "up" /\ rows.state = 1
    <3>1. CASE Removal!UserStarts
      <4>1. rows'.phase = "up"
        BY <1>0, <3>1 DEF Removal!UserStarts, OwnerRows
      <4> QED BY <1>0, <3>1, <4>1 DEF Removal!UserStarts, RemovalInv, Removal!TypeOK
    <3>2. CASE Removal!Stops
      BY <3>2 DEF Removal!Stops
    <3>3. CASE Removal!Settles \/ Removal!WorkArrives
      <4>1. ~body /\ body' = body
        BY <1>0, <3>3 DEF Removal!Settles, Removal!WorkArrives, RemovalRows
      <4>2. body' \in BOOLEAN
        BY <1>b, <4>1
      <4> QED BY <3>3, <4>1, <4>2 DEF Removal!Settles, Removal!WorkArrives
    <3> QED BY <1>1, <3>1, <3>2, <3>3
  <2>3. rows'.state = 0 <=> rows' = Removal!None
    BY <1>n, <2>1
  <2>4. RemovalRows' /\ RemovalObjects' /\ RemovalDisk'
    BY <1>0, <1>s, <2>1, <2>2 DEF RemovalRows, RemovalObjects, RemovalDisk
  <2> QED BY <1>0, <1>c, <1>t, <2>1, <2>2, <2>3, <2>4 DEF RemovalInv
<1>2. ASSUME Removal!EntersAnew PROVE RemovalInv'
  <2>1. /\ UNCHANGED << body, objects, dying, disk >> /\ rows.state = 0
        /\ rows' = [ state |-> 2, phase |-> "new", rev |-> 1, proved |-> FALSE, busy |-> TRUE ]
    BY <1>2 DEF Removal!EntersAnew
  <2>2. rows' \in OwnerRows /\ rows'.state = 2
    BY <2>1, RevisionRange DEF OwnerRows
  <2>3. ~body
    BY <1>0, <2>1 DEF RemovalRows
  <2>4. RemovalRows' /\ RemovalObjects' /\ RemovalDisk'
    BY <1>0, <1>s, <2>1, <2>2, <2>3 DEF RemovalRows, RemovalObjects, RemovalDisk
  <2>5. body' \in BOOLEAN
    BY <1>b, <2>1
  <2> QED BY <1>0, <1>c, <1>n, <1>t, <2>1, <2>2, <2>4, <2>5 DEF RemovalInv
<1>3. ASSUME Removal!PodAppears \/ Removal!KubeletLetsGo PROVE RemovalInv'
  <2>1. /\ UNCHANGED << rows, objects, dying >> /\ body' \in BOOLEAN
        /\ body' => rows.state = 1 /\ rows.phase = "up"
    <3>1. CASE Removal!PodAppears
      BY <3>1 DEF Removal!PodAppears
    <3>2. CASE Removal!KubeletLetsGo
      <4>1. UNCHANGED << rows, objects, dying, body >>
        BY <3>2 DEF Removal!KubeletLetsGo
      <4> QED BY <1>0, <1>b, <4>1 DEF RemovalRows
    <3> QED BY <1>3, <3>1, <3>2
  <2>2. PICK b \in BOOLEAN : disk' = [disk EXCEPT !.bound = b] /\ (b => rows.state = 1)
    BY <1>3 DEF Removal!PodAppears, Removal!KubeletLetsGo
  <2>3. /\ disk' \in HostFiles /\ disk'.mounts = disk.mounts /\ disk'.images = disk.images
        /\ disk'.dir = disk.dir /\ disk'.output = disk.output /\ disk'.bound = b
    BY <1>0, <2>2 DEF HostFiles
  <2>4. b => ~applied
    BY <1>0, <2>2 DEF RemovalRows
  <2>5. RemovalRows' /\ RemovalObjects'
    BY <1>0, <1>s, <2>1 DEF RemovalRows, RemovalObjects
  <2>6. RemovalDisk'
    BY <1>0, <1>s, <2>3, <2>4 DEF RemovalDisk
  <2> QED BY <1>0, <1>c, <1>t, <2>1, <2>3, <2>5, <2>6 DEF RemovalInv
<1>4. ASSUME Removal!Vanishes \/ Removal!OthersReplace PROVE RemovalInv'
  <2>1. UNCHANGED << rows, body, disk >>
    BY <1>4 DEF Removal!Vanishes, Removal!OthersReplace
  <2>2. PICK o \in Removal!Objects, v \in {0, 2} :
          objects' = [objects EXCEPT ![o] = v] /\ dying' \in SUBSET dying /\ o \notin dying'
    BY <1>0, <1>4 DEF Removal!Vanishes, Removal!OthersReplace
  <2>3. objects' \in [Removal!Objects -> 0..2] /\ dying' \subseteq Removal!Objects
    BY <1>0, <2>2
  <2>4. RemovalObjects'
    BY <1>0, <1>s, <2>1, <2>2 DEF RemovalObjects
  <2>5. RemovalRows' /\ RemovalDisk'
    BY <1>0, <1>s, <2>1 DEF RemovalRows, RemovalDisk
  <2>6. body' \in BOOLEAN
    BY <2>1 DEF RemovalInv, Removal!TypeOK
  <2> QED BY <1>0, <1>c, <1>t, <2>1, <2>3, <2>4, <2>5, <2>6 DEF RemovalInv
<1> QED BY <1>1, <1>2, <1>3, <1>4

(* The tool's one transaction.                                             *)
LEMMA RemovalToolHolds == ASSUME RemovalInv, Removal!ToolCommits PROVE RemovalInv'
<1>0. /\ rows \in OwnerRows
      /\ (rows.state = 0 <=> rows = Removal!None)
      /\ RemovalRows /\ RemovalObjects /\ RemovalDisk /\ RemovalCodes
  BY DEF RemovalInv, Removal!TypeOK, OwnerRows
<1>b. touched \in BOOLEAN /\ orphan \in BOOLEAN
  BY DEF RemovalInv, Removal!TypeOK
<1> DEFINE result == Removal!ToolResult
<1>1. /\ UNCHANGED << body, objects, dying, disk, fence, export, wrapper, applied >>
      /\ rows' = IF result = "deleted" THEN Removal!None ELSE rows
      /\ touched' = (touched \/ (tool' = "deleted" /\ tool = "running"))
      /\ (tool = "running" /\ tool' = result /\ orphan' = orphan) \/ (orphan /\ ~orphan' /\ tool' = tool)
      /\ orphan' = orphan \/ orphan' = FALSE
  BY DEF Removal!ToolCommits
<1>2. /\ result \in {"deleted", "already", "refused"}
      /\ result = "deleted" => rows.state = 1 /\ rows.phase = "rest"
      /\ result = "already" => rows.state = 0
  BY DEF Removal!ToolResult, Removal!AsReviewed, Removal!Exportable
<1> HIDE DEF result
<1>3. /\ rows' \in OwnerRows /\ (rows'.state = 0 <=> rows' = Removal!None)
      /\ rows'.state \in {0, rows.state} /\ (result = "deleted" => rows'.state = 0)
      /\ result # "deleted" => rows' = rows
  BY <1>0, <1>1, NoRowsSound
<1>4. Removal!TypeOK'
  <2>1. tool' \in {"none", "running", "deleted", "already", "refused"}
    BY <1>1, <1>2 DEF RemovalInv, Removal!TypeOK
  <2>2. orphan' \in BOOLEAN /\ touched' \in BOOLEAN
    BY <1>1, <1>b
  <2> QED BY <1>1, <1>3, <2>1, <2>2 DEF RemovalInv, Removal!TypeOK, OwnerRows
<1>5. RemovalRows'
  <2>1. body' => rows'.state = 1 /\ rows'.phase = "up"
    BY <1>0, <1>1, <1>2, <1>3 DEF RemovalRows
  <2>2. tool' \in {"deleted", "already"} => rows'.state # 1
    BY <1>0, <1>1, <1>2, <1>3 DEF RemovalRows
  <2> QED BY <1>0, <1>1, <1>3, <2>1, <2>2 DEF RemovalRows
<1>6. RemovalObjects' /\ RemovalDisk'
  BY <1>0, <1>1, <1>3 DEF RemovalObjects, RemovalDisk
<1>7. RemovalCodes'
  <2>1. CASE tool = "running" /\ tool' = result
    <3>1. wrapper'.step = "tool" /\ ~touched
      BY <1>0, <1>1, <2>1 DEF RemovalCodes
    <3>2. tool' = "refused" => ~touched'
      BY <1>1, <3>1
    <3> QED BY <1>2, <2>1, <3>1, <3>2 DEF RemovalCodes
  <2>2. CASE tool' = tool
    <3>1. touched' <=> touched
      BY <1>1, <2>2
    <3> QED BY <1>0, <1>1, <2>2, <3>1 DEF RemovalCodes
  <2> QED BY <1>1, <2>1, <2>2
<1> QED BY <1>4, <1>5, <1>6, <1>7 DEF RemovalInv

(* The wrapper looks further and changes nothing.                          *)
LEMMA WrapperLooks ==
  ASSUME RemovalInv, UNCHANGED << rows, body, objects, dying, disk, tool, orphan, applied >>,
         wrapper' \in Wrappers, touched' \in BOOLEAN,
         fence' \in {fence, rows.rev, 0}, export' \in {export, rows, Removal!None},
         wrapper'.step \in {"report", "compare"} => ~touched' /\ tool = "none",
         wrapper'.step # "idle", tool \in {"running", "refused"} => wrapper'.step = "tool" /\ ~touched',
         wrapper'.step \in {"look", "delete", "wait", "post"} => rows.state # 1,
         wrapper'.step \in {"unmount", "remove", "output", "compared"} => applied /\ ~disk.bound,
         wrapper'.step \in {"remove", "output", "compared"} => disk.mounts = {},
         wrapper'.step \in {"output", "compared"} => ~disk.dir
  PROVE  RemovalInv'
<1>1. /\ tool' \in {"none", "running", "deleted", "already", "refused"}
  BY DEF RemovalInv, Removal!TypeOK
<1>2. orphan' \in BOOLEAN /\ applied' \in BOOLEAN
  BY DEF RemovalInv, Removal!TypeOK
<1>3. RemovalRows'
  BY DEF RemovalInv, RemovalRows
<1>4. RemovalDisk'
  BY DEF RemovalInv, RemovalDisk
<1>5. RemovalCodes'
  BY DEF RemovalInv, RemovalCodes
<1> QED BY <1>1, <1>2, <1>3, <1>4, <1>5, ScriptMoves

(* report, and an export moved aside by hand.                              *)
LEMMA RemovalReportHolds ==
  ASSUME RemovalInv, Removal!Report \/ Removal!MakeExport \/ Removal!CompareObjects \/ Removal!MoveAside
  PROVE  RemovalInv'
<1> USE DEF Removal!worldVars
<1>b. touched \in BOOLEAN /\ orphan \in BOOLEAN /\ applied \in BOOLEAN
  BY DEF RemovalInv, Removal!TypeOK
<1>c. RemovalCodes
  BY DEF RemovalInv
<1>1. ASSUME Removal!Report PROVE RemovalInv'
  <2>1. /\ UNCHANGED << rows, body, objects, dying, disk, export, tool, orphan, applied >>
        /\ fence' = rows.rev /\ touched' = FALSE /\ Removal!Goes("report") /\ wrapper.step = "idle"
    BY <1>1 DEF Removal!Report, Removal!Starts
  <2>2. wrapper' \in Wrappers /\ wrapper'.step = "report"
    BY <2>1, WrapperGoes DEF Steps
  <2>3. tool = "none"
    BY <1>c, <2>1 DEF RemovalCodes
  <2> QED BY <2>1, <2>2, <2>3, WrapperLooks
<1>2. ASSUME Removal!MakeExport PROVE RemovalInv'
  <2>1. /\ UNCHANGED << rows, body, objects, dying, disk, fence, applied, touched >> /\ wrapper.step = "report"
        /\ \/ export' = rows /\ Removal!Goes("compare") /\ UNCHANGED << tool, orphan >>
           \/ Removal!Exits(3) /\ export' = export
    BY <1>2 DEF Removal!MakeExport
  <2>2. ~touched /\ tool = "none"
    BY <1>c, <2>1 DEF RemovalCodes
  <2>3. CASE Removal!Exits(3) /\ export' = export
    BY <1>b, <2>1, <2>2, <2>3, WrapperExits
  <2>4. CASE export' = rows /\ Removal!Goes("compare") /\ UNCHANGED << tool, orphan >>
    <3>1. wrapper' \in Wrappers /\ wrapper'.step = "compare"
      BY <2>4, WrapperGoes DEF Steps
    <3> QED BY <1>b, <2>1, <2>2, <2>4, <3>1, WrapperLooks
  <2> QED BY <2>1, <2>3, <2>4
<1>3. ASSUME Removal!CompareObjects PROVE RemovalInv'
  <2>1. /\ UNCHANGED << rows, body, objects, dying, disk, fence, export, applied, touched >> /\ wrapper.step = "compare"
        /\ \E code \in {0, 3} : Removal!Exits(code)
    BY <1>3 DEF Removal!CompareObjects
  <2>2. ~touched
    BY <1>c, <2>1 DEF RemovalCodes
  <2> QED BY <1>b, <2>1, <2>2, WrapperExits
<1>4. ASSUME Removal!MoveAside PROVE RemovalInv'
  <2>1. /\ UNCHANGED << rows, body, objects, dying, disk, tool, orphan, wrapper, applied, touched >>
        /\ export' = Removal!None /\ fence' = 0
    BY <1>4 DEF Removal!MoveAside
  <2>2. /\ wrapper' \in Wrappers /\ tool' \in {"none", "running", "deleted", "already", "refused"}
    BY <2>1 DEF RemovalInv, Removal!TypeOK, Wrappers, Steps
  <2>3. RemovalRows' /\ RemovalDisk' /\ RemovalCodes'
    BY <2>1 DEF RemovalInv, RemovalRows, RemovalDisk, RemovalCodes
  <2> QED BY <1>b, <2>1, <2>2, <2>3, ScriptMoves
<1> QED BY <1>1, <1>2, <1>3, <1>4

(* apply: the tool's answer, then each object.                             *)
LEMMA RemovalApplyHolds ==
  ASSUME RemovalInv,
         \/ Removal!Apply \/ Removal!HearTool \/ Removal!PostCheck
         \/ \E o \in Removal!Objects : Removal!Look(o) \/ Removal!Delete(o) \/ Removal!WaitGone(o)
  PROVE  RemovalInv'
<1> USE DEF Removal!worldVars
<1>b. touched \in BOOLEAN /\ orphan \in BOOLEAN /\ applied \in BOOLEAN
  BY DEF RemovalInv, Removal!TypeOK
<1>c. RemovalCodes /\ RemovalRows /\ RemovalObjects /\ RemovalDisk
  BY DEF RemovalInv
<1>w. wrapper \in Wrappers
  BY DEF RemovalInv, Removal!TypeOK, Wrappers, Steps
<1>1. ASSUME Removal!Apply PROVE RemovalInv'
  <2>1. /\ UNCHANGED << rows, body, objects, dying, disk, fence, export, orphan, applied >>
        /\ tool' = "running" /\ touched' = FALSE /\ Removal!Goes("tool") /\ wrapper.step = "idle"
    BY <1>1 DEF Removal!Apply, Removal!Starts
  <2>2. wrapper' \in Wrappers /\ wrapper'.step = "tool"
    BY <2>1, WrapperGoes DEF Steps
  <2>3. RemovalRows' /\ RemovalDisk' /\ RemovalCodes'
    BY <1>c, <2>1, <2>2 DEF RemovalRows, RemovalDisk, RemovalCodes
  <2> QED BY <1>b, <2>1, <2>2, <2>3, ScriptMoves
<1>2. ASSUME Removal!HearTool PROVE RemovalInv'
  <2>1. /\ UNCHANGED << rows, body, objects, dying, disk, fence, export, applied, touched >> /\ wrapper.step = "tool"
        /\ \/ /\ tool \in {"deleted", "already"} /\ UNCHANGED << tool, orphan >>
              /\ wrapper' = [wrapper EXCEPT !.step = "look", !.todo = Removal!Objects]
           \/ tool = "refused" /\ Removal!Exits(3)
           \/ Removal!Exits(5)
    BY <1>2 DEF Removal!HearTool, Removal!Hears
  <2>2. CASE /\ tool \in {"deleted", "already"} /\ UNCHANGED << tool, orphan >>
             /\ wrapper' = [wrapper EXCEPT !.step = "look", !.todo = Removal!Objects]
    <3>1. wrapper' \in Wrappers /\ wrapper'.step = "look"
      BY <1>w, <2>2 DEF Wrappers, Steps
    <3>2. rows.state # 1
      BY <1>c, <2>2 DEF RemovalRows
    <3> QED BY <1>b, <2>1, <2>2, <3>1, <3>2, WrapperLooks
  <2>3. CASE tool = "refused" /\ Removal!Exits(3)
    <3>1. ~touched
      BY <1>c, <2>3 DEF RemovalCodes
    <3> QED BY <1>b, <2>1, <2>3, <3>1, WrapperExits
  <2>4. CASE Removal!Exits(5)
    BY <1>b, <2>1, <2>4, WrapperExits
  <2> QED BY <2>1, <2>2, <2>3, <2>4
<1>3. ASSUME NEW o \in Removal!Objects, wrapper.step \in {"look", "delete", "wait"}, Removal!Onward(o)
      PROVE  wrapper' \in Wrappers /\ wrapper'.step \in {"look", "post"}
  BY <1>w, <1>3 DEF Removal!Onward, Wrappers, Steps
<1>t. wrapper.step \in {"look", "delete", "wait"} => tool \notin {"running", "refused"} /\ rows.state # 1
  BY <1>c DEF RemovalCodes, RemovalRows
<1>4. ASSUME NEW o \in Removal!Objects, Removal!Look(o) PROVE RemovalInv'
  <2>1. /\ UNCHANGED << rows, body, objects, dying, disk, fence, export, applied, touched >> /\ wrapper.step = "look"
        /\ \/ Removal!Onward(o) /\ UNCHANGED << tool, orphan >>
           \/ Removal!Goes("delete") /\ UNCHANGED << tool, orphan >>
           \/ Removal!Exits(5)
    <3>1. objects[o] \in 0..2
      BY DEF RemovalInv, Removal!TypeOK
    <3>2. objects[o] = 0 \/ objects[o] = 1 \/ objects[o] = 2
      BY <3>1
    <3> QED BY <1>4, <3>2 DEF Removal!Look
  <2>2. CASE Removal!Onward(o) /\ UNCHANGED << tool, orphan >>
    BY <1>3, <1>b, <1>t, <2>1, <2>2, WrapperLooks
  <2>3. CASE Removal!Goes("delete") /\ UNCHANGED << tool, orphan >>
    <3>1. wrapper' \in Wrappers /\ wrapper'.step = "delete"
      BY <2>3, WrapperGoes DEF Steps
    <3> QED BY <1>b, <1>t, <2>1, <2>3, <3>1, WrapperLooks
  <2>4. CASE Removal!Exits(5)
    BY <1>b, <2>1, <2>4, WrapperExits
  <2> QED BY <2>1, <2>2, <2>3, <2>4
<1>5. ASSUME NEW o \in Removal!Objects, Removal!Delete(o) PROVE RemovalInv'
  <2>1. /\ UNCHANGED << rows, body, objects, disk, fence, export, applied >> /\ wrapper.step = "delete"
    BY <1>5 DEF Removal!Delete
  <2>2. CASE Removal!Ours(o)
    <3>1. /\ dying' = dying \cup {o} /\ Removal!Goes("wait") /\ touched' = TRUE /\ UNCHANGED << tool, orphan >>
          /\ objects[o] = 1
      BY <1>5, <2>2 DEF Removal!Delete, Removal!Ours
    <3>2. wrapper' \in Wrappers /\ wrapper'.step = "wait"
      BY <3>1, WrapperGoes DEF Steps
    <3>3. Removal!TypeOK'
      BY <2>1, <3>1, <3>2 DEF RemovalInv, Removal!TypeOK, Wrappers, Steps
    <3>4. RemovalRows' /\ RemovalObjects' /\ RemovalDisk'
      BY <1>c, <1>t, <2>1, <3>1, <3>2 DEF RemovalRows, RemovalObjects, RemovalDisk
    <3>5. RemovalCodes'
      BY <1>c, <1>t, <2>1, <3>1, <3>2 DEF RemovalCodes
    <3> QED BY <3>3, <3>4, <3>5 DEF RemovalInv
  <2>3. CASE ~Removal!Ours(o)
    <3>1. Removal!Exits(5) /\ UNCHANGED << dying, touched >>
      BY <1>5, <2>3 DEF Removal!Delete
    <3> QED BY <1>b, <2>1, <3>1, WrapperExits
  <2> QED BY <2>2, <2>3
<1>6. ASSUME NEW o \in Removal!Objects, Removal!WaitGone(o) PROVE RemovalInv'
  <2>1. /\ UNCHANGED << rows, body, objects, dying, disk, fence, export, tool, orphan, applied, touched >>
        /\ wrapper.step = "wait" /\ Removal!Onward(o)
    BY <1>6 DEF Removal!WaitGone
  <2> QED BY <1>3, <1>b, <1>t, <2>1, WrapperLooks
<1>7. ASSUME Removal!PostCheck PROVE RemovalInv'
  <2>1. UNCHANGED << rows, body, objects, dying, disk, fence, export, touched >>
    BY <1>7 DEF Removal!PostCheck
  <2>2. CASE Removal!AllGone
    <3>1. Removal!Exits(0) /\ applied' \in {TRUE, applied}
      BY <1>7, <2>2 DEF Removal!PostCheck
    <3>2. rows.state # 1 /\ \A o \in Removal!Objects : objects[o] # 1
      BY <2>2 DEF Removal!AllGone
    <3>3. applied' \in BOOLEAN /\ (applied => applied')
      <4>1. applied' = TRUE \/ applied' = applied
        BY <3>1
      <4> QED BY <1>b, <4>1, Zenon
    <3> QED BY <1>b, <2>1, <3>1, <3>2, <3>3, WrapperExits
  <2>3. CASE ~Removal!AllGone
    <3>1. Removal!Exits(8) /\ applied' = applied
      BY <1>7, <2>3 DEF Removal!PostCheck
    <3> QED BY <1>b, <2>1, <3>1, WrapperExits
  <2> QED BY <2>2, <2>3
<1> QED BY <1>1, <1>2, <1>4, <1>5, <1>6, <1>7

(* host: the files, once apply is through and nothing uses them.           *)
LEMMA RemovalHostHolds ==
  ASSUME RemovalInv,
         \/ Removal!Host \/ Removal!Unmount \/ Removal!RemoveStorage \/ Removal!RemoveOutput \/ Removal!Inventories
         \/ Removal!Fails \/ Removal!Rests
  PROVE  RemovalInv'
<1> USE DEF Removal!worldVars, Removal!HostUnchanged
<1>b. touched \in BOOLEAN /\ orphan \in BOOLEAN /\ applied \in BOOLEAN
  BY DEF RemovalInv, Removal!TypeOK
<1>c. RemovalCodes /\ RemovalRows /\ RemovalObjects /\ RemovalDisk /\ disk \in HostFiles
  BY DEF RemovalInv, Removal!TypeOK, HostFiles
<1>w. wrapper \in Wrappers
  BY DEF RemovalInv, Removal!TypeOK, Wrappers, Steps
<1>1. ASSUME Removal!Host PROVE RemovalInv'
  <2>1. /\ UNCHANGED << rows, body, objects, dying, disk, fence, export, applied >> /\ wrapper.step = "idle"
        /\ touched' = FALSE
    BY <1>1 DEF Removal!Host, Removal!Starts
  <2>2. CASE Removal!Free
    <3>1. Removal!Goes("unmount") /\ UNCHANGED << tool, orphan >> /\ applied /\ ~disk.bound
      BY <1>1, <2>2 DEF Removal!Host, Removal!Free
    <3>2. wrapper' \in Wrappers /\ wrapper'.step = "unmount"
      BY <3>1, WrapperGoes DEF Steps
    <3>3. tool = "none"
      BY <1>c, <2>1 DEF RemovalCodes
    <3> QED BY <1>b, <2>1, <3>1, <3>2, <3>3, WrapperLooks
  <2>3. CASE ~Removal!Free
    <3>1. Removal!Exits(3)
      BY <1>1, <2>3 DEF Removal!Host
    <3> QED BY <1>b, <2>1, <3>1, WrapperExits
  <2> QED BY <2>2, <2>3
<1>2. ASSUME UNCHANGED << rows, body, objects, dying, fence, export, tool, orphan, applied >>,
             wrapper.step \in {"unmount", "remove", "output"}, touched' \in BOOLEAN,
             disk' \in HostFiles, wrapper' \in Wrappers,
             wrapper'.step \in {"unmount", "remove", "output", "compared"}, RemovalDisk'
      PROVE  RemovalInv'
  <2>1. Removal!TypeOK'
    BY <1>2 DEF RemovalInv, Removal!TypeOK, HostFiles, Wrappers, Steps
  <2>2. RemovalRows' /\ RemovalObjects'
    BY <1>2, <1>c DEF RemovalRows, RemovalObjects
  <2>3. RemovalCodes'
    BY <1>2, <1>c DEF RemovalCodes
  <2> QED BY <1>2, <2>1, <2>2, <2>3 DEF RemovalInv
<1>3. ASSUME Removal!Unmount PROVE RemovalInv'
  <2>1. UNCHANGED << rows, body, objects, dying, fence, export, tool, orphan, applied >> /\ wrapper.step = "unmount"
    BY <1>3 DEF Removal!Unmount
  <2>2. CASE disk.mounts = {}
    <3>1. Removal!Goes("remove") /\ UNCHANGED << disk, touched >>
      BY <1>3, <2>2 DEF Removal!Unmount
    <3>2. wrapper' \in Wrappers /\ wrapper'.step = "remove"
      BY <3>1, WrapperGoes DEF Steps
    <3>3. RemovalDisk'
      BY <1>c, <2>1, <2>2, <3>1, <3>2 DEF RemovalDisk
    <3> QED BY <1>2, <1>b, <1>c, <2>1, <3>1, <3>2, <3>3
  <2>3. CASE disk.mounts # {}
    <3>1. PICK m \in disk.mounts : disk' = [disk EXCEPT !.mounts = @ \ {m}]
      BY <1>3, <2>3 DEF Removal!Unmount
    <3>2. touched' = TRUE /\ wrapper' = wrapper
      BY <1>3, <2>3 DEF Removal!Unmount
    <3>3. /\ disk' \in HostFiles /\ disk'.mounts = disk.mounts \ {m} /\ disk'.images = disk.images
          /\ disk'.dir = disk.dir /\ disk'.output = disk.output /\ disk'.bound = disk.bound
      BY <1>c, <3>1 DEF HostFiles
    <3>4. RemovalDisk'
      BY <1>c, <2>1, <3>2, <3>3 DEF RemovalDisk
    <3> QED BY <1>2, <1>w, <2>1, <3>2, <3>3, <3>4
  <2> QED BY <2>2, <2>3
<1>4. ASSUME Removal!RemoveStorage PROVE RemovalInv'
  <2>1. /\ UNCHANGED << rows, body, objects, dying, fence, export, tool, orphan, applied >> /\ wrapper.step = "remove"
        /\ touched' = TRUE
    BY <1>4 DEF Removal!RemoveStorage
  <2>2. CASE disk.images # {}
    <3>1. PICK m \in disk.images : disk' = [disk EXCEPT !.images = @ \ {m}]
      BY <1>4, <2>2 DEF Removal!RemoveStorage
    <3>2. wrapper' = wrapper
      BY <1>4, <2>2 DEF Removal!RemoveStorage
    <3>3. /\ disk' \in HostFiles /\ disk'.mounts = disk.mounts /\ disk'.images = disk.images \ {m}
          /\ disk'.dir = disk.dir /\ disk'.output = disk.output /\ disk'.bound = disk.bound
      BY <1>c, <3>1 DEF HostFiles
    <3>4. RemovalDisk'
      BY <1>c, <2>1, <3>2, <3>3 DEF RemovalDisk
    <3> QED BY <1>2, <1>w, <2>1, <3>2, <3>3, <3>4
  <2>3. CASE disk.images = {}
    <3>1. disk' = [disk EXCEPT !.dir = FALSE] /\ Removal!Goes("output")
      BY <1>4, <2>3 DEF Removal!RemoveStorage
    <3>2. wrapper' \in Wrappers /\ wrapper'.step = "output"
      BY <3>1, WrapperGoes DEF Steps
    <3>3. /\ disk' \in HostFiles /\ disk'.mounts = disk.mounts /\ disk'.images = disk.images
          /\ ~disk'.dir /\ disk'.output = disk.output /\ disk'.bound = disk.bound
      BY <1>c, <3>1 DEF HostFiles
    <3>4. RemovalDisk'
      BY <1>c, <2>1, <3>2, <3>3 DEF RemovalDisk
    <3> QED BY <1>2, <2>1, <3>2, <3>3, <3>4
  <2> QED BY <2>2, <2>3
<1>5. ASSUME Removal!RemoveOutput PROVE RemovalInv'
  <2>1. /\ UNCHANGED << rows, body, objects, dying, fence, export, tool, orphan, applied >> /\ wrapper.step = "output"
        /\ touched' = TRUE /\ disk' = [disk EXCEPT !.output = FALSE] /\ Removal!Goes("compared")
    BY <1>5 DEF Removal!RemoveOutput
  <2>2. wrapper' \in Wrappers /\ wrapper'.step = "compared"
    BY <2>1, WrapperGoes DEF Steps
  <2>3. /\ disk' \in HostFiles /\ disk'.mounts = disk.mounts /\ disk'.images = disk.images
        /\ disk'.dir = disk.dir /\ ~disk'.output /\ disk'.bound = disk.bound
    BY <1>c, <2>1 DEF HostFiles
  <2>4. RemovalDisk'
    BY <1>c, <2>1, <2>2, <2>3 DEF RemovalDisk
  <2> QED BY <1>2, <2>1, <2>2, <2>3, <2>4
<1>6. ASSUME Removal!Inventories PROVE RemovalInv'
  BY <1>6, <1>b, WrapperExits DEF Removal!Inventories
<1>7. ASSUME Removal!Fails PROVE RemovalInv'
  <2>1. /\ UNCHANGED << rows, body, objects, dying, disk, fence, export, applied, touched >>
        /\ Removal!Exits(Removal!FailureCode)
    BY <1>7 DEF Removal!Fails
  <2>2. Removal!FailureCode \in {0, 3, 5, 8} /\ (Removal!FailureCode = 3 => ~touched)
    BY <1>c DEF Removal!FailureCode, RemovalCodes
  <2> HIDE DEF Removal!FailureCode
  <2> QED BY <1>b, <2>1, <2>2, WrapperExits
<1>8. ASSUME Removal!Rests PROVE RemovalInv'
  BY <1>8 DEF Removal!Rests, Removal!decomVars, RemovalInv, Removal!TypeOK, RemovalRows, RemovalObjects, RemovalDisk,
              RemovalCodes
<1> QED BY <1>1, <1>3, <1>4, <1>5, <1>6, <1>7, <1>8

LEMMA RemovalStep == RemovalInv /\ [Removal!Next]_decomVars => RemovalInv'
<1>1. ASSUME RemovalInv, UNCHANGED decomVars PROVE RemovalInv'
  BY <1>1 DEF decomVars, RemovalInv, Removal!TypeOK, RemovalRows, RemovalObjects, RemovalDisk, RemovalCodes
<1>2. ASSUME RemovalInv, Removal!Next PROVE RemovalInv'
  <2>1. \/ Removal!UserStarts \/ Removal!PodAppears \/ Removal!Stops \/ Removal!Settles \/ Removal!WorkArrives
        \/ Removal!EntersAnew \/ Removal!KubeletLetsGo \/ Removal!Vanishes \/ Removal!OthersReplace
        \/ Removal!ToolCommits
        \/ Removal!Report \/ Removal!MakeExport \/ Removal!CompareObjects \/ Removal!MoveAside
        \/ Removal!Apply \/ Removal!HearTool \/ Removal!PostCheck
        \/ (\E o \in Removal!Objects : Removal!Look(o) \/ Removal!Delete(o) \/ Removal!WaitGone(o))
        \/ Removal!Host \/ Removal!Unmount \/ Removal!RemoveStorage \/ Removal!RemoveOutput \/ Removal!Inventories
        \/ Removal!Fails \/ Removal!Rests
    BY <1>2 DEF Removal!Next
  <2> QED BY <1>2, <2>1, RemovalWorldHolds, RemovalToolHolds, RemovalReportHolds, RemovalApplyHolds, RemovalHostHolds
<1> QED BY <1>1, <1>2

LEMMA RemovalInit == Removal!Init => RemovalInv
<1> SUFFICES ASSUME Removal!Init PROVE RemovalInv
  OBVIOUS
<1> USE DEF Removal!Init
<1>1. rows \in OwnerRows /\ rows.state = 1
  BY RevisionRange DEF OwnerRows
<1>2. wrapper \in Wrappers /\ wrapper.step = "idle" /\ wrapper.code = 0
  BY DEF Removal!Resting, Wrappers, Steps
<1>3. Removal!TypeOK
  <2>1. {rows, export} \subseteq OwnerRows /\ (rows.state = 0 <=> rows = Removal!None)
    BY <1>1, NoRowsSound
  <2>2. disk \in HostFiles /\ objects \in [Removal!Objects -> 0..2] /\ dying \subseteq Removal!Objects
    BY DEF HostFiles
  <2>3. body \in BOOLEAN /\ fence \in 0..MaxRev /\ tool = "none" /\ orphan \in BOOLEAN /\ applied \in BOOLEAN
        /\ touched \in BOOLEAN
    BY RevisionRange
  <2> QED BY <1>2, <2>1, <2>2, <2>3 DEF Removal!TypeOK, OwnerRows, HostFiles, Wrappers, Steps
<1>4. RemovalRows /\ RemovalObjects /\ RemovalDisk /\ RemovalCodes
  BY <1>1, <1>2 DEF RemovalRows, RemovalObjects, RemovalDisk, RemovalCodes
<1> QED BY <1>3, <1>4 DEF RemovalInv

(* Objects go after the rows that name them, files after those objects.    *)
LEMMA RemovalFollows == RemovalInv => Removal!NothingDangles /\ Removal!CodesAreMeant
<1> SUFFICES ASSUME RemovalInv PROVE Removal!NothingDangles /\ Removal!CodesAreMeant
  OBVIOUS
<1>1. Removal!NothingDangles
  BY DEF RemovalInv, RemovalRows, RemovalObjects, RemovalDisk, Removal!NothingDangles
<1>2. Removal!CodesAreMeant
  BY DEF RemovalInv, RemovalRows, RemovalObjects, RemovalCodes, Removal!CodesAreMeant
<1> QED BY <1>1, <1>2

(* Only the tool takes the rows, and as they were reviewed.                *)
LEMMA RowsGoStep ==
  ASSUME RemovalInv, Removal!Next, rows.state = 1, rows'.state = 0
  PROVE  rows = export /\ ~body /\ rows.phase = "rest" /\ rows.proved /\ ~rows.busy
<1>0. rows \in OwnerRows
  BY DEF RemovalInv, Removal!TypeOK, OwnerRows
<1>1. CASE Removal!ToolCommits
  <2>1. Removal!ToolResult = "deleted"
    BY <1>0, <1>1 DEF Removal!ToolCommits
  <2>2. Removal!AsReviewed
    BY <2>1 DEF Removal!ToolResult
  <2> QED BY <2>2 DEF Removal!AsReviewed, Removal!Exportable, RemovalInv, RemovalRows
<1>2. CASE ~Removal!ToolCommits
  <2>1. Removal!UserStarts \/ Removal!Stops \/ Removal!Settles \/ Removal!WorkArrives => rows'.state = 1
    BY <1>0 DEF Removal!UserStarts, Removal!Stops, Removal!Settles, Removal!WorkArrives, OwnerRows
  <2>2. ~Removal!EntersAnew
    BY DEF Removal!EntersAnew
  <2>3. \/ Removal!PodAppears \/ Removal!KubeletLetsGo \/ Removal!Vanishes \/ Removal!OthersReplace
        \/ Removal!Report \/ Removal!MakeExport \/ Removal!CompareObjects \/ Removal!MoveAside
        \/ Removal!Apply \/ Removal!HearTool \/ Removal!PostCheck
        \/ (\E o \in Removal!Objects : Removal!Look(o) \/ Removal!Delete(o) \/ Removal!WaitGone(o))
        \/ Removal!Host \/ Removal!Unmount \/ Removal!RemoveStorage \/ Removal!RemoveOutput \/ Removal!Inventories
        \/ Removal!Fails \/ Removal!Rests
        => rows' = rows
    BY DEF Removal!PodAppears, Removal!KubeletLetsGo, Removal!Vanishes, Removal!OthersReplace, Removal!Report,
           Removal!MakeExport, Removal!CompareObjects, Removal!MoveAside, Removal!Apply, Removal!HearTool,
           Removal!PostCheck, Removal!Look, Removal!Delete, Removal!WaitGone, Removal!Host, Removal!Unmount,
           Removal!RemoveStorage, Removal!RemoveOutput, Removal!Inventories, Removal!Fails, Removal!Rests,
           Removal!worldVars, Removal!HostUnchanged, Removal!decomVars
  <2> QED BY <1>2, <2>1, <2>2, <2>3 DEF Removal!Next
<1> QED BY <1>1, <1>2

(* What another made under an object's name stays there.                   *)
LEMMA OthersStayStep ==
  ASSUME RemovalInv, Removal!Next, NEW o \in Removal!Objects, objects[o] = 2
  PROVE  objects'[o] = 2
<1>0. objects \in [Removal!Objects -> 0..2] /\ o \notin dying
  BY DEF RemovalInv, Removal!TypeOK, RemovalObjects
<1>1. Removal!Vanishes \/ Removal!OthersReplace => objects'[o] = 2
  BY <1>0 DEF Removal!Vanishes, Removal!OthersReplace
<1>2. \/ Removal!UserStarts \/ Removal!PodAppears \/ Removal!Stops \/ Removal!Settles \/ Removal!WorkArrives
      \/ Removal!EntersAnew \/ Removal!KubeletLetsGo \/ Removal!ToolCommits
      \/ Removal!Report \/ Removal!MakeExport \/ Removal!CompareObjects \/ Removal!MoveAside
      \/ Removal!Apply \/ Removal!HearTool \/ Removal!PostCheck
      \/ (\E other \in Removal!Objects : Removal!Look(other) \/ Removal!Delete(other) \/ Removal!WaitGone(other))
      \/ Removal!Host \/ Removal!Unmount \/ Removal!RemoveStorage \/ Removal!RemoveOutput \/ Removal!Inventories
      \/ Removal!Fails \/ Removal!Rests
      => objects' = objects
  BY DEF Removal!UserStarts, Removal!PodAppears, Removal!Stops, Removal!Settles, Removal!WorkArrives,
         Removal!EntersAnew, Removal!KubeletLetsGo, Removal!ToolCommits, Removal!Report,
         Removal!MakeExport, Removal!CompareObjects, Removal!MoveAside, Removal!Apply, Removal!HearTool,
         Removal!PostCheck, Removal!Look, Removal!Delete, Removal!WaitGone, Removal!Host, Removal!Unmount,
         Removal!RemoveStorage, Removal!RemoveOutput, Removal!Inventories, Removal!Fails, Removal!Rests,
         Removal!worldVars, Removal!HostUnchanged, Removal!decomVars
<1> QED BY <1>1, <1>2 DEF Removal!Next

-----------------------------------------------------------------------------
(* The rehearsal's one Pod (OneShotCreate)                                 *)

RunRecords == [step : Shot!Steps, fresh : BOOLEAN, known : 0..MaxPods, uid : 0..MaxPods, ticket : BOOLEAN]
BoundRows  == [issued : BOOLEAN, uid : 0..MaxPods, owner : Runs \cup {Shot!None}]

LEMMA PodRange == MaxPods \in Nat \ {0} /\ 0 \in 0..MaxPods /\ Shot!None \notin Runs
  BY PartsAssumption DEF Shot!OneShotAssumption

(* One run's record changes, and what the invariant says of it.            *)
LEMMA RunMoves ==
  ASSUME ShotInv, NEW r \in Runs, NEW e \in RunRecords, run' = [run EXCEPT ![r] = e],
         UNCHANGED << permit, sent, restored >>,
         uidFile' \in 0..MaxPods, uidFile # 0 => uidFile' = uidFile,
         bound' \in BoundRows, bound'.owner # Shot!None => bound'.uid = 0,
         restored \/ bound.uid = 0 \/ bound'.uid = bound.uid,
         boot' \in {"virgin", "claimed", "migrated", "ready"},
         only' \in 0..made', made' \in 0..MaxPods, flying' \subseteq Runs,
         e.fresh = run[r].fresh, e.fresh => e.step \notin {"new", "read"},
         e.step \in {"reserve", "look", "preflight", "again", "post"} =>
           e.fresh /\ run[r].step \in {"claimed", "reserve", "look", "preflight", "again", "post"},
         e.step # "claimed",
         e.step \in {"bind", "observe", "keep", "reconcile", "reread", "rebind", "health"} => e.uid # 0,
         e.step = "keep" => e.known \in {0, e.uid},
         e.known # 0 => restored \/ bound'.uid = e.known,
         e.step \in {"rebind", "health"} => restored \/ bound'.uid = e.uid,
         e.step = "health" => uidFile' = e.uid
  PROVE  ShotInv'
<1>0. /\ run \in [Runs -> RunRecords] /\ bound \in BoundRows /\ PermitHolds /\ UidHolds
  BY DEF ShotInv, Shot!TypeOK, RunRecords, BoundRows
<1>1. /\ run' \in [Runs -> RunRecords] /\ run'[r] = e
      /\ \A other \in Runs \ {r} : run'[other] = run[other]
  BY <1>0
<1>2. Shot!TypeOK'
  BY <1>1 DEF ShotInv, Shot!TypeOK, RunRecords, BoundRows
<1>3. PermitHolds'
  <2>1. \A other \in Runs : run'[other].fresh = run[other].fresh
    BY <1>1
  <2>2. \A other \in Runs : run'[other].fresh => permit /\ run'[other].step \notin {"new", "read"}
    BY <1>0, <1>1 DEF PermitHolds
  <2>3. \A other \in Runs : run'[other].step \in {"reserve", "look", "preflight", "again", "post"} => run'[other].fresh
    BY <1>0, <1>1 DEF PermitHolds
  <2>4. \A other \in Runs :
          run'[other].fresh /\ run'[other].step \in {"claimed", "reserve", "look", "preflight", "again", "post"}
            => sent = 0
    BY <1>0, <1>1 DEF PermitHolds
  <2> QED BY <1>0, <2>1, <2>2, <2>3, <2>4 DEF PermitHolds
<1>4. UidHolds'
  <2>1. ASSUME NEW other \in Runs
        PROVE  /\ run'[other].step \in {"bind", "observe", "keep", "reconcile", "reread", "rebind", "health"} =>
                    run'[other].uid # 0
               /\ run'[other].step = "keep" => run'[other].known \in {0, run'[other].uid}
               /\ run'[other].step = "health" => uidFile' = run'[other].uid
    <3>1. CASE other = r
      BY <1>1, <3>1
    <3>2. CASE other # r
      <4>1. /\ run'[other] = run[other]
            /\ run[other].step = "health" => uidFile = run[other].uid
            /\ run[other].step \in {"bind", "observe", "keep", "reconcile", "reread", "rebind", "health"} =>
                 run[other].uid # 0
            /\ run[other].step = "keep" => run[other].known \in {0, run[other].uid}
        BY <1>0, <1>1, <3>2 DEF UidHolds
      <4> QED BY <4>1
    <3> QED BY <3>1, <3>2
  <2>2. ASSUME NEW other \in Runs
        PROVE  /\ run'[other].known # 0 => restored \/ bound'.uid = run'[other].known
               /\ run'[other].step \in {"rebind", "health"} => restored \/ bound'.uid = run'[other].uid
    <3>1. CASE other = r
      BY <1>1, <3>1
    <3>2. CASE other # r
      <4>1. /\ run'[other] = run[other]
            /\ run[other].known # 0 => restored \/ bound.uid = run[other].known
            /\ run[other].step \in {"rebind", "health"} => restored \/ bound.uid = run[other].uid
            /\ run[other].step \in {"rebind", "health"} => run[other].uid # 0
        BY <1>0, <1>1, <3>2 DEF UidHolds
      <4> QED BY <4>1
    <3> QED BY <3>1, <3>2
  <2> QED BY <2>1, <2>2 DEF UidHolds
<1> QED BY <1>2, <1>3, <1>4 DEF ShotInv

(* The Pod of the name, the API server and the bootstrap.                  *)
LEMMA ClusterMoves ==
  ASSUME ShotInv, UNCHANGED << permit, uidFile, bound, sent, restored, run >>,
         boot' \in {"virgin", "claimed", "migrated", "ready"},
         only' \in 0..made', made' \in 0..MaxPods, flying' \subseteq Runs
  PROVE  ShotInv'
<1>1. Shot!TypeOK'
  BY DEF ShotInv, Shot!TypeOK
<1>2. PermitHolds' /\ UidHolds'
  BY DEF ShotInv, PermitHolds, UidHolds
<1> QED BY <1>1, <1>2 DEF ShotInv

(* A run that is refused gives the owner's lock back.                      *)
LEMMA RefuseHolds ==
  ASSUME ShotInv, NEW r \in Runs, Shot!Refuse(r),
         UNCHANGED << boot, permit, only, made, flying, sent, restored >>,
         uidFile' \in 0..MaxPods, uidFile # 0 => uidFile' = uidFile
  PROVE  ShotInv'
<1> DEFINE e == [run[r] EXCEPT !.step = "refused"]
<1>0. /\ run \in [Runs -> RunRecords] /\ bound \in BoundRows /\ UidHolds
      /\ boot \in {"virgin", "claimed", "migrated", "ready"} /\ only \in 0..made /\ made \in 0..MaxPods
      /\ flying \subseteq Runs
  BY DEF ShotInv, Shot!TypeOK, RunRecords, BoundRows
<1>1. /\ e \in RunRecords /\ e.step = "refused" /\ e.fresh = run[r].fresh /\ e.known = run[r].known
      /\ run' = [run EXCEPT ![r] = e]
  BY <1>0 DEF RunRecords, Shot!Steps, Shot!Refuse, Shot!To
<1> HIDE DEF e
<1>2. bound' \in BoundRows /\ bound'.uid = bound.uid /\ bound'.owner \in {bound.owner, Shot!None}
  BY <1>0 DEF Shot!Refuse, BoundRows
<1>3. /\ bound'.owner # Shot!None => bound'.uid = 0
      /\ e.known # 0 => restored \/ bound'.uid = e.known
  BY <1>0, <1>1, <1>2 DEF UidHolds
<1> QED BY <1>0, <1>1, <1>2, <1>3, RunMoves

(* A run that takes another step and reads nothing.                        *)
LEMMA ToHolds ==
  ASSUME ShotInv, NEW r \in Runs, NEW step \in Shot!Steps \ {"new", "read", "claimed", "keep"}, Shot!To(r, step),
         UNCHANGED << boot, permit, only, made, flying, sent, restored >>,
         uidFile' \in 0..MaxPods, uidFile # 0 => uidFile' = uidFile,
         bound' \in BoundRows, bound'.owner # Shot!None => bound'.uid = 0,
         restored \/ bound.uid = 0 \/ bound'.uid = bound.uid,
         step \in {"reserve", "look", "preflight", "again", "post"} =>
           run[r].fresh /\ run[r].step \in {"claimed", "reserve", "look", "preflight", "again", "post"},
         step \in {"bind", "observe", "reconcile", "reread", "rebind", "health"} => run[r].uid # 0,
         step \in {"rebind", "health"} => restored \/ bound'.uid = run[r].uid,
         step = "health" => uidFile' = run[r].uid
  PROVE  ShotInv'
<1> DEFINE e == [run[r] EXCEPT !.step = step]
<1>0. /\ run \in [Runs -> RunRecords] /\ bound \in BoundRows /\ UidHolds
      /\ boot \in {"virgin", "claimed", "migrated", "ready"} /\ only \in 0..made /\ made \in 0..MaxPods
      /\ flying \subseteq Runs
  BY DEF ShotInv, Shot!TypeOK, RunRecords, BoundRows
<1>1. /\ e \in RunRecords /\ e.step = step /\ e.fresh = run[r].fresh /\ e.known = run[r].known
      /\ e.uid = run[r].uid /\ run' = [run EXCEPT ![r] = e]
  BY <1>0 DEF RunRecords, Shot!To
<1> HIDE DEF e
<1>2. e.known # 0 => restored \/ bound'.uid = e.known
  BY <1>0, <1>1 DEF UidHolds
<1> QED BY <1>0, <1>1, <1>2, RunMoves

(* The permit, and what the fresh run does with it.                        *)
LEMMA ShotPermitHolds ==
  ASSUME ShotInv, NEW r \in Runs,
         Shot!ReadRow(r) \/ Shot!Claim(r) \/ Shot!Preflight(r) \/ Shot!Reserve(r) \/ Shot!LookBeforeCreate(r)
  PROVE  ShotInv'
<1> USE DEF Shot!Files, Shot!Cluster, Shot!At
<1>0. /\ run \in [Runs -> RunRecords] /\ bound \in BoundRows /\ UidHolds /\ PermitHolds
      /\ boot \in {"virgin", "claimed", "migrated", "ready"} /\ only \in 0..made /\ made \in 0..MaxPods
      /\ flying \subseteq Runs /\ uidFile \in 0..MaxPods /\ sent \in Nat
  BY DEF ShotInv, Shot!TypeOK, RunRecords, BoundRows
<1>r. run[r] \in RunRecords
  BY <1>0
<1>u. bound.uid \in 0..MaxPods /\ only \in 0..MaxPods
  BY <1>0, PodRange DEF BoundRows
<1>1. ASSUME Shot!ReadRow(r) PROVE ShotInv'
  <2> DEFINE e == [run[r] EXCEPT !.step = "read", !.known = bound.uid]
  <2>1. /\ UNCHANGED << boot, permit, uidFile, bound, only, made, flying, sent, restored >> /\ run[r].step = "new"
        /\ run' = [run EXCEPT ![r] = e]
    BY <1>1 DEF Shot!ReadRow
  <2>2. e \in RunRecords /\ e.step = "read" /\ e.fresh = run[r].fresh /\ e.known = bound.uid
    BY <1>r, <1>u DEF RunRecords, Shot!Steps
  <2> HIDE DEF e
  <2>3. ~e.fresh
    BY <1>0, <2>1, <2>2 DEF PermitHolds
  <2> QED BY <1>0, <2>1, <2>2, <2>3, RunMoves DEF UidHolds
<1>2. ASSUME Shot!Claim(r) PROVE ShotInv'
  <2> DEFINE e == [run[r] EXCEPT !.step = "claimed", !.fresh = ~permit]
  <2>1. /\ UNCHANGED << boot, uidFile, bound, only, made, flying, sent, restored >> /\ run[r].step = "read"
        /\ run' = [run EXCEPT ![r] = e] /\ permit' = TRUE
    BY <1>2 DEF Shot!Claim, Shot!Claims
  <2>2. e \in RunRecords /\ e.step = "claimed" /\ e.fresh = ~permit /\ e.known = run[r].known
    BY <1>r DEF RunRecords, Shot!Steps
  <2> HIDE DEF e
  <2>3. /\ run' \in [Runs -> RunRecords] /\ run'[r] = e
        /\ \A other \in Runs \ {r} : run'[other] = run[other]
    BY <1>0, <2>1, <2>2
  <2>4. Shot!TypeOK'
    BY <2>1, <2>3 DEF ShotInv, Shot!TypeOK, RunRecords
  <2>5. \A other \in Runs : run[other].fresh => permit
    BY <1>0 DEF PermitHolds
  <2>6. ~run[r].fresh
    BY <1>0, <2>1 DEF PermitHolds
  <2>7. ASSUME NEW other \in Runs, run'[other].fresh
        PROVE  /\ run'[other].step \notin {"new", "read"}
               /\ run'[other].step \in {"claimed", "reserve", "look", "preflight", "again", "post"} => sent = 0
               /\ \A third \in Runs : run'[third].fresh => third = other
    BY <1>0, <2>2, <2>3, <2>5, <2>7 DEF PermitHolds
  <2>8. \A other \in Runs : run'[other].step \in {"reserve", "look", "preflight", "again", "post"} => run'[other].fresh
    BY <1>0, <2>2, <2>3 DEF PermitHolds
  <2>9. PermitHolds'
    BY <1>0, <2>1, <2>7, <2>8 DEF PermitHolds
  <2>10. UidHolds'
    BY <1>0, <2>1, <2>2, <2>3 DEF UidHolds
  <2> QED BY <2>4, <2>9, <2>10 DEF ShotInv
<1>3. ASSUME Shot!Preflight(r) PROVE ShotInv'
  <2>1. /\ UNCHANGED << boot, permit, uidFile, only, made, flying, sent, restored >> /\ run[r].step = "claimed"
        /\ \/ ~run[r].fresh /\ Shot!To(r, "lookup") /\ bound' = bound
           \/ run[r].fresh /\ Shot!To(r, "reserve") /\ bound' = bound
           \/ Shot!Refuse(r)
    BY <1>3 DEF Shot!Preflight
  <2>2. CASE Shot!Refuse(r)
    BY <1>0, <2>1, <2>2, RefuseHolds
  <2>3. CASE Shot!To(r, "lookup") /\ bound' = bound
    BY <1>0, <2>1, <2>3, ToHolds DEF Shot!Steps, UidHolds
  <2>4. CASE run[r].fresh /\ Shot!To(r, "reserve") /\ bound' = bound
    BY <1>0, <2>1, <2>4, ToHolds DEF Shot!Steps, UidHolds
  <2> QED BY <2>1, <2>2, <2>3, <2>4
<1>4. ASSUME Shot!Reserve(r) PROVE ShotInv'
  <2> DEFINE e == [run[r] EXCEPT !.step = "look", !.ticket = ~bound.issued]
  <2>1. /\ UNCHANGED << boot, permit, uidFile, only, made, flying, sent, restored >> /\ run[r].step = "reserve"
        /\ bound.owner = Shot!None
    BY <1>4 DEF Shot!Reserve
  <2>2. CASE bound.uid # 0
    BY <1>0, <1>4, <2>1, <2>2, RefuseHolds DEF Shot!Reserve
  <2>3. CASE bound.uid = 0
    <3>1. bound' = [bound EXCEPT !.issued = TRUE] /\ run' = [run EXCEPT ![r] = e]
      BY <1>4, <2>3 DEF Shot!Reserve
    <3>2. e \in RunRecords /\ e.step = "look" /\ e.fresh = run[r].fresh /\ e.known = run[r].known
      BY <1>r, <1>0 DEF RunRecords, Shot!Steps, BoundRows
    <3> HIDE DEF e
    <3>3. bound' \in BoundRows /\ bound'.uid = bound.uid /\ bound'.owner = bound.owner
      BY <1>0, <3>1 DEF BoundRows
    <3>4. run[r].fresh /\ (e.known # 0 => restored \/ bound'.uid = e.known)
      BY <1>0, <2>1, <3>2, <3>3 DEF PermitHolds, UidHolds
    <3> QED BY <1>0, <2>1, <2>3, <3>1, <3>2, <3>3, <3>4, RunMoves
  <2> QED BY <2>2, <2>3
<1>5. ASSUME Shot!LookBeforeCreate(r) PROVE ShotInv'
  <2>1. /\ UNCHANGED << boot, permit, uidFile, only, made, flying, sent, restored >> /\ run[r].step = "look"
        /\ bound.owner = Shot!None
    BY <1>5 DEF Shot!LookBeforeCreate
  <2>f. run[r].fresh
    BY <1>0, <2>1 DEF PermitHolds
  <2>k. run[r].known # 0 => restored \/ bound.uid = run[r].known
    BY <1>0 DEF UidHolds
  <2>2. CASE bound.uid # 0
    <3> DEFINE e == [run[r] EXCEPT !.step = "rebind", !.uid = bound.uid]
    <3>1. run' = [run EXCEPT ![r] = e] /\ bound' = bound
      BY <1>5, <2>2 DEF Shot!LookBeforeCreate
    <3>2. e \in RunRecords /\ e.step = "rebind" /\ e.fresh = run[r].fresh /\ e.known = run[r].known /\ e.uid = bound.uid
      BY <1>r, <1>u DEF RunRecords, Shot!Steps
    <3> HIDE DEF e
    <3> QED BY <1>0, <2>1, <2>2, <2>k, <3>1, <3>2, RunMoves
  <2>3. CASE bound.uid = 0 /\ only # 0
    <3> DEFINE e == [run[r] EXCEPT !.step = "observe", !.uid = only]
    <3>1. run' = [run EXCEPT ![r] = e] /\ bound' = [bound EXCEPT !.owner = r]
      BY <1>5, <2>3 DEF Shot!LookBeforeCreate
    <3>2. e \in RunRecords /\ e.step = "observe" /\ e.fresh = run[r].fresh /\ e.known = run[r].known /\ e.uid = only
      BY <1>r, <1>u DEF RunRecords, Shot!Steps
    <3> HIDE DEF e
    <3>3. bound' \in BoundRows /\ bound'.uid = bound.uid
      BY <1>0, <3>1 DEF BoundRows
    <3> QED BY <1>0, <2>1, <2>3, <2>k, <3>1, <3>2, <3>3, RunMoves
  <2>4. CASE bound.uid = 0 /\ only = 0 /\ run[r].ticket
    <3>1. bound' = [bound EXCEPT !.owner = r] /\ Shot!To(r, "preflight")
      BY <1>5, <2>4 DEF Shot!LookBeforeCreate
    <3>2. bound' \in BoundRows /\ bound'.uid = bound.uid
      BY <1>0, <3>1 DEF BoundRows
    <3> QED BY <1>0, <2>1, <2>f, <2>4, <3>1, <3>2, ToHolds DEF Shot!Steps
  <2>5. CASE bound.uid = 0 /\ only = 0 /\ ~run[r].ticket
    BY <1>0, <1>5, <2>1, <2>5, RefuseHolds DEF Shot!LookBeforeCreate
  <2> QED BY <2>2, <2>3, <2>4, <2>5
<1> QED BY <1>1, <1>2, <1>3, <1>4, <1>5

(* The POST and its answer, the Pod that is bound, and what a run finds    *)
(* again.                                                                  *)
LEMMA ShotCreateHolds ==
  ASSUME ShotInv, NEW r \in Runs,
         Shot!PreflightAgain(r) \/ Shot!Post(r) \/ Shot!Handled(r) \/ Shot!Observe(r) \/ Shot!Lookup(r)
         \/ Shot!Reconcile(r) \/ Shot!Compare(r) \/ Shot!Health(r) \/ Shot!Dies(r)
  PROVE  ShotInv'
<1> USE DEF Shot!Files, Shot!Cluster, Shot!At
<1>0. /\ run \in [Runs -> RunRecords] /\ bound \in BoundRows /\ UidHolds /\ PermitHolds
      /\ boot \in {"virgin", "claimed", "migrated", "ready"} /\ only \in 0..made /\ made \in 0..MaxPods
      /\ flying \subseteq Runs /\ uidFile \in 0..MaxPods
  BY DEF ShotInv, Shot!TypeOK, RunRecords, BoundRows
<1>r. run[r] \in RunRecords
  BY <1>0
<1>u. only \in 0..MaxPods
  BY <1>0, PodRange
<1>k. run[r].known # 0 => restored \/ bound.uid = run[r].known
  BY <1>0 DEF UidHolds
<1>o. bound.owner # Shot!None => bound.uid = 0
  BY <1>0 DEF UidHolds
<1>1. ASSUME Shot!PreflightAgain(r) PROVE ShotInv'
  <2>1. /\ UNCHANGED << boot, permit, uidFile, only, made, flying, sent, restored >>
        /\ run[r].step \in {"preflight", "again"}
        /\ \/ (\E step \in {"again", "post"} : Shot!To(r, step)) /\ bound' = bound
           \/ Shot!Refuse(r)
    BY <1>1 DEF Shot!PreflightAgain
  <2>2. run[r].fresh
    BY <1>0, <2>1 DEF PermitHolds
  <2>3. ASSUME NEW step \in {"again", "post"}, Shot!To(r, step), bound' = bound PROVE ShotInv'
    BY <1>0, <1>o, <2>1, <2>2, <2>3, ToHolds DEF Shot!Steps
  <2> QED BY <1>0, <2>1, <2>3, RefuseHolds
<1>2. ASSUME Shot!Post(r) PROVE ShotInv'
  <2> DEFINE e == [run[r] EXCEPT !.step = "asked"]
  <2>1. /\ UNCHANGED << boot, permit, uidFile, bound, only, made, restored >> /\ run[r].step = "post"
        /\ run' = [run EXCEPT ![r] = e] /\ flying' = flying \cup {r} /\ sent' = sent + 1
    BY <1>2 DEF Shot!Post, Shot!To
  <2>2. e \in RunRecords /\ e.step = "asked" /\ e.fresh = run[r].fresh /\ e.known = run[r].known
    BY <1>r DEF RunRecords, Shot!Steps
  <2> HIDE DEF e
  <2>3. /\ run' \in [Runs -> RunRecords] /\ run'[r] = e
        /\ \A other \in Runs \ {r} : run'[other] = run[other]
    BY <1>0, <2>1, <2>2
  <2>4. run[r].fresh /\ sent = 0 /\ permit
    BY <1>0, <2>1 DEF PermitHolds
  <2>5. Shot!TypeOK'
    <3>1. sent' \in Nat /\ flying' \subseteq Runs
      BY <1>0, <2>1, <2>4
    <3> QED BY <2>1, <2>3, <3>1 DEF ShotInv, Shot!TypeOK, RunRecords
  <2>6. ASSUME NEW other \in Runs, run'[other].fresh
        PROVE  other = r /\ run'[other].step = "asked"
    BY <1>0, <2>2, <2>3, <2>4, <2>6 DEF PermitHolds
  <2>7. \A other \in Runs : run'[other].step \in {"reserve", "look", "preflight", "again", "post"} => run'[other].fresh
    BY <1>0, <2>2, <2>3 DEF PermitHolds
  <2>8. PermitHolds'
    BY <2>1, <2>4, <2>6, <2>7 DEF PermitHolds
  <2>9. UidHolds'
    BY <1>0, <2>1, <2>2, <2>3 DEF UidHolds
  <2> QED BY <2>5, <2>8, <2>9 DEF ShotInv
<1>3. ASSUME Shot!Handled(r) PROVE ShotInv'
  <2>1. /\ UNCHANGED << boot, permit, uidFile, bound, sent, restored >> /\ flying' \subseteq Runs
    BY <1>0, <1>3 DEF Shot!Handled
  <2>2. /\ \/ UNCHANGED << made, only >>
           \/ made < MaxPods /\ made' = made + 1 /\ only' = made + 1
        /\ \/ run' = run
           \/ /\ made < MaxPods /\ made' = made + 1
              /\ run' = [run EXCEPT ![r].step = "bind", ![r].uid = made + 1]
    BY <1>3 DEF Shot!Handled
  <2>3. only' \in 0..made' /\ made' \in 0..MaxPods
    BY <1>0, <2>2, PodRange
  <2>4. CASE run' = run
    BY <1>0, <2>1, <2>3, <2>4, ClusterMoves
  <2>5. CASE /\ made < MaxPods /\ made' = made + 1
             /\ run' = [run EXCEPT ![r].step = "bind", ![r].uid = made + 1]
    <3> DEFINE e == [run[r] EXCEPT !.step = "bind", !.uid = made + 1]
    <3>1. made + 1 \in 0..MaxPods /\ made + 1 # 0
      BY <1>0, <2>5, PodRange
    <3>2. e \in RunRecords /\ e.step = "bind" /\ e.fresh = run[r].fresh /\ e.known = run[r].known /\ e.uid = made + 1
      BY <1>r, <3>1 DEF RunRecords, Shot!Steps
    <3>3. run' = [run EXCEPT ![r] = e]
      BY <2>5
    <3> HIDE DEF e
    <3> QED BY <1>0, <1>k, <1>o, <2>1, <2>3, <3>1, <3>2, <3>3, RunMoves
  <2> QED BY <2>2, <2>4, <2>5
<1>4. ASSUME Shot!Observe(r) PROVE ShotInv'
  <2>1. /\ UNCHANGED << boot, permit, uidFile, only, made, flying, sent, restored >>
        /\ run[r].step = "observe" /\ bound.owner = r /\ Shot!To(r, "rebind")
        /\ bound' = [bound EXCEPT !.uid = run[r].uid, !.owner = Shot!None]
    BY <1>4 DEF Shot!Observe
  <2>2. bound.uid = 0
    BY <1>o, <2>1, PodRange
  <2>3. run[r].uid # 0 /\ run[r].uid \in 0..MaxPods
    BY <1>0, <1>r, <2>1 DEF UidHolds, RunRecords
  <2>4. bound' \in BoundRows /\ bound'.owner = Shot!None /\ bound'.uid = run[r].uid
    BY <1>0, <2>1, <2>3 DEF BoundRows
  <2>5. run[r].known # 0 => restored
    BY <1>k, <2>2
  <2> DEFINE e == [run[r] EXCEPT !.step = "rebind"]
  <2>6. /\ e \in RunRecords /\ e.step = "rebind" /\ e.fresh = run[r].fresh /\ e.known = run[r].known
        /\ e.uid = run[r].uid /\ run' = [run EXCEPT ![r] = e]
    BY <1>r, <2>1 DEF RunRecords, Shot!Steps, Shot!To
  <2> HIDE DEF e
  <2> QED BY <1>0, <2>1, <2>2, <2>3, <2>4, <2>5, <2>6, RunMoves
<1>5. ASSUME Shot!Lookup(r) PROVE ShotInv'
  <2>1. UNCHANGED << boot, permit, uidFile, only, made, flying, sent, restored >>
    BY <1>5 DEF Shot!Lookup
  <2>2. CASE only # 0 /\ run[r].known \in {0, only}
    <3> DEFINE e == [run[r] EXCEPT !.step = "keep", !.uid = only]
    <3>1. run' = [run EXCEPT ![r] = e] /\ bound' = bound
      BY <1>5, <2>2 DEF Shot!Lookup
    <3>2. e \in RunRecords /\ e.step = "keep" /\ e.fresh = run[r].fresh /\ e.known = run[r].known /\ e.uid = only
      BY <1>r, <1>u DEF RunRecords, Shot!Steps
    <3> HIDE DEF e
    <3> QED BY <1>0, <1>k, <1>o, <2>1, <2>2, <3>1, <3>2, RunMoves
  <2>3. CASE ~(only # 0 /\ run[r].known \in {0, only})
    BY <1>0, <1>5, <2>1, <2>3, RefuseHolds DEF Shot!Lookup
  <2> QED BY <2>2, <2>3
<1>6. ASSUME Shot!Reconcile(r) PROVE ShotInv'
  <2>1. /\ UNCHANGED << boot, permit, uidFile, only, made, flying, sent, restored >>
        /\ run[r].step = "reconcile" /\ bound.owner = Shot!None
    BY <1>6 DEF Shot!Reconcile
  <2>2. CASE bound.issued /\ bound.uid = 0 /\ only # 0
    <3>1. bound' = [bound EXCEPT !.uid = only] /\ Shot!To(r, "reread")
      BY <1>6, <2>2 DEF Shot!Reconcile
    <3>2. bound' \in BoundRows /\ bound'.owner = Shot!None
      BY <1>0, <1>u, <2>1, <3>1 DEF BoundRows
    <3>3. run[r].uid # 0
      BY <1>0, <2>1 DEF UidHolds
    <3>4. run[r].known # 0 => restored
      BY <1>k, <2>2
    <3> DEFINE e == [run[r] EXCEPT !.step = "reread"]
    <3>5. /\ e \in RunRecords /\ e.step = "reread" /\ e.fresh = run[r].fresh /\ e.known = run[r].known
          /\ e.uid = run[r].uid /\ run' = [run EXCEPT ![r] = e]
      BY <1>r, <3>1 DEF RunRecords, Shot!Steps, Shot!To
    <3> HIDE DEF e
    <3> QED BY <1>0, <2>1, <2>2, <3>2, <3>3, <3>4, <3>5, RunMoves
  <2>3. CASE ~(bound.issued /\ bound.uid = 0 /\ only # 0)
    BY <1>0, <1>6, <2>1, <2>3, RefuseHolds DEF Shot!Reconcile
  <2> QED BY <2>2, <2>3
<1>7. ASSUME Shot!Compare(r) PROVE ShotInv'
  <2>1. /\ UNCHANGED << boot, permit, uidFile, only, made, flying, sent, restored >> /\ run[r].step = "reread"
        /\ \/ bound.uid = run[r].uid /\ Shot!To(r, "rebind") /\ bound' = bound
           \/ Shot!Refuse(r)
    BY <1>7 DEF Shot!Compare, Shot!Same
  <2>2. CASE bound.uid = run[r].uid /\ Shot!To(r, "rebind") /\ bound' = bound
    <3>1. run[r].uid # 0
      BY <1>0, <2>1 DEF UidHolds
    <3> QED BY <1>0, <1>o, <2>1, <2>2, <3>1, ToHolds DEF Shot!Steps
  <2> QED BY <1>0, <2>1, <2>2, RefuseHolds
<1>8. ASSUME Shot!Health(r) PROVE ShotInv'
  <2>1. /\ UNCHANGED << boot, permit, uidFile, only, made, flying, sent, restored >>
        /\ (Shot!To(r, "done") /\ bound' = bound) \/ Shot!Refuse(r)
    BY <1>8 DEF Shot!Health
  <2>2. CASE Shot!To(r, "done") /\ bound' = bound
    BY <1>0, <1>o, <2>1, <2>2, ToHolds DEF Shot!Steps
  <2> QED BY <1>0, <2>1, <2>2, RefuseHolds
<1>9. ASSUME Shot!Dies(r) PROVE ShotInv'
  BY <1>0, <1>9, RefuseHolds DEF Shot!Dies
<1> QED BY <1>1, <1>2, <1>3, <1>4, <1>5, <1>6, <1>7, <1>8, <1>9

(* The bound UID is written once; a run that holds another is refused.     *)
LEMMA ShotBindHolds ==
  ASSUME ShotInv, NEW r \in Runs, Shot!BindCreated(r) \/ Shot!BindFound(r) \/ Shot!Rebind(r)
  PROVE  ShotInv'
<1> USE DEF Shot!Cluster, Shot!At
<1>0. /\ run \in [Runs -> RunRecords] /\ bound \in BoundRows /\ UidHolds /\ uidFile \in 0..MaxPods
  BY DEF ShotInv, Shot!TypeOK, RunRecords, BoundRows
<1>1. run[r].uid \in 0..MaxPods
  BY <1>0 DEF RunRecords
<1>2. /\ run[r].step \in {"bind", "keep", "rebind"} => run[r].uid # 0
      /\ run[r].step = "keep" => run[r].known \in {0, run[r].uid}
      /\ run[r].known # 0 => restored \/ bound.uid = run[r].known
      /\ run[r].step = "rebind" => restored \/ bound.uid = run[r].uid
      /\ bound.owner # Shot!None => bound.uid = 0
  BY <1>0 DEF UidHolds
<1>3. ASSUME NEW next \in {"observe", "reconcile", "rebind", "health"}, Shot!BindUid(r, next), run[r].uid # 0,
             next \in {"rebind", "health"} => restored \/ bound.uid = run[r].uid
      PROVE  ShotInv'
  <2>1. /\ UNCHANGED << boot, permit, only, made, flying, sent, restored >>
        /\ uidFile' = (IF uidFile = 0 THEN run[r].uid ELSE uidFile)
        /\ \/ uidFile' = run[r].uid /\ Shot!To(r, next) /\ bound' = bound
           \/ Shot!Refuse(r)
    BY <1>3 DEF Shot!BindUid, Shot!Bound
  <2>2. uidFile' \in 0..MaxPods /\ (uidFile # 0 => uidFile' = uidFile)
    BY <1>0, <1>1, <2>1
  <2>3. CASE uidFile' = run[r].uid /\ Shot!To(r, next) /\ bound' = bound
    <3>1. next \in Shot!Steps \ {"new", "read", "claimed", "keep"}
      BY DEF Shot!Steps
    <3> QED BY <1>0, <1>2, <1>3, <2>1, <2>2, <2>3, <3>1, ToHolds
  <2> QED BY <2>1, <2>2, <2>3, RefuseHolds
<1>4. CASE Shot!BindCreated(r)
  BY <1>2, <1>3, <1>4 DEF Shot!BindCreated
<1>5. CASE Shot!Rebind(r)
  BY <1>2, <1>3, <1>5 DEF Shot!Rebind
<1>6. CASE Shot!BindFound(r)
  <2>1. run[r].step = "keep" /\ Shot!BindUid(r, IF run[r].known = 0 THEN "reconcile" ELSE "rebind")
    BY <1>6 DEF Shot!BindFound
  <2>2. CASE run[r].known = 0
    BY <1>2, <1>3, <2>1, <2>2
  <2>3. CASE run[r].known # 0
    BY <1>2, <1>3, <2>1, <2>3
  <2> QED BY <2>2, <2>3
<1> QED BY <1>4, <1>5, <1>6

LEMMA ShotStep == ShotInv /\ [Shot!Next]_shotVars => ShotInv'
<1>1. ASSUME ShotInv, UNCHANGED shotVars PROVE ShotInv'
  BY <1>1 DEF shotVars, ShotInv, Shot!TypeOK, PermitHolds, UidHolds
<1>2. ASSUME ShotInv, Shot!RestoreBackup PROVE ShotInv'
  <2>1. /\ UNCHANGED << boot, permit, uidFile, only, made, flying, sent, run >>
        /\ restored' = TRUE /\ bound.owner = Shot!None /\ bound' = [bound EXCEPT !.issued = FALSE, !.uid = 0]
    BY <1>2 DEF Shot!RestoreBackup, Shot!Files, Shot!Cluster
  <2>2. bound \in BoundRows
    BY <1>2 DEF ShotInv, Shot!TypeOK, BoundRows
  <2>3. bound' \in BoundRows /\ bound'.uid = 0
    BY <2>1, <2>2, PodRange DEF BoundRows
  <2>4. Shot!TypeOK'
    BY <1>2, <2>1, <2>3 DEF ShotInv, Shot!TypeOK, BoundRows
  <2>5. PermitHolds' /\ UidHolds'
    BY <1>2, <2>1, <2>3 DEF ShotInv, PermitHolds, UidHolds
  <2> QED BY <2>4, <2>5 DEF ShotInv
<1>3. ASSUME ShotInv, Shot!Bootstrap \/ Shot!OthersDelete \/ Shot!OthersMake PROVE ShotInv'
  <2>1. UNCHANGED << permit, uidFile, bound, sent, restored, run, flying >>
    BY <1>3 DEF Shot!Bootstrap, Shot!OthersDelete, Shot!OthersMake, Shot!Files
  <2>2. /\ boot \in {"virgin", "claimed", "migrated", "ready"} /\ only \in 0..made /\ made \in 0..MaxPods
        /\ flying \subseteq Runs
    BY <1>3 DEF ShotInv, Shot!TypeOK
  <2>3. boot' \in {"virgin", "claimed", "migrated", "ready"}
    BY <1>3, <2>2 DEF Shot!Bootstrap, Shot!OthersDelete, Shot!OthersMake
  <2>4. (UNCHANGED << only, made >>) \/ (only' = 0 /\ made' = made) \/ (made < MaxPods /\ only' = made + 1 /\ made' = made + 1)
    BY <1>3 DEF Shot!Bootstrap, Shot!OthersDelete, Shot!OthersMake
  <2>5. only' \in 0..made' /\ made' \in 0..MaxPods
    BY <2>2, <2>4, PodRange
  <2> QED BY <1>3, <2>1, <2>2, <2>3, <2>5, ClusterMoves
<1>4. ASSUME ShotInv, Shot!Rests PROVE ShotInv'
  BY <1>1, <1>4 DEF Shot!Rests, Shot!shotVars, shotVars
<1> QED BY <1>1, <1>2, <1>3, <1>4, ShotPermitHolds, ShotCreateHolds, ShotBindHolds DEF Shot!Next

LEMMA ShotInit == Shot!Init => ShotInv
<1> SUFFICES ASSUME Shot!Init PROVE ShotInv
  OBVIOUS
<1> USE DEF Shot!Init
<1>1. Shot!NewRun \in RunRecords /\ Shot!NewRun.step = "new" /\ ~Shot!NewRun.fresh /\ Shot!NewRun.known = 0
  BY PodRange DEF Shot!NewRun, RunRecords, Shot!Steps
<1> HIDE DEF Shot!NewRun
<1>2. run \in [Runs -> RunRecords] /\ \A r \in Runs : run[r] = Shot!NewRun
  BY <1>1
<1>3. bound \in BoundRows /\ bound.owner = Shot!None /\ bound.uid = 0
  BY PodRange DEF BoundRows
<1>4. Shot!TypeOK
  <2>1. uidFile \in 0..MaxPods /\ made \in 0..MaxPods /\ only \in 0..made /\ sent \in Nat
    BY PodRange
  <2>2. boot = "virgin" /\ permit \in BOOLEAN /\ restored \in BOOLEAN /\ flying \subseteq Runs
    OBVIOUS
  <2> HIDE DEF Shot!Init
  <2> QED BY <1>2, <1>3, <2>1, <2>2 DEF Shot!TypeOK, RunRecords, BoundRows
<1>5. PermitHolds /\ UidHolds
  BY <1>1, <1>2, <1>3 DEF PermitHolds, UidHolds
<1> QED BY <1>4, <1>5 DEF ShotInv

(* A bound UID is never replaced.                                          *)
LEMMA UidKeptStep ==
  ASSUME ShotInv, Shot!Next, uidFile # 0
  PROVE  uidFile' = uidFile
<1>1. ASSUME NEW r \in Runs, NEW next, Shot!BindUid(r, next) PROVE uidFile' = uidFile
  BY <1>1 DEF Shot!BindUid, Shot!Bound
<1>2. Shot!Bootstrap \/ Shot!OthersDelete \/ Shot!OthersMake \/ Shot!RestoreBackup \/ Shot!Rests => uidFile' = uidFile
  BY DEF Shot!Bootstrap, Shot!OthersDelete, Shot!OthersMake, Shot!RestoreBackup, Shot!Rests, Shot!Files, Shot!shotVars
<1>3. ASSUME NEW r \in Runs, Shot!BindCreated(r) \/ Shot!BindFound(r) \/ Shot!Rebind(r) PROVE uidFile' = uidFile
  BY <1>1, <1>3 DEF Shot!BindCreated, Shot!BindFound, Shot!Rebind
<1>4. ASSUME NEW r \in Runs,
             \/ Shot!ReadRow(r) \/ Shot!Claim(r) \/ Shot!Preflight(r) \/ Shot!Reserve(r) \/ Shot!LookBeforeCreate(r)
             \/ Shot!PreflightAgain(r) \/ Shot!Post(r) \/ Shot!Handled(r) \/ Shot!Observe(r) \/ Shot!Lookup(r)
             \/ Shot!Reconcile(r) \/ Shot!Compare(r) \/ Shot!Health(r) \/ Shot!Dies(r)
      PROVE  uidFile' = uidFile
  BY <1>4 DEF Shot!ReadRow, Shot!Claim, Shot!Preflight, Shot!Reserve, Shot!LookBeforeCreate, Shot!PreflightAgain,
              Shot!Post, Shot!Handled, Shot!Observe, Shot!Lookup, Shot!Reconcile, Shot!Compare, Shot!Health,
              Shot!Dies, Shot!Files
<1> QED BY <1>2, <1>3, <1>4 DEF Shot!Next

(* A run is done only in its health check.                                 *)
LEMMA ResultStep ==
  ASSUME ShotInv, Shot!Next, NEW r \in Runs, run[r].step # "done", run'[r].step = "done"
  PROVE  uidFile = run[r].uid /\ only = run[r].uid /\ (restored \/ bound.uid = run[r].uid)
<1>0. run \in [Runs -> RunRecords] /\ UidHolds
  BY DEF ShotInv, Shot!TypeOK, RunRecords
<1>1. ASSUME NEW other \in Runs, NEW step, Shot!To(other, step), step # "done" PROVE FALSE
  <2>1. run'[r] = IF r = other THEN [run[r] EXCEPT !.step = step] ELSE run[r]
    BY <1>0, <1>1 DEF Shot!To
  <2> QED BY <1>0, <1>1, <2>1 DEF RunRecords
<1>2. ASSUME NEW other \in Runs, Shot!Refuse(other) PROVE FALSE
  BY <1>1, <1>2 DEF Shot!Refuse
<1>3. ASSUME NEW other \in Runs, NEW e \in RunRecords, e.step # "done", run' = [run EXCEPT ![other] = e] PROVE FALSE
  BY <1>0, <1>3
<1>4. run' # run
  OBVIOUS
<1>r. \A other \in Runs : run[other] \in RunRecords
  BY <1>0
<1>u. bound.uid \in 0..MaxPods /\ only \in 0..MaxPods /\ made \in 0..MaxPods /\ permit \in BOOLEAN /\ bound.issued \in BOOLEAN
  BY PodRange DEF ShotInv, Shot!TypeOK
<1>5. ~(Shot!Bootstrap \/ Shot!OthersDelete \/ Shot!OthersMake \/ Shot!RestoreBackup \/ Shot!Rests)
  BY <1>4 DEF Shot!Bootstrap, Shot!OthersDelete, Shot!OthersMake, Shot!RestoreBackup, Shot!Rests, Shot!shotVars
<1>6. ASSUME NEW other \in Runs, Shot!ReadRow(other) \/ Shot!Claim(other) \/ Shot!Reserve(other) PROVE FALSE
  <2>1. \/ run' = [run EXCEPT ![other] = [run[other] EXCEPT !.step = "read", !.known = bound.uid]]
        \/ run' = [run EXCEPT ![other] = [run[other] EXCEPT !.step = "claimed", !.fresh = ~permit]]
        \/ run' = [run EXCEPT ![other] = [run[other] EXCEPT !.step = "look", !.ticket = ~bound.issued]]
        \/ Shot!Refuse(other)
    BY <1>6 DEF Shot!ReadRow, Shot!Claim, Shot!Reserve
  <2>2. /\ [run[other] EXCEPT !.step = "read", !.known = bound.uid] \in RunRecords
        /\ [run[other] EXCEPT !.step = "read", !.known = bound.uid].step # "done"
    BY <1>r, <1>u DEF RunRecords, Shot!Steps
  <2>3. /\ [run[other] EXCEPT !.step = "claimed", !.fresh = ~permit] \in RunRecords
        /\ [run[other] EXCEPT !.step = "claimed", !.fresh = ~permit].step # "done"
    BY <1>r, <1>u DEF RunRecords, Shot!Steps
  <2>4. /\ [run[other] EXCEPT !.step = "look", !.ticket = ~bound.issued] \in RunRecords
        /\ [run[other] EXCEPT !.step = "look", !.ticket = ~bound.issued].step # "done"
    BY <1>r, <1>u DEF RunRecords, Shot!Steps
  <2> QED BY <1>2, <1>3, <2>1, <2>2, <2>3, <2>4
<1>7. ASSUME NEW other \in Runs, Shot!LookBeforeCreate(other) \/ Shot!Lookup(other) PROVE FALSE
  <2>1. \/ \E step \in {"rebind", "observe", "keep"}, uid \in {bound.uid, only} :
             run' = [run EXCEPT ![other] = [run[other] EXCEPT !.step = step, !.uid = uid]]
        \/ Shot!To(other, "preflight") \/ Shot!Refuse(other)
    BY <1>7 DEF Shot!LookBeforeCreate, Shot!Lookup
  <2>2. ASSUME NEW step \in {"rebind", "observe", "keep"}, NEW uid \in {bound.uid, only}
        PROVE  /\ [run[other] EXCEPT !.step = step, !.uid = uid] \in RunRecords
               /\ [run[other] EXCEPT !.step = step, !.uid = uid].step # "done"
    BY <1>r, <1>u DEF RunRecords, Shot!Steps
  <2> QED BY <1>1, <1>2, <1>3, <2>1, <2>2
<1>8. ASSUME NEW other \in Runs, Shot!Handled(other) PROVE FALSE
  <2>1. made < MaxPods /\ run' = [run EXCEPT ![other] = [run[other] EXCEPT !.step = "bind", !.uid = made + 1]]
    BY <1>4, <1>8 DEF Shot!Handled
  <2>2. made + 1 \in 0..MaxPods
    BY <1>u, <2>1, PodRange
  <2>3. /\ [run[other] EXCEPT !.step = "bind", !.uid = made + 1] \in RunRecords
        /\ [run[other] EXCEPT !.step = "bind", !.uid = made + 1].step # "done"
    BY <1>r, <2>2 DEF RunRecords, Shot!Steps
  <2> QED BY <1>3, <2>1, <2>3
<1>9. ASSUME NEW other \in Runs,
             \/ Shot!Preflight(other) \/ Shot!PreflightAgain(other) \/ Shot!Post(other) \/ Shot!BindCreated(other)
             \/ Shot!Observe(other) \/ Shot!BindFound(other) \/ Shot!Reconcile(other) \/ Shot!Compare(other)
             \/ Shot!Rebind(other) \/ Shot!Dies(other)
      PROVE  FALSE
  <2>1. \/ \E step \in {"lookup", "reserve", "again", "post", "asked", "observe", "rebind", "reconcile", "reread", "health"} :
             Shot!To(other, step)
        \/ Shot!Refuse(other)
    BY <1>9 DEF Shot!Preflight, Shot!PreflightAgain, Shot!Post, Shot!BindCreated, Shot!Observe, Shot!BindFound,
                Shot!Reconcile, Shot!Compare, Shot!Rebind, Shot!Dies, Shot!BindUid
  <2> QED BY <1>1, <1>2, <2>1
<1>10. PICK other \in Runs : Shot!Health(other)
  BY <1>5, <1>6, <1>7, <1>8, <1>9 DEF Shot!Next
<1>11. Shot!To(other, "done") /\ only = run[other].uid /\ run[other].step = "health"
  BY <1>2, <1>10 DEF Shot!Health, Shot!Answers, Shot!At
<1>12. other = r
  BY <1>0, <1>11 DEF Shot!To
<1> QED BY <1>0, <1>11, <1>12 DEF UidHolds

-----------------------------------------------------------------------------
(* The namespace finalized by hand (NamespaceFinal)                        *)

Spaces == [uid : 0..2, version : 0..MaxVersion, settled : BOOLEAN, blind : SUBSET (Kinds \cup {"metrics"})]
FinalPasses == [step : {"idle", "list", "put", "sent", "gone"}, version : 0..MaxVersion,
             listed : SUBSET (Kinds \cup {"metrics"}), code : {Terminal!NoCode, 0, 3, 5, 8}]

LEMMA VersionRange == MaxVersion \in Nat \ {0} /\ 0 \in 0..MaxVersion /\ 1 \in 0..MaxVersion /\ "metrics" \notin Kinds
  BY PartsAssumption DEF Terminal!NamespaceAssumption

(* Where the script may be after a step that applied no PUT.               *)
LEMMA ScriptGoesOn ==
  ASSUME SpaceInv, UNCHANGED << space, holds, failing, wrote >>,
         pass' \in FinalPasses,
         pass'.step \in {"list", "put"} /\ space.uid = 1 => pass'.listed \cap holds = {},
         pass'.step = "put" => Kinds \subseteq pass'.listed,
         pass'.step \in {"list", "put", "gone"} => pass'.code = Terminal!NoCode,
         pass'.step = "idle" /\ pass'.code = Terminal!NoCode => pass'.listed = {},
         pass'.step = "gone" => wrote,
         wrote => pass'.step = "gone" \/ (pass'.step = "idle" /\ pass'.code \in {0, 5, 8})
  PROVE  SpaceInv'
  BY DEF SpaceInv, Terminal!TypeOK, FinalPasses

LEMMA SpaceStep == SpaceInv /\ [Terminal!Next]_spaceVars => SpaceInv'
<1>1. ASSUME SpaceInv, UNCHANGED spaceVars PROVE SpaceInv'
  BY <1>1 DEF spaceVars, SpaceInv, Terminal!TypeOK
<1> SUFFICES ASSUME SpaceInv, Terminal!Next PROVE SpaceInv'
  BY <1>1
<1> USE DEF Terminal!World
<1>0. /\ space \in Spaces /\ holds \subseteq Kinds /\ failing \subseteq Kinds \cup {"metrics"} /\ pass \in FinalPasses
      /\ wrote \in BOOLEAN
  BY DEF SpaceInv, Terminal!TypeOK, Spaces, FinalPasses
<1>i. /\ pass.step \in {"list", "put"} /\ space.uid = 1 => pass.listed \cap holds = {}
      /\ pass.step = "put" => Kinds \subseteq pass.listed
      /\ pass.step \in {"list", "put", "gone"} => pass.code = Terminal!NoCode
      /\ pass.step = "gone" => wrote
      /\ wrote => pass.step = "gone" \/ (pass.step = "idle" /\ pass.code \in {0, 5, 8})
  BY DEF SpaceInv
<1>n. Terminal!NoCode = 1
  BY DEF Terminal!NoCode
<1>e. ASSUME NEW code \in {0, 3, 5, 8}, Terminal!Ends(code)
      PROVE  pass' \in FinalPasses /\ pass'.step = "idle" /\ pass'.code = code
  BY <1>0, <1>e DEF Terminal!Ends, FinalPasses
<1>2. ASSUME Terminal!ContentGoes \/ Terminal!StatusWritten \/ Terminal!DiscoveryChanges
             \/ Terminal!ControllerFinalizes \/ Terminal!OthersCreate
      PROVE  SpaceInv'
  <2>1. pass' = pass /\ wrote' = wrote
    BY <1>2 DEF Terminal!ContentGoes, Terminal!StatusWritten, Terminal!DiscoveryChanges,
                Terminal!ControllerFinalizes, Terminal!OthersCreate
  <2>2. space' \in Spaces /\ holds' \subseteq Kinds /\ (space'.uid = 1 => space.uid = 1 /\ holds' \subseteq holds)
    <3>1. CASE Terminal!ContentGoes \/ Terminal!DiscoveryChanges
      BY <1>0, <3>1 DEF Terminal!ContentGoes, Terminal!DiscoveryChanges
    <3>2. CASE Terminal!StatusWritten
      <4>1. /\ space' = [space EXCEPT !.version = @ + 1, !.settled = (holds \ failing = {}), !.blind = failing]
            /\ space.version < MaxVersion /\ space.uid = 1 /\ holds' = holds
        BY <3>2 DEF Terminal!StatusWritten
      <4>2. space.version + 1 \in 0..MaxVersion
        BY <1>0, <4>1, VersionRange DEF Spaces
      <4> QED BY <1>0, <4>1, <4>2 DEF Spaces
    <3>3. CASE Terminal!ControllerFinalizes
      <4>1. space' = [space EXCEPT !.uid = 0] /\ holds' = holds
        BY <3>3 DEF Terminal!ControllerFinalizes
      <4> QED BY <1>0, <4>1 DEF Spaces
    <3>4. CASE Terminal!OthersCreate
      <4>1. /\ space' = [ uid |-> 2, version |-> space.version + 1, settled |-> FALSE, blind |-> {} ]
            /\ holds' \in SUBSET Kinds /\ space.version < MaxVersion
        BY <3>4 DEF Terminal!OthersCreate
      <4>2. space.version + 1 \in 0..MaxVersion
        BY <1>0, <4>1, VersionRange DEF Spaces
      <4> QED BY <4>1, <4>2 DEF Spaces
    <3> QED BY <1>2, <3>1, <3>2, <3>3, <3>4
  <2>3. failing' \subseteq Kinds \cup {"metrics"}
    BY <1>0, <1>2 DEF Terminal!ContentGoes, Terminal!StatusWritten, Terminal!DiscoveryChanges,
                Terminal!ControllerFinalizes, Terminal!OthersCreate
  <2>4. Terminal!TypeOK'
    BY <1>0, <2>1, <2>2, <2>3 DEF Terminal!TypeOK, Spaces, FinalPasses
  <2> QED BY <1>i, <2>1, <2>2, <2>4 DEF SpaceInv
<1>3. ASSUME Terminal!Precheck PROVE SpaceInv'
  <2>1. UNCHANGED << space, holds, failing, wrote >> /\ pass.step = "idle" /\ pass.code = Terminal!NoCode
    BY <1>3 DEF Terminal!Precheck
  <2>2. ~wrote
    BY <1>i, <1>n, <2>1
  <2>3. CASE Terminal!Ends(3)
    BY <1>e, <1>n, <2>1, <2>2, <2>3, ScriptGoesOn
  <2>4. CASE ~Terminal!Ends(3)
    <3>1. pass' = [pass EXCEPT !.step = "list", !.version = space.version]
      BY <1>3, <2>4 DEF Terminal!Precheck
    <3>2. pass' \in FinalPasses /\ pass'.step = "list" /\ pass'.code = pass.code /\ pass'.listed = pass.listed
      BY <1>0, <3>1 DEF FinalPasses, Spaces
    <3>3. pass.listed = {}
      BY <1>3, <2>1 DEF SpaceInv
    <3> QED BY <2>1, <2>2, <3>2, <3>3, ScriptGoesOn
  <2> QED BY <2>3, <2>4
<1>4. ASSUME Terminal!Enumerate PROVE SpaceInv'
  <2> DEFINE left == (Kinds \cup {"metrics"}) \ pass.listed
  <2>1. UNCHANGED << space, holds, failing, wrote >> /\ pass.step = "list"
    BY <1>4 DEF Terminal!Enumerate
  <2>2. ~wrote /\ pass.code = Terminal!NoCode
    BY <1>i, <2>1
  <2>3. CASE left = {}
    <3>1. pass' = [pass EXCEPT !.step = "put"]
      BY <1>4, <2>3 DEF Terminal!Enumerate, Terminal!Goes
    <3>2. pass' \in FinalPasses /\ pass'.step = "put" /\ pass'.code = pass.code /\ pass'.listed = pass.listed
      BY <1>0, <3>1 DEF FinalPasses
    <3> QED BY <1>i, <2>1, <2>2, <2>3, <3>2, ScriptGoesOn
  <2>4. CASE left # {}
    <3>1. PICK k \in left : IF Terminal!Lists(k) = "refused" THEN Terminal!Ends(3)
                            ELSE pass' = [pass EXCEPT !.listed = @ \cup {k}]
      BY <1>4, <2>4 DEF Terminal!Enumerate
    <3>2. CASE Terminal!Lists(k) = "refused"
      BY <1>e, <1>n, <2>1, <2>2, <3>1, <3>2, ScriptGoesOn
    <3>3. CASE Terminal!Lists(k) # "refused"
      <4>1. pass' = [pass EXCEPT !.listed = @ \cup {k}]
        BY <3>1, <3>3
      <4>2. pass' \in FinalPasses /\ pass'.step = "list" /\ pass'.code = pass.code /\ pass'.listed = pass.listed \cup {k}
        BY <1>0, <2>1, <4>1 DEF FinalPasses
      <4>3. k \notin holds
        BY <1>0, <3>3, VersionRange DEF Terminal!Lists
      <4> QED BY <1>i, <2>1, <2>2, <4>2, <4>3, ScriptGoesOn
    <3> QED BY <3>2, <3>3
  <2> QED BY <2>3, <2>4
<1>5. ASSUME Terminal!Finalize PROVE SpaceInv'
  <2>1. failing' = failing /\ pass.step = "put" /\ pass.code = Terminal!NoCode /\ ~wrote
    BY <1>5, <1>i DEF Terminal!Finalize
  <2>2. CASE UNCHANGED << space, holds, wrote >> /\ Terminal!Ends(5)
    BY <1>e, <1>n, <2>1, <2>2, ScriptGoesOn
  <2>3. CASE ~(UNCHANGED << space, holds, wrote >> /\ Terminal!Ends(5))
    <3>1. space' = [space EXCEPT !.uid = 0] /\ holds' = {} /\ wrote' = TRUE /\ (Terminal!Goes("gone") \/ Terminal!Ends(5))
      BY <1>5, <2>3 DEF Terminal!Finalize
    <3>2. space' \in Spaces
      BY <1>0, <3>1 DEF Spaces
    <3>3. /\ pass' \in FinalPasses
          /\ (pass'.step = "gone" /\ pass'.code = pass.code) \/ (pass'.step = "idle" /\ pass'.code = 5)
      BY <1>0, <1>e, <3>1 DEF Terminal!Goes, FinalPasses
    <3>4. Terminal!TypeOK'
      BY <1>0, <2>1, <3>1, <3>2, <3>3 DEF Terminal!TypeOK, Spaces, FinalPasses
    <3> QED BY <1>n, <2>1, <3>1, <3>3, <3>4 DEF SpaceInv
  <2> QED BY <2>2, <2>3
<1>6. ASSUME Terminal!Gone PROVE SpaceInv'
  <2>1. UNCHANGED << space, holds, failing, wrote >> /\ pass.step = "gone"
        /\ \E code \in {0, 5, 8} : Terminal!Ends(code)
    BY <1>6 DEF Terminal!Gone, Terminal!Postcheck
  <2> QED BY <1>e, <1>i, <1>n, <2>1, ScriptGoesOn
<1>7. ASSUME Terminal!Errs PROVE SpaceInv'
  <2>1. UNCHANGED << space, holds, failing, wrote >> /\ pass.step = "list" /\ Terminal!Ends(3)
    BY <1>7 DEF Terminal!Errs
  <2> QED BY <1>e, <1>i, <1>n, <2>1, ScriptGoesOn
<1>8. ASSUME Terminal!Rests PROVE SpaceInv'
  BY <1>1, <1>8 DEF Terminal!Rests, Terminal!spaceVars, spaceVars
<1> QED BY <1>2, <1>3, <1>4, <1>5, <1>6, <1>7, <1>8 DEF Terminal!Next

LEMMA SpaceInit == Terminal!Init => SpaceInv
<1> SUFFICES ASSUME Terminal!Init PROVE SpaceInv
  OBVIOUS
<1>1. space \in Spaces /\ pass \in FinalPasses
  BY VersionRange DEF Terminal!Init, Spaces, FinalPasses
<1>2. Terminal!TypeOK
  BY <1>1 DEF Terminal!Init, Terminal!TypeOK, Spaces, FinalPasses
<1> QED BY <1>2 DEF Terminal!Init, SpaceInv

(* A PUT that is applied meets the namespace that was listed empty.        *)
LEMMA FinalizedStep ==
  ASSUME SpaceInv, Terminal!Next, ~wrote, wrote'
  PROVE  space.uid = 1 /\ holds = {}
<1>1. Terminal!Finalize
  BY DEF Terminal!Next, Terminal!ContentGoes, Terminal!StatusWritten, Terminal!DiscoveryChanges,
         Terminal!ControllerFinalizes, Terminal!OthersCreate, Terminal!Precheck, Terminal!Enumerate, Terminal!Gone,
         Terminal!Errs, Terminal!Rests, Terminal!World, Terminal!spaceVars
<1>2. pass.step = "put" /\ Terminal!Accepted
  BY <1>1 DEF Terminal!Finalize
<1>3. space.uid = 1 /\ holds \subseteq Kinds
  BY <1>2 DEF Terminal!Accepted, SpaceInv, Terminal!TypeOK
<1> QED BY <1>2, <1>3 DEF SpaceInv

(* 3 is returned before anything was changed, 0 after the namespace is     *)
(* gone.                                                                   *)
LEMMA CodesStep ==
  ASSUME SpaceInv, SpaceInv', Terminal!Next
  PROVE  /\ pass'.code = 3 => ~wrote'
         /\ pass.code = Terminal!NoCode /\ pass'.code = 0 => wrote /\ space.uid = 0
<1>1. wrote' => pass'.step = "gone" \/ (pass'.step = "idle" /\ pass'.code \in {0, 5, 8})
  BY DEF SpaceInv
<1>2. pass'.step = "gone" => pass'.code = 1
  BY DEF SpaceInv, Terminal!NoCode
<1>3. pass.code = Terminal!NoCode /\ pass'.code = 0 => Terminal!Gone /\ pass.step = "gone" /\ space.uid = 0
  <2>1. pass \in FinalPasses
    BY DEF SpaceInv, Terminal!TypeOK, FinalPasses
  <2>2. Terminal!ContentGoes \/ Terminal!StatusWritten \/ Terminal!DiscoveryChanges \/ Terminal!ControllerFinalizes
          \/ Terminal!OthersCreate \/ Terminal!Rests => pass'.code = pass.code
    BY DEF Terminal!ContentGoes, Terminal!StatusWritten, Terminal!DiscoveryChanges,
           Terminal!ControllerFinalizes, Terminal!OthersCreate, Terminal!Rests, Terminal!spaceVars
  <2>3. Terminal!Precheck \/ Terminal!Enumerate \/ Terminal!Errs \/ Terminal!Finalize => pass'.code \in {pass.code, 3, 5}
    BY <2>1 DEF Terminal!Precheck, Terminal!Enumerate, Terminal!Errs, Terminal!Finalize, Terminal!Ends, Terminal!Goes, FinalPasses
  <2>4. Terminal!Gone => pass.step = "gone" /\ (pass'.code = 0 => space.uid = 0)
    <3>1. ASSUME Terminal!Ends(5) \/ Terminal!Ends(8) PROVE pass'.code # 0
      <4>1. CASE Terminal!Ends(5)
        BY <2>1, <4>1 DEF Terminal!Ends, FinalPasses
      <4>2. CASE Terminal!Ends(8)
        BY <2>1, <4>2 DEF Terminal!Ends, FinalPasses
      <4> QED BY <3>1, <4>1, <4>2
    <3> QED BY <3>1 DEF Terminal!Gone, Terminal!Postcheck
  <2> QED BY <2>2, <2>3, <2>4 DEF Terminal!Next, Terminal!NoCode
<1> QED BY <1>1, <1>2, <1>3 DEF SpaceInv

-----------------------------------------------------------------------------
(* The bounded connection trial (NumericTrial)                             *)
Pasts == [ deleted : SUBSET Trial!Objects, again : BOOLEAN, ran : BOOLEAN, written : BOOLEAN ]

LEMMA WritesRange == MaxWrites \in Nat \ {0} /\ 0 \in 0..MaxWrites /\ 1 \in 0..MaxWrites
  BY PartsAssumption DEF Trial!NumericAssumption

(* A controller that remembers what it did overlooks nothing new.          *)
LEMMA RememberedStays ==
  ASSUME TrialInv, control.step \notin {"load", "over"} \/ control'.step \in {"load", "over"},
         control'.step \notin {"load", "over"} => control.owned \cup control.uncertain \subseteq control'.owned \cup control'.uncertain,
         \A k \in Trial!Objects : Trial!MayExist(k)' => Trial!MayExist(k) \/ k \in control'.owned \cup control'.uncertain
  PROVE  NoneOverlooked'
  BY DEF TrialInv, NoneOverlooked

(* The world moves on by itself: nothing of the trial's comes to exist but *)
(* by a request under way, and what exists is written under new versions.  *)
LEMMA WorldMoves ==
  ASSUME TrialInv, UNCHANGED << saved, marks, broker, control, records >>,
         named' \in [Trial!Objects -> Trial!Things], holder' \in {"unborn", "running", "ended", "gone"},
         requests' \subseteq requests, past' \in Pasts,
         past'.deleted = past.deleted, past'.again = past.again, past.ran => past'.ran,
         control.scope = 0 => past'.written = past.written,
         holder' \in Trial!Present => holder \in Trial!Present \/ Trial!Mine("Job"),
         \A k \in Trial!Objects : named'[k].mine => named'[k].rv # 0 /\ Trial!MayExist(k),
         \A k \in Trial!Objects : named'[k].mine => Asked(k) \/
           /\ Trial!Mine(k) /\ named[k].rv <= named'[k].rv
           /\ named'[k].rv = named[k].rv => named'[k].same = named[k].same,
         control.scope # 0 /\ named'["Policy"].mine /\ named'["Policy"].rv = control.scope /\ ~named'["Policy"].going
           /\ Trial!Mine("Policy") => named["Policy"].rv = control.scope /\ ~named["Policy"].going /\ past'.written = past.written
  PROVE  TrialInv'
<1>0. "Job" \in Trial!Objects /\ "Policy" \in Trial!Objects
  BY DEF Trial!Objects
<1>1. Trial!TypeOK'
  BY DEF TrialInv, Trial!TypeOK, Pasts
<1>2. \A k \in Trial!Objects : Trial!MayExist(k)' => Trial!MayExist(k)
  BY DEF Trial!MayExist, Trial!Mine
<1>3. \A k \in Trial!Objects : Asked(k)' => Asked(k)
  BY DEF Asked
<1>4. \A k \in saved["owned"] : k \in Trial!Objects /\ ~Asked(k)
  BY DEF TrialInv, Trial!TypeOK, EvidenceHolds
<1>5. EvidenceHolds'
  <2>1. \A k \in Trial!Objects : Trial!Mine(k)' => named'[k].rv # 0
    BY DEF Trial!Mine
  <2>2. \A k \in Trial!Objects : Trial!MayExist(k)' => k \in saved["uncertain"]
    BY <1>2 DEF TrialInv, EvidenceHolds
  <2>3. \A k \in saved["owned"] : ~Asked(k)' /\ Precedes(k) \subseteq saved["owned"]
    BY <1>3, <1>4 DEF TrialInv, EvidenceHolds
  <2> QED BY <2>1, <2>2, <2>3 DEF TrialInv, EvidenceHolds, Precedes
<1>6. BeliefHolds'
  <2>1. control.step = "create" => ~Trial!MayExist(control.of)'
    BY <1>2 DEF TrialInv, BeliefHolds, Trial!TypeOK, Trial!Controls
  <2>2. control.step = "acked" => ~Asked(control.of)'
    BY <1>3 DEF TrialInv, BeliefHolds, Trial!TypeOK, Trial!Controls
  <2> QED BY <2>1, <2>2 DEF TrialInv, BeliefHolds, Precedes
<1>7. BrokerHolds'
  <2>1. Trial!RecordsNameTheRest'
    <3> SUFFICES ASSUME NEW p \in {"main", "cleanup"}, records[p].status # "none"
                 PROVE  /\ \A k \in Trial!Objects : Trial!MayExist(k)' => k \in records[p].names
                        /\ records[p].status = "verified" => holder' \notin Trial!Present
      BY DEF Trial!RecordsNameTheRest
    <3>1. /\ \A k \in Trial!Objects : Trial!MayExist(k) => k \in records[p].names
          /\ records[p].status = "verified" => holder \notin Trial!Present /\ records[p].names = {}
      BY DEF TrialInv, BrokerHolds, Trial!RecordsNameTheRest
    <3> QED BY <1>0, <1>2, <3>1 DEF Trial!MayExist
  <2> QED BY <2>1 DEF TrialInv, BrokerHolds
<1>8. \A k \in saved["owned"], rv \in 0..MaxWrites : DeleteMeant(k, rv) => DeleteMeant(k, rv)'
  <2> SUFFICES ASSUME NEW k \in saved["owned"], NEW rv \in 0..MaxWrites, DeleteMeant(k, rv), Trial!Mine(k)'
               PROVE  rv <= named'[k].rv /\ (named'[k].rv = rv => named'[k].same)
    BY DEF DeleteMeant
  <2>1. k \in Trial!Objects /\ Trial!Mine(k) /\ named[k].rv <= named'[k].rv /\ (named'[k].rv = named[k].rv => named'[k].same = named[k].same)
    BY <1>4 DEF Trial!Mine
  <2>2. rv <= named[k].rv /\ (named[k].rv = rv => named[k].same)
    BY <2>1 DEF DeleteMeant
  <2>3. named[k].rv \in 0..MaxWrites /\ named'[k].rv \in 0..MaxWrites
    BY <2>1 DEF TrialInv, Trial!TypeOK, Trial!Things
  <2> QED BY <2>1, <2>2, <2>3, WritesRange
<1>9. CleanupHolds'
  <2>1. \A r \in requests' : r.verb = "delete" => r.of \in saved["delete"] /\ DeleteMeant(r.of, r.rv)'
    <3> SUFFICES ASSUME NEW r \in requests', r.verb = "delete" PROVE r.of \in saved["delete"] /\ DeleteMeant(r.of, r.rv)'
      OBVIOUS
    <3>1. r.of \in saved["delete"] /\ DeleteMeant(r.of, r.rv) /\ r.rv \in 0..MaxWrites
      BY DEF TrialInv, CleanupHolds, Trial!TypeOK, Trial!Requests
    <3> QED BY <1>8, <3>1 DEF TrialInv, EvidenceHolds
  <2>2. control.step \in {"attempt", "delete"} => DeleteMeant(control.of, control.read)'
    <3> SUFFICES ASSUME control.step \in {"attempt", "delete"} PROVE DeleteMeant(control.of, control.read)'
      OBVIOUS
    <3>1. control.of \in saved["owned"] /\ DeleteMeant(control.of, control.read) /\ control.read \in 0..MaxWrites
      BY DEF TrialInv, CleanupHolds, BeliefHolds, Trial!TypeOK, Trial!Controls
    <3> QED BY <1>8, <3>1
  <2>3. \A k \in control.owned \ control.left : k \in Trial!Objects
    BY DEF TrialInv, Trial!TypeOK, Trial!Controls
  <2>4. control.step \in Trial!Cleaning \cup {"delete", "record"} => \A k \in control.owned \ control.left : ~Trial!MayExist(k)'
    BY <1>2, <2>3 DEF TrialInv, CleanupHolds
  <2>5. control.step \in {"look", "attempt", "delete", "confirm"} /\ control.of = "Policy" /\ "Job" \in control.owned =>
          ~Trial!MayExist("Job")' /\ holder' \notin Trial!Present
    BY <1>0, <1>2 DEF TrialInv, CleanupHolds, Trial!MayExist
  <2>6. control.step = "record" /\ control.status = "verified" =>
          holder' \notin Trial!Present /\ \A k \in Trial!Objects : ~Trial!MayExist(k)'
    BY <1>0, <1>2 DEF TrialInv, CleanupHolds, Trial!MayExist
  <2> QED BY <2>1, <2>2, <2>4, <2>5, <2>6 DEF TrialInv, CleanupHolds
<1>10. ScopeHolds'
  <2>1. CASE control.scope = 0
    BY <2>1 DEF TrialInv, ScopeHolds
  <2>2. CASE control.scope # 0
    <3>1. "Policy" \in saved["owned"] /\ ~Asked("Policy")
      BY <1>4, <2>2 DEF TrialInv, ScopeHolds
    <3>2. named'["Policy"].mine => Trial!Mine("Policy") /\ named["Policy"].rv <= named'["Policy"].rv
      BY <1>0, <3>1
    <3>3. control.scope \in 0..MaxWrites /\ named["Policy"].rv \in 0..MaxWrites /\ named'["Policy"].rv \in 0..MaxWrites
      BY <1>0 DEF TrialInv, Trial!TypeOK, Trial!Controls, Trial!Things
    <3>4. Trial!Mine("Policy")' => control.scope <= named'["Policy"].rv
      BY <2>2, <3>2, <3>3, WritesRange DEF TrialInv, ScopeHolds, Trial!Mine
    <3>5. Trial!Mine("Policy")' /\ named'["Policy"].rv = control.scope /\ ~named'["Policy"].going => ~past'.written
      BY <2>2, <3>2 DEF TrialInv, ScopeHolds, Trial!Mine
    <3> QED BY <2>2, <3>4, <3>5 DEF TrialInv, ScopeHolds
  <2> QED BY <2>1, <2>2
<1>11. NoneOverlooked'
  BY <1>2, RememberedStays
<1> QED BY <1>1, <1>5, <1>6, <1>7, <1>9, <1>10, <1>11 DEF TrialInv

(* A write of one object.                                                  *)
LEMMA PutsSound ==
  ASSUME TrialInv, NEW k \in Trial!Objects, NEW thing \in Trial!Things, Trial!Puts(k, thing)
  PROVE  /\ named' \in [Trial!Objects -> Trial!Things] /\ named'[k] = thing /\ \A other \in Trial!Objects \ {k} : named'[other] = named[other]
         /\ past' \in Pasts /\ past'.deleted = past.deleted /\ past'.again = past.again /\ past'.ran = past.ran
         /\ control.scope = 0 \/ k # "Policy" => past'.written = past.written
<1>1. named \in [Trial!Objects -> Trial!Things] /\ past \in Pasts
  BY DEF TrialInv, Trial!TypeOK, Pasts
<1>2. named' = [named EXCEPT ![k] = thing]
      /\ past' = [past EXCEPT !.written = @ \/ (k = "Policy" /\ control.scope # 0)]
  BY DEF Trial!Puts
<1>3. PICK b \in BOOLEAN : b <=> (past.written \/ (k = "Policy" /\ control.scope # 0))
  OBVIOUS
<1>4. past' = [past EXCEPT !.written = b]
  BY <1>1, <1>2, <1>3 DEF Pasts
<1>5. past' \in Pasts /\ past'.deleted = past.deleted /\ past'.again = past.again /\ past'.ran = past.ran /\ past'.written = b
  BY <1>1, <1>4 DEF Pasts
<1>6. control.scope = 0 \/ k # "Policy" => past'.written = past.written
  BY <1>1, <1>3, <1>5 DEF Pasts
<1> QED BY <1>1, <1>2, <1>5, <1>6

(* What an object can become without the trial's doing.                    *)
LEMMA WriteMoves ==
  ASSUME TrialInv, UNCHANGED << saved, marks, broker, control, records, holder >>,
         requests' \subseteq requests, NEW k \in Trial!Objects, NEW thing \in Trial!Things, Trial!Puts(k, thing),
         thing.mine => thing.rv # 0 /\ Trial!MayExist(k),
         thing.mine => Asked(k) \/
           /\ Trial!Mine(k) /\ named[k].rv <= thing.rv
           /\ thing.rv = named[k].rv => thing.same = named[k].same /\ thing.going
  PROVE  TrialInv'
<1>0. "Job" \in Trial!Objects /\ "Policy" \in Trial!Objects
  BY DEF Trial!Objects
<1>1. /\ named' \in [Trial!Objects -> Trial!Things] /\ named'[k] = thing /\ \A other \in Trial!Objects \ {k} : named'[other] = named[other]
      /\ past' \in Pasts /\ past'.deleted = past.deleted /\ past'.again = past.again /\ past'.ran = past.ran
      /\ control.scope = 0 \/ k # "Policy" => past'.written = past.written
  BY PutsSound
<1>2. holder \in {"unborn", "running", "ended", "gone"} /\ named \in [Trial!Objects -> Trial!Things]
  BY DEF TrialInv, Trial!TypeOK
<1>3. \A other \in Trial!Objects : named[other].rv \in 0..MaxWrites
  BY <1>2 DEF Trial!Things
<1>4. \A other \in Trial!Objects : named'[other].mine => named'[other].rv # 0 /\ Trial!MayExist(other)
  <2> SUFFICES ASSUME NEW other \in Trial!Objects, named'[other].mine PROVE named'[other].rv # 0 /\ Trial!MayExist(other)
    OBVIOUS
  <2>1. CASE other = k
    BY <1>1, <2>1
  <2>2. CASE other # k
    BY <1>1, <2>2 DEF TrialInv, EvidenceHolds, Trial!MayExist, Trial!Mine
  <2> QED BY <2>1, <2>2
<1>5. \A other \in Trial!Objects : named'[other].mine => Asked(other) \/
         /\ Trial!Mine(other) /\ named[other].rv <= named'[other].rv
         /\ named'[other].rv = named[other].rv => named'[other].same = named[other].same
  <2> SUFFICES ASSUME NEW other \in Trial!Objects, named'[other].mine
               PROVE  Asked(other) \/
                        /\ Trial!Mine(other) /\ named[other].rv <= named'[other].rv
                        /\ named'[other].rv = named[other].rv => named'[other].same = named[other].same
    OBVIOUS
  <2>1. CASE other = k
    BY <1>1, <2>1
  <2>2. CASE other # k
    <3>1. named'[other] = named[other]
      BY <1>1, <2>2
    <3>2. named[other].rv <= named[other].rv
      BY <1>3, WritesRange
    <3> QED BY <3>1, <3>2 DEF Trial!Mine
  <2> QED BY <2>1, <2>2
<1>6. ASSUME control.scope # 0, named'["Policy"].mine, named'["Policy"].rv = control.scope, ~named'["Policy"].going
      PROVE  named["Policy"].rv = control.scope /\ ~named["Policy"].going /\ past'.written = past.written
  <2>1. Trial!Mine("Policy") => control.scope <= named["Policy"].rv
    BY <1>6 DEF TrialInv, ScopeHolds
  <2>2. ~Asked("Policy")
    BY <1>6 DEF TrialInv, ScopeHolds, EvidenceHolds
  <2>3. CASE k # "Policy"
    BY <1>0, <1>1, <1>6, <2>3
  <2>4. CASE k = "Policy"
    <3>1. Trial!Mine("Policy") /\ named["Policy"].rv <= thing.rv /\ thing.rv = control.scope /\ (thing.rv = named["Policy"].rv => thing.going)
      BY <1>1, <1>6, <2>2, <2>4
    <3>2. named["Policy"].rv = thing.rv
      <4>1. control.scope <= named["Policy"].rv /\ named["Policy"].rv <= control.scope
        BY <2>1, <3>1
      <4>2. control.scope \in 0..MaxWrites /\ named["Policy"].rv \in 0..MaxWrites
        BY <1>0, <1>3 DEF TrialInv, Trial!TypeOK, Trial!Controls
      <4> QED BY <3>1, <4>1, <4>2, WritesRange
    <3> QED BY <1>1, <1>6, <2>4, <3>1, <3>2
  <2> QED BY <2>3, <2>4
<1> QED BY <1>0, <1>1, <1>2, <1>4, <1>5, <1>6, WorldMoves

LEMMA TrialWorldHolds == ASSUME TrialInv, Trial!ClusterStep PROVE TrialInv'
<1>0. "Job" \in Trial!Objects /\ "Policy" \in Trial!Objects /\ Trial!Absent \in Trial!Things /\ ~Trial!Absent.mine
  BY WritesRange DEF Trial!Objects, Trial!Absent, Trial!Things
<1>1. named \in [Trial!Objects -> Trial!Things] /\ holder \in {"unborn", "running", "ended", "gone"} /\ past \in Pasts /\ requests \subseteq Trial!Requests
  BY DEF TrialInv, Trial!TypeOK, Pasts
<1>2. \A k \in Trial!Objects : named[k].rv \in 0..MaxWrites /\ named[k].rv <= named[k].rv /\ named[k] \in Trial!Things
  BY <1>1, WritesRange DEF Trial!Things
<1>m. [ mine |-> TRUE, same |-> TRUE, rv |-> 1, going |-> FALSE ] \in Trial!Things
  BY WritesRange DEF Trial!Things
<1>o. [ mine |-> FALSE, same |-> FALSE, rv |-> 1, going |-> FALSE ] \in Trial!Things
  BY WritesRange DEF Trial!Things
<1>w. \A k \in Trial!Objects : Trial!Mine(k) => named[k].rv # 0 /\ Trial!MayExist(k)
  BY DEF TrialInv, EvidenceHolds, Trial!MayExist
<1>s. ASSUME UNCHANGED << named, Trial!files, broker, control, records >>, requests' \subseteq requests,
             holder' \in {"unborn", "running", "ended", "gone"}, holder' \in Trial!Present => holder \in Trial!Present \/ Trial!Mine("Job"),
             past' \in Pasts, past'.deleted = past.deleted, past'.again = past.again, past.ran => past'.ran,
             past'.written = past.written
      PROVE  TrialInv'
  BY <1>1, <1>2, <1>s, <1>w, WorldMoves DEF Trial!files, Trial!Mine
<1>3. ASSUME Trial!Lands PROVE TrialInv'
  <2>1. PICK r \in requests :
          /\ requests' = requests \ {r}
          /\ \/ r.verb = "create" /\ Trial!Created(r.of)
             \/ r.verb = "delete" /\ Trial!Deleted(r.of, r.rv)
             \/ r.verb = "exec" /\ holder = "running" /\ Trial!Ran /\ UNCHANGED named
    BY <1>3 DEF Trial!Lands
  <2>2. UNCHANGED << saved, marks, broker, control, records, holder >> /\ requests' \subseteq requests
        /\ r.of \in Trial!Objects
    BY <1>1, <1>3, <2>1 DEF Trial!Lands, Trial!files, Trial!Requests
  <2>3. CASE r.verb = "create" /\ Trial!Created(r.of)
    <3>1. Asked(r.of)
      BY <2>3 DEF Asked
    <3>2. Trial!MayExist(r.of)
      BY <2>3 DEF Trial!MayExist
    <3> QED BY <1>m, <2>2, <2>3, <3>1, <3>2, WriteMoves DEF Trial!Created
  <2>4. CASE r.verb = "delete" /\ Trial!Deleted(r.of, r.rv)
    <3> DEFINE thing == [named[r.of] EXCEPT !.going = TRUE]
    <3>1. thing \in Trial!Things /\ thing.rv = named[r.of].rv /\ thing.same = named[r.of].same /\ thing.going
      BY <1>2, <2>2 DEF Trial!Things
    <3>2. Trial!Mine(r.of) /\ Trial!Puts(r.of, thing)
      BY <2>4 DEF Trial!Deleted, Trial!Precondition
    <3> HIDE DEF thing
    <3> QED BY <1>2, <1>w, <2>2, <3>1, <3>2, WriteMoves
  <2>5. CASE r.verb = "exec" /\ holder = "running" /\ Trial!Ran /\ UNCHANGED named
    <3>1. past' \in Pasts /\ past'.deleted = past.deleted /\ past'.again = past.again /\ past'.ran /\ past'.written = past.written
      BY <1>1, <2>5 DEF Trial!Ran, Pasts
    <3> QED BY <1>1, <1>s, <2>2, <2>5, <3>1 DEF Trial!files
  <2> QED BY <2>1, <2>3, <2>4, <2>5
<1>4. ASSUME Trial!PodStarts \/ Trial!PodEnds \/ Trial!PodGoes PROVE TrialInv'
  BY <1>1, <1>4, <1>s DEF Trial!PodStarts, Trial!PodEnds, Trial!PodGoes, Trial!ours, Trial!files, Trial!Present
<1>5. ASSUME NEW k \in Trial!Objects, Trial!Goes(k) \/ Trial!OthersDelete(k) \/ Trial!OthersCreate(k) PROVE TrialInv'
  <2>1. UNCHANGED << saved, marks, broker, control, records, holder >> /\ requests' = requests
    BY <1>5 DEF Trial!Goes, Trial!OthersDelete, Trial!OthersCreate, Trial!ours
  <2>2. PICK thing \in Trial!Things : ~thing.mine /\ Trial!Puts(k, thing)
    BY <1>0, <1>5, <1>o DEF Trial!Goes, Trial!OthersDelete, Trial!OthersCreate
  <2> QED BY <2>1, <2>2, WriteMoves
<1>6. ASSUME NEW k \in Trial!Objects, Trial!Changes(k) PROVE TrialInv'
  <2>1. UNCHANGED << saved, marks, broker, control, records, holder >> /\ requests' = requests /\ named[k].rv < MaxWrites
    BY <1>6 DEF Trial!Changes, Trial!ours
  <2>2. PICK same \in BOOLEAN : Trial!Puts(k, [named[k] EXCEPT !.rv = @ + 1, !.same = @ /\ same])
    BY <1>6 DEF Trial!Changes
  <2> DEFINE thing == [named[k] EXCEPT !.rv = @ + 1, !.same = @ /\ same]
  <2>3. named[k].rv + 1 \in 0..MaxWrites /\ named[k].rv <= named[k].rv + 1 /\ named[k].rv + 1 # named[k].rv
    BY <1>2, <2>1, WritesRange
  <2>4. PICK b \in BOOLEAN : b = (named[k].same /\ same)
    OBVIOUS
  <2>5. thing = [[named[k] EXCEPT !.rv = named[k].rv + 1] EXCEPT !.same = b]
    BY <1>2, <2>4 DEF Trial!Things
  <2>6. [named[k] EXCEPT !.rv = named[k].rv + 1] \in Trial!Things
    BY <1>2, <2>3 DEF Trial!Things
  <2>7. thing \in Trial!Things /\ thing.rv = named[k].rv + 1 /\ thing.mine = named[k].mine
    BY <1>2, <2>3, <2>5, <2>6 DEF Trial!Things
  <2>8. Trial!Puts(k, thing)
    BY <2>2
  <2> HIDE DEF thing
  <2>9. thing.rv # 0
    BY <1>2, <2>7, WritesRange
  <2>10. thing.mine => Trial!Mine(k) /\ Trial!MayExist(k)
    BY <2>7 DEF Trial!Mine, Trial!MayExist
  <2> QED BY <2>1, <2>3, <2>7, <2>8, <2>9, <2>10, WriteMoves
<1> QED BY <1>3, <1>4, <1>5, <1>6 DEF Trial!ClusterStep

TrialSteps == Trial!Business \cup Trial!Cleaning \cup {"acked", "clean", "delete", "record", "load", "over"}

LEMMA ToMoves ==
  ASSUME control \in Trial!Controls, NEW step \in TrialSteps, Trial!To(step)
  PROVE  /\ control' \in Trial!Controls
         /\ control'.step = step /\ control'.of = control.of /\ control'.owned = control.owned
         /\ control'.uncertain = control.uncertain
         /\ control'.left = control.left /\ control'.read = control.read /\ control'.scope = control.scope
         /\ control'.completed = control.completed /\ control'.status = control.status
  BY DEF Trial!Controls, TrialSteps, Trial!To

(* What the controller may turn to while the world and the evidence of its *)
(* objects stay as they are.                                               *)
LEMMA ControlMoves ==
  ASSUME TrialInv, UNCHANGED << saved, named, holder, requests, broker, records, past >>,
         marks' \subseteq {"baseline", "arm", "collector", "worker"}, control' \in Trial!Controls, BeliefHolds',
         broker = "closed" => control'.step = "over",
         broker = "cleanup" => control'.step \in Trial!Cleaning \cup {"load", "clean", "delete", "record"},
         broker = "main" => control'.step # "load",
         broker = "main" /\ control'.step # "record" => records["main"].status = "none",
         control'.status # "none" => control'.step \in {"record", "over"},
         control'.step \in {"attempt", "delete", "confirm"} => control'.of \in control'.owned,
         control'.step \in {"attempt", "delete"} => DeleteMeant(control'.of, control'.read),
         control'.step # "delete",
         control'.step \in Trial!Cleaning \cup {"record"} =>
           \A k \in control'.owned \ control'.left : ~Trial!MayExist(k),
         control'.step \in {"look", "attempt", "confirm"} /\ control'.of = "Policy" /\ "Job" \in control'.owned =>
           ~Trial!MayExist("Job") /\ holder \notin Trial!Present,
         control'.step = "record" /\ control'.status = "verified" =>
           holder \notin Trial!Present /\ \A k \in Trial!Objects : ~Trial!MayExist(k),
         control'.step = "record" /\ control'.status = "not_armed" => saved["uncertain"] = {},
         ScopeHolds',
         control.step # "load" => control'.owned = control.owned /\ control'.uncertain = control.uncertain,
         control.step = "load" => saved["uncertain"] \subseteq control'.owned \cup control'.uncertain,
         control.step = "over" => control'.step = "over"
  PROVE  TrialInv'
<1>1. Trial!TypeOK'
  BY DEF TrialInv, Trial!TypeOK
<1>2. /\ \A k \in Trial!Objects : Trial!Mine(k)' = Trial!Mine(k) /\ Trial!MayExist(k)' = Trial!MayExist(k) /\ Asked(k)' = Asked(k)
      /\ \A k, rv : DeleteMeant(k, rv)' = DeleteMeant(k, rv)
  BY DEF Trial!Mine, Trial!MayExist, Asked, DeleteMeant
<1>3. EvidenceHolds'
  BY DEF TrialInv, EvidenceHolds, Trial!Mine, Trial!MayExist, Asked, Precedes
<1>4. BrokerHolds'
  <2>1. Trial!RecordsNameTheRest'
    BY DEF TrialInv, BrokerHolds, Trial!RecordsNameTheRest, Trial!MayExist, Trial!Mine
  <2> QED BY <2>1 DEF TrialInv, BrokerHolds
<1>5. CleanupHolds'
  <2>1. \A r \in requests' : r.verb = "delete" => r.of \in saved["delete"] /\ DeleteMeant(r.of, r.rv)'
    BY <1>2 DEF TrialInv, CleanupHolds
  <2>2. \A k \in control'.owned \ control'.left : k \in Trial!Objects
    BY DEF Trial!Controls
  <2>3. control'.step \in {"attempt", "delete"} => DeleteMeant(control.of, control.read)'
    BY DEF DeleteMeant, Trial!Mine
  <2>4. control'.step \in Trial!Cleaning \cup {"delete", "record"} => \A k \in control'.owned \ control'.left : ~Trial!MayExist(k)'
    BY <1>2, <2>2
  <2>5. control'.step \in {"look", "attempt", "delete", "confirm"} /\ control'.of = "Policy" /\ "Job" \in control'.owned =>
          ~Trial!MayExist("Job")' /\ holder' \notin Trial!Present
    BY <1>2 DEF Trial!Objects
  <2>6. control'.step = "record" /\ control'.status = "verified" => holder' \notin Trial!Present /\ \A k \in Trial!Objects : ~Trial!MayExist(k)'
    BY <1>2
  <2> QED BY <2>1, <2>3, <2>4, <2>5, <2>6 DEF CleanupHolds
<1>6. NoneOverlooked'
  <2>1. CASE control.step = "load"
    BY <1>2, <2>1 DEF TrialInv, EvidenceHolds, NoneOverlooked
  <2>2. CASE control.step # "load"
    BY <1>2, <2>2 DEF TrialInv, NoneOverlooked
  <2> QED BY <2>1, <2>2
<1> QED BY <1>1, <1>3, <1>4, <1>5, <1>6 DEF TrialInv

(* The policy in scope stays the one it was while the controller looks     *)
(* only ahead.                                                             *)
LEMMA ScopeStays ==
  ASSUME TrialInv, UNCHANGED << saved, named, broker, past >>, control'.scope = control.scope,
         control'.owned = control.owned,
         \/ control.scope = 0
         \/ control'.step \notin {"begin", "arm", "armed", "admit", "create", "acked", "original", "collect", "binding", "realize"}
  PROVE  ScopeHolds'
  BY DEF TrialInv, ScopeHolds, Trial!Mine

(* The reads of the first controller, the arming, and the claim of the     *)
(* collector.                                                              *)
LEMMA TrialReadsHold ==
  ASSUME TrialInv, Trial!Refresh \/ Trial!Arm \/ Trial!SaveArm \/ Trial!Original \/ Trial!Collect \/ Trial!Binding \/ Trial!Realize \/ Trial!Check
  PROVE  TrialInv'
<1>1. control \in Trial!Controls /\ marks \subseteq {"baseline", "arm", "collector", "worker"} /\ past \in Pasts
  BY DEF TrialInv, Trial!TypeOK, Pasts
<1>2. UNCHANGED << saved, named, holder, requests, broker, records, past >>
      /\ marks' \subseteq {"baseline", "arm", "collector", "worker"}
  BY <1>1 DEF Trial!Refresh, Trial!Arm, Trial!SaveArm, Trial!Original, Trial!Collect, Trial!Binding, Trial!Realize, Trial!Check, Trial!files, Trial!world
<1>3. broker = "main" /\ control.status = "none" /\ records["main"].status = "none" /\ control.step \notin {"load", "over"}
  <2>1. control.step \in Trial!Business /\ broker # "closed"
    BY DEF Trial!Refresh, Trial!Arm, Trial!SaveArm, Trial!Original, Trial!Collect, Trial!Binding, Trial!Realize, Trial!Check, Trial!At, Trial!Business
  <2>2. broker \in {"main", "cleanup", "closed"}
    BY DEF TrialInv, Trial!TypeOK
  <2> QED BY <2>1, <2>2 DEF TrialInv, BrokerHolds, Trial!Business, Trial!Cleaning
<1>4. ASSUME NEW step \in {"arm", "armed", "admit", "collect", "binding", "dispatch"}, Trial!To(step),
             control.scope = 0 \/ step = "dispatch",
             BeliefHolds'
      PROVE  TrialInv'
  <2>1. /\ control' \in Trial!Controls /\ control'.step = step /\ control'.owned = control.owned
        /\ control'.uncertain = control.uncertain /\ control'.scope = control.scope /\ control'.status = control.status
    BY <1>1, <1>4, ToMoves DEF TrialSteps, Trial!Business
  <2>2. ScopeHolds'
    BY <1>2, <1>4, <2>1, ScopeStays
  <2>3. step \notin Trial!Cleaning \cup {"record", "delete", "load", "over"}
    BY DEF Trial!Cleaning
  <2> QED BY <1>2, <1>3, <1>4, <2>1, <2>2, <2>3, ControlMoves DEF Trial!Cleaning
<1>5. CASE Trial!Refresh \/ Trial!Arm
  <2>1. PICK step \in {"arm", "armed"} : Trial!To(step) /\ control.step \in {"begin", "arm"}
    BY <1>5 DEF Trial!Refresh, Trial!Arm, Trial!At
  <2>2. /\ control' \in Trial!Controls /\ control'.step = step /\ control'.owned = control.owned /\ control'.of = control.of
        /\ control'.uncertain = control.uncertain
    BY <1>1, <2>1, ToMoves DEF TrialSteps, Trial!Business
  <2>3. BeliefHolds'
    BY <1>2, <2>1, <2>2 DEF TrialInv, BeliefHolds, Precedes
  <2>4. control.scope = 0
    BY <2>1 DEF TrialInv, ScopeHolds
  <2> QED BY <1>4, <2>1, <2>3, <2>4
<1>6. CASE Trial!SaveArm
  <2>1. Trial!To("admit") /\ control.step = "armed"
    BY <1>6 DEF Trial!SaveArm, Trial!At
  <2>2. /\ control' \in Trial!Controls /\ control'.step = "admit" /\ control'.owned = control.owned /\ control'.of = control.of
        /\ control'.uncertain = control.uncertain
    BY <1>1, <2>1, ToMoves DEF TrialSteps, Trial!Business
  <2>3. BeliefHolds'
    BY <1>2, <2>1, <2>2 DEF TrialInv, BeliefHolds, Precedes
  <2>4. control.scope = 0
    BY <2>1 DEF TrialInv, ScopeHolds
  <2> QED BY <1>4, <2>1, <2>3, <2>4
<1>7. CASE Trial!Original \/ Trial!Collect
  <2>1. PICK step \in {"collect", "binding"} : Trial!To(step) /\ control.step \in {"original", "collect"}
    BY <1>7 DEF Trial!Original, Trial!Collect, Trial!At
  <2>2. /\ control' \in Trial!Controls /\ control'.step = step /\ control'.owned = control.owned /\ control'.of = control.of
        /\ control'.uncertain = control.uncertain
    BY <1>1, <2>1, ToMoves DEF TrialSteps, Trial!Business
  <2>3. BeliefHolds'
    BY <1>2, <2>1, <2>2 DEF TrialInv, BeliefHolds, Precedes
  <2>4. control.scope = 0
    BY <2>1 DEF TrialInv, ScopeHolds
  <2> QED BY <1>4, <2>1, <2>3, <2>4
<1>8. CASE Trial!Binding
  <2>1. control' = [control EXCEPT !.step = "admit", !.of = "Policy"] /\ control.step = "binding"
    BY <1>8 DEF Trial!Binding, Trial!At
  <2>2. /\ control' \in Trial!Controls /\ control'.step = "admit" /\ control'.owned = control.owned /\ control'.of = "Policy"
        /\ control'.uncertain = control.uncertain /\ control'.scope = control.scope /\ control'.status = control.status
    BY <1>1, <2>1 DEF Trial!Controls, Trial!Objects, Trial!Business
  <2>3. BeliefHolds'
    BY <1>2, <2>1, <2>2 DEF TrialInv, BeliefHolds, Precedes
  <2>4. control.scope = 0
    BY <2>1 DEF TrialInv, ScopeHolds
  <2>5. ScopeHolds'
    BY <1>2, <2>2, <2>4, ScopeStays
  <2> QED BY <1>2, <1>3, <2>2, <2>3, <2>5, ControlMoves DEF Trial!Cleaning
<1>9. CASE Trial!Realize
  <2>1. control' = [control EXCEPT !.step = "dispatch", !.scope = named["Policy"].rv] /\ control.step = "realize" /\ Trial!Mine("Policy")
    BY <1>9 DEF Trial!Realize, Trial!At, Trial!InScope
  <2>2. named["Policy"].rv \in 0..MaxWrites /\ named["Policy"].rv <= named["Policy"].rv
    BY WritesRange DEF TrialInv, Trial!TypeOK, Trial!Things, Trial!Objects
  <2>3. /\ control' \in Trial!Controls /\ control'.step = "dispatch" /\ control'.owned = control.owned /\ control'.of = control.of
        /\ control'.uncertain = control.uncertain /\ control'.scope = named["Policy"].rv /\ control'.status = control.status
    BY <1>1, <2>1, <2>2 DEF Trial!Controls, Trial!Objects, Trial!Business
  <2>4. BeliefHolds'
    BY <1>2, <2>1, <2>3 DEF TrialInv, BeliefHolds, Precedes
  <2>5. control.scope = 0 /\ ~past.written
    BY <1>3, <2>1 DEF TrialInv, ScopeHolds
  <2>6. "Policy" \in control.owned \cap saved["owned"]
    BY <2>1 DEF TrialInv, BeliefHolds
  <2>7. ScopeHolds'
    BY <1>2, <2>2, <2>3, <2>5, <2>6 DEF ScopeHolds
  <2> QED BY <1>2, <1>3, <2>3, <2>4, <2>7, ControlMoves DEF Trial!Cleaning
<1>10. CASE Trial!Check
  <2>1. control' = [control EXCEPT !.step = "clean", !.completed = TRUE] /\ control.step = "check"
    BY <1>10 DEF Trial!Check, Trial!At
  <2>2. /\ control' \in Trial!Controls /\ control'.step = "clean" /\ control'.owned = control.owned /\ control'.of = control.of
        /\ control'.uncertain = control.uncertain /\ control'.scope = control.scope /\ control'.status = control.status
    BY <1>1, <2>1 DEF Trial!Controls
  <2>3. BeliefHolds'
    BY <1>2, <2>1, <2>2 DEF TrialInv, BeliefHolds, Precedes
  <2>4. ScopeHolds'
    BY <1>2, <2>2, ScopeStays
  <2> QED BY <1>2, <1>3, <2>2, <2>3, <2>4, ControlMoves DEF Trial!Cleaning
<1> QED BY <1>5, <1>6, <1>7, <1>8, <1>9, <1>10

(* Any exception, of either controller.                                    *)
LEMMA FailuresHold ==
  ASSUME TrialInv, Trial!Fails \/ Trial!Stops \/ Trial!Breaks \/ Trial!Closes \/ Trial!Load \/ Trial!Done
  PROVE  TrialInv'
<1>1. control \in Trial!Controls /\ marks \subseteq {"baseline", "arm", "collector", "worker"}
      /\ broker \in {"main", "cleanup", "closed"}
  BY DEF TrialInv, Trial!TypeOK
<1>2. CASE Trial!Fails
  <2>1. UNCHANGED << saved, named, holder, requests, broker, records, past, marks >> /\ broker = "main"
        /\ control.step \in Trial!Business
    BY <1>2 DEF Trial!Fails, Trial!files, Trial!world
  <2>2. control.status = "none" /\ records["main"].status = "none" /\ control.step \notin {"load", "over"}
    BY <2>1 DEF TrialInv, BrokerHolds, Trial!Business
  <2>3. CASE control.step \in {"begin", "arm"}
    <3>1. control' = [control EXCEPT !.step = "record", !.status = "not_armed"]
      BY <1>2, <2>3 DEF Trial!Fails
    <3>2. /\ control' \in Trial!Controls /\ control'.step = "record" /\ control'.owned = control.owned /\ control'.of = control.of
          /\ control'.uncertain = control.uncertain /\ control'.scope = control.scope /\ control'.status = "not_armed"
      BY <1>1, <3>1 DEF Trial!Controls, Trial!Statuses
    <3>3. control.owned = {} /\ saved["uncertain"] = {} /\ control.scope = 0
      BY <2>3 DEF TrialInv, BeliefHolds, Precedes, ScopeHolds
    <3>4. BeliefHolds'
      BY <2>1, <2>3, <3>2 DEF TrialInv, BeliefHolds, Precedes
    <3>5. ScopeHolds'
      BY <2>1, <3>2, <3>3, ScopeStays
    <3> QED BY <1>1, <2>1, <2>2, <3>2, <3>3, <3>4, <3>5, ControlMoves
  <2>4. CASE control.step \notin {"begin", "arm"}
    <3>1. Trial!To("clean")
      BY <1>2, <2>4 DEF Trial!Fails
    <3>2. /\ control' \in Trial!Controls /\ control'.step = "clean" /\ control'.owned = control.owned /\ control'.of = control.of
          /\ control'.uncertain = control.uncertain /\ control'.scope = control.scope /\ control'.status = "none"
      BY <1>1, <2>2, <3>1, ToMoves DEF TrialSteps
    <3>3. control.step \notin {"load", "over", "acked"}
      BY <2>1 DEF Trial!Business
    <3>4. BeliefHolds'
      BY <2>1, <3>2, <3>3 DEF TrialInv, BeliefHolds, Precedes
    <3>5. ScopeHolds'
      BY <2>1, <3>2, ScopeStays
    <3>6. control'.step # "record" /\ control'.step \notin Trial!Cleaning /\ broker # "cleanup" /\ broker # "closed"
      BY <2>1, <3>2 DEF Trial!Cleaning
    <3> QED BY <1>1, <2>1, <2>2, <3>2, <3>4, <3>5, <3>6, ControlMoves
  <2> QED BY <2>3, <2>4
<1>3. CASE Trial!Stops
  <2>1. /\ UNCHANGED << saved, named, holder, requests, broker, records, past, marks >>
        /\ broker # "closed" /\ control.step \in Trial!Cleaning
        /\ control' = [control EXCEPT !.step = "record", !.status = "unknown_handoff"]
    BY <1>3 DEF Trial!Stops, Trial!files, Trial!world, Trial!HandsOff
  <2>2. /\ control' \in Trial!Controls /\ control'.step = "record" /\ control'.owned = control.owned /\ control'.of = control.of
        /\ control'.uncertain = control.uncertain /\ control'.scope = control.scope /\ control'.status = "unknown_handoff"
        /\ control'.left = control.left
    BY <1>1, <2>1 DEF Trial!Controls, Trial!Statuses
  <2>3. BeliefHolds'
    BY <2>1, <2>2 DEF TrialInv, BeliefHolds, Precedes, Trial!Cleaning
  <2>4. ScopeHolds'
    BY <2>1, <2>2, ScopeStays
  <2>5. \A k \in control.owned \ control.left : ~Trial!MayExist(k)
    BY <2>1 DEF TrialInv, CleanupHolds
  <2>6. control.step \notin {"load", "over"}
    BY <2>1 DEF Trial!Cleaning
  <2> QED BY <1>1, <2>1, <2>2, <2>3, <2>4, <2>5, <2>6, ControlMoves
<1>4. CASE Trial!Load
  <2>1. /\ UNCHANGED << saved, named, holder, requests, broker, records, past, marks >>
        /\ broker # "closed" /\ control.step = "load"
        /\ control' = [control EXCEPT !.step = "clean", !.owned = saved["owned"], !.uncertain = saved["uncertain"] \ saved["owned"]]
    BY <1>4 DEF Trial!Load, Trial!At, Trial!files, Trial!world, Trial!Unacknowledged
  <2>2. saved["owned"] \subseteq Trial!Objects /\ saved["uncertain"] \subseteq Trial!Objects
    BY DEF TrialInv, Trial!TypeOK
  <2>3. saved["uncertain"] \ saved["owned"] \in SUBSET Trial!Objects
    BY <2>2
  <2>4. /\ control' \in Trial!Controls /\ control'.step = "clean" /\ control'.owned = saved["owned"]
        /\ control'.uncertain = saved["uncertain"] \ saved["owned"] /\ control'.scope = control.scope
        /\ control'.status = control.status
    BY <1>1, <2>1, <2>2, <2>3 DEF Trial!Controls
  <2>5. broker = "cleanup" /\ control.status = "none"
    BY <1>1, <2>1 DEF TrialInv, BrokerHolds
  <2>6. saved["owned"] \subseteq saved["uncertain"]
    BY DEF TrialInv, EvidenceHolds
  <2>7. BeliefHolds'
    BY <2>1, <2>4, <2>6 DEF TrialInv, EvidenceHolds, Precedes, BeliefHolds
  <2>8. ScopeHolds'
    BY <2>1, <2>4, <2>5 DEF TrialInv, ScopeHolds, Trial!Mine
  <2> QED BY <1>1, <2>1, <2>4, <2>5, <2>7, <2>8, ControlMoves DEF Trial!Cleaning
<1>o. ASSUME Trial!Ends PROVE TrialInv'
  <2>1. UNCHANGED << named, holder, requests, saved, marks, records, past >> /\ broker' = "closed" /\ Trial!To("over")
    BY <1>o DEF Trial!Ends, Trial!files
  <2>2. /\ control' \in Trial!Controls /\ control'.step = "over" /\ control'.of = control.of /\ control'.owned = control.owned
        /\ control'.scope = control.scope
    BY <1>1, <2>1, ToMoves DEF TrialSteps
  <2>3. Trial!TypeOK'
    BY <2>1, <2>2 DEF TrialInv, Trial!TypeOK
  <2>4. EvidenceHolds'
    BY <2>1 DEF TrialInv, EvidenceHolds, Trial!Mine, Trial!MayExist, Asked, Precedes
  <2>5. BeliefHolds'
    BY <2>2 DEF TrialInv, BeliefHolds
  <2>6. Trial!RecordsNameTheRest'
    BY <2>1 DEF TrialInv, BrokerHolds, Trial!RecordsNameTheRest, Trial!MayExist, Trial!Mine
  <2>7. BrokerHolds'
    BY <2>1, <2>2, <2>6 DEF TrialInv, BrokerHolds
  <2>8. \A r \in requests' : r.verb = "delete" => r.of \in saved'["delete"] /\ DeleteMeant(r.of, r.rv)'
    BY <2>1 DEF TrialInv, CleanupHolds, DeleteMeant, Trial!Mine
  <2>9. CleanupHolds'
    BY <2>1, <2>2, <2>8 DEF CleanupHolds, Trial!Cleaning
  <2>10. ScopeHolds' /\ NoneOverlooked'
    BY <2>1, <2>2 DEF TrialInv, ScopeHolds, NoneOverlooked, Trial!Mine
  <2> QED BY <2>3, <2>4, <2>5, <2>7, <2>9, <2>10 DEF TrialInv
<1>5. CASE Trial!Closes \/ Trial!Done
  BY <1>5, <1>o DEF Trial!Closes, Trial!Done
<1>6. CASE Trial!Breaks
  <2>1. UNCHANGED << named, holder, requests, saved, marks, records, past >> /\ broker = "main" /\ broker' = "cleanup"
        /\ control' = Trial!Starts("load")
    BY <1>6 DEF Trial!Breaks, Trial!files
  <2>2. /\ control' \in Trial!Controls /\ control'.step = "load" /\ control'.owned = {} /\ control'.scope = 0 /\ control'.status = "none"
    BY <2>1, WritesRange DEF Trial!Starts, Trial!Controls, Trial!Objects, Trial!Statuses
  <2>3. Trial!TypeOK'
    BY <2>1, <2>2 DEF TrialInv, Trial!TypeOK
  <2>4. EvidenceHolds'
    BY <2>1 DEF TrialInv, EvidenceHolds, Trial!Mine, Trial!MayExist, Asked, Precedes
  <2>5. BeliefHolds'
    BY <2>2 DEF TrialInv, BeliefHolds
  <2>6. Trial!RecordsNameTheRest'
    BY <2>1 DEF TrialInv, BrokerHolds, Trial!RecordsNameTheRest, Trial!MayExist, Trial!Mine
  <2>7. BrokerHolds'
    BY <2>1, <2>2, <2>6 DEF TrialInv, BrokerHolds
  <2>8. \A r \in requests' : r.verb = "delete" => r.of \in saved'["delete"] /\ DeleteMeant(r.of, r.rv)'
    BY <2>1 DEF TrialInv, CleanupHolds, DeleteMeant, Trial!Mine
  <2>9. CleanupHolds'
    BY <2>1, <2>2, <2>8 DEF CleanupHolds, Trial!Cleaning
  <2>10. ScopeHolds' /\ NoneOverlooked'
    BY <2>1, <2>2 DEF ScopeHolds, NoneOverlooked
  <2> QED BY <2>3, <2>4, <2>5, <2>7, <2>9, <2>10 DEF TrialInv
<1> QED BY <1>2, <1>3, <1>4, <1>5, <1>6

(* The controller of cleanup looks, and decides what is next.              *)
LEMMA CleanupReadsHold ==
  ASSUME TrialInv, Trial!StartCleanup \/ Trial!Skip \/ Trial!Look \/ Trial!Confirm \/ Trial!Final
  PROVE  TrialInv'
<1>1. control \in Trial!Controls /\ marks \subseteq {"baseline", "arm", "collector", "worker"}
      /\ broker \in {"main", "cleanup", "closed"} /\ control.of \in Trial!Objects /\ control.owned \subseteq Trial!Objects
  BY DEF TrialInv, Trial!TypeOK, Trial!Controls
<1>2. UNCHANGED << saved, named, holder, requests, broker, records, past, marks >>
      /\ broker # "closed"
  BY DEF Trial!StartCleanup, Trial!Skip, Trial!Look, Trial!Confirm, Trial!Final, Trial!files, Trial!world, Trial!At
<1>3. control.step \in {"clean", "look", "confirm", "final"} /\ control.step \notin {"record", "over", "load"}
  BY DEF Trial!StartCleanup, Trial!Skip, Trial!Look, Trial!Confirm, Trial!Final, Trial!At
<1>4. control.status = "none" /\ (broker = "main" => records["main"].status = "none")
  BY <1>2, <1>3 DEF TrialInv, BrokerHolds
<1>5. control.owned \subseteq saved["owned"] /\ saved["owned"] \subseteq Trial!Objects /\ \A k \in control.owned : ~Asked(k)
  BY <1>1, <1>3 DEF TrialInv, BeliefHolds, EvidenceHolds, Trial!TypeOK
<1>6. \A k \in Trial!Objects : Trial!Free(k) => ~Trial!Mine(k)
  BY DEF TrialInv, EvidenceHolds, Trial!Free
<1>b. ASSUME control' \in Trial!Controls, control'.step \in Trial!Cleaning \cup {"record"}, control'.owned = control.owned,
             control'.uncertain = control.uncertain
      PROVE  BeliefHolds'
  BY <1>2, <1>3, <1>b DEF TrialInv, BeliefHolds, Trial!Cleaning
<1>7. CASE Trial!StartCleanup
  <2>1. control' = [control EXCEPT !.step = "look", !.of = "Job", !.left = control.owned]
    BY <1>7 DEF Trial!StartCleanup
  <2>2. /\ control' \in Trial!Controls /\ control'.step = "look" /\ control'.of = "Job" /\ control'.owned = control.owned
        /\ control'.uncertain = control.uncertain /\ control'.left = control.owned /\ control'.scope = control.scope
        /\ control'.status = control.status
    BY <1>1, <2>1 DEF Trial!Controls, Trial!Cleaning, Trial!Objects
  <2>3. BeliefHolds'
    BY <1>b, <2>2 DEF Trial!Cleaning
  <2>4. ScopeHolds'
    BY <1>2, <2>2, ScopeStays
  <2> QED BY <1>1, <1>2, <1>3, <1>4, <2>2, <2>3, <2>4, ControlMoves DEF Trial!Cleaning
<1>8. CASE Trial!Look
  <2>1. /\ control' = [control EXCEPT !.step = "attempt", !.read = named[control.of].rv] /\ control.step = "look"
        /\ control.of \in control.owned /\ named[control.of].same
    BY <1>8 DEF Trial!Look, Trial!At, Trial!Deletable
  <2>2. named[control.of].rv \in 0..MaxWrites /\ named[control.of].rv <= named[control.of].rv
    BY <1>1, WritesRange DEF TrialInv, Trial!TypeOK, Trial!Things
  <2>3. /\ control' \in Trial!Controls /\ control'.step = "attempt" /\ control'.of = control.of /\ control'.owned = control.owned
        /\ control'.uncertain = control.uncertain /\ control'.left = control.left /\ control'.scope = control.scope
        /\ control'.status = control.status /\ control'.read = named[control.of].rv
    BY <1>1, <2>1, <2>2 DEF Trial!Controls, Trial!Cleaning
  <2>4. BeliefHolds'
    BY <1>b, <2>3 DEF Trial!Cleaning
  <2>5. ScopeHolds'
    BY <1>2, <2>3, ScopeStays
  <2>6. DeleteMeant(control.of, named[control.of].rv)
    BY <2>1, <2>2 DEF DeleteMeant
  <2>7. /\ \A k \in control.owned \ control.left : ~Trial!MayExist(k)
        /\ control.of = "Policy" /\ "Job" \in control.owned => ~Trial!MayExist("Job") /\ holder \notin Trial!Present
    BY <2>1 DEF TrialInv, CleanupHolds, Trial!Cleaning
  <2> QED BY <1>1, <1>2, <1>4, <2>1, <2>3, <2>4, <2>5, <2>6, <2>7, ControlMoves DEF Trial!Cleaning
<1>9. CASE Trial!Final
  <2>1. /\ control' = [control EXCEPT !.step = "record", !.status = "verified"] /\ control.step = "final"
        /\ control.uncertain = {} /\ Trial!Clean
    BY <1>9 DEF Trial!Final, Trial!At
  <2>2. /\ control' \in Trial!Controls /\ control'.step = "record" /\ control'.of = control.of /\ control'.owned = control.owned
        /\ control'.uncertain = control.uncertain /\ control'.left = control.left /\ control'.scope = control.scope
        /\ control'.status = "verified"
    BY <1>1, <2>1 DEF Trial!Controls, Trial!Statuses
  <2>3. BeliefHolds'
    BY <1>b, <2>2
  <2>4. ScopeHolds'
    BY <1>2, <2>2, ScopeStays
  <2>6. holder \notin Trial!Present /\ \A k \in Trial!Objects : ~Trial!MayExist(k)
    <3>1. \A k \in Trial!Objects : ~Trial!Mine(k)
      BY <1>6, <2>1 DEF Trial!Clean
    <3>2. \A k \in Trial!Objects : Trial!MayExist(k) => k \in control.owned
      BY <2>1 DEF TrialInv, NoneOverlooked
    <3>3. \A k \in Trial!Objects : ~Trial!MayExist(k)
      BY <1>5, <3>1, <3>2 DEF Trial!MayExist, Asked
    <3> QED BY <2>1, <3>3 DEF Trial!Clean
  <2> QED BY <1>1, <1>2, <1>3, <2>2, <2>3, <2>4, <2>6, ControlMoves
<1>10. ASSUME control.step \in {"look", "confirm"}, NEW left \in SUBSET Trial!Objects,
              control'.step = Trial!Following, control'.of = "Policy", control'.left = left,
              control' \in Trial!Controls, control'.owned = control.owned, control'.uncertain = control.uncertain,
              control'.scope = control.scope, control'.status = control.status,
              \A k \in control.owned \ left : ~Trial!MayExist(k),
              control.of = "Job" /\ "Job" \in control.owned => ~Trial!MayExist("Job") /\ holder \notin Trial!Present
       PROVE  TrialInv'
  <2>1. control'.step \in {"look", "final"} /\ (control'.step = "look" => control.of = "Job")
    BY <1>10 DEF Trial!Following
  <2>2. BeliefHolds'
    BY <1>b, <1>10, <2>1 DEF Trial!Cleaning
  <2>3. ScopeHolds'
    BY <1>2, <1>10, <2>1, ScopeStays
  <2> QED BY <1>1, <1>2, <1>4, <1>10, <2>1, <2>2, <2>3, ControlMoves DEF Trial!Cleaning
<1>f. Trial!Following \in TrialSteps
  BY DEF Trial!Following, TrialSteps, Trial!Cleaning
<1>11. CASE Trial!Skip
  <2>1. /\ control' = [control EXCEPT !.step = Trial!Following, !.of = "Policy"] /\ control.step = "look"
        /\ control.of \notin control.owned
    BY <1>11 DEF Trial!Skip, Trial!At
  <2>2. /\ control' \in Trial!Controls /\ control'.step = Trial!Following /\ control'.of = "Policy" /\ control'.owned = control.owned
        /\ control'.uncertain = control.uncertain /\ control'.left = control.left /\ control'.scope = control.scope
        /\ control'.status = control.status
    BY <1>1, <1>f, <2>1 DEF Trial!Controls, TrialSteps, Trial!Objects
  <2>3. \A k \in control.owned \ control.left : ~Trial!MayExist(k)
    BY <2>1 DEF TrialInv, CleanupHolds, Trial!Cleaning
  <2>4. control.left \in SUBSET Trial!Objects
    BY <1>1 DEF Trial!Controls
  <2> QED BY <1>10, <2>1, <2>2, <2>3, <2>4
<1>12. CASE Trial!Confirm
  <2>1. /\ control' = [control EXCEPT !.step = Trial!Following, !.of = "Policy", !.left = control.left \ {control.of}]
        /\ control.step = "confirm" /\ Trial!NothingListed
    BY <1>12 DEF Trial!Confirm, Trial!At
  <2>2. control.left \ {control.of} \in SUBSET Trial!Objects
    BY <1>1 DEF Trial!Controls
  <2>3. /\ control' \in Trial!Controls /\ control'.step = Trial!Following /\ control'.of = "Policy" /\ control'.owned = control.owned
        /\ control'.uncertain = control.uncertain /\ control'.left = control.left \ {control.of} /\ control'.scope = control.scope
        /\ control'.status = control.status
    BY <1>1, <1>f, <2>1, <2>2 DEF Trial!Controls, TrialSteps, Trial!Objects
  <2>4. control.of \in control.owned /\ \A k \in control.owned \ control.left : ~Trial!MayExist(k)
    BY <2>1 DEF TrialInv, CleanupHolds, Trial!Cleaning
  <2>5. ~Trial!MayExist(control.of)
    BY <1>1, <1>5, <1>6, <2>1, <2>4 DEF Trial!NothingListed, Trial!MayExist, Asked
  <2>6. \A k \in control.owned \ (control.left \ {control.of}) : ~Trial!MayExist(k)
    BY <2>4, <2>5
  <2>7. control.of = "Job" => holder \notin Trial!Present
    BY <2>1 DEF Trial!NothingListed
  <2> QED BY <1>10, <2>1, <2>2, <2>3, <2>5, <2>6, <2>7
<1> QED BY <1>7, <1>8, <1>9, <1>11, <1>12

SavedFiles == [{"uncertain", "owned", "delete"} -> SUBSET Trial!Objects]

(* One of the files about an object is written.                            *)
LEMMA FileWritten ==
  ASSUME TrialInv, NEW f \in {"uncertain", "owned", "delete"}, saved' = [saved EXCEPT ![f] = @ \cup {control.of}]
  PROVE  /\ saved' \in SavedFiles /\ saved'[f] = saved[f] \cup {control.of}
         /\ \A other \in {"uncertain", "owned", "delete"} \ {f} : saved'[other] = saved[other]
<1>1. saved \in SavedFiles /\ control.of \in Trial!Objects
  BY DEF TrialInv, Trial!TypeOK, SavedFiles, Trial!Controls
<1>2. saved[f] \cup {control.of} \in SUBSET Trial!Objects
  BY <1>1 DEF SavedFiles
<1> QED BY <1>1, <1>2 DEF SavedFiles

LEMMA IntentHolds == ASSUME TrialInv, Trial!SaveUncertain PROVE TrialInv'
<1>0. PICK step \in {"create", "clean"}, intended \in {{}, {control.of}} :
        /\ control' = [control EXCEPT !.step = step, !.uncertain = control.uncertain \cup intended]
        /\ step = "create" => intended = {control.of}
  <2>1. CASE Trial!Intends
    BY <2>1 DEF Trial!Intends
  <2>2. CASE Trial!To("clean")
    <3>1. control \in Trial!Controls
      BY DEF TrialInv, Trial!TypeOK
    <3>2. control.uncertain = control.uncertain \cup {}
      OBVIOUS
    <3>3. control' = [control EXCEPT !.step = "clean", !.uncertain = control.uncertain \cup {}]
      BY <2>2, <3>1, <3>2 DEF Trial!To, Trial!Controls
    <3> QED BY <3>3
  <2> QED BY <2>1, <2>2 DEF Trial!SaveUncertain
<1>1. /\ UNCHANGED << named, holder, requests, broker, records, past, marks >> /\ broker # "closed" /\ control.step = "admit"
      /\ saved' = [saved EXCEPT !["uncertain"] = @ \cup {control.of}]
  BY DEF Trial!SaveUncertain, Trial!At, Trial!world
<1>2. control \in Trial!Controls /\ control.of \in Trial!Objects /\ broker \in {"main", "cleanup", "closed"}
  BY DEF TrialInv, Trial!TypeOK, Trial!Controls
<1>3. control.uncertain \cup intended \in SUBSET Trial!Objects
  BY <1>2 DEF Trial!Controls
<1>4. /\ control' \in Trial!Controls /\ control'.step = step /\ control'.of = control.of /\ control'.owned = control.owned
      /\ control'.uncertain = control.uncertain \cup intended /\ control'.scope = control.scope
      /\ control'.status = control.status
  BY <1>0, <1>2, <1>3 DEF Trial!Controls, Trial!Business
<1>5. /\ saved' \in SavedFiles /\ saved'["uncertain"] = saved["uncertain"] \cup {control.of}
      /\ saved'["owned"] = saved["owned"] /\ saved'["delete"] = saved["delete"]
  BY <1>1, FileWritten
<1>6. broker = "main" /\ control.status = "none" /\ records["main"].status = "none"
  BY <1>1, <1>2 DEF TrialInv, BrokerHolds, Trial!Cleaning
<1>7. control.owned = saved["owned"] /\ control.uncertain = {} /\ saved["uncertain"] = Precedes(control.of)
      /\ saved["owned"] = Precedes(control.of) /\ control.scope = 0 /\ control.of \notin Precedes(control.of)
  BY <1>1 DEF TrialInv, BeliefHolds, ScopeHolds, Precedes
<1>8. \A k \in Trial!Objects : Trial!Mine(k)' = Trial!Mine(k) /\ Trial!MayExist(k)' = Trial!MayExist(k) /\ Asked(k)' = Asked(k)
  BY <1>1 DEF Trial!Mine, Trial!MayExist, Asked
<1>9. Trial!TypeOK'
  BY <1>1, <1>4, <1>5 DEF TrialInv, Trial!TypeOK, SavedFiles
<1>10. EvidenceHolds'
  <2>1. \A k \in saved["owned"] : k \in Trial!Objects
    BY DEF TrialInv, Trial!TypeOK
  <2>2. \A k \in saved'["owned"] : ~Asked(k)' /\ Precedes(k) \subseteq saved'["owned"]
    BY <1>5, <1>8, <2>1 DEF TrialInv, EvidenceHolds
  <2> QED BY <1>1, <1>5, <1>8, <2>2 DEF TrialInv, EvidenceHolds, Precedes
<1>11. BeliefHolds'
  <2>1. PICK k \in Trial!Objects : k = control.of
    BY <1>2
  <2>2. ~Trial!MayExist(k)'
    BY <1>7, <1>8, <2>1 DEF TrialInv, EvidenceHolds
  <2>3. ~Trial!MayExist(control.of)'
    BY <1>4, <2>1, <2>2 DEF Trial!MayExist, Trial!Mine
  <2>4. control.owned = Precedes(control.of)
    BY <1>7
  <2> QED BY <1>0, <1>4, <1>5, <1>7, <2>3, <2>4 DEF BeliefHolds, Precedes
<1>12. BrokerHolds'
  <2>1. Trial!RecordsNameTheRest'
    BY <1>1 DEF TrialInv, BrokerHolds, Trial!RecordsNameTheRest, Trial!MayExist, Trial!Mine
  <2> QED BY <1>1, <1>4, <1>6, <2>1 DEF TrialInv, BrokerHolds
<1>13. CleanupHolds'
  <2>1. \A r \in requests' : r.verb = "delete" => r.of \in saved'["delete"] /\ DeleteMeant(r.of, r.rv)'
    BY <1>1, <1>5 DEF TrialInv, CleanupHolds, DeleteMeant, Trial!Mine
  <2> QED BY <1>4, <2>1 DEF CleanupHolds, Trial!Cleaning
<1>14. ScopeHolds'
  BY <1>1, <1>4, <1>7 DEF TrialInv, ScopeHolds
<1>15. NoneOverlooked'
  BY <1>1, <1>4, <1>8, RememberedStays
<1> QED BY <1>9, <1>10, <1>11, <1>12, <1>13, <1>14, <1>15 DEF TrialInv

LEMMA AcknowledgementHolds == ASSUME TrialInv, Trial!SaveOwned PROVE TrialInv'
<1>1. /\ UNCHANGED << named, holder, requests, broker, records, past, marks >> /\ broker # "closed" /\ control.step = "acked"
      /\ saved' = [saved EXCEPT !["owned"] = @ \cup {control.of}]
  BY DEF Trial!SaveOwned, Trial!At, Trial!world
<1>2. control \in Trial!Controls /\ control.of \in Trial!Objects /\ broker \in {"main", "cleanup", "closed"}
  BY DEF TrialInv, Trial!TypeOK, Trial!Controls
<1>3. PICK step \in {"clean", "original", "realize"} :
        Trial!To(step) /\ (step = "original" => control.of = "Job") /\ (step = "realize" => control.of = "Policy")
  BY <1>2 DEF Trial!SaveOwned, Trial!Objects
<1>4. /\ control' \in Trial!Controls /\ control'.step = step /\ control'.of = control.of /\ control'.owned = control.owned
      /\ control'.uncertain = control.uncertain /\ control'.scope = control.scope
      /\ control'.status = control.status
  BY <1>2, <1>3, ToMoves DEF TrialSteps, Trial!Business
<1>5. /\ saved' \in SavedFiles /\ saved'["owned"] = saved["owned"] \cup {control.of}
      /\ saved'["uncertain"] = saved["uncertain"] /\ saved'["delete"] = saved["delete"]
  BY <1>1, FileWritten
<1>6. broker = "main" /\ control.status = "none" /\ records["main"].status = "none"
  BY <1>1, <1>2 DEF TrialInv, BrokerHolds, Trial!Cleaning
<1>7. /\ saved["owned"] = Precedes(control.of) /\ control.owned = Precedes(control.of) \cup {control.of}
      /\ control.uncertain = {} /\ control.scope = 0 /\ ~Asked(control.of) /\ control.owned = saved["uncertain"]
  BY <1>1 DEF TrialInv, BeliefHolds, ScopeHolds
<1>8. \A k \in Trial!Objects : Trial!Mine(k)' = Trial!Mine(k) /\ Trial!MayExist(k)' = Trial!MayExist(k) /\ Asked(k)' = Asked(k)
  BY <1>1 DEF Trial!Mine, Trial!MayExist, Asked
<1>9. Trial!TypeOK'
  BY <1>1, <1>4, <1>5 DEF TrialInv, Trial!TypeOK, SavedFiles
<1>10. EvidenceHolds'
  <2>1. \A k \in saved'["owned"] : k \in Trial!Objects
    BY <1>5 DEF SavedFiles
  <2>2. \A k \in saved["owned"] : ~Asked(k) /\ Precedes(k) \subseteq saved["owned"]
    BY DEF TrialInv, EvidenceHolds
  <2>3. \A k \in saved'["owned"] : ~Asked(k)' /\ Precedes(k) \subseteq saved'["owned"]
    BY <1>5, <1>7, <1>8, <2>1, <2>2
  <2>4. Precedes(control.of)' = Precedes(control.of) /\ \A k \in Trial!Objects : Precedes(k)' = Precedes(k)
    BY <1>4 DEF Precedes
  <2>5. saved'["owned"] \subseteq saved'["uncertain"]
    BY <1>5, <1>7
  <2> QED BY <1>1, <1>5, <1>8, <2>1, <2>3, <2>4, <2>5 DEF TrialInv, EvidenceHolds
<1>11. BeliefHolds'
  BY <1>3, <1>4, <1>5, <1>7 DEF BeliefHolds, Precedes
<1>12. BrokerHolds'
  <2>1. Trial!RecordsNameTheRest'
    BY <1>1 DEF TrialInv, BrokerHolds, Trial!RecordsNameTheRest, Trial!MayExist, Trial!Mine
  <2> QED BY <1>1, <1>4, <1>6, <2>1 DEF TrialInv, BrokerHolds
<1>13. CleanupHolds'
  <2>1. \A r \in requests' : r.verb = "delete" => r.of \in saved'["delete"] /\ DeleteMeant(r.of, r.rv)'
    BY <1>1, <1>5 DEF TrialInv, CleanupHolds, DeleteMeant, Trial!Mine
  <2> QED BY <1>4, <2>1 DEF CleanupHolds, Trial!Cleaning
<1>14. ScopeHolds'
  BY <1>1, <1>4, <1>7 DEF TrialInv, ScopeHolds
<1>15. NoneOverlooked'
  BY <1>1, <1>3, <1>4, <1>8, RememberedStays
<1> QED BY <1>9, <1>10, <1>11, <1>12, <1>13, <1>14, <1>15 DEF TrialInv

(* The DELETE is attempted once it is on record, for an object as it was   *)
(* read.                                                                   *)
LEMMA AttemptHolds == ASSUME TrialInv, Trial!Attempt PROVE TrialInv'
<1>1. /\ UNCHANGED << named, holder, requests, broker, records, past, marks >> /\ broker # "closed" /\ control.step = "attempt"
      /\ control.of \notin saved["delete"] /\ Trial!To("delete")
      /\ saved' = [saved EXCEPT !["delete"] = @ \cup {control.of}]
  BY DEF Trial!Attempt, Trial!At, Trial!world, Trial!Untried
<1>2. control \in Trial!Controls /\ control.of \in Trial!Objects /\ broker \in {"main", "cleanup", "closed"}
  BY DEF TrialInv, Trial!TypeOK, Trial!Controls
<1>4. /\ control' \in Trial!Controls /\ control'.step = "delete" /\ control'.of = control.of /\ control'.owned = control.owned
      /\ control'.uncertain = control.uncertain /\ control'.scope = control.scope /\ control'.left = control.left
      /\ control'.status = control.status /\ control'.read = control.read
  BY <1>1, <1>2, ToMoves DEF TrialSteps
<1>5. /\ saved' \in SavedFiles /\ saved'["delete"] = saved["delete"] \cup {control.of}
      /\ saved'["uncertain"] = saved["uncertain"] /\ saved'["owned"] = saved["owned"]
  BY <1>1, FileWritten
<1>6. control.status = "none" /\ (broker = "main" => records["main"].status = "none")
  BY <1>1 DEF TrialInv, BrokerHolds
<1>7. /\ control.of \in control.owned /\ control.of \in saved["owned"] /\ control.of \notin past.deleted
      /\ DeleteMeant(control.of, control.read)
      /\ \A k \in control.owned \ control.left : ~Trial!MayExist(k)
      /\ control.of = "Policy" /\ "Job" \in control.owned => ~Trial!MayExist("Job") /\ holder \notin Trial!Present
  BY <1>1 DEF TrialInv, CleanupHolds, BeliefHolds, EvidenceHolds, Trial!Cleaning
<1>8. \A k \in Trial!Objects : Trial!Mine(k)' = Trial!Mine(k) /\ Trial!MayExist(k)' = Trial!MayExist(k) /\ Asked(k)' = Asked(k)
  BY <1>1 DEF Trial!Mine, Trial!MayExist, Asked
<1>9. Trial!TypeOK'
  BY <1>1, <1>4, <1>5 DEF TrialInv, Trial!TypeOK, SavedFiles
<1>10. EvidenceHolds'
  <2>1. \A k \in saved["owned"] : k \in Trial!Objects
    BY DEF TrialInv, Trial!TypeOK
  <2>2. \A k \in saved'["owned"] : ~Asked(k)' /\ Precedes(k) \subseteq saved'["owned"]
    BY <1>5, <1>8, <2>1 DEF TrialInv, EvidenceHolds
  <2> QED BY <1>1, <1>5, <1>7, <1>8, <2>2 DEF TrialInv, EvidenceHolds, Precedes
<1>11. BeliefHolds'
  BY <1>1, <1>4, <1>5 DEF TrialInv, BeliefHolds
<1>12. BrokerHolds'
  <2>1. Trial!RecordsNameTheRest'
    BY <1>1 DEF TrialInv, BrokerHolds, Trial!RecordsNameTheRest, Trial!MayExist, Trial!Mine
  <2> QED BY <1>1, <1>2, <1>4, <1>6, <2>1 DEF TrialInv, BrokerHolds
<1>13. CleanupHolds'
  <2>1. \A r \in requests' : r.verb = "delete" => r.of \in saved'["delete"] /\ DeleteMeant(r.of, r.rv)'
    BY <1>1, <1>5 DEF TrialInv, CleanupHolds, DeleteMeant, Trial!Mine
  <2>2. DeleteMeant(control.of, control.read)'
    BY <1>1, <1>4, <1>7 DEF DeleteMeant, Trial!Mine
  <2>3. \A k \in control'.owned \ control'.left : ~Trial!MayExist(k)'
    BY <1>2, <1>4, <1>7, <1>8 DEF Trial!Controls
  <2>4. control'.of = "Policy" /\ "Job" \in control'.owned => ~Trial!MayExist("Job")' /\ holder' \notin Trial!Present
    BY <1>1, <1>4, <1>7, <1>8 DEF Trial!Objects
  <2> QED BY <1>1, <1>4, <1>5, <1>7, <2>1, <2>2, <2>3, <2>4 DEF CleanupHolds, Trial!Cleaning
<1>14. ScopeHolds'
  BY <1>1, <1>4, <1>5 DEF TrialInv, ScopeHolds, Trial!Mine
<1>15. NoneOverlooked'
  BY <1>1, <1>4, <1>8, RememberedStays
<1> QED BY <1>9, <1>10, <1>11, <1>12, <1>13, <1>14, <1>15 DEF TrialInv

(* The controller goes on to cleanup, whatever it was doing.               *)
LEMMA GivesUp ==
  ASSUME TrialInv, UNCHANGED << saved, named, holder, requests, broker, records, past >>,
         marks' \subseteq {"baseline", "arm", "collector", "worker"}, Trial!To("clean"),
         control.step \in Trial!Business
  PROVE  TrialInv'
<1>1. control \in Trial!Controls /\ broker \in {"main", "cleanup", "closed"}
  BY DEF TrialInv, Trial!TypeOK
<1>2. /\ control' \in Trial!Controls /\ control'.step = "clean" /\ control'.owned = control.owned /\ control'.of = control.of
      /\ control'.uncertain = control.uncertain /\ control'.scope = control.scope /\ control'.status = control.status
  BY <1>1, ToMoves DEF TrialSteps
<1>3. control.status = "none" /\ broker = "main" /\ records["main"].status = "none" /\ control.step \notin {"load", "over"}
  BY <1>1 DEF TrialInv, BrokerHolds, Trial!Business, Trial!Cleaning
<1>4. BeliefHolds'
  BY <1>2 DEF TrialInv, BeliefHolds, Trial!Business
<1>5. ScopeHolds'
  BY <1>2, ScopeStays
<1> QED BY <1>2, <1>3, <1>4, <1>5, ControlMoves DEF Trial!Cleaning

LEMMA CreateHolds == ASSUME TrialInv, Trial!Create PROVE TrialInv'
<1>0. control.step = "create" /\ broker # "closed" /\ UNCHANGED << holder, saved, marks, broker, records >>
  BY DEF Trial!Create, Trial!At, Trial!files
<1>1. control \in Trial!Controls /\ broker = "main" /\ control.of \in Trial!Objects /\ control.owned \subseteq Trial!Objects
      /\ control.status = "none" /\ requests \subseteq Trial!Requests /\ named \in [Trial!Objects -> Trial!Things]
      /\ marks \subseteq {"baseline", "arm", "collector", "worker"}
  BY <1>0 DEF TrialInv, BrokerHolds, Trial!TypeOK, Trial!Controls, Trial!Cleaning
<1>2. /\ saved["owned"] = Precedes(control.of) /\ control.owned = Precedes(control.of) /\ control.uncertain = {control.of}
      /\ ~Trial!MayExist(control.of) /\ control.scope = 0 /\ ~past.written
      /\ control.of \in saved["uncertain"] /\ control.of \notin saved["owned"]
  BY <1>0, <1>1 DEF TrialInv, BeliefHolds, ScopeHolds, Precedes
<1>3. \A p \in {"main", "cleanup"} : records[p].status = "none"
  BY <1>0, <1>1 DEF TrialInv, BrokerHolds
<1>4. \A r \in requests : r.verb = "delete" => r.of # control.of
  BY <1>2 DEF TrialInv, CleanupHolds, EvidenceHolds
<1>5. CASE Trial!To("clean") /\ UNCHANGED << named, requests, past >>
  BY <1>0, <1>1, <1>5, GivesUp DEF Trial!Business
<1>6. CASE Trial!To("clean") /\ Trial!Unanswered("create", 0) /\ UNCHANGED << named, past >>
  <2>1. /\ control' \in Trial!Controls /\ control'.step = "clean" /\ control'.owned = control.owned /\ control'.of = control.of
        /\ control'.uncertain = control.uncertain /\ control'.scope = control.scope /\ control'.status = "none"
    BY <1>1, <1>6, ToMoves DEF TrialSteps
  <2>2. requests' = requests \cup {[ verb |-> "create", of |-> control.of, rv |-> 0 ]}
    BY <1>6 DEF Trial!Unanswered
  <2>3. [ verb |-> "create", of |-> control.of, rv |-> 0 ] \in Trial!Requests
    BY <1>1, WritesRange DEF Trial!Requests
  <2>4. Trial!TypeOK'
    BY <1>0, <1>1, <1>6, <2>1, <2>2, <2>3 DEF TrialInv, Trial!TypeOK
  <2>5. \A k \in Trial!Objects : (Asked(k)' => Asked(k) \/ k = control.of) /\ (Trial!MayExist(k)' => Trial!MayExist(k) \/ k = control.of)
    BY <1>6, <2>2 DEF Asked, Trial!MayExist, Trial!Mine
  <2>6. EvidenceHolds'
    <3>1. \A k \in Trial!Objects : Trial!Mine(k)' => named'[k].rv # 0
      BY <1>6 DEF TrialInv, EvidenceHolds, Trial!Mine
    <3>2. \A k \in Trial!Objects : Trial!MayExist(k)' => k \in saved'["uncertain"]
      BY <1>0, <1>2, <2>5 DEF TrialInv, EvidenceHolds
    <3>3. \A k \in saved["owned"] : k \in Trial!Objects /\ k # control.of /\ ~Asked(k) /\ Precedes(k) \subseteq saved["owned"]
      BY <1>2 DEF TrialInv, EvidenceHolds, Trial!TypeOK
    <3>4. \A k \in saved'["owned"] : ~Asked(k)' /\ Precedes(k)' \subseteq saved'["owned"]
      BY <1>0, <2>5, <3>3 DEF Precedes
    <3> QED BY <1>0, <1>6, <3>1, <3>2, <3>4 DEF TrialInv, EvidenceHolds, Precedes
  <2>7. BeliefHolds'
    BY <1>0, <1>2, <2>1 DEF TrialInv, BeliefHolds
  <2>8. BrokerHolds'
    BY <1>0, <1>1, <1>3, <2>1 DEF TrialInv, BrokerHolds, Trial!RecordsNameTheRest, Trial!Cleaning
  <2>9. CleanupHolds'
    <3>1. \A r \in requests' : r.verb = "delete" => r.of \in saved'["delete"] /\ DeleteMeant(r.of, r.rv)'
      BY <1>0, <1>6, <2>2 DEF TrialInv, CleanupHolds, DeleteMeant, Trial!Mine
    <3> QED BY <2>1, <3>1 DEF CleanupHolds, Trial!Cleaning
  <2>10. ScopeHolds'
    BY <1>0, <1>2, <1>6, <2>1 DEF ScopeHolds
  <2>11. NoneOverlooked'
    BY <1>0, <1>2, <2>1, <2>5, RememberedStays
  <2> QED BY <2>4, <2>6, <2>7, <2>8, <2>9, <2>10, <2>11 DEF TrialInv
<1>7. CASE /\ Trial!Created(control.of) /\ UNCHANGED requests
           /\ control' = [control EXCEPT !.step = "acked", !.owned = @ \cup {control.of}, !.uncertain = @ \ {control.of}]
  <2> DEFINE thing == [ mine |-> TRUE, same |-> TRUE, rv |-> 1, going |-> FALSE ]
  <2>1. thing \in Trial!Things /\ thing.rv = 1
    BY WritesRange DEF Trial!Things
  <2>2. Trial!Puts(control.of, thing)
    BY <1>7 DEF Trial!Created
  <2> HIDE DEF thing
  <2>3. /\ named' \in [Trial!Objects -> Trial!Things] /\ named'[control.of] = thing
        /\ \A other \in Trial!Objects \ {control.of} : named'[other] = named[other]
        /\ past' \in Pasts /\ past'.deleted = past.deleted /\ past'.again = past.again /\ past'.ran = past.ran
        /\ past'.written = past.written
    BY <1>1, <1>2, <2>1, <2>2, PutsSound
  <2>4. control.owned \cup {control.of} \in SUBSET Trial!Objects /\ control.uncertain \ {control.of} \in SUBSET Trial!Objects
    BY <1>1 DEF Trial!Controls
  <2>5. /\ control' \in Trial!Controls /\ control'.step = "acked" /\ control'.owned = control.owned \cup {control.of}
        /\ control'.of = control.of /\ control'.uncertain = control.uncertain \ {control.of}
        /\ control'.scope = control.scope /\ control'.status = control.status
    BY <1>1, <1>7, <2>4 DEF Trial!Controls
  <2>6. \A k \in Trial!Objects : Asked(k)' = Asked(k)
    BY <1>7 DEF Asked
  <2>7. \A k \in Trial!Objects : Trial!MayExist(k)' => Trial!MayExist(k) \/ k = control.of
    BY <1>7, <2>3 DEF Trial!MayExist, Trial!Mine
  <2>8. Trial!TypeOK'
    BY <1>0, <1>1, <1>7, <2>3, <2>5 DEF TrialInv, Trial!TypeOK, Pasts
  <2>9. EvidenceHolds'
    <3>1. \A k \in Trial!Objects : Trial!Mine(k)' => named'[k].rv # 0
      BY <2>1, <2>3 DEF TrialInv, EvidenceHolds, Trial!Mine
    <3>2. \A k \in Trial!Objects : Trial!MayExist(k)' => k \in saved'["uncertain"]
      BY <1>0, <1>2, <2>7 DEF TrialInv, EvidenceHolds
    <3>3. \A k \in saved["owned"] : k \in Trial!Objects
      BY DEF TrialInv, Trial!TypeOK
    <3>4. \A k \in saved'["owned"] : ~Asked(k)' /\ Precedes(k)' \subseteq saved'["owned"]
      BY <1>0, <2>6, <3>3 DEF TrialInv, EvidenceHolds, Precedes
    <3> QED BY <1>0, <2>3, <3>1, <3>2, <3>4 DEF TrialInv, EvidenceHolds, Precedes
  <2>10. BeliefHolds'
    <3>1. ~Asked(control.of)'
      BY <1>2, <1>7, <2>5 DEF Asked, Trial!MayExist
    <3> QED BY <1>0, <1>2, <2>5, <3>1 DEF TrialInv, BeliefHolds, Precedes
  <2>11. BrokerHolds'
    BY <1>0, <1>1, <1>3, <2>5 DEF TrialInv, BrokerHolds, Trial!RecordsNameTheRest, Trial!Cleaning
  <2>12. CleanupHolds'
    <3>1. ASSUME NEW r \in requests', r.verb = "delete" PROVE r.of \in saved'["delete"] /\ DeleteMeant(r.of, r.rv)'
      <4>1. r \in requests /\ r.of # control.of /\ r.of \in saved["delete"] /\ DeleteMeant(r.of, r.rv) /\ r.of \in Trial!Objects
        BY <1>1, <1>4, <1>7, <3>1 DEF TrialInv, CleanupHolds, Trial!Requests
      <4>2. named'[r.of] = named[r.of]
        BY <2>3, <4>1
      <4> QED BY <1>0, <4>1, <4>2 DEF DeleteMeant, Trial!Mine
    <3> QED BY <2>5, <3>1 DEF CleanupHolds, Trial!Cleaning
  <2>13. ScopeHolds'
    BY <1>0, <1>2, <2>3, <2>5 DEF ScopeHolds
  <2>14. NoneOverlooked'
    BY <1>0, <1>2, <2>5, <2>7, RememberedStays
  <2> QED BY <2>8, <2>9, <2>10, <2>11, <2>12, <2>13, <2>14 DEF TrialInv
<1> QED BY <1>5, <1>6, <1>7 DEF Trial!Create

LEMMA DispatchHolds == ASSUME TrialInv, Trial!Dispatch PROVE TrialInv'
<1>0. control.step = "dispatch" /\ broker # "closed" /\ UNCHANGED << named, holder, saved, broker, records >>
      /\ marks' = marks \cup {"worker"}
  BY DEF Trial!Dispatch, Trial!At
<1>1. control \in Trial!Controls /\ broker = "main" /\ control.of \in Trial!Objects
      /\ control.status = "none" /\ requests \subseteq Trial!Requests /\ past \in Pasts
      /\ marks' \subseteq {"baseline", "arm", "collector", "worker"}
  BY <1>0 DEF TrialInv, BrokerHolds, Trial!TypeOK, Trial!Controls, Trial!Cleaning, Pasts
<1>2. PICK step \in {"check", "clean"} :
        /\ Trial!To(step) /\ past' \in Pasts /\ past'.deleted = past.deleted /\ past'.again = past.again
        /\ past'.written = past.written /\ (step = "check" => past'.ran)
        /\ requests' = requests \/ requests' = requests \cup {[ verb |-> "exec", of |-> control.of, rv |-> 0 ]}
  <2>1. CASE holder = "running" /\ Trial!Ran /\ Trial!To("check") /\ UNCHANGED requests
    <3>1. past' \in Pasts /\ past'.deleted = past.deleted /\ past'.again = past.again /\ past'.written = past.written /\ past'.ran
      BY <1>1, <2>1 DEF Trial!Ran, Pasts
    <3> QED BY <2>1, <3>1
  <2>2. CASE Trial!Unanswered("exec", 0) /\ Trial!To("clean") /\ UNCHANGED past
    BY <1>1, <2>2 DEF Trial!Unanswered
  <2> QED BY <2>1, <2>2 DEF Trial!Dispatch
<1>3. /\ control' \in Trial!Controls /\ control'.step = step /\ control'.owned = control.owned /\ control'.of = control.of
      /\ control'.uncertain = control.uncertain /\ control'.scope = control.scope /\ control'.status = control.status
  BY <1>1, <1>2, ToMoves DEF TrialSteps, Trial!Business
<1>4. [ verb |-> "exec", of |-> control.of, rv |-> 0 ] \in Trial!Requests
  BY <1>1, WritesRange DEF Trial!Requests
<1>5. \A k \in Trial!Objects : Trial!Mine(k)' = Trial!Mine(k) /\ Trial!MayExist(k)' = Trial!MayExist(k) /\ Asked(k)' = Asked(k)
  BY <1>0, <1>2 DEF Trial!Mine, Trial!MayExist, Asked
<1>6. Trial!TypeOK'
  BY <1>0, <1>1, <1>2, <1>3, <1>4 DEF TrialInv, Trial!TypeOK, Pasts
<1>7. EvidenceHolds'
  <2>1. \A k \in saved["owned"] : k \in Trial!Objects
    BY DEF TrialInv, Trial!TypeOK
  <2>2. \A k \in saved'["owned"] : ~Asked(k)' /\ Precedes(k)' \subseteq saved'["owned"]
    BY <1>0, <1>5, <2>1 DEF TrialInv, EvidenceHolds, Precedes
  <2> QED BY <1>0, <1>2, <1>5, <2>2 DEF TrialInv, EvidenceHolds, Precedes
<1>8. BeliefHolds'
  BY <1>0, <1>2, <1>3 DEF TrialInv, BeliefHolds
<1>9. BrokerHolds'
  <2>1. Trial!RecordsNameTheRest'
    BY <1>0, <1>5 DEF TrialInv, BrokerHolds, Trial!RecordsNameTheRest
  <2> QED BY <1>0, <1>1, <1>2, <1>3, <2>1 DEF TrialInv, BrokerHolds
<1>10. CleanupHolds'
  <2>1. \A r \in requests' : r.verb = "delete" => r.of \in saved'["delete"] /\ DeleteMeant(r.of, r.rv)'
    BY <1>0, <1>2 DEF TrialInv, CleanupHolds, DeleteMeant, Trial!Mine
  <2> QED BY <1>2, <1>3, <2>1 DEF CleanupHolds, Trial!Cleaning
<1>11. ScopeHolds'
  BY <1>0, <1>2, <1>3 DEF TrialInv, ScopeHolds, Trial!Mine
<1>12. NoneOverlooked'
  BY <1>0, <1>3, <1>5, RememberedStays
<1> QED BY <1>6, <1>7, <1>8, <1>9, <1>10, <1>11, <1>12 DEF TrialInv

LEMMA RecordHolds == ASSUME TrialInv, Trial!Record PROVE TrialInv'
<1> DEFINE said == [ status |-> control.status, completed |-> control.completed,
                     names |-> IF control.status = "unknown_handoff" THEN control.left \cup control.uncertain ELSE {} ]
<1>0. control.step = "record" /\ broker # "closed" /\ UNCHANGED << named, holder, requests, saved, marks, broker, control, past >>
      /\ records' = [records EXCEPT ![broker] = said]
  BY DEF Trial!Record, Trial!At, Trial!files
<1>1. control \in Trial!Controls /\ broker \in {"main", "cleanup"} /\ records \in [{"main", "cleanup"} -> Trial!Records]
  BY <1>0 DEF TrialInv, Trial!TypeOK
<1>2. said \in Trial!Records
  BY <1>1 DEF Trial!Records, Trial!Controls
<1>3. Trial!TypeOK'
  BY <1>0, <1>1, <1>2 DEF TrialInv, Trial!TypeOK
<1>4. said.status = control.status /\ (said.status = "verified" => said.names = {})
  OBVIOUS
<1>5. ASSUME control.status # "none"
      PROVE  /\ \A k \in Trial!Objects : Trial!MayExist(k) => k \in said.names
             /\ control.status = "verified" => holder \notin Trial!Present
  <2>1. control.status \in {"not_armed", "verified", "unknown_handoff"}
    BY <1>1, <1>5 DEF Trial!Controls, Trial!Statuses
  <2>2. CASE control.status = "not_armed"
    BY <1>0, <2>2 DEF TrialInv, CleanupHolds, EvidenceHolds
  <2>3. CASE control.status = "verified"
    BY <1>0, <2>3 DEF TrialInv, CleanupHolds
  <2>4. CASE control.status = "unknown_handoff"
    <3>1. \A k \in control.owned \ control.left : ~Trial!MayExist(k)
      BY <1>0 DEF TrialInv, CleanupHolds
    <3>2. \A k \in Trial!Objects : Trial!MayExist(k) => k \in control.owned \cup control.uncertain
      BY <1>0 DEF TrialInv, NoneOverlooked
    <3> QED BY <2>4, <3>1, <3>2
  <2> QED BY <2>1, <2>2, <2>3, <2>4
<1> HIDE DEF said
<1>6. records'[broker] = said /\ \A p \in {"main", "cleanup"} \ {broker} : records'[p] = records[p]
  BY <1>0, <1>1
<1>7. BrokerHolds'
  <2>1. Trial!RecordsNameTheRest'
    <3> SUFFICES ASSUME NEW p \in {"main", "cleanup"}, records'[p].status # "none"
                 PROVE  /\ \A k \in Trial!Objects : Trial!MayExist(k)' => k \in records'[p].names
                        /\ records'[p].status = "verified" => holder' \notin Trial!Present
      BY DEF Trial!RecordsNameTheRest
    <3>1. \A k \in Trial!Objects : Trial!MayExist(k)' = Trial!MayExist(k)
      BY <1>0 DEF Trial!MayExist, Trial!Mine
    <3>2. CASE p = broker
      BY <1>0, <1>4, <1>5, <1>6, <3>1, <3>2
    <3>3. CASE p # broker
      BY <1>0, <1>6, <3>1, <3>3 DEF TrialInv, BrokerHolds, Trial!RecordsNameTheRest
    <3> QED BY <3>2, <3>3
  <2>2. \A p \in {"main", "cleanup"} : records'[p].status = "verified" => records'[p].names = {}
    BY <1>1, <1>4, <1>6 DEF TrialInv, BrokerHolds
  <2> QED BY <1>0, <1>1, <1>6, <2>1, <2>2 DEF TrialInv, BrokerHolds
<1>8. EvidenceHolds' /\ BeliefHolds' /\ ScopeHolds'
  <2>1. EvidenceHolds'
    BY <1>0 DEF TrialInv, EvidenceHolds, Trial!Mine, Trial!MayExist, Asked, Precedes
  <2>2. BeliefHolds'
    BY <1>0 DEF TrialInv, BeliefHolds
  <2>3. ScopeHolds'
    BY <1>0 DEF TrialInv, ScopeHolds, Trial!Mine
  <2> QED BY <2>1, <2>2, <2>3
<1>9. CleanupHolds'
  BY <1>0 DEF TrialInv, CleanupHolds, DeleteMeant, Trial!Mine, Trial!MayExist
<1>10. NoneOverlooked'
  BY <1>0 DEF TrialInv, NoneOverlooked, Trial!Mine, Trial!MayExist
<1> QED BY <1>3, <1>7, <1>8, <1>9, <1>10 DEF TrialInv

(* The history of a DELETE that is sent, and of what it wrote.             *)
LEMMA SentSound ==
  ASSUME past \in Pasts, control.of \in Trial!Objects, control.of \notin past.deleted, NEW b \in BOOLEAN,
         past' = [Trial!Sent EXCEPT !.written = b]
  PROVE  /\ past' \in Pasts /\ past'.deleted = past.deleted \cup {control.of} /\ past'.again = past.again
         /\ past'.ran = past.ran /\ past'.written = b
<1>1. past.deleted \cup {control.of} \in SUBSET Trial!Objects
  BY DEF Pasts
<1>2. PICK again \in BOOLEAN : again <=> (past.again \/ control.of \in past.deleted)
  OBVIOUS
<1>3. past.again \in BOOLEAN
  BY DEF Pasts
<1>4. again = past.again
  BY <1>2, <1>3
<1>5. past' = [past EXCEPT !.again = again, !.deleted = past.deleted \cup {control.of}, !.written = b]
  BY <1>2 DEF Trial!Sent, Pasts
<1> QED BY <1>1, <1>4, <1>5 DEF Pasts

LEMMA DeleteHolds == ASSUME TrialInv, Trial!Delete PROVE TrialInv'
<1>0. control.step = "delete" /\ broker # "closed" /\ UNCHANGED << holder, saved, marks, broker, records >>
  BY DEF Trial!Delete, Trial!At, Trial!files
<1>1. control \in Trial!Controls /\ control.of \in Trial!Objects /\ past \in Pasts /\ requests \subseteq Trial!Requests
      /\ named \in [Trial!Objects -> Trial!Things] /\ control.read \in 0..MaxWrites /\ broker \in {"main", "cleanup"}
  BY <1>0 DEF TrialInv, Trial!TypeOK, Trial!Controls, Pasts
<1>2. /\ control.of \in control.owned /\ control.of \in saved["delete"] /\ control.of \notin past.deleted
      /\ control.of \in saved["owned"] /\ ~Asked(control.of) /\ control.status = "none"
      /\ broker = "main" => records["main"].status = "none"
      /\ DeleteMeant(control.of, control.read)
      /\ \A k \in control.owned \ control.left : ~Trial!MayExist(k)
      /\ control.of = "Policy" /\ "Job" \in control.owned => ~Trial!MayExist("Job") /\ holder \notin Trial!Present
  BY <1>0 DEF TrialInv, CleanupHolds, EvidenceHolds, BrokerHolds
<1>3. \E step \in {"confirm", "record"}, status \in {"none", "unknown_handoff"}, b \in BOOLEAN :
        /\ step = "record" <=> status = "unknown_handoff"
        /\ control' = [control EXCEPT !.step = step, !.status = status]
        /\ past' = [Trial!Sent EXCEPT !.written = b]
        /\ b = past.written \/ (control.of = "Policy" /\ control.scope # 0 /\ named' = [named EXCEPT ![control.of].going = TRUE])
        /\ named' = named \/ (Trial!Mine(control.of) /\ named' = [named EXCEPT ![control.of].going = TRUE])
        /\ requests' = requests \/ requests' = requests \cup {[ verb |-> "delete", of |-> control.of, rv |-> control.read ]}
  <2>1. CASE /\ Trial!Precondition(control.of, control.read) /\ named' = [named EXCEPT ![control.of].going = TRUE]
             /\ past' = [Trial!Sent EXCEPT !.written = @ \/ (control.of = "Policy" /\ control.scope # 0)]
             /\ Trial!To("confirm") /\ UNCHANGED requests
    <3>1. PICK b \in BOOLEAN : b <=> (past.written \/ (control.of = "Policy" /\ control.scope # 0))
      OBVIOUS
    <3>2. Trial!Sent.written = past.written
      BY <1>1 DEF Trial!Sent, Pasts
    <3>3. past' = [Trial!Sent EXCEPT !.written = b]
      BY <2>1, <3>1, <3>2 DEF Trial!Sent, Pasts
    <3>4. b = past.written \/ (control.of = "Policy" /\ control.scope # 0)
      BY <1>1, <3>1 DEF Pasts
    <3>5. control' = [control EXCEPT !.step = "confirm", !.status = "none"]
      BY <1>1, <1>2, <2>1 DEF Trial!To, Trial!Controls
    <3> QED BY <2>1, <3>3, <3>4, <3>5 DEF Trial!Precondition
  <2>2. CASE Trial!HandsOff /\ past' = Trial!Sent /\ UNCHANGED named
             /\ (UNCHANGED requests \/ Trial!Unanswered("delete", control.read))
    <3>1. past.written \in BOOLEAN /\ past' = [Trial!Sent EXCEPT !.written = past.written]
      BY <1>1, <2>2 DEF Trial!Sent, Pasts
    <3> QED BY <2>2, <3>1 DEF Trial!HandsOff, Trial!Unanswered
  <2> QED BY <2>1, <2>2 DEF Trial!Delete
<1>4. PICK step \in {"confirm", "record"}, status \in {"none", "unknown_handoff"}, b \in BOOLEAN :
        /\ step = "record" <=> status = "unknown_handoff"
        /\ control' = [control EXCEPT !.step = step, !.status = status]
        /\ past' = [Trial!Sent EXCEPT !.written = b]
        /\ b = past.written \/ (control.of = "Policy" /\ control.scope # 0 /\ named' = [named EXCEPT ![control.of].going = TRUE])
        /\ named' = named \/ (Trial!Mine(control.of) /\ named' = [named EXCEPT ![control.of].going = TRUE])
        /\ requests' = requests \/ requests' = requests \cup {[ verb |-> "delete", of |-> control.of, rv |-> control.read ]}
  BY <1>3
<1>5. /\ control' \in Trial!Controls /\ control'.step = step /\ control'.owned = control.owned /\ control'.of = control.of
      /\ control'.uncertain = control.uncertain /\ control'.scope = control.scope /\ control'.status = status
      /\ control'.left = control.left
  BY <1>1, <1>4 DEF Trial!Controls, Trial!Cleaning, Trial!Statuses
<1>6. /\ past' \in Pasts /\ past'.deleted = past.deleted \cup {control.of} /\ past'.again = past.again
      /\ past'.ran = past.ran /\ past'.written = b
  BY <1>1, <1>2, <1>4, SentSound
<1>7. [named[control.of] EXCEPT !.going = TRUE] \in Trial!Things
  BY <1>1 DEF Trial!Things
<1>8. /\ named' \in [Trial!Objects -> Trial!Things]
      /\ \A k \in Trial!Objects : named'[k].mine = named[k].mine /\ named'[k].rv = named[k].rv /\ named'[k].same = named[k].same
  <2>1. CASE named' = named
    BY <1>1, <2>1
  <2>2. CASE named' = [named EXCEPT ![control.of] = [named[control.of] EXCEPT !.going = TRUE]]
    <3>1. \A k \in Trial!Objects : named[k] \in Trial!Things
      BY <1>1
    <3>2. /\ [named[control.of] EXCEPT !.going = TRUE].mine = named[control.of].mine
          /\ [named[control.of] EXCEPT !.going = TRUE].rv = named[control.of].rv
          /\ [named[control.of] EXCEPT !.going = TRUE].same = named[control.of].same
      BY <1>1, <3>1 DEF Trial!Things
    <3>3. named' \in [Trial!Objects -> Trial!Things]
      BY <1>1, <1>7, <2>2
    <3>4. \A k \in Trial!Objects : named'[k] = IF k = control.of THEN [named[control.of] EXCEPT !.going = TRUE] ELSE named[k]
      BY <1>1, <2>2
    <3> QED BY <3>2, <3>3, <3>4
  <2> QED BY <1>4, <2>1, <2>2
<1>9. \A k \in Trial!Objects : Trial!Mine(k)' = Trial!Mine(k) /\ Trial!MayExist(k)' = Trial!MayExist(k) /\ Asked(k)' = Asked(k)
  <2>1. \A k \in Trial!Objects : Trial!Mine(k)' = Trial!Mine(k)
    BY <1>8 DEF Trial!Mine
  <2>2. \A k \in Trial!Objects : Asked(k)' = Asked(k)
    BY <1>4 DEF Asked
  <2> QED BY <2>1, <2>2 DEF Trial!MayExist, Asked
<1>10. \A k \in Trial!Objects : \A rv : DeleteMeant(k, rv)' = DeleteMeant(k, rv)
  BY <1>8 DEF DeleteMeant, Trial!Mine
<1>11. [ verb |-> "delete", of |-> control.of, rv |-> control.read ] \in Trial!Requests
  BY <1>1 DEF Trial!Requests
<1>12. Trial!TypeOK'
  BY <1>0, <1>1, <1>4, <1>5, <1>6, <1>8, <1>11 DEF TrialInv, Trial!TypeOK, Pasts
<1>13. EvidenceHolds'
  <2>1. \A k \in saved["owned"] : k \in Trial!Objects
    BY DEF TrialInv, Trial!TypeOK
  <2>2. \A k \in saved'["owned"] : ~Asked(k)' /\ Precedes(k)' \subseteq saved'["owned"]
    BY <1>0, <1>9, <2>1 DEF TrialInv, EvidenceHolds, Precedes
  <2>3. \A k \in Trial!Objects : Trial!Mine(k)' => named'[k].rv # 0
    BY <1>8, <1>9 DEF TrialInv, EvidenceHolds
  <2>4. past'.deleted \subseteq saved'["delete"] /\ ~past'.again
    BY <1>0, <1>2, <1>6 DEF TrialInv, EvidenceHolds
  <2> QED BY <1>0, <1>9, <2>2, <2>3, <2>4 DEF TrialInv, EvidenceHolds, Precedes
<1>14. BeliefHolds'
  BY <1>0, <1>5 DEF TrialInv, BeliefHolds
<1>15. BrokerHolds'
  <2>1. Trial!RecordsNameTheRest'
    BY <1>0, <1>9 DEF TrialInv, BrokerHolds, Trial!RecordsNameTheRest
  <2> QED BY <1>0, <1>1, <1>2, <1>4, <1>5, <2>1 DEF TrialInv, BrokerHolds, Trial!Cleaning
<1>16. CleanupHolds'
  <2>1. ASSUME NEW r \in requests', r.verb = "delete" PROVE r.of \in saved'["delete"] /\ DeleteMeant(r.of, r.rv)'
    <3>1. CASE r \in requests
      <4>1. r.of \in Trial!Objects /\ r.of \in saved["delete"] /\ DeleteMeant(r.of, r.rv)
        BY <1>1, <2>1, <3>1 DEF TrialInv, CleanupHolds, Trial!Requests
      <4> QED BY <1>0, <1>10, <4>1
    <3>2. CASE r = [ verb |-> "delete", of |-> control.of, rv |-> control.read ]
      <4>1. r.of = control.of /\ r.rv = control.read
        BY <3>2
      <4>2. DeleteMeant(r.of, r.rv)
        BY <1>2, <4>1
      <4> QED BY <1>0, <1>1, <1>2, <1>10, <4>1, <4>2
    <3> QED BY <1>4, <2>1, <3>1, <3>2
  <2>2. \A k \in control'.owned \ control'.left : ~Trial!MayExist(k)'
    BY <1>1, <1>2, <1>5, <1>9 DEF Trial!Controls
  <2>3. control'.of = "Policy" /\ "Job" \in control'.owned => ~Trial!MayExist("Job")' /\ holder' \notin Trial!Present
    BY <1>0, <1>2, <1>5, <1>9 DEF Trial!Objects
  <2> QED BY <1>2, <1>4, <1>5, <2>1, <2>2, <2>3 DEF CleanupHolds, Trial!Cleaning
<1>17. ScopeHolds'
  <2>1. "Policy" \in Trial!Objects
    BY DEF Trial!Objects
  <2>2. CASE control.scope = 0
    BY <1>0, <1>4, <1>5, <1>6, <2>2 DEF TrialInv, ScopeHolds
  <2>3. CASE control.scope # 0
    <3>1. Trial!Mine("Policy")' /\ named'["Policy"].rv = control.scope /\ ~named'["Policy"].going => ~past'.written
      <4> SUFFICES ASSUME Trial!Mine("Policy")', named'["Policy"].rv = control.scope, ~named'["Policy"].going PROVE ~past'.written
        OBVIOUS
      <4>1. ~(control.of = "Policy" /\ named' = [named EXCEPT ![control.of].going = TRUE])
        <5> SUFFICES ASSUME control.of = "Policy", named' = [named EXCEPT !["Policy"] = [named["Policy"] EXCEPT !.going = TRUE]]
                     PROVE  FALSE
          OBVIOUS
        <5>1. named'["Policy"] = [named["Policy"] EXCEPT !.going = TRUE]
          BY <1>1, <2>1
        <5>2. named["Policy"] \in Trial!Things
          BY <1>1, <2>1
        <5>3. named'["Policy"].going
          BY <5>1, <5>2 DEF Trial!Things
        <5> QED BY <5>3
      <4>2. b = past.written
        BY <1>4, <4>1
      <4>3. named'["Policy"] = named["Policy"]
        BY <1>1, <1>4, <2>1, <4>1
      <4> QED BY <1>6, <2>3, <4>2, <4>3 DEF TrialInv, ScopeHolds, Trial!Mine
    <3> QED BY <1>0, <1>4, <1>5, <1>8, <1>9, <2>1, <2>3, <3>1 DEF TrialInv, ScopeHolds
  <2> QED BY <2>2, <2>3
<1>18. NoneOverlooked'
  BY <1>0, <1>5, <1>9, RememberedStays
<1> QED BY <1>12, <1>13, <1>14, <1>15, <1>16, <1>17, <1>18 DEF TrialInv

LEMMA TrialRests == ASSUME TrialInv, UNCHANGED trialVars PROVE TrialInv'
<1>1. Trial!TypeOK' /\ EvidenceHolds'
  BY DEF TrialInv, Trial!TypeOK, EvidenceHolds, trialVars, Trial!trialVars, Trial!Mine, Trial!MayExist, Asked, Precedes
<1>2. BeliefHolds' /\ BrokerHolds'
  BY DEF TrialInv, BeliefHolds, BrokerHolds, Trial!RecordsNameTheRest, trialVars, Trial!trialVars, Trial!Mine, Trial!MayExist, Asked, Precedes
<1>3. CleanupHolds' /\ ScopeHolds'
  BY DEF TrialInv, CleanupHolds, ScopeHolds, trialVars, Trial!trialVars, DeleteMeant, Trial!Mine, Trial!MayExist
<1>4. NoneOverlooked'
  BY DEF TrialInv, NoneOverlooked, trialVars, Trial!trialVars, Trial!Mine, Trial!MayExist
<1> QED BY <1>1, <1>2, <1>3, <1>4 DEF TrialInv

LEMMA TrialHolds == TrialInv /\ [Trial!Next]_trialVars => TrialInv'
<1>1. ASSUME TrialInv, Trial!TrialStep PROVE TrialInv'
  BY <1>1, TrialReadsHold, IntentHolds, CreateHolds, AcknowledgementHolds, DispatchHolds, FailuresHold DEF Trial!TrialStep
<1>2. ASSUME TrialInv, Trial!CleanupStep PROVE TrialInv'
  BY <1>2, CleanupReadsHold, AttemptHolds, DeleteHolds, RecordHolds, FailuresHold DEF Trial!CleanupStep
<1>3. Trial!Rests => UNCHANGED trialVars
  BY DEF Trial!Rests, trialVars, Trial!trialVars
<1> QED BY <1>1, <1>2, <1>3, TrialWorldHolds, FailuresHold, TrialRests DEF Trial!Next

LEMMA TrialStarts == Trial!Init => TrialInv
<1> SUFFICES ASSUME Trial!Init PROVE TrialInv
  OBVIOUS
<1>1. control = Trial!Starts("begin") /\ control \in Trial!Controls
  BY WritesRange DEF Trial!Init, Trial!Starts, Trial!Controls, Trial!Business, Trial!Objects, Trial!Statuses
<1>2. /\ control.step = "begin" /\ control.of = "Job" /\ control.owned = {} /\ control.uncertain = {} /\ control.scope = 0
      /\ control.status = "none"
  BY <1>1 DEF Trial!Starts
<1>3. Trial!NoRecord \in Trial!Records /\ Trial!NoRecord.status = "none" /\ Trial!Absent \in Trial!Things /\ ~Trial!Absent.mine
  BY WritesRange DEF Trial!NoRecord, Trial!Records, Trial!Statuses, Trial!Absent, Trial!Things
<1>4. Trial!TypeOK
  BY <1>1, <1>3 DEF Trial!Init, Trial!TypeOK
<1>5. \A k \in Trial!Objects : ~Trial!Mine(k) /\ ~Trial!MayExist(k) /\ ~Asked(k)
  BY <1>3 DEF Trial!Init, Trial!Mine, Trial!MayExist, Asked
<1>6. EvidenceHolds
  BY <1>5 DEF Trial!Init, EvidenceHolds
<1>7. BeliefHolds
  BY <1>2 DEF Trial!Init, BeliefHolds, Precedes
<1>8. BrokerHolds
  BY <1>2, <1>3, <1>5 DEF Trial!Init, BrokerHolds, Trial!RecordsNameTheRest
<1>9. CleanupHolds
  BY <1>2 DEF Trial!Init, CleanupHolds, Trial!Cleaning
<1>10. ScopeHolds /\ NoneOverlooked
  BY <1>2, <1>5 DEF Trial!Init, ScopeHolds, NoneOverlooked
<1> QED BY <1>4, <1>6, <1>7, <1>8, <1>9, <1>10 DEF TrialInv

(* A DELETE takes effect on an object as it was made, is sent once, and for*)
(* the policy behind the Job.                                              *)
LEMMA DeletesStep ==
  ASSUME TrialInv, TrialInv', Trial!Next
  PROVE  /\ \A k \in Trial!Objects : ~named[k].going /\ named'[k].going => Trial!Mine(k) /\ named[k].same
         /\ ~past'.again
         /\ "Policy" \in past'.deleted \ past.deleted => ~Trial!Mine("Job") /\ holder \notin Trial!Present
<1>0. named \in [Trial!Objects -> Trial!Things] /\ past \in Pasts /\ control \in Trial!Controls /\ requests \subseteq Trial!Requests
      /\ control.of \in Trial!Objects
  BY DEF TrialInv, Trial!TypeOK, Pasts, Trial!Controls
<1>1. ~past'.again
  BY DEF TrialInv, EvidenceHolds
<1>a. ASSUME NEW k \in Trial!Objects, NEW other \in Trial!Objects, NEW thing \in Trial!Things, Trial!Puts(other, thing),
             ~thing.going \/ thing.going = named[other].going, ~named[k].going, named'[k].going
      PROVE  FALSE
  BY <1>0, <1>a, PutsSound
<1>b. ASSUME NEW k \in Trial!Objects, Trial!Mine(k), DeleteMeant(k, named[k].rv)
      PROVE  named[k].same
  BY <1>b DEF DeleteMeant
<1>2. ASSUME NEW k \in Trial!Objects, ~named[k].going, named'[k].going
      PROVE  Trial!Mine(k) /\ named[k].same
  <2>1. CASE named' = named
    BY <1>2, <2>1
  <2>2. CASE Trial!Lands
    <3>1. PICK r \in requests :
            \/ r.verb = "create" /\ Trial!Created(r.of)
            \/ r.verb = "delete" /\ Trial!Deleted(r.of, r.rv)
            \/ r.verb = "exec" /\ UNCHANGED named
      BY <2>2 DEF Trial!Lands
    <3>2. r.of \in Trial!Objects
      BY <1>0 DEF Trial!Requests
    <3>3. CASE r.verb = "create" /\ Trial!Created(r.of)
      <4>1. [ mine |-> TRUE, same |-> TRUE, rv |-> 1, going |-> FALSE ] \in Trial!Things
        BY WritesRange DEF Trial!Things
      <4> QED BY <1>a, <1>2, <3>2, <3>3, <4>1 DEF Trial!Created
    <3>4. CASE r.verb = "delete" /\ Trial!Deleted(r.of, r.rv)
      <4>1. r.of = k
        BY <1>0, <1>2, <3>2, <3>4 DEF Trial!Deleted, Trial!Puts
      <4>2. Trial!Mine(k) /\ DeleteMeant(k, named[k].rv)
        BY <3>4, <4>1 DEF TrialInv, CleanupHolds, Trial!Deleted, Trial!Precondition
      <4> QED BY <1>b, <4>2
    <3> QED BY <2>1, <3>1, <3>3, <3>4
  <2>3. CASE Trial!Delete
    <3>1. control.of = k /\ Trial!Precondition(control.of, control.read)
      BY <1>0, <1>2, <2>1, <2>3 DEF Trial!Delete
    <3>2. DeleteMeant(k, named[k].rv) /\ Trial!Mine(k)
      BY <2>3, <3>1 DEF TrialInv, CleanupHolds, Trial!Precondition, Trial!Delete, Trial!At
    <3> QED BY <1>b, <3>2
  <2>4. CASE Trial!Create
    <3>1. [ mine |-> TRUE, same |-> TRUE, rv |-> 1, going |-> FALSE ] \in Trial!Things
      BY WritesRange DEF Trial!Things
    <3> QED BY <1>0, <1>a, <1>2, <2>1, <2>4, <3>1 DEF Trial!Create, Trial!Created
  <2>5. ASSUME NEW other \in Trial!Objects, Trial!Goes(other) \/ Trial!OthersDelete(other) \/ Trial!OthersCreate(other)
        PROVE  FALSE
    <3>1. Trial!Absent \in Trial!Things /\ [ mine |-> FALSE, same |-> FALSE, rv |-> 1, going |-> FALSE ] \in Trial!Things
      BY WritesRange DEF Trial!Things, Trial!Absent
    <3>2. \E thing \in Trial!Things : ~thing.going /\ Trial!Puts(other, thing)
      BY <2>5, <3>1 DEF Trial!Goes, Trial!OthersDelete, Trial!OthersCreate, Trial!Absent
    <3> QED BY <1>a, <1>2, <3>2
  <2>6. ASSUME NEW other \in Trial!Objects, Trial!Changes(other) PROVE FALSE
    <3>1. PICK same \in BOOLEAN : named' = [named EXCEPT ![other] = [named[other] EXCEPT !.rv = @ + 1, !.same = @ /\ same]]
      BY <2>6 DEF Trial!Changes, Trial!Puts
    <3>2. named[other] \in Trial!Things
      BY <1>0
    <3>3. [named[other] EXCEPT !.rv = @ + 1, !.same = @ /\ same].going = named[other].going
      BY <3>2 DEF Trial!Things
    <3> QED BY <1>0, <1>2, <3>1, <3>3
  <2>7. Trial!ClusterStep => Trial!Mine(k) /\ named[k].same
    BY <2>1, <2>2, <2>5, <2>6 DEF Trial!ClusterStep, Trial!PodStarts, Trial!PodEnds, Trial!PodGoes
  <2>8. Trial!TrialStep => Trial!Mine(k) /\ named[k].same
    BY <2>1, <2>4 DEF Trial!TrialStep, Trial!Refresh, Trial!Arm, Trial!SaveArm, Trial!SaveUncertain, Trial!SaveOwned, Trial!Original, Trial!Collect, Trial!Binding,
                      Trial!Realize, Trial!Dispatch, Trial!Check, Trial!Fails, Trial!world
  <2>9. Trial!CleanupStep => Trial!Mine(k) /\ named[k].same
    BY <2>1, <2>3 DEF Trial!CleanupStep, Trial!StartCleanup, Trial!Skip, Trial!Look, Trial!Attempt, Trial!Confirm, Trial!Final, Trial!Stops, Trial!Record, Trial!Done, Trial!Ends, Trial!world
  <2>10. Trial!Breaks \/ Trial!Closes \/ Trial!Load \/ Trial!Rests => named' = named
    BY DEF Trial!Breaks, Trial!Closes, Trial!Load, Trial!Rests, Trial!Ends, Trial!world, trialVars, Trial!trialVars
  <2> QED BY <2>1, <2>7, <2>8, <2>9, <2>10 DEF Trial!Next
<1>3. ASSUME "Policy" \in past'.deleted \ past.deleted PROVE ~Trial!Mine("Job") /\ holder \notin Trial!Present
  <2>1. CASE past'.deleted = past.deleted
    BY <1>3, <2>1
  <2>w. ASSUME NEW k, NEW thing, Trial!Puts(k, thing) PROVE FALSE
    BY <1>0, <1>3, <2>w DEF Trial!Puts, Pasts
  <2>2. Trial!ClusterStep => FALSE
    <3>1. ASSUME Trial!Lands PROVE FALSE
      BY <1>0, <1>3, <2>w, <3>1 DEF Trial!Lands, Trial!Created, Trial!Deleted, Trial!Ran, Pasts
    <3>2. ASSUME Trial!PodStarts \/ Trial!PodEnds \/ Trial!PodGoes PROVE FALSE
      BY <1>3, <3>2 DEF Trial!PodStarts, Trial!PodEnds, Trial!PodGoes
    <3>3. ASSUME NEW k \in Trial!Objects, Trial!Goes(k) \/ Trial!Changes(k) \/ Trial!OthersDelete(k) \/ Trial!OthersCreate(k) PROVE FALSE
      BY <2>w, <3>3 DEF Trial!Goes, Trial!Changes, Trial!OthersDelete, Trial!OthersCreate
    <3> QED BY <3>1, <3>2, <3>3 DEF Trial!ClusterStep
  <2>3. Trial!TrialStep => FALSE
    <3>1. ASSUME Trial!Create PROVE FALSE
      BY <1>3, <2>w, <3>1 DEF Trial!Create, Trial!Created
    <3>2. ASSUME Trial!Dispatch PROVE FALSE
      BY <1>0, <1>3, <3>2 DEF Trial!Dispatch, Trial!Ran, Pasts
    <3> QED BY <1>3, <3>1, <3>2 DEF Trial!TrialStep, Trial!Refresh, Trial!Arm, Trial!SaveArm, Trial!SaveUncertain, Trial!SaveOwned, Trial!Original, Trial!Collect, Trial!Binding,
                      Trial!Realize, Trial!Check, Trial!Fails, Trial!world
  <2>4. Trial!Delete => ~Trial!Mine("Job") /\ holder \notin Trial!Present
    <3> SUFFICES ASSUME Trial!Delete PROVE ~Trial!Mine("Job") /\ holder \notin Trial!Present
      OBVIOUS
    <3>1. control.step = "delete" /\ \E b : past' = [Trial!Sent EXCEPT !.written = b]
      <4>1. Trial!Sent = [Trial!Sent EXCEPT !.written = Trial!Sent.written]
        BY <1>0 DEF Trial!Sent, Pasts
      <4> QED BY <4>1 DEF Trial!Delete, Trial!At
    <3>2. past'.deleted = past.deleted \cup {control.of}
      BY <1>0, <3>1 DEF Trial!Sent, Pasts
    <3>3. control.of = "Policy" /\ "Policy" \in control.owned
      BY <1>3, <3>1, <3>2 DEF TrialInv, CleanupHolds
    <3>4. "Job" \in control.owned
      BY <3>3 DEF TrialInv, BeliefHolds
    <3> QED BY <3>1, <3>3, <3>4 DEF TrialInv, CleanupHolds, Trial!MayExist
  <2>5. Trial!CleanupStep => ~Trial!Mine("Job") /\ holder \notin Trial!Present
    BY <1>3, <2>4 DEF Trial!CleanupStep, Trial!StartCleanup, Trial!Skip, Trial!Look, Trial!Attempt, Trial!Confirm, Trial!Final, Trial!Stops, Trial!Record, Trial!Done, Trial!Ends, Trial!world
  <2>6. Trial!Breaks \/ Trial!Closes \/ Trial!Load \/ Trial!Rests => past' = past
    BY DEF Trial!Breaks, Trial!Closes, Trial!Load, Trial!Rests, Trial!Ends, Trial!world, trialVars, Trial!trialVars
  <2> QED BY <1>3, <2>2, <2>3, <2>5, <2>6 DEF Trial!Next
<1> QED BY <1>1, <1>2, <1>3

(* A trial completes under the policy as it was in scope.                  *)
LEMMA CompletesStep ==
  ASSUME TrialInv, Trial!Next, ~control.completed, control'.completed
  PROVE  past.ran /\ ~past.written
<1>0. control \in Trial!Controls
  BY DEF TrialInv, Trial!TypeOK
<1>t. ASSUME NEW step, Trial!To(step) PROVE FALSE
  BY <1>0, <1>t DEF Trial!To, Trial!Controls
<1>1. CASE Trial!Check
  <2>1. control.step = "check" /\ Trial!Mine("Policy") /\ ~named["Policy"].going /\ named["Policy"].rv = control.scope
    BY <1>1 DEF Trial!Check, Trial!At, Trial!UnchangedScope, Trial!InScope
  <2>2. control.scope # 0 /\ past.ran
    BY <2>1 DEF TrialInv, EvidenceHolds, BeliefHolds, Trial!Objects
  <2> QED BY <2>1, <2>2 DEF TrialInv, ScopeHolds
<1>2. ~Trial!ClusterStep
  BY DEF Trial!ClusterStep, Trial!Lands, Trial!PodStarts, Trial!PodEnds, Trial!PodGoes, Trial!Goes, Trial!Changes, Trial!OthersDelete, Trial!OthersCreate, Trial!ours
<1>3. ~(Trial!Refresh \/ Trial!Arm \/ Trial!SaveArm \/ Trial!SaveUncertain \/ Trial!SaveOwned \/ Trial!Original \/ Trial!Collect \/ Trial!Binding \/ Trial!Realize \/ Trial!Dispatch \/ Trial!Fails)
  <2>1. ~(Trial!Refresh \/ Trial!Arm \/ Trial!SaveArm \/ Trial!SaveOwned \/ Trial!Original \/ Trial!Collect \/ Trial!Dispatch)
    BY <1>t DEF Trial!Refresh, Trial!Arm, Trial!SaveArm, Trial!SaveOwned, Trial!Original, Trial!Collect, Trial!Dispatch
  <2>2. ~(Trial!SaveUncertain \/ Trial!Binding \/ Trial!Realize \/ Trial!Fails)
    BY <1>0, <1>t DEF Trial!SaveUncertain, Trial!Intends, Trial!Binding, Trial!Realize, Trial!Fails, Trial!Controls
  <2> QED BY <2>1, <2>2
<1>4. ~Trial!Create
  BY <1>0, <1>t DEF Trial!Create, Trial!Controls
<1>5. ~Trial!CleanupStep
  <2>1. ~(Trial!StartCleanup \/ Trial!Skip \/ Trial!Look \/ Trial!Confirm \/ Trial!Final \/ Trial!Stops \/ Trial!Delete)
    BY <1>0, <1>t DEF Trial!StartCleanup, Trial!Skip, Trial!Look, Trial!Confirm, Trial!Final, Trial!Stops, Trial!Delete, Trial!HandsOff, Trial!Controls
  <2>2. ~(Trial!Attempt \/ Trial!Record \/ Trial!Done)
    BY <1>t DEF Trial!Attempt, Trial!Record, Trial!Done, Trial!Ends
  <2> QED BY <2>1, <2>2 DEF Trial!CleanupStep
<1>6. ~(Trial!Breaks \/ Trial!Closes \/ Trial!Load \/ Trial!Rests)
  <2>1. ~(Trial!Closes \/ Trial!Rests)
    BY <1>t DEF Trial!Closes, Trial!Ends, Trial!Rests, trialVars, Trial!trialVars
  <2>2. ~Trial!Breaks
    BY DEF Trial!Breaks, Trial!Starts
  <2>3. ~Trial!Load
    BY <1>0 DEF Trial!Load, Trial!Controls
  <2> QED BY <2>1, <2>2, <2>3
<1> QED BY <1>1, <1>2, <1>3, <1>4, <1>5, <1>6 DEF Trial!Next, Trial!TrialStep

-----------------------------------------------------------------------------
(* The parts together: a step of the composition is one of one part, and   *)
(* leaves the others' variables alone.                                     *)

LEMMA PartsStart == AllInit => PartsInv
<1>1. Init => home \in BOOLEAN
  BY DEF Init
<1> QED BY <1>1, StopInit, RemovalInit, ShotInit, SpaceInit, TrialStarts DEF AllInit, PartsInv

(* Which step of which part it is.                                         *)
LEMMA PartSteps ==
  ASSUME [AllNext]_<< part, vars, decomVars, shotVars, spaceVars, trialVars >>
  PROVE  /\ part' = part
         /\ (part = "stop" /\ Next) \/ UNCHANGED vars
         /\ (part = "removal" /\ Removal!Next) \/ UNCHANGED decomVars
         /\ (part = "shot" /\ Shot!Next) \/ UNCHANGED shotVars
         /\ (part = "namespace" /\ Terminal!Next) \/ UNCHANGED spaceVars
         /\ (part = "trial" /\ Trial!Next) \/ UNCHANGED trialVars
  BY DEF AllNext

LEMMA PartsMove ==
  ASSUME PartsInv, [AllNext]_<< part, vars, decomVars, shotVars, spaceVars, trialVars >>
  PROVE  PartsInv'
<1>1. StopInv' /\ home' \in BOOLEAN
  BY StopStep, HomeStays, PartSteps DEF PartsInv
<1>2. RemovalInv'
  BY RemovalStep, PartSteps DEF PartsInv
<1>3. ShotInv'
  BY ShotStep, PartSteps DEF PartsInv
<1>4. SpaceInv'
  BY SpaceStep, PartSteps DEF PartsInv
<1>5. TrialInv'
  BY TrialHolds, PartSteps DEF PartsInv
<1> QED BY <1>1, <1>2, <1>3, <1>4, <1>5, PartSteps DEF PartsInv

LEMMA PartsHold == AllSpec => []PartsInv
<1>1. PartsInv /\ [AllNext]_<< part, vars, decomVars, shotVars, spaceVars, trialVars >> => PartsInv'
  BY PartsMove
<1> QED BY <1>1, PartsStart, PTL DEF AllSpec

(* Every part keeps to its types, whatever the bounds are                  *)
(* (MCRunnerStop.AllTypeOK).                                               *)
THEOREM PartsAreTyped == AllSpec => []AllTypeOK
<1>1. PartsInv => AllTypeOK
  BY StopFollows DEF PartsInv, RemovalInv, ShotInv, SpaceInv, TrialInv, AllTypeOK
<1> QED BY <1>1, PartsHold, PTL

(* Once the stop of a generation is decided on a receipt of its runner, no *)
(* turn runs in that runner (RunnerStop.FencedRunnerIsQuiet).              *)
THEOREM FencedRunnersAreQuiet == AllSpec => []FencedRunnerIsQuiet
<1>1. PartsInv => FencedRunnerIsQuiet
  BY StopFollows DEF PartsInv
<1> QED BY <1>1, PartsHold, PTL

(* Only the operator's reclaim, after the runner refused to answer, marks  *)
(* a conversation whose turn still runs as failed                          *)
(* (RunnerStop.LiveTurnNeverDeclaredLost).                                 *)
THEOREM LiveTurnsAreNotDeclaredLost == AllSpec => LiveTurnNeverDeclaredLost
<1>1. PartsInv /\ [AllNext]_<< part, vars, decomVars, shotVars, spaceVars, trialVars >> =>
        [conv = "running" /\ conv' = "failed" /\ runner.turn /\ mapping.current => op.pc = "refused"]_vars
  BY PartSteps, LostStep DEF PartsInv
<1> QED BY <1>1, PartsHold, PTL DEF AllSpec, LiveTurnNeverDeclaredLost

(* A generation that follows a stop directly was asked for during it, by a *)
(* session that still stands, of an account that may still have a runner   *)
(* (RunnerStop.RestartWasAskedFor).                                        *)
THEOREM RestartsWereAskedFor == AllSpec => RestartWasAskedFor
<1>1. PartsInv /\ [AllNext]_<< part, vars, decomVars, shotVars, spaceVars, trialVars >> =>
        [row.phase = "stopping" /\ row'.gen # row.gen =>
           /\ eligible
           /\ \E k \in Keys \ receipts :
                k \in receipts' /\ entries[k].gen = row.gen /\ entries[k].session \in sessions]_vars
  BY PartSteps, RestartStep DEF PartsInv
<1> QED BY <1>1, PartsHold, PTL DEF AllSpec, RestartWasAskedFor

(* Nothing is deleted but behind its proof: a Pod behind its stop's        *)
(* receipt; an owner's rows at rest and as reviewed, then the objects, then*)
(* the files, and nothing of another; a namespace that was listed empty;   *)
(* the trial's objects as they were made, and once.  And the exit codes and*)
(* the trial's records say what was done                                   *)
(* (MCRunnerStop.DeletionFollowsProof).                                    *)
THEOREM DeletionsFollowProof == AllSpec => DeletionFollowsProof
<1>1. PartsInv /\ [AllNext]_<< part, vars, decomVars, shotVars, spaceVars, trialVars >> =>
        [~pod.deleting /\ pod'.deleting =>
           /\ row.phase = "stopping" /\ stop.receipt # "none" /\ row.pod = pod.uid
           /\ runner.turn => stop.receipt = "operator"]_vars
  BY PartSteps, DeletionStep DEF PartsInv
<1>2. PartsInv /\ [AllNext]_<< part, vars, decomVars, shotVars, spaceVars, trialVars >> =>
        [rows.state = 1 /\ rows'.state = 0 =>
           rows = export /\ ~body /\ rows.phase = "rest" /\ rows.proved /\ ~rows.busy]_(Removal!decomVars)
  BY PartSteps, RowsGoStep DEF PartsInv, decomVars, Removal!decomVars
<1>3. PartsInv /\ [AllNext]_<< part, vars, decomVars, shotVars, spaceVars, trialVars >> =>
        [\A o \in Removal!Objects : objects[o] = 2 => objects'[o] = 2]_(Removal!decomVars)
  BY PartSteps, OthersStayStep DEF PartsInv, decomVars, Removal!decomVars
<1>4. PartsInv /\ [AllNext]_<< part, vars, decomVars, shotVars, spaceVars, trialVars >> =>
        [Removal!NothingDangles' /\ Removal!CodesAreMeant']_decomVars
  <2>1. RemovalInv' => Removal!NothingDangles' /\ Removal!CodesAreMeant'
    BY RemovalFollows, PTL
  <2> QED BY <2>1, PartsMove DEF PartsInv
<1>5. PartsInv /\ [AllNext]_<< part, vars, decomVars, shotVars, spaceVars, trialVars >> =>
        [~wrote /\ wrote' => space.uid = 1 /\ holds = {}]_(Terminal!spaceVars)
  BY PartSteps, FinalizedStep DEF PartsInv, spaceVars, Terminal!spaceVars
<1>6. PartsInv /\ [AllNext]_<< part, vars, decomVars, shotVars, spaceVars, trialVars >> =>
        [/\ pass'.code = 3 => ~wrote'
         /\ pass.code = Terminal!NoCode /\ pass'.code = 0 => wrote /\ space.uid = 0]_(Terminal!spaceVars)
  <2> SUFFICES ASSUME PartsInv, [AllNext]_<< part, vars, decomVars, shotVars, spaceVars, trialVars >>
               PROVE  [/\ pass'.code = 3 => ~wrote'
                       /\ pass.code = Terminal!NoCode /\ pass'.code = 0 => wrote /\ space.uid = 0]_(Terminal!spaceVars)
    OBVIOUS
  <2>1. SpaceInv /\ SpaceInv'
    BY PartsMove DEF PartsInv
  <2> QED BY <2>1, PartSteps, CodesStep DEF spaceVars, Terminal!spaceVars
<1>7. PartsInv /\ [AllNext]_<< part, vars, decomVars, shotVars, spaceVars, trialVars >> =>
        [/\ \A k \in Trial!Objects : ~named[k].going /\ named'[k].going => Trial!Mine(k) /\ named[k].same
         /\ ~past'.again
         /\ "Policy" \in past'.deleted \ past.deleted => ~Trial!Mine("Job") /\ holder \notin Trial!Present]_(Trial!trialVars)
  <2> SUFFICES ASSUME PartsInv, [AllNext]_<< part, vars, decomVars, shotVars, spaceVars, trialVars >>, Trial!Next
               PROVE  /\ \A k \in Trial!Objects : ~named[k].going /\ named'[k].going => Trial!Mine(k) /\ named[k].same
                      /\ ~past'.again
                      /\ "Policy" \in past'.deleted \ past.deleted => ~Trial!Mine("Job") /\ holder \notin Trial!Present
    BY PartSteps DEF trialVars, Trial!trialVars
  <2>1. TrialInv /\ TrialInv'
    BY PartsMove DEF PartsInv
  <2> QED BY <2>1, DeletesStep
<1>8. PartsInv /\ [AllNext]_<< part, vars, decomVars, shotVars, spaceVars, trialVars >> =>
        [~control.completed /\ control'.completed => past.ran /\ ~past.written]_(Trial!trialVars)
  BY PartSteps, CompletesStep DEF PartsInv, trialVars, Trial!trialVars
<1>9. PartsInv /\ [AllNext]_<< part, vars, decomVars, shotVars, spaceVars, trialVars >> =>
        [Trial!RecordsNameTheRest']_trialVars
  <2>1. TrialInv' => Trial!RecordsNameTheRest'
    BY DEF TrialInv, BrokerHolds
  <2> QED BY <2>1, PartsMove DEF PartsInv
<1> QED BY <1>1, <1>2, <1>3, <1>4, <1>5, <1>6, <1>7, <1>8, <1>9, PartsHold, PTL
    DEF AllSpec, DeletionFollowsProof, DeletionFollowsReceipt, Removal!RowsGoAtRest, Removal!OthersStay,
        Terminal!OnlyTheEmptyOne, Terminal!CodesAreMeant, Trial!DeletesOwnOnce, Trial!CompletedIsMeant

(* What is decided once is not decided again: a stop's receipt; the        *)
(* permission to create the rehearsal's Pod, which Pod that is, and which  *)
(* one a result names (MCRunnerStop.DecidedOnce).                          *)
THEOREM DecisionsStand == AllSpec => DecidedOnce
<1>1. PartsInv /\ [AllNext]_<< part, vars, decomVars, shotVars, spaceVars, trialVars >> =>
        [stop.receipt # "none" => stop'.receipt = stop.receipt \/ stop' = NoStop]_vars
  BY PartSteps, ReceiptStep DEF PartsInv
<1>2. PartsInv /\ [AllNext]_<< part, vars, decomVars, shotVars, spaceVars, trialVars >> => [Shot!OnePost']_shotVars
  <2>1. ShotInv' => Shot!OnePost'
    BY DEF ShotInv, PermitHolds, Shot!OnePost
  <2> QED BY <2>1, PartsMove DEF PartsInv
<1>3. PartsInv /\ [AllNext]_<< part, vars, decomVars, shotVars, spaceVars, trialVars >> =>
        [uidFile # 0 => uidFile' = uidFile]_uidFile
  BY PartSteps, UidKeptStep DEF PartsInv, shotVars
<1>4. PartsInv /\ [AllNext]_<< part, vars, decomVars, shotVars, spaceVars, trialVars >> =>
        [\A r \in Runs : ~Shot!At(r, "done") /\ run'[r].step = "done" =>
           uidFile = run[r].uid /\ only = run[r].uid /\ (restored \/ bound.uid = run[r].uid)]_(Shot!shotVars)
  BY PartSteps, ResultStep DEF PartsInv, Shot!At, shotVars, Shot!shotVars
<1> QED BY <1>1, <1>2, <1>3, <1>4, PartsHold, PTL
    DEF AllSpec, DecidedOnce, ReceiptIsFinal, Shot!UidKept, Shot!ResultNamesOnePod

=============================================================================
