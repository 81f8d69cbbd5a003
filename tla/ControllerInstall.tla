-------------------------- MODULE ControllerInstall --------------------------
(***************************************************************************)
(* Installing runner-controller beside a live hosting stack, and taking it *)
(* back (issue61/w2-apply.py), and the choice of an installation that may  *)
(* be worked on (w3-reclaim.py).                                           *)
(*                                                                         *)
(* Every attempt is durable in changes.json before its command runs.  The  *)
(* command may be applied or not, its answer may be lost, and the script   *)
(* may be killed between any two steps; its kubectl then ends by itself.   *)
(* Others create, delete and replace the same objects meanwhile: only the  *)
(* UIDs tell whose an object is.                                           *)
(***************************************************************************)
EXTENDS Naturals, FiniteSets

CONSTANTS Namespace, Controller, Api,   \* named objects: the new namespace, its Deployment, the api
          Rest,                         \* the other rendered objects
          MaxUid, MaxOthers             \* bounds: objects ever made, steps of other people

InstallAssumption ==
  /\ Namespace # Controller /\ Namespace # Api /\ Controller # Api
  /\ {Namespace, Controller, Api} \cap Rest = {} /\ IsFiniteSet(Rest)
  /\ MaxUid \in Nat /\ MaxUid > Cardinality(Rest) /\ MaxOthers \in Nat

VARIABLES
  kind,     \* what each of the other objects is: plain, the pool Secret, the network policy
  live,     \* the cluster: object -> uid (0 absent) and spec
  made,     \* uids given out
  running,  \* the uid of the Deployment whose controller Pod runs, or 0
  backup,   \* backup.json: object -> uid, 0 for absent; empty before it
  changes,  \* changes.json
  marks,    \* rollback-started.json and rolled-back.json
  script,   \* the running script: mode, phase, objects left
  wire,     \* its command: what, on which objects, with which uids, and how it ended
  meddled,  \* history: what others did
  own       \* history: uids this run's creates made

vars == << kind, live, made, running, backup, changes, marks, script, wire, meddled, own >>

Objects == {Namespace, Controller, Api} \cup Rest
Uids    == 0..MaxUid
Absent  == { o \in DOMAIN backup : backup[o] = 0 }
Kept    == DOMAIN backup \ Absent

Secrets  == { o \in Rest : kind[o] = "secret" }
Policies == { o \in Rest : kind[o] = "policy" }

(* What rollback looks up and puts back.  The data of a Secret is in no    *)
(* backup: it is applied only where the render equals what is there.       *)
Restored == Kept \ Secrets

Nothing   == [ uid |-> 0, spec |-> "none" ]
NoCommand == [ what |-> "none", objs |-> {}, uids |-> << >>, end |-> "none", made |-> 0 ]
NoScript  == [ mode |-> "none", phase |-> "none", left |-> {} ]
NoAttempt == [ open |-> FALSE, objs |-> {} ]

TypeOK ==
  /\ kind \in [Rest -> {"plain", "secret", "policy"}]
  /\ live \in [Objects -> [ uid : Uids, spec : {"none", "old", "new", "stopped", "other"} ]]
  /\ \A o \in Objects : live[o].uid = 0 <=> live[o].spec = "none"
  /\ made \in Uids /\ running \in Uids /\ own \subseteq Uids
  /\ DOMAIN backup \in {{}, Objects} /\ \A o \in DOMAIN backup : backup[o] \in Uids
  /\ changes \in [ pending : [ open : BOOLEAN, objs : SUBSET Objects ], uncertain : BOOLEAN,
                   created : [Objects -> Uids], unsure : SUBSET Objects ]
  /\ marks \subseteq {"started", "certified"} /\ ("certified" \in marks => "started" \in marks)
  /\ script.mode \in {"none", "apply", "rollback"} /\ script.left \subseteq Objects
  /\ wire.end \in {"none", "sent", "ok", "failed"} /\ wire.objs \subseteq Objects
  /\ meddled \in 0..MaxOthers

Init ==
  /\ kind \in [Rest -> {"plain", "secret", "policy"}]
  /\ \E old \in SUBSET Rest, f \in [Objects -> Uids] :
       /\ \A o \in Objects : f[o] # 0 <=> o \in old \cup {Api}
       /\ \A o, p \in Objects : o # p /\ f[o] # 0 => f[o] # f[p]
       /\ made = Cardinality(old) + 1 /\ \A o \in Objects : f[o] <= made
       /\ live = [o \in Objects |-> IF f[o] = 0 THEN Nothing ELSE [ uid |-> f[o], spec |-> "old" ]]
  /\ running = 0 /\ backup = << >> /\ marks = {} /\ script = NoScript /\ wire = NoCommand
  /\ changes = [ pending |-> NoAttempt, uncertain |-> FALSE, created |-> [o \in Objects |-> 0], unsure |-> {} ]
  /\ own = {} /\ meddled = 0

-----------------------------------------------------------------------------
(* The cluster and other people.                                           *)

(* What lies in the namespace goes with it.                                *)
Without(o) ==
  [p \in Objects |-> IF p = o \/ (o = Namespace /\ p = Controller) THEN Nothing ELSE live[p]]

OthersCreate(o) ==
  /\ meddled < MaxOthers /\ meddled' = meddled + 1
  /\ live[o].uid = 0 /\ made < MaxUid /\ (o = Controller => live[Namespace].uid # 0)
  /\ made' = made + 1 /\ live' = [live EXCEPT ![o] = [ uid |-> made + 1, spec |-> "other" ]]
  /\ UNCHANGED << running, backup, changes, marks, script, wire, own >>

OthersDelete(o) ==
  /\ meddled < MaxOthers /\ meddled' = meddled + 1
  /\ live[o].uid # 0 /\ live' = Without(o)
  /\ UNCHANGED << made, running, backup, changes, marks, script, wire, own >>

(* The Deployment's Pod starts, and ends when it is scaled to 0 or gone.   *)
PodFollows ==
  /\ running' = IF live[Controller].spec \in {"new", "other"} THEN live[Controller].uid ELSE 0
  /\ running' # running
  /\ UNCHANGED << live, made, backup, changes, marks, script, wire, meddled, own >>

Creates(o) ==
  /\ live[o].uid = 0 /\ made < MaxUid /\ (o = Controller => live[Namespace].uid # 0)
  /\ made' = made + 1 /\ live' = [live EXCEPT ![o] = [ uid |-> made + 1, spec |-> "new" ]]
  /\ own' = own \cup {made + 1}
  /\ wire' = [wire EXCEPT !.end = "ok", !.made = made + 1]

(* Mutant: an apply takes whatever object has the name.                    *)
WritesAny == { o \in wire.objs : live[o].uid # 0 }

(* The API refuses a write to an object with another uid.                  *)
Writes == { o \in wire.objs : live[o].uid # 0 /\ live[o].uid = wire.uids[o] }

(* An apply of several objects may stop at any of them.                    *)
Written(spec) ==
  /\ \E done \in SUBSET Writes :
       /\ live' = [o \in Objects |-> IF o \in done THEN [live[o] EXCEPT !.spec = spec] ELSE live[o]]
       /\ wire' = [wire EXCEPT !.end = IF done = wire.objs THEN "ok" ELSE "failed"]
  /\ UNCHANGED << made, own >>

(* Mutant: the delete carries no precondition.                             *)
DeletableAny(o) == live[o].uid # 0

Deletable(o) == live[o].uid # 0 /\ live[o].uid = wire.uids[o]

Deleted(o) ==
  /\ Deletable(o) /\ live' = Without(o)
  /\ wire' = [wire EXCEPT !.end = "ok"]
  /\ UNCHANGED << made, own >>

(* The API executes the command, refuses it, or never gets it.             *)
Execute ==
  /\ wire.end = "sent"
  /\ \/ wire.what = "create"  /\ \E o \in wire.objs : Creates(o)
     \/ wire.what = "apply"   /\ Written("new")
     \/ wire.what = "replace" /\ Written("old")
     \/ wire.what = "scale"   /\ Written("stopped")
     \/ wire.what = "delete"  /\ \E o \in wire.objs : Deleted(o)
     \/ wire' = [wire EXCEPT !.end = "failed"] /\ UNCHANGED << live, made, own >>
  /\ UNCHANGED << running, backup, changes, marks, script, meddled >>

-----------------------------------------------------------------------------
(* What apply and rollback share.                                          *)

Send(what, objs, uids) ==
  wire' = [NoCommand EXCEPT !.what = what, !.objs = objs, !.uids = uids, !.end = "sent"]

(* The script dies; a command it sent is still executed, or not.           *)
Kill ==
  /\ script.mode # "none" /\ script' = NoScript
  /\ UNCHANGED << live, made, running, backup, changes, marks, wire, meddled, own >>

(* The phases of apply, each with the objects that are changed in it.      *)
First(p) ==
  CASE p = "namespace"  -> {Namespace}
    [] p = "create"     -> (Rest \ Policies) \cap Absent
    [] p = "update"     -> (Rest \ Policies) \cap Kept
    [] p = "policy"     -> Policies
    [] p = "api"        -> {Api}
    [] p = "controller" -> {Controller}
    [] OTHER            -> {}

(* The phase after p; there may be nothing to do in some of them.          *)
After(p) ==
  IF p = "namespace" /\ First("create") # {} THEN "create"
  ELSE IF p \in {"namespace", "create"} /\ First("update") # {} THEN "update"
  ELSE IF p \in {"namespace", "create", "update"} /\ First("policy") # {} THEN "policy"
  ELSE IF p \in {"namespace", "create", "update", "policy"} THEN "api"
  ELSE IF p = "api" THEN "controller" ELSE "finished"

Goes(mode, p, objs) == script' = [ mode |-> mode, phase |-> p, left |-> objs ]

(* precheck, render and backup: nothing has changed before backup.json.    *)
(* Without the pool Secret, or with other data in it, there is none.       *)
Begin ==
  /\ script.mode = "none" /\ backup = << >>
  /\ live[Namespace].uid = 0 /\ live[Api].uid # 0 /\ \A o \in Secrets : live[o].uid # 0
  /\ backup' = [o \in Objects |-> live[o].uid]
  /\ Goes("apply", "namespace", {Namespace})
  /\ UNCHANGED << live, made, running, changes, marks, wire, meddled, own >>

-----------------------------------------------------------------------------
(* apply                                                                   *)

(* Mutant: the attempt is recorded with its answer only.                   *)
NoteNothing(objs) == UNCHANGED changes

(* Durable before the command: which objects it may create.                *)
Note(objs) == changes' = [changes EXCEPT !.pending = [ open |-> TRUE, objs |-> objs \cap Absent ]]

(* Objects that were absent are made one at a time, by create only; the    *)
(* others are updated together and carry their backup uid.  The network    *)
(* policy is never created: without it the step fails and sends nothing.   *)
Attempt ==
  /\ script.mode = "apply" /\ script.left # {} /\ ~changes.pending.open /\ wire.end = "none"
  /\ \/ /\ script.phase \in {"update", "policy", "api"} /\ Note(script.left)
        /\ IF script.left \subseteq Kept THEN Send("apply", script.left, backup)
           ELSE wire' = [NoCommand EXCEPT !.end = "failed"]
     \/ /\ script.phase \notin {"update", "policy", "api"}
        /\ \E o \in script.left : Note({o}) /\ Send("create", {o}, << >>)
  /\ UNCHANGED << live, made, running, backup, marks, script, meddled, own >>

(* The uid of a new object comes from the create's own answer.             *)
Answered ==
  /\ script.mode = "apply" /\ wire.end = "ok"
  /\ changes' = [changes EXCEPT
       !.pending = NoAttempt,
       !.created = [o \in Objects |-> IF o \in changes.pending.objs THEN wire.made ELSE @[o]]]
  /\ LET left == script.left \ wire.objs
     IN  IF left # {} THEN Goes("apply", script.phase, left)
         ELSE Goes("apply", After(script.phase), First(After(script.phase)))
  /\ wire' = NoCommand
  /\ UNCHANGED << live, made, running, backup, marks, meddled, own >>

(* Mutant: after a failed create the live object's uid is taken.           *)
DoubtAdopted ==
  changes' = [changes EXCEPT
    !.pending = NoAttempt, !.uncertain = TRUE,
    !.created = [o \in Objects |-> IF o \in changes.pending.objs THEN live[o].uid ELSE @[o]]]

Doubt ==
  changes' = [changes EXCEPT
    !.pending = NoAttempt, !.uncertain = TRUE, !.unsure = @ \cup changes.pending.objs]

(* The command fails or its answer is lost: the run ends in doubt.         *)
Unanswered ==
  /\ script.mode = "apply" /\ wire.end \in {"sent", "ok", "failed"}
  /\ Doubt /\ script' = NoScript
  /\ UNCHANGED << live, made, running, backup, marks, wire, meddled, own >>

(* The rollout waits and postchecks; they change nothing.                  *)
Finish ==
  /\ script.mode = "apply" /\ script.phase = "finished" /\ script' = NoScript
  /\ UNCHANGED << live, made, running, backup, changes, marks, wire, meddled, own >>

-----------------------------------------------------------------------------
(* rollback, started when no command of an earlier run is under way.       *)

Doubtful == changes.unsure \cup changes.pending.objs

(* Mutant: a Deployment that this run did not make is stopped with it.     *)
ControllerAny == TRUE

ControllerOurs == live[Controller].uid \in {0, changes.created[Controller]}

(* Every check before the first change.                                    *)
Mine == (\A o \in Restored : live[o].uid = backup[o]) /\ ControllerOurs

BeginRollback ==
  /\ script.mode = "none" /\ backup # << >> /\ wire.end # "sent" /\ Mine
  /\ marks' = marks \cup {"started"}
  /\ IF live[Controller].uid # 0
     THEN /\ Goes("rollback", "stop", {Controller})
          /\ Send("scale", {Controller}, [o \in {Controller} |-> live[o].uid])
     ELSE Goes("rollback", "restore", Restored) /\ wire' = NoCommand
  /\ UNCHANGED << live, made, running, backup, changes, meddled, own >>

(* The next command: a replace, or a delete of what this run made.         *)
Command ==
  /\ script.mode = "rollback" /\ wire.end = "none"
  /\ \E o \in script.left :
       \/ /\ script.phase = "restore" /\ Send("replace", {o}, backup)
       \/ /\ script.phase = "remove" /\ o \notin Doubtful
          /\ live[o].uid # 0 /\ live[o].uid = changes.created[o]
          /\ Send("delete", {o}, changes.created)
       \/ /\ script.phase = "empty" /\ live[Controller].uid = 0 /\ o \notin Doubtful
          /\ live[o].uid # 0 /\ live[o].uid = changes.created[o]
          /\ Send("delete", {o}, changes.created)
  /\ UNCHANGED << live, made, running, backup, changes, marks, script, meddled, own >>

(* What is gone, uncertain or somebody else's is left as it is.            *)
Passed(o) ==
  /\ script.mode = "rollback" /\ wire.end = "none" /\ o \in script.left
  /\ \/ script.phase = "remove" /\ (live[o].uid # changes.created[o] \/ o \in Doubtful \/ live[o].uid = 0)
     \/ script.phase = "empty" /\ live[o].uid = 0
  /\ IF script.phase = "empty" THEN Goes("rollback", "certify", {})
     ELSE script' = [script EXCEPT !.left = @ \ {o}]
  /\ UNCHANGED << live, made, running, backup, changes, marks, wire, meddled, own >>

(* A namespace whose deletion was requested is waited for in the end.      *)
Done ==
  /\ script.mode = "rollback" /\ wire.end = "ok" /\ wire' = NoCommand
  /\ IF script.phase = "empty" THEN Goes("rollback", "certify", {Namespace})
     ELSE script' = [script EXCEPT !.left = @ \ wire.objs]
  /\ UNCHANGED << live, made, running, backup, changes, marks, meddled, own >>

(* Mutant: the controller's Pod is not waited for.                         *)
StoppedAnyway == TRUE

(* The Pod is gone before anything it writes to is restored.               *)
Stopped == running = 0

Advance ==
  /\ script.mode = "rollback" /\ script.left = {} /\ wire.end = "none"
  /\ \/ script.phase = "stop" /\ Stopped /\ Goes("rollback", "restore", Restored)
     \/ script.phase = "restore" /\ Goes("rollback", "remove", Absent \ {Namespace})
     \/ script.phase = "remove" /\ Goes("rollback", "empty", {Namespace})
  /\ UNCHANGED << live, made, running, backup, changes, marks, wire, meddled, own >>

(* The api has its old image, and a deleted namespace is gone.             *)
Proved == live[Api].spec \in {"old", "other"} /\ \A o \in script.left : live[o].uid = 0

Certify ==
  /\ script.mode = "rollback" /\ script.phase = "certify" /\ Proved
  /\ marks' = marks \cup {"certified"} /\ script' = NoScript
  /\ UNCHANGED << live, made, running, backup, changes, wire, meddled, own >>

(* Any command, wait, look-up or check fails: rc 5 or 8.                   *)
RollbackFails ==
  /\ script.mode = "rollback" /\ script' = NoScript
  /\ UNCHANGED << live, made, running, backup, changes, marks, wire, meddled, own >>

(* Nobody has to start a script, or has to change the cluster.             *)
Rests == script.mode = "none" /\ wire.end # "sent" /\ UNCHANGED vars

-----------------------------------------------------------------------------
Next ==
  /\ \/ \E o \in Objects : OthersCreate(o) \/ OthersDelete(o) \/ Passed(o)
     \/ PodFollows \/ Execute \/ Kill
     \/ Begin \/ Attempt \/ Answered \/ Unanswered \/ Finish
     \/ BeginRollback \/ Command \/ Done \/ Advance \/ Certify \/ RollbackFails \/ Rests
  /\ UNCHANGED kind

Spec == Init /\ [][Next]_vars

-----------------------------------------------------------------------------
Clean == ~changes.pending.open /\ ~changes.uncertain /\ changes.unsure = {}

(* w3-reclaim's precheck: the installation that may be worked on.          *)
Chosen ==
  /\ backup # << >> /\ "started" \notin marks /\ Clean
  /\ changes.created[Controller] # 0
  /\ live[Controller].uid = changes.created[Controller] /\ running = live[Controller].uid

(* "A foreign object is never modified or adopted" (w2-apply.py:31), and   *)
(* rollback deletes "only objects this run created": whatever a command of *)
(* this run changed was there at the backup or was made by the run itself, *)
(* and only the latter is deleted.                                         *)
ForeignUntouched ==
  \A o \in wire.objs :
    wire.end = "sent" /\ wire'.end # "sent" /\ live[o].uid # 0 /\ live'[o] # live[o] =>
      live[o].uid \in own \/ (live'[o].uid # 0 /\ live[o].uid = backup[o])

(* The recorded uids are those of objects this run made.                   *)
RecordedAreOurs == \A o \in Objects : changes.created[o] \in own \cup {0}

(* "Only a complete rollback whose postcheck passed is certified": at that *)
(* moment every object of the backup that was not replaced by others is as *)
(* it was (a Secret keeps the data it was given again), and nothing the    *)
(* run made and knows of is left.                                          *)
CertifiedIsRestored ==
  "certified" \in marks' \ marks =>
    /\ \A o \in Restored : live[o].uid = backup[o] => live[o].spec = "old"
    /\ \A o \in Absent : live[o].uid # 0 => live[o].uid \notin own \/ o \in Doubtful

(* While the objects it works with are restored, the Deployment this run   *)
(* installed has no Pod.  (One that others deleted is not waited for.)     *)
RestoredAtRest ==
  (\E o \in Objects : live[o].spec = "new" /\ live'[o].spec = "old") =>
    running \notin own \/ running # live[Controller].uid

(* The installation that is chosen is complete: every object was made by   *)
(* the run, or updated unless others replaced it.                          *)
ChosenIsComplete ==
  Chosen => /\ \A o \in Absent : changes.created[o] \in own
            /\ \A o \in Kept : live[o].uid = backup[o] => live[o].spec = "new"
=============================================================================
