---------------------------- MODULE NumericTrial ----------------------------
(***************************************************************************)
(* One bounded connection trial on the cluster                             *)
(* (src/infra/hosting/m3/access_numeric_trial.py, with the guards of       *)
(* access_numeric_prepare.py): a controller without a network asks a       *)
(* broker on the host (run_numeric_trial.sh) to create a Job and, while    *)
(* its Pod holds still, a network policy; it runs one worker in that Pod   *)
(* and removes both.  The broker keeps the evidence files, each of which   *)
(* can be written once.  When the exchange with the controller ends early  *)
(* after arming, the broker starts one more controller that only cleans    *)
(* up, from the files.  Requests may take effect after whoever sent them   *)
(* is gone, and others may do anything to the objects.  Time is no part of *)
(* the model: a step that comes too late is one that fails.                *)
(***************************************************************************)
EXTENDS Naturals

CONSTANT MaxWrites \* bound: resource versions of an object

NumericAssumption == MaxWrites \in Nat \ {0}

VARIABLES
  named,    \* the objects of the trial's name: whose, as it was created, version (0: none), being deleted
  holder,   \* the Job's Pod
  requests, \* those without an answer, which may still take effect
  saved,    \* the evidence about an object: create intended, create acknowledged, delete attempted
  marks,    \* the other evidence: baseline, arm, the claims of collector and worker
  broker,   \* the controller it serves
  control,  \* that controller: step, object, owned, unacknowledged, left to remove, version read, version in scope
  records,  \* outcome.json ("main") and recovery.json ("cleanup")
  past      \* history: objects whose DELETE was sent, and again; the worker ran; the policy written since in scope

trialVars == << named, holder, requests, saved, marks, broker, control, records, past >>
files == << saved, marks >>
world == << named, holder, requests, broker, records, past >>
ours  == << requests, saved, marks, broker, control, records >>

Objects  == {"Job", "Policy"}
Absent   == [ mine |-> FALSE, same |-> FALSE, rv |-> 0, going |-> FALSE ]
Things   == [ mine : BOOLEAN, same : BOOLEAN, rv : 0..MaxWrites, going : BOOLEAN ]
Present  == {"running", "ended"}
Requests == [ verb : {"create", "delete", "exec"}, of : Objects, rv : 0..MaxWrites ]
Statuses == {"none", "not_armed", "verified", "unknown_handoff"}
Records  == [ status : Statuses, completed : BOOLEAN, names : SUBSET Objects ]
NoRecord == [ status |-> "none", completed |-> FALSE, names |-> {} ]
Business == {"begin", "arm", "armed", "admit", "create", "original", "collect", "binding", "realize", "dispatch", "check"}
Cleaning == {"look", "attempt", "confirm", "final"}
Controls ==
  [ step : Business \cup Cleaning \cup {"acked", "clean", "delete", "record", "load", "over"}, of : Objects,
    owned : SUBSET Objects, uncertain : SUBSET Objects, left : SUBSET Objects, read : 0..MaxWrites,
    scope : 0..MaxWrites, completed : BOOLEAN, status : Statuses ]

TypeOK ==
  /\ named \in [Objects -> Things]
  /\ holder \in {"unborn", "running", "ended", "gone"}
  /\ requests \subseteq Requests
  /\ saved \in [{"uncertain", "owned", "delete"} -> SUBSET Objects]
  /\ marks \subseteq {"baseline", "arm", "collector", "worker"}
  /\ broker \in {"main", "cleanup", "closed"}
  /\ control \in Controls
  /\ records \in [{"main", "cleanup"} -> Records]
  /\ past \in [ deleted : SUBSET Objects, again : BOOLEAN, ran : BOOLEAN, written : BOOLEAN ]

Starts(step) ==
  [ step |-> step, of |-> "Job", owned |-> {}, uncertain |-> {}, left |-> {}, read |-> 0, scope |-> 0,
    completed |-> FALSE, status |-> "none" ]

Init ==
  /\ named = [k \in Objects |-> Absent] /\ holder = "unborn" /\ requests = {}
  /\ saved = [f \in {"uncertain", "owned", "delete"} |-> {}] /\ marks = {}
  /\ broker = "main" /\ control = Starts("begin")
  /\ records = [p \in {"main", "cleanup"} |-> NoRecord]
  /\ past = [ deleted |-> {}, again |-> FALSE, ran |-> FALSE, written |-> FALSE ]

-----------------------------------------------------------------------------
(* The cluster.                                                            *)

Free(k) == named[k].rv = 0
Mine(k) == named[k].mine

(* A write of an object, remembered of the policy after it was in scope.   *)
Puts(k, thing) ==
  /\ named' = [named EXCEPT ![k] = thing]
  /\ past' = [past EXCEPT !.written = @ \/ (k = "Policy" /\ control.scope # 0)]

Created(k) == Free(k) /\ Puts(k, [ mine |-> TRUE, same |-> TRUE, rv |-> 1, going |-> FALSE ])

(* Mutant: the DELETE carries only the UID.                                *)
PreconditionUid(k, rv) == Mine(k)

(* The preconditions of the DELETE: UID and resource version.              *)
Precondition(k, rv) == Mine(k) /\ named[k].rv = rv

(* In the foreground: the object goes when what it owns is gone.           *)
Deleted(k, rv) == Precondition(k, rv) /\ Puts(k, [named[k] EXCEPT !.going = TRUE])

Ran == past' = [past EXCEPT !.ran = TRUE]

(* A request that was not answered takes effect late.                      *)
Lands ==
  /\ \E r \in requests :
       /\ requests' = requests \ {r}
       /\ \/ r.verb = "create" /\ Created(r.of)
          \/ r.verb = "delete" /\ Deleted(r.of, r.rv)
          \/ r.verb = "exec" /\ holder = "running" /\ Ran /\ UNCHANGED named
  /\ UNCHANGED << holder, files, broker, control, records >>

PodStarts ==
  /\ Mine("Job") /\ ~named["Job"].going /\ holder = "unborn" /\ holder' = "running"
  /\ UNCHANGED << named, past, ours >>

(* After its 28 seconds, at the Job's deadline, or by itself.              *)
PodEnds == holder = "running" /\ holder' = "ended" /\ UNCHANGED << named, past, ours >>

PodGoes == holder \in Present /\ holder' = "gone" /\ UNCHANGED << named, past, ours >>

Goes(k) ==
  /\ named[k].going /\ (k = "Job" => holder \notin Present) /\ Puts(k, Absent)
  /\ UNCHANGED << holder, ours >>

(* Status, annotations, or the specification itself.                       *)
Changes(k) ==
  /\ ~Free(k) /\ named[k].rv < MaxWrites
  /\ \E same \in BOOLEAN : Puts(k, [named[k] EXCEPT !.rv = @ + 1, !.same = @ /\ same])
  /\ UNCHANGED << holder, ours >>

OthersDelete(k) == ~Free(k) /\ Puts(k, Absent) /\ UNCHANGED << holder, ours >>

OthersCreate(k) ==
  /\ Free(k) /\ Puts(k, [ mine |-> FALSE, same |-> FALSE, rv |-> 1, going |-> FALSE ])
  /\ UNCHANGED << holder, ours >>

-----------------------------------------------------------------------------
(* What the controller's reads demand; each group is one batch.            *)

(* No object of the name, no Pod of the Job's label.                       *)
Clean == (\A k \in Objects : Free(k)) /\ holder \notin Present

(* The Job's own Pod runs.                                                 *)
Selected == Mine("Job") /\ ~named["Job"].going /\ holder = "running"

(* The owned object, as it was created and not being deleted.              *)
Deletable(k) == k \in control.owned /\ Mine(k) /\ named[k].same /\ ~named[k].going

(* The refresh that tolerates the trial's own Job and Pod.                 *)
CleanButOwned == (\A k \in Objects : Free(k) \/ Deletable(k)) /\ (holder \in Present => Selected)

(* The policy, as it was made, in its Pod's scope.                         *)
InScope == Selected /\ Mine("Policy") /\ named["Policy"].same /\ ~named["Policy"].going

-----------------------------------------------------------------------------
(* The first controller.                                                   *)

At(step) == broker # "closed" /\ control.step = step
To(step) == control' = [control EXCEPT !.step = step]

Refresh ==
  /\ At("begin") /\ Clean /\ To("arm") /\ marks' = marks \cup {"baseline"}
  /\ UNCHANGED << saved, world >>

(* The time of arming is taken, then the broker arms.                      *)
Arm == At("arm") /\ To("armed") /\ UNCHANGED << files, world >>

SaveArm ==
  /\ At("armed") /\ To("admit") /\ marks' = marks \cup {"arm"}
  /\ UNCHANGED << saved, world >>

Intends == control' = [control EXCEPT !.step = "create", !.uncertain = @ \cup {control.of}]

(* The intent is on disk before the request is sent, and before it is      *)
(* known whether there is time left to send it.                            *)
SaveUncertain ==
  /\ At("admit") /\ saved' = [saved EXCEPT !["uncertain"] = @ \cup {control.of}]
  /\ Intends \/ To("clean")
  /\ UNCHANGED << marks, world >>

Unanswered(verb, rv) == requests' = requests \cup {[ verb |-> verb, of |-> control.of, rv |-> rv ]}

(* The POST: answered, refused, or without an answer.                      *)
Create ==
  /\ At("create") /\ UNCHANGED << holder, files, broker, records >>
  /\ \/ /\ Created(control.of) /\ UNCHANGED requests
        /\ control' = [control EXCEPT !.step = "acked", !.owned = @ \cup {control.of}, !.uncertain = @ \ {control.of}]
     \/ To("clean") /\ UNCHANGED << named, requests, past >>
     \/ To("clean") /\ Unanswered("create", 0) /\ UNCHANGED << named, past >>

(* A late acknowledgement still establishes ownership, and nothing else.   *)
SaveOwned ==
  /\ At("acked") /\ saved' = [saved EXCEPT !["owned"] = @ \cup {control.of}]
  /\ (To("clean") \/ To(IF control.of = "Job" THEN "original" ELSE "realize"))
  /\ UNCHANGED << marks, world >>

Original == At("original") /\ Selected /\ To("collect") /\ UNCHANGED << files, world >>

(* One query in the application's Pod, behind its claim.                   *)
Collect ==
  /\ At("collect") /\ "collector" \notin marks /\ marks' = marks \cup {"collector"} /\ To("binding")
  /\ UNCHANGED << saved, world >>

(* The baseline is read again; then the lease admits the policy.           *)
Binding ==
  /\ At("binding") /\ CleanButOwned /\ control' = [control EXCEPT !.step = "admit", !.of = "Policy"]
  /\ UNCHANGED << files, world >>

Realize ==
  /\ At("realize") /\ InScope
  /\ control' = [control EXCEPT !.step = "dispatch", !.scope = named["Policy"].rv]
  /\ UNCHANGED << files, world >>

(* The worker, behind its claim; it may run although nobody is answered.   *)
Dispatch ==
  /\ At("dispatch") /\ "worker" \notin marks /\ marks' = marks \cup {"worker"}
  /\ \/ holder = "running" /\ Ran /\ To("check") /\ UNCHANGED requests
     \/ Unanswered("exec", 0) /\ To("clean") /\ UNCHANGED past
  /\ UNCHANGED << named, holder, saved, broker, records >>

(* Mutant: another version of the policy will do.                          *)
UnchangedAnyway == InScope

(* The same Pod and the same version of the same policy as in scope.       *)
UnchangedScope == InScope /\ named["Policy"].rv = control.scope

Check ==
  /\ At("check") /\ UnchangedScope /\ control' = [control EXCEPT !.step = "clean", !.completed = TRUE]
  /\ UNCHANGED << files, world >>

(* Any exception, a passed deadline among them.                            *)
Fails ==
  /\ broker = "main" /\ control.step \in Business
  /\ IF control.step \in {"begin", "arm"}
     THEN control' = [control EXCEPT !.step = "record", !.status = "not_armed"] ELSE To("clean")
  /\ UNCHANGED << files, world >>

-----------------------------------------------------------------------------
(* cleanup, of either controller.                                          *)

HandsOff == control' = [control EXCEPT !.step = "record", !.status = "unknown_handoff"]

StartCleanup ==
  /\ At("clean") /\ control' = [control EXCEPT !.step = "look", !.of = "Job", !.left = control.owned]
  /\ UNCHANGED << files, world >>

Following == IF control.of = "Job" THEN "look" ELSE "final"

(* What is not owned is left alone.                                        *)
Skip ==
  /\ At("look") /\ control.of \notin control.owned
  /\ control' = [control EXCEPT !.step = Following, !.of = "Policy"]
  /\ UNCHANGED << files, world >>

Look ==
  /\ At("look") /\ Deletable(control.of)
  /\ control' = [control EXCEPT !.step = "attempt", !.read = named[control.of].rv]
  /\ UNCHANGED << files, world >>

(* Mutant: an earlier attempt is not asked for.                            *)
UntriedAnyway == TRUE

(* Neither controller has attempted it.                                    *)
Untried == control.of \notin saved["delete"]

Attempt ==
  /\ At("attempt") /\ Untried /\ saved' = [saved EXCEPT !["delete"] = @ \cup {control.of}] /\ To("delete")
  /\ UNCHANGED << marks, world >>

Sent == [past EXCEPT !.again = @ \/ control.of \in past.deleted, !.deleted = @ \cup {control.of}]

(* The DELETE: applied, refused, or without an answer.                     *)
Delete ==
  /\ At("delete") /\ UNCHANGED << holder, files, broker, records >>
  /\ \/ /\ Precondition(control.of, control.read) /\ named' = [named EXCEPT ![control.of].going = TRUE]
        /\ past' = [Sent EXCEPT !.written = @ \/ (control.of = "Policy" /\ control.scope # 0)]
        /\ To("confirm") /\ UNCHANGED requests
     \/ HandsOff /\ past' = Sent /\ UNCHANGED << named, requests >>
     \/ HandsOff /\ past' = Sent /\ Unanswered("delete", control.read) /\ UNCHANGED named

(* Mutant: the Pod is not waited for.                                      *)
NotListed == Free(control.of)

(* Nothing of the name is listed, and after the Job no Pod.                *)
NothingListed == Free(control.of) /\ (control.of = "Job" => holder \notin Present)

Confirm ==
  /\ At("confirm") /\ NothingListed
  /\ control' = [control EXCEPT !.step = Following, !.of = "Policy", !.left = @ \ {control.of}]
  /\ UNCHANGED << files, world >>

Final ==
  /\ At("final") /\ control.uncertain = {} /\ Clean
  /\ control' = [control EXCEPT !.step = "record", !.status = "verified"]
  /\ UNCHANGED << files, world >>

(* A read, a save or the health of the cluster fails.                      *)
Stops == broker # "closed" /\ control.step \in Cleaning /\ HandsOff /\ UNCHANGED << files, world >>

(* What remains is named; then the controller is done.                     *)
Record ==
  /\ At("record") /\ records[broker] = NoRecord
  /\ records' = [records EXCEPT ![broker] =
       [ status |-> control.status, completed |-> control.completed,
         names |-> IF control.status = "unknown_handoff" THEN control.left \cup control.uncertain ELSE {} ]]
  /\ UNCHANGED << named, holder, requests, files, broker, control, past >>

Ends == broker' = "closed" /\ To("over") /\ UNCHANGED << named, holder, requests, files, records, past >>

Done == At("record") /\ records[broker] # NoRecord /\ Ends

-----------------------------------------------------------------------------
(* The broker.                                                             *)

Unarmed == control.step \in {"begin", "arm"} \/ control.status = "not_armed"

(* The exchange ends before it is done, whatever the reason.               *)
Breaks ==
  /\ broker = "main" /\ ~Unarmed /\ broker' = "cleanup" /\ control' = Starts("load")
  /\ UNCHANGED << named, holder, requests, files, records, past >>

(* It ends before arming, or the second time, or the broker is killed.     *)
Closes == broker # "closed" /\ Ends

(* Mutant: a create without an acknowledgement is forgotten.               *)
Acknowledged == {}

(* Intended and not acknowledged, by the files.                            *)
Unacknowledged == saved["uncertain"] \ saved["owned"]

(* The second controller takes over what the files tell.                   *)
Load ==
  /\ At("load") /\ "arm" \in marks
  /\ control' = [control EXCEPT !.step = "clean", !.owned = saved["owned"], !.uncertain = Unacknowledged]
  /\ UNCHANGED << files, world >>

Rests == broker = "closed" /\ UNCHANGED trialVars

-----------------------------------------------------------------------------
ClusterStep ==
  \/ Lands \/ PodStarts \/ PodEnds \/ PodGoes
  \/ \E k \in Objects : Goes(k) \/ Changes(k) \/ OthersDelete(k) \/ OthersCreate(k)

TrialStep ==
  \/ Refresh \/ Arm \/ SaveArm \/ SaveUncertain \/ Create \/ SaveOwned \/ Original \/ Collect \/ Binding
  \/ Realize \/ Dispatch \/ Check \/ Fails

CleanupStep ==
  \/ StartCleanup \/ Skip \/ Look \/ Attempt \/ Delete \/ Confirm \/ Final \/ Stops \/ Record \/ Done

Next == ClusterStep \/ TrialStep \/ CleanupStep \/ Breaks \/ Closes \/ Load \/ Rests

Spec == Init /\ [][Next]_trialVars

-----------------------------------------------------------------------------
(* An object of the trial, or a create that may still make it one.         *)
MayExist(k) == Mine(k) \/ \E r \in requests : r.verb = "create" /\ r.of = k

(* Whatever a controller has recorded, it names every object of the trial  *)
(* that exists or may still appear: "verified" is said of a cluster with   *)
(* nothing of the trial in it or on the way to it, a handoff names what is *)
(* left.                                                                   *)
RecordsNameTheRest ==
  \A p \in {"main", "cleanup"} : records[p].status # "none" =>
    /\ \A k \in Objects : MayExist(k) => k \in records[p].names
    /\ records[p].status = "verified" => holder \notin Present

(* A DELETE, though it be applied late, takes effect only on an object as  *)
(* the trial made it; it is sent once for each object by both controllers  *)
(* together, and for the policy only when the Job and its Pod are gone.    *)
DeletesOwnOnce ==
  [][/\ \A k \in Objects : ~named[k].going /\ named'[k].going => Mine(k) /\ named[k].same
     /\ ~past'.again
     /\ "Policy" \in past'.deleted \ past.deleted => ~Mine("Job") /\ holder \notin Present]_trialVars

(* "completed" is said of a worker that ran, under the policy that nobody  *)
(* had written since it was in scope.                                      *)
CompletedIsMeant == [][~control.completed /\ control'.completed => past.ran /\ ~past.written]_trialVars
=============================================================================
