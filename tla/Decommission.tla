---------------------------- MODULE Decommission ----------------------------
(***************************************************************************)
(* Removing the runner of one stopped owner: its rows                      *)
(* (ops/runner_decommission.py, in a container), its Kubernetes objects    *)
(* and its files on the host (issue66/decommission.sh), in that order, all *)
(* from one export that was reviewed.  The wrapper is run step by step and *)
(* again after a failure; any command may fail, the container may outlive  *)
(* the wrapper that started it, the user may ask for the runner, and       *)
(* others may make an object of the same name.  The host's provisioner     *)
(* units stay stopped, as every step of the wrapper checks.                *)
(***************************************************************************)
EXTENDS Naturals, FiniteSets

CONSTANTS Disks,    \* the runner's loop filesystems: native and control
          MaxRev    \* bound: revisions of the registry row

DecommissionAssumption == MaxRev \in Nat \ {0}

Objects == {"secret", "pvc", "pv"}
Order   == [o \in Objects |-> CASE o = "secret" -> 1 [] o = "pvc" -> 2 [] o = "pv" -> 3]

VARIABLES
  rows,     \* the owner's runner rows: state (0: none, 1: this one, 2: a later one) and registry row
  body,     \* a Pod of the owner exists
  objects,  \* object -> UID; 0 for none, 1 for the exported one, 2 for another
  dying,    \* objects whose DELETE was accepted
  disk,     \* the host's files; bound: the kubelet still binds a PV path
  fence,    \* inputs/fence.json: a revision, 0 for none
  export,   \* report/export.json: the rows it was made from, or None
  tool,     \* the container of this apply
  orphan,   \* a container whose wrapper is gone
  wrapper,  \* the wrapper: step, objects to do, exit code
  applied,  \* the marker that apply completed
  touched   \* history: this run of the wrapper has changed something

decomVars == << rows, body, objects, dying, disk, fence, export, tool, orphan, wrapper, applied, touched >>
worldVars == << rows, body, objects, dying, disk >>

None == [ state |-> 0, phase |-> "none", rev |-> 0, proved |-> FALSE, busy |-> FALSE ]
Resting == [ step |-> "idle", todo |-> {}, code |-> 0 ]

TypeOK ==
  /\ {rows, export} \subseteq [ state : 0..2, phase : {"none", "rest", "up", "new"}, rev : 0..MaxRev,
                                proved : BOOLEAN, busy : BOOLEAN ]
  /\ body \in BOOLEAN /\ objects \in [Objects -> 0..2] /\ dying \subseteq Objects
  /\ disk \in [ mounts : SUBSET Disks, images : SUBSET Disks, dir : BOOLEAN, output : BOOLEAN, bound : BOOLEAN ]
  /\ fence \in 0..MaxRev /\ tool \in {"none", "running", "deleted", "already", "refused"} /\ orphan \in BOOLEAN
  /\ wrapper \in [ step : {"idle", "report", "compare", "tool", "look", "delete", "wait", "post", "unmount", "remove",
                           "output", "compared"},
                   todo : SUBSET Objects, code : {0, 3, 5, 8} ]
  /\ applied \in BOOLEAN /\ touched \in BOOLEAN
  /\ rows.state = 0 <=> rows = None

Init ==
  /\ \E proved \in BOOLEAN, busy \in BOOLEAN :
       rows = [ state |-> 1, phase |-> "rest", rev |-> 1, proved |-> proved, busy |-> busy ]
  /\ body = FALSE /\ objects = [o \in Objects |-> 1] /\ dying = {}
  /\ disk = [ mounts |-> Disks, images |-> Disks, dir |-> TRUE, output |-> TRUE, bound |-> FALSE ]
  /\ fence = 0 /\ export = None /\ tool = "none" /\ orphan = FALSE
  /\ wrapper = Resting /\ applied = FALSE /\ touched = FALSE

-----------------------------------------------------------------------------
(* The user, the in-cluster controller, the kubelet and others.            *)

Scripts == << fence, export, tool, orphan, wrapper, applied, touched >>

UserStarts ==
  /\ rows.state = 1 /\ rows.phase = "rest" /\ rows.rev < MaxRev
  /\ rows' = [rows EXCEPT !.phase = "up", !.rev = @ + 1, !.proved = FALSE, !.busy = TRUE]
  /\ UNCHANGED << body, objects, dying, disk, Scripts >>

PodAppears ==
  /\ rows.state = 1 /\ rows.phase = "up" /\ ~body /\ body' = TRUE /\ disk' = [disk EXCEPT !.bound = TRUE]
  /\ UNCHANGED << rows, objects, dying, Scripts >>

(* A stop with its proof; the outbox may still hold its last event.        *)
Stops ==
  /\ rows.phase = "up" /\ body /\ rows.rev < MaxRev /\ body' = FALSE
  /\ \E busy \in BOOLEAN : rows' = [rows EXCEPT !.phase = "rest", !.rev = @ + 1, !.proved = TRUE, !.busy = busy]
  /\ UNCHANGED << objects, dying, disk, Scripts >>

Settles ==
  /\ rows.state = 1 /\ rows.busy /\ rows.phase = "rest" /\ rows' = [rows EXCEPT !.busy = FALSE]
  /\ UNCHANGED << body, objects, dying, disk, Scripts >>

(* A message was accepted: its conversation runs before its runner does.   *)
WorkArrives ==
  /\ rows.state = 1 /\ ~rows.busy /\ rows.phase = "rest" /\ rows' = [rows EXCEPT !.busy = TRUE]
  /\ UNCHANGED << body, objects, dying, disk, Scripts >>

(* The owner's account stays: it may ask for a runner again.               *)
EntersAnew ==
  /\ rows.state = 0 /\ rows' = [ state |-> 2, phase |-> "new", rev |-> 1, proved |-> FALSE, busy |-> TRUE ]
  /\ UNCHANGED << body, objects, dying, disk, Scripts >>

KubeletLetsGo ==
  /\ disk.bound /\ ~body /\ disk' = [disk EXCEPT !.bound = FALSE]
  /\ UNCHANGED << rows, body, objects, dying, Scripts >>

(* Finalizers keep an object after its DELETE; then it is gone.            *)
Vanishes ==
  /\ \E o \in dying : (objects' = [objects EXCEPT ![o] = 0] /\ dying' = dying \ {o})
  /\ UNCHANGED << rows, body, disk, Scripts >>

OthersReplace ==
  /\ \E o \in Objects \ dying : (objects[o] \in {0, 1} /\ objects' = [objects EXCEPT ![o] = 2])
  /\ UNCHANGED << rows, body, dying, disk, Scripts >>

-----------------------------------------------------------------------------
(* The tool: one transaction under the owner's lock.                       *)

(* What export() demands of the rows.                                      *)
Exportable == rows.state = 1 /\ rows.phase = "rest" /\ ~rows.busy /\ rows.proved /\ rows.rev = fence

(* Mutant: apply trusts the fence and does not compute the export again.   *)
AsReviewedByFence == rows.state = 1 /\ rows.rev = fence

(* "deletes only if it is identical".                                      *)
AsReviewed == Exportable /\ rows = export

ToolResult == IF rows.state = 0 THEN "already" ELSE IF AsReviewed THEN "deleted" ELSE "refused"

(* The container of the running wrapper, or one left behind, gets to it.   *)
ToolCommits ==
  /\ \/ tool = "running" /\ tool' = ToolResult /\ UNCHANGED orphan
     \/ orphan /\ orphan' = FALSE /\ UNCHANGED tool
  /\ rows' = IF ToolResult = "deleted" THEN None ELSE rows
  /\ touched' = (touched \/ (tool' = "deleted" /\ tool = "running"))
  /\ UNCHANGED << body, objects, dying, disk, fence, export, wrapper, applied >>

-----------------------------------------------------------------------------
(* The wrapper.                                                            *)

Goes(step) == wrapper' = [wrapper EXCEPT !.step = step]

(* The container may go on without the wrapper.                            *)
Exits(code) ==
  /\ wrapper' = [ Resting EXCEPT !.code = code ]
  /\ tool' = "none" /\ orphan' = (orphan \/ tool = "running")

Starts == wrapper.step = "idle" /\ ~body

(* report: the fence, the tool's export under the same checks, and whether *)
(* each object is still the one that the binding names.                    *)
Report ==
  /\ Starts /\ export = None /\ rows.state = 1 /\ rows.phase = "rest"
  /\ fence' = rows.rev /\ Goes("report") /\ touched' = FALSE
  /\ UNCHANGED << worldVars, export, tool, orphan, applied >>

MakeExport ==
  /\ wrapper.step = "report"
  /\ IF Exportable THEN export' = rows /\ Goes("compare") /\ UNCHANGED << tool, orphan >>
     ELSE Exits(3) /\ UNCHANGED export
  /\ UNCHANGED << worldVars, fence, applied, touched >>

CompareObjects ==
  /\ wrapper.step = "compare" /\ Exits(IF \A o \in Objects : objects[o] # 2 THEN 0 ELSE 3)
  /\ UNCHANGED << worldVars, fence, export, applied, touched >>

(* An export that no longer fits is moved aside by hand.                   *)
MoveAside ==
  /\ wrapper.step = "idle" /\ ~orphan /\ export # None /\ rows.state = 1 /\ rows # export
  /\ export' = None /\ fence' = 0
  /\ UNCHANGED << worldVars, tool, orphan, wrapper, applied, touched >>

(* apply: the fence unchanged, or the rows already gone.                   *)
Apply ==
  /\ Starts /\ export # None
  /\ rows.state = 0 \/ (rows.state = 1 /\ rows.phase = "rest" /\ rows.rev = fence)
  /\ tool' = "running" /\ Goes("tool") /\ touched' = FALSE
  /\ UNCHANGED << worldVars, fence, export, orphan, applied >>

(* Mutant: a container that gave no answer in time has done its work.      *)
HearsAnything == {"deleted", "already", "running"}

Hears == {"deleted", "already"}

HearTool ==
  /\ wrapper.step = "tool"
  /\ \/ tool \in Hears /\ wrapper' = [wrapper EXCEPT !.step = "look", !.todo = Objects] /\ UNCHANGED << tool, orphan >>
     \/ tool = "refused" /\ Exits(3)
     \/ Exits(5)
  /\ UNCHANGED << worldVars, fence, export, applied, touched >>

At(o) == o \in wrapper.todo /\ \A other \in wrapper.todo : Order[o] <= Order[other]

Onward(o) == wrapper' = [wrapper EXCEPT !.todo = @ \ {o}, !.step = IF wrapper.todo = {o} THEN "post" ELSE "look"]

(* Gone, ours, or another's, which stops everything.                       *)
Look(o) ==
  /\ wrapper.step = "look" /\ At(o)
  /\ CASE objects[o] = 0 -> Onward(o) /\ UNCHANGED << tool, orphan >>
       [] objects[o] = 1 -> Goes("delete") /\ UNCHANGED << tool, orphan >>
       [] objects[o] = 2 -> Exits(5)
  /\ UNCHANGED << worldVars, fence, export, applied, touched >>

(* Mutant: a DELETE by name.                                               *)
OursByName(o) == objects[o] # 0

(* The UID is a precondition of the DELETE.                                *)
Ours(o) == objects[o] = 1

Delete(o) ==
  /\ wrapper.step = "delete" /\ At(o)
  /\ IF Ours(o) THEN dying' = dying \cup {o} /\ Goes("wait") /\ touched' = TRUE /\ UNCHANGED << tool, orphan >>
     ELSE Exits(5) /\ UNCHANGED << dying, touched >>
  /\ UNCHANGED << rows, body, objects, disk, fence, export, applied >>

WaitGone(o) ==
  /\ wrapper.step = "wait" /\ At(o) /\ o \notin dying /\ Onward(o)
  /\ UNCHANGED << worldVars, fence, export, tool, orphan, applied, touched >>

(* No object by its name, no row of the owner.                             *)
AllGone == (\A o \in Objects : objects[o] = 0) /\ rows.state = 0

PostCheck ==
  /\ wrapper.step = "post"
  /\ IF AllGone THEN Exits(0) /\ applied' \in {TRUE, applied} ELSE Exits(8) /\ UNCHANGED applied
  /\ UNCHANGED << worldVars, fence, export, touched >>

(* Mutant: the host is cleared without a look at who uses the images.      *)
FreeIfApplied == applied

(* apply completed, no object of these names, and only this state's own    *)
(* mounts use its images.                                                  *)
Free == applied /\ (\A o \in Objects : objects[o] = 0) /\ ~disk.bound

Host ==
  /\ Starts /\ export # None /\ touched' = FALSE
  /\ IF Free THEN Goes("unmount") /\ UNCHANGED << tool, orphan >> ELSE Exits(3)
  /\ UNCHANGED << worldVars, fence, export, applied >>

HostUnchanged == UNCHANGED << rows, body, objects, dying, fence, export, tool, orphan, applied >>

Unmount ==
  /\ wrapper.step = "unmount"
  /\ IF disk.mounts = {} THEN Goes("remove") /\ UNCHANGED << disk, touched >>
     ELSE /\ \E m \in disk.mounts : disk' = [disk EXCEPT !.mounts = @ \ {m}]
          /\ touched' = TRUE /\ UNCHANGED wrapper
  /\ HostUnchanged

(* The images, then the directory.                                         *)
RemoveStorage ==
  /\ wrapper.step = "remove" /\ touched' = TRUE
  /\ IF disk.images # {} THEN (\E m \in disk.images : disk' = [disk EXCEPT !.images = @ \ {m}]) /\ UNCHANGED wrapper
     ELSE disk' = [disk EXCEPT !.dir = FALSE] /\ Goes("output")
  /\ HostUnchanged

RemoveOutput ==
  /\ wrapper.step = "output" /\ disk' = [disk EXCEPT !.output = FALSE] /\ touched' = TRUE /\ Goes("compared")
  /\ HostUnchanged

(* The inventories that a restore compares; another's may differ.          *)
Inventories ==
  /\ wrapper.step = "compared" /\ (Exits(0) \/ Exits(8))
  /\ UNCHANGED << worldVars, fence, export, applied, touched >>

(* Mutant: a failure after the tool is reported as a refusal.              *)
FailureCodeRefusal == 3

(* 3 while nothing can have been changed, 5 from there on.                 *)
FailureCode == IF wrapper.step \in {"report", "compare"} THEN 3 ELSE 5

Fails ==
  /\ wrapper.step # "idle" /\ Exits(FailureCode)
  /\ UNCHANGED << worldVars, fence, export, applied, touched >>

Rests == wrapper.step = "idle" /\ UNCHANGED decomVars

-----------------------------------------------------------------------------
Next ==
  \/ UserStarts \/ PodAppears \/ Stops \/ Settles \/ WorkArrives \/ EntersAnew
  \/ KubeletLetsGo \/ Vanishes \/ OthersReplace \/ ToolCommits
  \/ Report \/ MakeExport \/ CompareObjects \/ MoveAside
  \/ Apply \/ HearTool \/ PostCheck \/ (\E o \in Objects : Look(o) \/ Delete(o) \/ WaitGone(o))
  \/ Host \/ Unmount \/ RemoveStorage \/ RemoveOutput \/ Inventories
  \/ Fails \/ Rests

Spec == Init /\ [][Next]_decomVars

-----------------------------------------------------------------------------
(* "deletes only if it is identical": the rows go from exactly the state   *)
(* that was reviewed, of a runner at rest behind its proof.                *)
RowsGoAtRest ==
  [][rows.state = 1 /\ rows'.state = 0 =>
       rows = export /\ ~body /\ rows.phase = "rest" /\ rows.proved /\ ~rows.busy]_decomVars

(* "each by DELETE with the export's UID as precondition": what another    *)
(* made under the same name stays.                                         *)
OthersStay == [][\A o \in Objects : objects[o] = 2 => objects'[o] = 2]_decomVars

(* Nothing is pulled from under what still refers to it: objects are       *)
(* deleted after the rows that name them, files after those objects, and   *)
(* an image only when nothing has it mounted.                              *)
NothingDangles ==
  /\ dying # {} => rows.state # 1
  /\ (disk.images # Disks \/ disk.mounts # Disks) => rows.state # 1 /\ \A o \in Objects : objects[o] # 1
  /\ disk.mounts \subseteq disk.images /\ (disk.bound => disk.mounts = Disks)
  /\ ~disk.output => ~disk.dir

(* "0 done and verified", "3 nothing changed by this run".                 *)
CodesAreMeant ==
  wrapper.step = "idle" =>
    /\ wrapper.code = 3 => ~touched
    /\ applied => rows.state # 1 /\ \A o \in Objects : objects[o] # 1
=============================================================================
