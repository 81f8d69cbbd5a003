---------------------------- MODULE BindingWindow ----------------------------
(***************************************************************************)
(* The script that moves two owners' bindings to new images inside a       *)
(* window in which nothing else may write: issue61/w3b-binding.py around   *)
(* the tool ops/runner_binding_image.py.  A tool runs in a container that  *)
(* may outlive the command that started it; commands fail or lose their    *)
(* answer; the operator interrupts the script, or the host dies.           *)
(***************************************************************************)
EXTENDS Naturals, FiniteSets

VARIABLES
  plan,      \* runner_bindings.bindings: owner -> its plan
  fence,     \* owner -> the registry's fence is the approved one, nothing is pending
  scaled,    \* Deployment -> its replicas
  serving,   \* Deployment -> a Pod of it runs
  stranger,  \* another session is open on the database
  tool,      \* the tool's container
  outcome,   \* owner -> what the tool told of its apply
  step,      \* how far the script has got
  code,      \* its exit code, as far as it is known
  touched,   \* Deployments the script patched
  failed,    \* a restore item failed and was printed
  dsn,       \* the administrator's connection file exists
  evidence   \* the run's directory exists

windowVars == << plan, fence, scaled, serving, stranger, tool, outcome, step, code, touched, failed, dsn, evidence >>

Owners      == 1..2                        \* in the order they are moved
Deployments == {"controller", "api"}
NoTool      == [ action |-> "none", owner |-> 0, done |-> FALSE ]
Tools       == [ action : {"report", "apply"}, owner : Owners, done : BOOLEAN ]
MainSteps   == {"precheck", "controller_down", "controller_gone", "api_down", "api_gone", "window", "dsn",
                "report", "reported", "apply", "applied", "read"}
LastSteps   == {"finish", "settle", "api_up", "controller_up", "clean"}
Codes       == {0, 3, 4, 5, 6, 7, 8, 9, 70, 80, 130}
Unknown     == 1000

TypeOK ==
  /\ plan \in [Owners -> {"old", "new"}] /\ fence \in [Owners -> BOOLEAN]
  /\ scaled \in [Deployments -> 0..1] /\ serving \in [Deployments -> BOOLEAN] /\ stranger \in BOOLEAN
  /\ tool \in Tools \cup {NoTool}
  /\ outcome \in [Owners -> {"none", "attempted", "confirmed"}]
  /\ step.owner \in Owners /\ step.at \in MainSteps \cup LastSteps \cup {"done", "killed"}
  /\ code \in Codes \cup {Unknown} /\ touched \subseteq Deployments
  /\ failed \in BOOLEAN /\ dsn \in BOOLEAN /\ evidence \in BOOLEAN
  /\ step.at = "done" => code # Unknown

At(name) == [ at |-> name, owner |-> step.owner ]
Main == step.at \in MainSteps

Init ==
  /\ plan \in [Owners -> {"old", "new"}] /\ fence \in [Owners -> BOOLEAN]
  /\ scaled = [d \in Deployments |-> 1] /\ serving = [d \in Deployments |-> TRUE] /\ stranger = FALSE
  /\ tool = NoTool /\ outcome = [o \in Owners |-> "none"] /\ step = [ at |-> "precheck", owner |-> 1 ]
  /\ code = Unknown /\ touched = {} /\ failed = FALSE /\ dsn = FALSE /\ evidence = FALSE

-----------------------------------------------------------------------------
(* The world around the script.                                            *)

(* A service, or somebody at the database, gives an owner work to do.      *)
FenceMoves(o) ==
  /\ fence[o] /\ (serving["api"] \/ stranger)
  /\ fence' = [fence EXCEPT ![o] = FALSE]
  /\ UNCHANGED << plan, scaled, serving, stranger, tool, outcome, step, code, touched, failed, dsn, evidence >>

Stranger ==
  /\ stranger' = ~stranger
  /\ UNCHANGED << plan, fence, scaled, serving, tool, outcome, step, code, touched, failed, dsn, evidence >>

(* A Deployment's Pods follow its replicas.                                *)
PodsFollow(d) ==
  /\ serving[d] # (scaled[d] = 1) /\ serving' = [serving EXCEPT ![d] = ~@]
  /\ UNCHANGED << plan, fence, scaled, stranger, tool, outcome, step, code, touched, failed, dsn, evidence >>

-----------------------------------------------------------------------------
(* The tool: one transaction that holds the owner's rows.                  *)

(* Mutant: the tool trusts the report that was approved.                   *)
UpgradableAsApproved(o) == plan[o] = "old"

(* upgrade: the exact fence, proved stopped, no work left, the old plan.   *)
Upgradable(o) == fence[o] /\ plan[o] = "old"

ToolCommits ==
  /\ tool.action = "apply" /\ ~tool.done /\ Upgradable(tool.owner)
  /\ plan' = [plan EXCEPT ![tool.owner] = "new"] /\ tool' = [tool EXCEPT !.done = TRUE]
  /\ UNCHANGED << fence, scaled, serving, stranger, outcome, step, code, touched, failed, dsn, evidence >>

(* The command returns: with the tool's word, and its container gone (it   *)
(* is started with --rm); or without it, and the container may live on.    *)
(* 80: the container is there still, or it could not be looked up.         *)
ToolAnswers(then) ==
  LET good == IF tool.action = "apply" THEN tool.done ELSE Upgradable(tool.owner) IN
  \/ good /\ tool' = NoTool /\ then
  \/ /\ tool' \in {tool, NoTool}
     /\ IF tool.action = "report"
        THEN step' = At("finish") /\ code' \in {80} \cup (IF tool' = NoTool THEN {5} ELSE {}) /\ UNCHANGED outcome
        ELSE step' = At("read") /\ UNCHANGED << outcome, code >>

-----------------------------------------------------------------------------
(* The script's main part.                                                 *)

StopsWith(c) == step' = At("finish") /\ code' = c

(* check_owners: fences, no pending work, plans on the old images.         *)
AsApproved == \A o \in Owners : fence[o] /\ plan[o] = "old"

(* "an earlier W3b run left evidence; never rerun", both Deployments 1/1.  *)
FirstRun == ~evidence /\ \A d \in Deployments : scaled[d] = 1 /\ serving[d]

(* 80 is a container of the precheck that was not proved stopped.          *)
Precheck ==
  /\ step.at = "precheck"
  /\ \/ AsApproved /\ FirstRun /\ step' = At("controller_down") /\ evidence' = TRUE /\ UNCHANGED code
     \/ \E c \in {3, 80} : StopsWith(c) /\ UNCHANGED evidence
  /\ UNCHANGED << plan, fence, scaled, serving, stranger, tool, outcome, touched, failed, dsn >>

(* The patch may fail, and may fail after it took effect.                  *)
ScaleDown(d, after) ==
  /\ touched' = touched \cup {d}
  /\ \/ scaled' = [scaled EXCEPT ![d] = 0] /\ step' = At(after) /\ UNCHANGED code
     \/ scaled' \in {scaled, [scaled EXCEPT ![d] = 0]} /\ StopsWith(4)
  /\ UNCHANGED << plan, fence, serving, stranger, tool, outcome, failed, dsn, evidence >>

Gone(d, after) ==
  /\ \/ ~serving[d] /\ step' = At(after) /\ UNCHANGED code
     \/ StopsWith(4)
  /\ UNCHANGED << plan, fence, scaled, serving, stranger, tool, outcome, touched, failed, dsn, evidence >>

NoSessions == ~stranger /\ \A d \in Deployments : ~serving[d]

(* "window (proved, not inferred)".                                        *)
ProveWindow ==
  /\ step.at = "window"
  /\ \/ (\A d \in Deployments : scaled[d] = 0) /\ NoSessions /\ AsApproved /\ step' = At("dsn") /\ UNCHANGED code
     \/ StopsWith(4)
  /\ UNCHANGED << plan, fence, scaled, serving, stranger, tool, outcome, touched, failed, dsn, evidence >>

WriteDsn ==
  /\ step.at = "dsn"
  /\ \/ dsn' = TRUE /\ step' = At("report") /\ UNCHANGED code
     \/ dsn' \in BOOLEAN /\ StopsWith(4)
  /\ UNCHANGED << plan, fence, scaled, serving, stranger, tool, outcome, touched, failed, evidence >>

(* A report per owner, before any apply.                                   *)
StartReport ==
  /\ step.at = "report"
  /\ tool' = [ action |-> "report", owner |-> step.owner, done |-> FALSE ] /\ step' = At("reported")
  /\ UNCHANGED << plan, fence, scaled, serving, stranger, outcome, code, touched, failed, dsn, evidence >>

ReportAnswers ==
  /\ step.at = "reported"
  /\ ToolAnswers(/\ step' = IF step.owner = 1 THEN [ at |-> "report", owner |-> 2 ] ELSE [ at |-> "apply", owner |-> 1 ]
                 /\ UNCHANGED << code, outcome >>)
  /\ UNCHANGED << plan, fence, scaled, serving, stranger, touched, failed, dsn, evidence >>

(* No session but the tool's own, before each apply.                       *)
StartApply ==
  /\ step.at = "apply"
  /\ \/ /\ NoSessions /\ outcome' = [outcome EXCEPT ![step.owner] = "attempted"]
        /\ tool' = [ action |-> "apply", owner |-> step.owner, done |-> FALSE ] /\ step' = At("applied") /\ UNCHANGED code
     \/ StopsWith(8) /\ UNCHANGED << outcome, tool >>
  /\ UNCHANGED << plan, fence, scaled, serving, stranger, touched, failed, dsn, evidence >>

ApplyAnswers ==
  /\ step.at = "applied"
  /\ ToolAnswers(/\ step' = At("read") /\ outcome' = [outcome EXCEPT ![step.owner] = "confirmed"] /\ UNCHANGED code)
  /\ UNCHANGED << plan, fence, scaled, serving, stranger, touched, failed, dsn, evidence >>

(* Mutant: the plan that moved is enough.                                  *)
MayGoOnIfMoved == plan[step.owner] = "new"

(* "never the next owner after an unconfirmed or uncommitted apply".       *)
MayGoOn == outcome[step.owner] = "confirmed" /\ plan[step.owner] = "new"

(* The container is proved gone, by force if need be, and the plans read.  *)
ReadPlan ==
  /\ step.at = "read"
  /\ \/ /\ tool' = NoTool /\ UNCHANGED code
        /\ \/ MayGoOn /\ step.owner = 1 /\ step' = [ at |-> "apply", owner |-> 2 ]
           \/ step' = At("finish")
     \/ StopsWith(80) /\ tool' \in {tool, NoTool}
  /\ UNCHANGED << plan, fence, scaled, serving, stranger, outcome, touched, failed, dsn, evidence >>

(* SIGINT, SIGTERM or an unexpected error.                                 *)
Interrupted ==
  /\ Main /\ step.at # "precheck"
  /\ \E c \in IF step.at \in {"apply", "applied", "read"} THEN {8, 9}
             ELSE {130, IF touched = {} THEN 3 ELSE 4} : StopsWith(c)
  /\ UNCHANGED << plan, fence, scaled, serving, stranger, tool, outcome, touched, failed, dsn, evidence >>

-----------------------------------------------------------------------------
(* finish: "Cleanup that nothing can skip".                                *)

(* From the first apply on: the code is then taken from the plans.         *)
Applying == code \in {8, 9} \/ \E o \in Owners : outcome[o] # "none"

(* Mutant: only what the main part saw keeps the services down.            *)
HeldIfSeen(left) == code = 80

(* A container that is left, or that the main part could not stop.         *)
Held(left) == left # NoTool \/ code = 80

(* "if one is not, writers stay stopped, DSN removed, rc 80"; nor is one   *)
(* proved gone that cannot be looked up.                                   *)
ProveGone ==
  /\ step.at = "finish" /\ tool' \in {tool, NoTool}
  /\ \/ /\ Held(tool') \/ touched = Deployments
        /\ code' = 80 /\ step' = At("done") /\ dsn' \in {FALSE, dsn} /\ failed' = dsn'
     \/ ~Held(tool') /\ step' = At("settle") /\ UNCHANGED << code, dsn, failed >>
  /\ UNCHANGED << plan, fence, scaled, serving, stranger, outcome, touched, evidence >>

(* Mutant: the code tells what the tool told.                              *)
SettledByWord ==
  IF \A o \in Owners : outcome[o] = "confirmed" THEN 0 ELSE IF outcome[1] = "confirmed" THEN 7 ELSE 6

(* "rc 0/6/7/8/9 come from the live plan digests and tool confirmations".  *)
Settled ==
  CASE \E o \in Owners : ~fence[o]                         -> 8
    [] plan[1] = "new" /\ plan[2] = "new"                  -> IF \A o \in Owners : outcome[o] = "confirmed" THEN 0 ELSE 9
    [] plan[1] = "new" /\ plan[2] = "old"                  -> 7
    [] plan[1] = "old" /\ plan[2] = "old"                  -> 6
    [] OTHER                                               -> 8

(* The plans may be unreadable; without an apply they must be the old.     *)
Settle ==
  /\ step.at = "settle" /\ step' = At("api_up")
  /\ IF Applying THEN code' \in {Settled, 8}
     ELSE IF touched # {} /\ code # 3 THEN code' \in {IF \A o \in Owners : plan[o] = "old" THEN code ELSE 8, 8}
     ELSE UNCHANGED code
  /\ UNCHANGED << plan, fence, scaled, serving, stranger, tool, outcome, touched, failed, dsn, evidence >>

(* Every touched Deployment is scaled back, the API first; the roll-out is *)
(* waited for, and what fails is printed.                                  *)
ScaleUp(d, after) ==
  /\ step' = At(after)
  /\ IF d \in touched
     THEN \/ scaled' = [scaled EXCEPT ![d] = 1] /\ UNCHANGED failed
          \/ scaled' \in {scaled, [scaled EXCEPT ![d] = 1]} /\ failed' = TRUE
     ELSE UNCHANGED << scaled, failed >>
  /\ UNCHANGED << plan, fence, serving, stranger, tool, outcome, code, touched, dsn, evidence >>

(* The connection file goes; a failed restore is told when nothing else is. *)
Clean ==
  /\ step.at = "clean" /\ step' = At("done") /\ dsn' \in {FALSE, dsn}
  /\ failed' = (failed \/ dsn') /\ code' = IF code = 0 /\ failed' THEN 70 ELSE code
  /\ UNCHANGED << plan, fence, scaled, serving, stranger, tool, outcome, touched, evidence >>

(* The host dies, and with it the container.                               *)
HostDies ==
  /\ step.at \notin {"done", "killed"} /\ step' = At("killed") /\ tool' = NoTool
  /\ UNCHANGED << plan, fence, scaled, serving, stranger, outcome, code, touched, failed, dsn, evidence >>

(* An operator starts the script after a run that did not end well.        *)
Again ==
  /\ step.at = "killed" /\ step' = [ at |-> "precheck", owner |-> 1 ] /\ code' = Unknown /\ touched' = {} /\ failed' = FALSE
  /\ outcome' = [o \in Owners |-> "none"]
  /\ UNCHANGED << plan, fence, scaled, serving, stranger, tool, dsn, evidence >>

-----------------------------------------------------------------------------
World == Stranger \/ (\E o \in Owners : FenceMoves(o)) \/ (\E d \in Deployments : PodsFollow(d)) \/ ToolCommits

Script ==
  \/ Precheck \/ ProveWindow \/ WriteDsn \/ StartReport \/ ReportAnswers \/ StartApply \/ ApplyAnswers \/ ReadPlan
  \/ step.at = "controller_down" /\ ScaleDown("controller", "controller_gone")
  \/ step.at = "controller_gone" /\ Gone("controller", "api_down")
  \/ step.at = "api_down" /\ ScaleDown("api", "api_gone")
  \/ step.at = "api_gone" /\ Gone("api", "window")

Finish ==
  \/ ProveGone \/ Settle \/ Clean
  \/ step.at = "api_up" /\ ScaleUp("api", "controller_up")
  \/ step.at = "controller_up" /\ ScaleUp("controller", "clean")

Next == World \/ Script \/ Interrupted \/ Finish \/ HostDies \/ Again

Spec == Init /\ [][Next]_windowVars

-----------------------------------------------------------------------------
Ended == step.at = "done"

(* "rc (never rerun on a nonzero rc; back checks read-only, the evidence   *)
(* and plan digests tell what happened)": what each code says of the       *)
(* bindings is so.                                                         *)
CodesAreTrue ==
  Ended =>
    /\ code \in {0, 9, 70} => \A o \in Owners : plan[o] = "new"
    /\ code \in {0, 70} => \A o \in Owners : outcome[o] = "confirmed"
    /\ code = 7 => plan[1] = "new" /\ plan[2] = "old"
    /\ code \in {4, 5, 6, 130} => \A o \in Owners : plan[o] = "old"
    /\ code = 3 => touched = {} /\ \A o \in Owners : outcome[o] = "none"

(* "restored", "admin DSN removed on every exit path": unless the script   *)
(* says what failed, its Deployments are back and the file is gone; a run  *)
(* that ends with 80 leaves them at 0 instead.                             *)
LeftAsTold ==
  Ended /\ ~failed => ~dsn /\ (code # 80 => \A d \in touched : scaled[d] = 1)

(* "restore (always ...; after every tool container is proved gone)": a    *)
(* tool that may still write never meets a service that is brought back,   *)
(* nor does a binding change while one serves.                             *)
ToolsWorkAlone ==
  /\ tool.action = "apply" => \A d \in Deployments : ~serving[d] /\ scaled[d] = 0
  /\ tool # NoTool => step.at \in {"reported", "applied", "read", "finish", "done"}

(* The second owner is moved after the first was, for sure; and no plan    *)
(* moves under an owner that has work.                                     *)
MovedInOrder ==
  \A o \in Owners : plan'[o] # plan[o] => fence[o] /\ (o = 2 => plan[1] = "new" /\ outcome[1] = "confirmed")
=============================================================================
