------------------------------ MODULE MCGates -------------------------------
(***************************************************************************)
(* The operators' scripts for TLC: the reboot gate with its two attempts,  *)
(* the installation of the controller with its rollback, the window in     *)
(* which bindings are moved, the look at a token's rotation, and the first *)
(* entry with the verdict on it.  They run days apart on the same host, so *)
(* a behaviour here is one of one of them, and the others rest in an       *)
(* initial state.                                                          *)
(*                                                                         *)
(* Attempt 1 of the gate (w6-enter.py, w6-reboot.py, w6-observe.py) is     *)
(* composed here with attempt 2 (RebootGate) on the same guest.  Attempt 1 *)
(* ended after its entry, because its reboot was refused by the time       *)
(* fence; its scripts and its record stayed where they were.  The two have *)
(* locks and records of their own: attempt 2 reads the records of attempt  *)
(* 1 and never writes them, attempt 1 does not know of attempt 2 at all,   *)
(* and nothing stops an operator from starting a script of either.  The    *)
(* variables with a 1 are attempt 1's; the world is shared.                *)
(***************************************************************************)
EXTENDS RebootGate, TLC

VARIABLES lock1, run1, rec1, session1, posting1, calls1, posts1

own2 == <<lock, run, rec, session, posting, calls, posts>>
own1 == <<lock1, run1, rec1, session1, posting1, calls1, posts1>>
bothVars == <<vars, own1>>

First == INSTANCE RebootGate
  WITH GEN0 <- GEN0 - 1, lock <- lock1, run <- run1, rec <- rec1, session <- session1,
       posting <- posting1, calls <- calls1, posts <- posts1

ASSUME AttemptsAssumption == GEN0 \in Nat \ {0}

BothTypeOK == TypeOK /\ First!TypeOK

BothInit == First!Init /\ OwnInit

-----------------------------------------------------------------------------
(* Attempt 1: w6-enter.py *)

FirstLocks(p, s) == First!TakeLock(p, s)
FirstOpens(p) == First!OpenRecord(p)
FirstVolumes == host = "ready"

(* mode_and_fence without a record, and with the chain of three. *)
FirstEntryAllowed == First!Only({}) /\ reg = Stopped(GEN0 - 1)
FirstReentryAllowed == First!ReentryAllowed

(* The precheck of an entry.  It sees any live session of the owner, those *)
(* of attempt 2 too.                                                       *)
FirstEnterChecks(p) ==
  /\ First!at(p, "locked") /\ run1[p].script = "enter"
  /\ FirstVolumes /\ pod.life = "absent"
  /\ \A q \in Runs : session1[q] # "live" /\ session[q] # "live"
  /\ \E k \in Enters :
       /\ IF k = "enter1" THEN FirstEntryAllowed ELSE FirstReentryAllowed
       /\ run1' = [run1 EXCEPT ![p].step = "checked", ![p].kind = k]
  /\ UNCHANGED <<lock1, rec1, session1, posting1, world, calls1, posts1>>

FirstCreates(p) == First!CreateSession(p)
FirstPosts(p) == First!Post(p)
FirstAnswered(p) == First!Answered(p)
FirstWaits(p) == First!WaitPod(p)
FirstSettles(p) == First!Settle(p)
FirstBreaks(p) == First!EnterBreaks(p)
FirstEnterEnds(p) == First!EnterEnds(p)

FirstEnter(p) ==
  \/ FirstEnterChecks(p) \/ FirstCreates(p) \/ FirstPosts(p) \/ FirstAnswered(p) \/ FirstWaits(p)
  \/ FirstSettles(p) \/ FirstBreaks(p) \/ FirstEnterEnds(p)

-----------------------------------------------------------------------------
(* Attempt 1: w6-reboot.py *)

(* w6_dirs, read_run and enter1_record: only records named w6-* are seen.  *)
FirstEntered(ks) == First!Only(ks) /\ rec1.enter1.result = 0

FirstInsideFence == age <= RebootBound
FirstHost == host = "ready"

(* Mutant: the Pod is not compared with the one that attempt 1 entered. *)
FirstRunnerQuietAny == reg.phase = "ready" /\ pod.life = "running"

FirstRunnerQuiet == First!RunnerQuiet

FirstRebootChecks(p) ==
  /\ First!at(p, "locked") /\ run1[p].script = "reboot"
  /\ FirstEntered({"enter1"}) /\ rec1.enter1.boot = boot
  /\ FirstHost /\ FirstRunnerQuiet /\ conv = rec1.enter1.conv /\ FirstInsideFence
  /\ run1' = [run1 EXCEPT ![p].step = "checked", ![p].kind = "reboot"]
  /\ UNCHANGED <<lock1, rec1, session1, posting1, world, calls1, posts1>>

FirstCaptures(p) == First!Capture(p)

FirstLooks(p) ==
  /\ First!at(p, "captured")
  /\ \/ FirstRunnerQuiet /\ conv = rec1.enter1.conv /\ FirstInsideFence /\ First!Goes(p, "looked")
     \/ First!Ends(p, 5)
  /\ UNCHANGED <<lock1, rec1, session1, posting1, world, calls1, posts1>>

(* The intent, the call of `systemctl reboot`, and its result. *)
FirstReboots(p) == First!Intend(p) \/ First!CallReboot(p) \/ First!RecordCall(p)
FirstRebootEnds(p) == First!RebootEnds(p)

FirstReboot(p) ==
  FirstRebootChecks(p) \/ FirstCaptures(p) \/ FirstLooks(p) \/ FirstReboots(p) \/ FirstRebootEnds(p)

-----------------------------------------------------------------------------
(* Attempt 1: w6-observe.py *)

FirstObserveChecks(p) ==
  /\ First!at(p, "locked") /\ run1[p].script = "observe"
  /\ FirstEntered({"enter1", "reboot"})
  /\ rec1.reboot.intent /\ rec1.reboot.call \in {Open, 0} /\ rec1.reboot.result \in {Open, 0, 8}
  /\ boot # rec1.reboot.boot
  /\ run1' = [run1 EXCEPT ![p].step = "checked", ![p].kind = "observe"]
  /\ UNCHANGED <<lock1, rec1, session1, posting1, world, calls1, posts1>>

FirstHostBack == host = "ready"
FirstRecovered == First!Recovered /\ ~First!Mismatch

FirstObserves(p) ==
  /\ First!at(p, "opened") /\ run1[p].script = "observe"
  /\ \/ FirstHostBack /\ FirstRecovered /\ First!Goes(p, "proved")
     \/ FirstHostBack /\ First!Mismatch /\ First!Ends(p, 6)
     \/ \E c \in {5, 130} : First!Ends(p, c)
  /\ UNCHANGED <<lock1, rec1, session1, posting1, world, calls1, posts1>>

FirstObserve(p) ==
  FirstObserveChecks(p) \/ FirstObserves(p) \/ First!RecordProof(p) \/ First!ObserveEnds(p)

FirstStep(p) ==
  \/ \E s \in {"enter", "reboot", "observe"} : FirstLocks(p, s)
  \/ First!Killed(p) \/ FirstOpens(p) \/ FirstEnter(p) \/ FirstReboot(p) \/ FirstObserve(p)

-----------------------------------------------------------------------------
(* Attempt 2 looks at what attempt 1 left *)

(* Mutant: any records of attempt 1 will do. *)
FirstLeftAny == rec1.enter1.made

(* w6_dirs: attempt 1 has its one record, ATTEMPT1, and no other. *)
FirstLeft == First!Only({"enter1"})

(* baseline: that record is a passing entry of GEN0, and its runner was    *)
(* drained and closed out on the first boot.                               *)
Baseline ==
  /\ rec1.enter1.result = 0 /\ rec1.enter1.pod = GEN0
  /\ [stops[GEN0] EXCEPT !.late = FALSE] = ClosedOut

(* A precheck of attempt 2 passes. *)
Passes(p) == at(p, "locked") /\ run'[p].step = "checked"

SecondStep(p) ==
  /\ Step(p)
  /\ Passes(p) =>
       /\ FirstLeft
       /\ run'[p].kind = "enter1" => Baseline
       /\ run'[p].kind \in Enters => \A q \in Runs : session1[q] # "live"

-----------------------------------------------------------------------------
(* What both attempts see, and what waits for either of them. *)
BothEnvironment ==
  \/ Tick /\ First!Tick
  \/ Restart /\ First!Restart
  \/ Cluster /\ UNCHANGED own1
  \/ StopAsked(IF reg.gen = GEN0 THEN rec1.reboot.intent ELSE rec.reboot.intent) /\ UNCHANGED own1
  \/ \E p \in Runs : Requests(p) /\ UNCHANGED own1
  \/ \E p \in Runs : First!Requests(p) /\ UNCHANGED own2

BothNext ==
  \/ BothEnvironment
  \/ \E p \in Runs : SecondStep(p) /\ UNCHANGED own1
  \/ \E p \in Runs : FirstStep(p) /\ UNCHANGED own2

BothSpec == BothInit /\ [][BothNext]_bothVars

-----------------------------------------------------------------------------
(* Over both attempts the guest is asked to reboot at most once, although  *)
(* each attempt guards its own reboot only and neither takes the other's   *)
(* lock.                                                                   *)
OneRebootInAll == calls + calls1 <= 1

(* From the first record of attempt 2 on, a script of attempt 1 starts no  *)
(* runner and reboots nothing, however long ago its precheck passed.       *)
FirstIsOver ==
  (\E k \in Kinds : rec[k].made) => UNCHANGED <<calls1, posts1>>

(* An entry of attempt 2 starts the generation after the one that attempt  *)
(* 1 closed out: when it POSTs, no runner of attempt 1 is there.           *)
SecondFollowsFirst ==
  posts'.enter1 > posts.enter1 => reg.gen = GEN0 /\ reg.phase = "idle_stopped" /\ pod.life = "absent"

-----------------------------------------------------------------------------
(* The scripts side by side. *)

CONSTANTS Namespace, Controller, Api, Rest, MaxUid, MaxOthers, Wait, MaxClock, MaxTokens, MaxContainers,
          Interval, MaxHour

VARIABLES
  part,                                                                        \* which script is explored
  kind, live, made, running, backup, changes, marks, script, wire, meddled,    \* ControllerInstall
  own,
  plan, fence, scaled, serving, stranger, tool, outcome, step, code, touched,  \* BindingWindow
  failed, dsn, evidence,
  clock, jti, issued, container, logged, stage, first, seen, proved, verdict,  \* TokenRotation
  recorded, noted,
  hour, proper, registry, runner, halt, talk, row, mail, entry, file, watch, sent  \* EntryGate

installVars == << kind, live, made, running, backup, changes, marks, script, wire, meddled, own >>
windowVars  == << plan, fence, scaled, serving, stranger, tool, outcome, step, code, touched, failed, dsn, evidence >>
rotationVars == << clock, jti, issued, container, logged, stage, first, seen, proved, verdict, recorded, noted >>
entryVars == << hour, proper, registry, runner, halt, talk, row, mail, entry, file, watch, sent >>

Install == INSTANCE ControllerInstall
Window  == INSTANCE BindingWindow
Rotation == INSTANCE TokenRotation
Entry == INSTANCE EntryGate

ASSUME PartsAssumption == Install!InstallAssumption /\ Rotation!RotationAssumption /\ Entry!EntryAssumption

Interchangeable == Permutations(Runs)

(* Attempt 1 as attempt 2 found it.                                        *)
FirstClosed ==
  /\ lock1 = NoOne /\ run1 = [p \in Runs |-> Resting] /\ session1 = [p \in Runs |-> "none"] /\ posting1 = {}
  /\ rec1 = [k \in Kinds |-> IF k = "enter1" THEN [NoRecord EXCEPT !.made = TRUE, !.result = 0, !.boot = 1,
                                                       !.pod = GEN0, !.conv = 1, !.row = "gone"]
                                              ELSE NoRecord]
  /\ calls1 = 0 /\ posts1 = [k \in Enters |-> IF k = "enter1" THEN 1 ELSE 0]

(* Bounds on the two attempts together: one script of each at a time, two  *)
(* boots, no turn of a user; a script that fails is killed, one of attempt *)
(* 2 before its code is known and one of attempt 1 before it is recorded.  *)
OneEach ==
  /\ \A p, q \in Runs : /\ run[p].step # "idle" /\ run[q].step # "idle" => p = q
                        /\ run1[p].step # "idle" /\ run1[q].step # "idle" => p = q
  /\ boot <= 2 /\ conv = 1
  /\ \A p \in Runs : run[p].code = 0
  /\ \A k \in Kinds : rec1[k].result \in {0, Open}

AllInit ==
  /\ part \in {"gate", "attempts", "install", "window", "rotation", "entry"}
  /\ IF part = "attempts" THEN BothInit ELSE Init /\ FirstClosed
  /\ Install!Init /\ Window!Init /\ Rotation!Init /\ Entry!Init
  /\ part # "install" => \A o \in Rest : live[o].uid = 0 /\ kind[o] = "plain"
  /\ part # "window" => \A o \in DOMAIN plan : plan[o] = "old" /\ fence[o]
  /\ part # "entry" => proper

AllNext ==
  \/ part = "gate" /\ Next /\ UNCHANGED << part, own1, installVars, windowVars, rotationVars, entryVars >>
  \/ part = "attempts" /\ BothNext /\ OneEach' /\ UNCHANGED << part, installVars, windowVars, rotationVars, entryVars >>
  \/ part = "install" /\ Install!Next /\ UNCHANGED << part, bothVars, windowVars, rotationVars, entryVars >>
  \/ part = "window" /\ Window!Next /\ UNCHANGED << part, bothVars, installVars, rotationVars, entryVars >>
  \/ part = "rotation" /\ Rotation!Next /\ UNCHANGED << part, bothVars, installVars, windowVars, entryVars >>
  \/ part = "entry" /\ Entry!Next /\ UNCHANGED << part, bothVars, installVars, windowVars, rotationVars >>

allVars == << part, bothVars, installVars, windowVars, rotationVars, entryVars >>

AllSpec == AllInit /\ [][AllNext]_allVars

-----------------------------------------------------------------------------
(* Of the script that moves; the others rest where they began.             *)
AllTypeOK ==
  CASE part \in {"gate", "attempts"} -> BothTypeOK [] part = "install" -> Install!TypeOK [] part = "window" -> Window!TypeOK
    [] part = "rotation" -> Rotation!TypeOK [] part = "entry" -> Entry!TypeOK

(* What a script does to the cluster it does once, and to what is its own: *)
(* one reboot, one POST of each entry, no object of somebody else, and no  *)
(* record that has a result is written again; bindings move in order, with *)
(* the services down.                                                      *)
ActsOnce ==
  CASE part \in {"gate", "attempts"} ->
         /\ RebootOnce' /\ EntriesOnce' /\ RecordsAreFinal
         /\ First!EntriesOnce' /\ First!RecordsAreFinal /\ OneRebootInAll' /\ FirstIsOver /\ SecondFollowsFirst
    [] part = "install" -> Install!ForeignUntouched /\ Install!RecordedAreOurs'
    [] part = "window" -> Window!MovedInOrder /\ Window!ToolsWorkAlone'
    [] part = "entry" -> Entry!OnePost'
    [] OTHER -> TRUE

DoneOnceAndOwned == [][ActsOnce]_allVars

(* A script passes for what it proved: a recovery after the recorded       *)
(* reboot of a quiet runner, a re-entry on the boot that was observed, no  *)
(* session left behind; a rollback that restored what it found, with the   *)
(* controller stopped first; an installation that is complete; an exit     *)
(* code that tells which bindings moved and what was put back; a rotation  *)
(* that was seen, with the controller at work before and after.            *)
EarnsItsPass ==
  CASE part \in {"gate", "attempts"} ->
         /\ PassMeansRecovered' /\ RebootUnderQuietRunner /\ ReentryOnProvedBoot /\ PassLeavesNoSession
         /\ First!PassMeansRecovered' /\ First!RebootUnderQuietRunner
    [] part = "install" -> Install!CertifiedIsRestored /\ Install!RestoredAtRest /\ Install!ChosenIsComplete'
    [] part = "window" -> Window!CodesAreTrue' /\ Window!LeftAsTold'
    [] part = "rotation" -> Rotation!PassWasSeen'
    [] part = "entry" -> Entry!NoSessionIsLeft' /\ Entry!PassIsEntered' /\ Entry!ReleaseIsTrue'

PassIsEarned == [][EarnsItsPass]_allVars
=============================================================================
