----------------------------- MODULE RebootGate -----------------------------
(***************************************************************************)
(* The one-shot gate scripts of issue 61 (attempt 2; attempt 1 is an       *)
(* instance in MCGates): w6a2-enter.py starts one runner, w6a2-reboot.py   *)
(* reboots the guest once under it, w6a2-observe.py proves that the        *)
(* controller released it by itself, and w6a2-enter.py starts it again.    *)
(* Their only memory is the evidence directory: each run makes one record  *)
(* before its first change, and a later run reads the records of the       *)
(* earlier ones.  Operators may start any script at any time, twice at     *)
(* once too; a run may be interrupted, killed, or fail to write; the guest *)
(* may restart under it.                                                   *)
(*                                                                         *)
(* GEN0 is the generation an attempt finds stopped; enter1 starts GEN1,    *)
(* enter2 GEN2; a Pod is named by its generation.  Result codes are the    *)
(* scripts' own.                                                           *)
(***************************************************************************)
EXTENDS Naturals

CONSTANTS Runs,         \* processes the operators start, reused when they end
          RebootBound,  \* REBOOT_BOUND in ticks since the POST
          IdleAfter,    \* ticks after which the controller drains an idle runner
          GEN0,         \* the generation before the attempt
          MaxGen,       \* bound: generations the API starts
          MaxBoot       \* bound: boots of the guest

NoOne == "none"                   \* the holder of a lock that nobody holds

ASSUME GateAssumption ==
  /\ NoOne \notin Runs
  /\ RebootBound \in Nat /\ IdleAfter \in Nat /\ RebootBound + 1 < IdleAfter
  /\ MaxBoot \in Nat \ {0}
  /\ GEN0 \in Nat /\ MaxGen \in Nat /\ GEN0 + 2 <= MaxGen

VARIABLES lock,      \* holder of w6a2.lock
          run,       \* process -> step and local variables
          rec,       \* evidence: kind of step -> its run.json
          session,   \* process -> its row of auth.sessions
          posting,   \* processes whose POST has not reached the API
          reg,       \* the owner's row of the registry
          pod,       \* the runner Pod
          stops,     \* generation -> its row of runner_termination.stops
          boot,      \* boot ID
          host,      \* "ready", or "starting" until restore and k3s are up
          conv,      \* digest of the conversations
          age,       \* ticks since the last POST
          calls,     \* history: calls of systemctl reboot
          posts      \* history: POSTs by mode

vars == <<lock, run, rec, session, posting, reg, pod, stops, boot, host, conv, age, calls, posts>>
world == <<reg, pod, stops, boot, host, conv, age>>
history == <<calls, posts>>

Open == 255                       \* a record without a result
Codes == {0, 3, 4, 5, 6, 7, 8, 9, 12, 70, 72, 130, Open}
Kinds == {"enter1", "reboot", "observe", "enter2"}
Enters == {"enter1", "enter2"}
GEN1 == GEN0 + 1
GEN2 == GEN0 + 2
Gen(k) == IF k = "enter2" THEN GEN2 ELSE GEN1

NoStop == [asked |-> FALSE, late |-> FALSE, receipt |-> 0, done |-> FALSE, boot |-> 0]
(* BASE_STOP: an idle runner that was drained on the first boot.           *)
ClosedOut == [asked |-> TRUE, late |-> FALSE, receipt |-> 3, done |-> TRUE, boot |-> 1]
Stopped(g) == [phase |-> "idle_stopped", gen |-> g, pod |-> 0]
Resting == [step |-> "idle", script |-> "none", kind |-> "enter1", row |-> "no", answer |-> "none",
            posted |-> FALSE, ticked |-> FALSE, rc |-> 0, code |-> 0]
NoRecord == [made |-> FALSE, result |-> Open, boot |-> 0, pod |-> 0, conv |-> 0, intent |-> FALSE,
             row |-> "no", call |-> Open, chain |-> <<>>, stop |-> NoStop]

StopRows == [asked: BOOLEAN, late: BOOLEAN, receipt: {0, 2, 3}, done: BOOLEAN, boot: 0..MaxBoot]

TypeOK ==
  /\ lock \in Runs \cup {NoOne} /\ posting \subseteq Runs
  /\ run \in [Runs -> [step: {"idle", "locked", "checked", "opened", "session", "posting", "waiting", "polling",
                              "captured", "looked", "intended", "called", "proved", "finish"},
                       script: {"none", "enter", "reboot", "observe"}, kind: Kinds,
                       row: {"no", "unknown", "yes", "gone", "unproved"}, answer: {"none", "ok", "refused"},
                       posted: BOOLEAN, ticked: BOOLEAN, rc: {0, 1}, code: Codes]]
  /\ DOMAIN rec = Kinds
  /\ \A k \in Kinds : /\ rec[k].result \in Codes /\ rec[k].call \in {0, 1, Open}
                      /\ rec[k].boot \in 0..MaxBoot /\ rec[k].stop \in StopRows
  /\ session \in [Runs -> {"none", "pending", "live"}]
  /\ reg \in [phase: {"idle_stopped", "provisioning", "ready", "draining"}, gen: 0..MaxGen, pod: 0..MaxGen]
  /\ pod \in [gen: 0..MaxGen, life: {"absent", "running", "dead"}] /\ stops \in [1..MaxGen -> StopRows]
  /\ boot \in 1..MaxBoot /\ host \in {"ready", "starting"} /\ conv \in 1..2 /\ age \in 0..IdleAfter
  /\ calls \in Nat /\ posts \in [Enters -> Nat]

OwnInit ==
  /\ lock = NoOne /\ run = [p \in Runs |-> Resting] /\ rec = [k \in Kinds |-> NoRecord]
  /\ session = [p \in Runs |-> "none"] /\ posting = {}
  /\ calls = 0 /\ posts = [k \in Enters |-> 0]

Init ==
  /\ OwnInit
  /\ reg = Stopped(GEN0) /\ pod = [gen |-> 0, life |-> "absent"]
  /\ stops = [g \in 1..MaxGen |-> IF g <= GEN0 THEN ClosedOut ELSE NoStop]
  /\ boot = 1 /\ host = "ready" /\ conv = 1 /\ age = 0

-----------------------------------------------------------------------------
(* The guest, the API and the runner controller. *)

(* Less than a tick passes between the final look and the reboot call.     *)
Tick ==
  /\ age < IdleAfter /\ \A p \in Runs : ~run[p].ticked
  /\ age' = age + 1
  /\ run' = [p \in Runs |-> [run[p] EXCEPT !.ticked = run[p].step \in {"looked", "intended"}]]
  /\ UNCHANGED <<lock, rec, session, posting, reg, pod, stops, boot, host, conv, history>>

UserTurn ==
  /\ conv = 1 /\ reg.phase = "ready" /\ pod.life = "running" /\ conv' = 2
  /\ UNCHANGED <<lock, run, rec, session, posting, reg, pod, stops, boot, host, age, history>>

PodRuns ==
  /\ host = "ready" /\ reg.phase = "provisioning"
  /\ reg' = [reg EXCEPT !.phase = "ready", !.pod = reg.gen] /\ pod' = [gen |-> reg.gen, life |-> "running"]
  /\ UNCHANGED <<lock, run, rec, session, posting, stops, boot, host, conv, age, history>>

(* A stop is requested for an idle runner or a dead one; `late` tells      *)
(* whether the intent to reboot was there before.                          *)
StopAsked(late) ==
  /\ host = "ready" /\ reg.phase = "ready" /\ (age = IdleAfter \/ pod.life = "dead")
  /\ reg' = [reg EXCEPT !.phase = "draining"]
  /\ stops' = [stops EXCEPT ![reg.gen] = [NoStop EXCEPT !.asked = TRUE, !.late = late]]
  /\ UNCHANGED <<lock, run, rec, session, posting, pod, boot, host, conv, age, history>>

(* The runner answers with a version 3 receipt; for a dead one the         *)
(* controller writes the version 2 terminal receipt.                       *)
Receipt ==
  /\ host = "ready" /\ reg.phase = "draining" /\ stops[reg.gen].receipt = 0
  /\ stops' = [stops EXCEPT ![reg.gen].receipt = IF pod.life = "running" THEN 3 ELSE 2]
  /\ UNCHANGED <<lock, run, rec, session, posting, reg, pod, boot, host, conv, age, history>>

Released ==
  /\ host = "ready" /\ reg.phase = "draining" /\ stops[reg.gen].receipt # 0
  /\ stops' = [stops EXCEPT ![reg.gen].done = TRUE, ![reg.gen].boot = boot]
  /\ reg' = Stopped(reg.gen) /\ pod' = [gen |-> 0, life |-> "absent"]
  /\ UNCHANGED <<lock, run, rec, session, posting, boot, host, conv, age, history>>

(* The guest restarts, whether the script asked for it or not. *)
Restart ==
  /\ boot < MaxBoot /\ boot' = boot + 1 /\ host' = "starting"
  /\ run' = [p \in Runs |-> Resting] /\ lock' = NoOne /\ posting' = {}
  /\ session' = [p \in Runs |-> IF session[p] = "pending" THEN "none" ELSE session[p]]
  /\ pod' = [pod EXCEPT !.life = IF @ = "running" THEN "dead" ELSE @]
  /\ UNCHANGED <<rec, reg, stops, conv, age, history>>

HostUp ==
  /\ host = "starting" /\ host' = "ready"
  /\ UNCHANGED <<lock, run, rec, session, posting, reg, pod, stops, boot, conv, age, history>>

(* The API takes a POST of a live session; it may refuse any. *)
ApiTakes(p) ==
  /\ p \in posting /\ host = "ready" /\ session[p] = "live" /\ reg.phase = "idle_stopped" /\ reg.gen < MaxGen
  /\ reg' = [phase |-> "provisioning", gen |-> reg.gen + 1, pod |-> 0]
  /\ posting' = posting \ {p} /\ run' = [run EXCEPT ![p].answer = "ok"]
  /\ UNCHANGED <<lock, rec, session, pod, stops, boot, host, conv, age, history>>

ApiRefuses(p) ==
  /\ p \in posting
  /\ posting' = posting \ {p} /\ run' = [run EXCEPT ![p].answer = "refused"]
  /\ UNCHANGED <<lock, rec, session, world, history>>

(* An insert whose result the script never saw commits late, or not. *)
InsertEnds(p) ==
  /\ session[p] = "pending" /\ \E s \in {"live", "none"} : session' = [session EXCEPT ![p] = s]
  /\ UNCHANGED <<lock, run, rec, posting, world, history>>

Expires(p) ==
  /\ session[p] = "live" /\ run[p].step = "idle" /\ session' = [session EXCEPT ![p] = "none"]
  /\ UNCHANGED <<lock, run, rec, posting, world, history>>

Cluster == UserTurn \/ PodRuns \/ Receipt \/ Released \/ HostUp
Requests(p) == ApiTakes(p) \/ ApiRefuses(p) \/ InsertEnds(p) \/ Expires(p)
Environment ==
  \/ Tick \/ Cluster \/ StopAsked(rec.reboot.intent) \/ Restart
  \/ \E p \in Runs : Requests(p)

-----------------------------------------------------------------------------
(* What every script does. *)

at(p, s) == run[p].step = s
Goes(p, s) == run' = [run EXCEPT ![p].step = s]
Ends(p, c) == run' = [run EXCEPT ![p].step = "finish", ![p].code = c]
Record(p) == rec[run[p].kind]
Only(ks) == {k \in Kinds : rec[k].made} = ks

(* Mutant: the lock is not taken. *)
TakeLockFree(p, s) ==
  /\ at(p, "idle") /\ p \notin posting /\ session[p] = "none"
  /\ lock' = p /\ run' = [run EXCEPT ![p] = [Resting EXCEPT !.step = "locked", !.script = s]]
  /\ UNCHANGED <<rec, session, posting, world, history>>

TakeLock(p, s) ==
  /\ at(p, "idle") /\ p \notin posting /\ session[p] = "none"
  /\ lock = NoOne
  /\ lock' = p /\ run' = [run EXCEPT ![p] = [Resting EXCEPT !.step = "locked", !.script = s]]
  /\ UNCHANGED <<rec, session, posting, world, history>>

Gone(p) ==
  /\ run' = [run EXCEPT ![p] = Resting]
  /\ lock' = IF lock = p THEN NoOne ELSE lock

(* A precheck refuses, a signal comes before the record, or the process is *)
(* killed: what it did stays as it is.                                     *)
Killed(p) ==
  /\ ~at(p, "idle") /\ Gone(p)
  /\ UNCHANGED <<rec, session, posting, world, history>>

(* The record directory is made, then run.json is written in it.  When the *)
(* write fails the code is the script's code for an unexpected error.      *)
OpenRecord(p) ==
  /\ at(p, "checked")
  /\ \/ /\ rec' = [rec EXCEPT ![run[p].kind] =
                     [NoRecord EXCEPT !.made = TRUE, !.boot = boot, !.conv = conv]]
        /\ Goes(p, "opened")
     \/ /\ rec' = [rec EXCEPT ![run[p].kind] = [NoRecord EXCEPT !.made = TRUE]]
        /\ Ends(p, CASE run[p].script = "enter" -> 3 [] run[p].script = "reboot" -> 4 [] OTHER -> 6)
  /\ UNCHANGED <<lock, session, posting, world, history>>

(* The last record; a failing write leaves it without a result. *)
Finish(p, c, row) ==
  /\ Gone(p)
  /\ \/ rec' = [rec EXCEPT ![run[p].kind].result = c, ![run[p].kind].row = row]
     \/ rec' = rec

-----------------------------------------------------------------------------
(* w6a2-enter.py *)

(* Mutant: the boot ID is not compared with the one that was proved. *)
ReentryAllowedAnyBoot ==
  /\ Only(Kinds \ {"enter2"})
  /\ rec.enter1.result = 0 /\ rec.observe.result = 0
  /\ rec.observe.chain = <<rec.enter1, rec.reboot>>
  /\ rec.observe.stop = stops[GEN1] /\ reg = Stopped(GEN1)
  /\ conv = rec.observe.conv

(* mode_and_fence for enter2: the chain of records and the proved release. *)
ReentryAllowed ==
  /\ Only(Kinds \ {"enter2"})
  /\ rec.enter1.result = 0 /\ rec.observe.result = 0
  /\ rec.observe.chain = <<rec.enter1, rec.reboot>>
  /\ rec.observe.boot = boot /\ boot # rec.reboot.boot
  /\ rec.observe.stop = stops[GEN1] /\ reg = Stopped(GEN1)
  /\ conv = rec.observe.conv

(* Mutant: the registry alone decides, not the records. *)
EntryAllowedAgain == reg = Stopped(GEN0)

(* mode_and_fence for enter1: no record of this attempt, and FENCE1. *)
EntryAllowed == Only({}) /\ reg = Stopped(GEN0)

(* storage_link, volumes_check: the volumes are the recorded ones, mounted *)
(* from their backing files.                                               *)
VolumesAsRecorded == host = "ready"

(* The precheck of an entry: a quiet owner, no runner Pod, no live session *)
(* of the owner.                                                           *)
CheckEnter(p) ==
  /\ at(p, "locked") /\ run[p].script = "enter"
  /\ VolumesAsRecorded /\ pod.life = "absent" /\ \A q \in Runs : session[q] # "live"
  /\ \/ EntryAllowed /\ run' = [run EXCEPT ![p].step = "checked", ![p].kind = "enter1"]
     \/ ReentryAllowed /\ run' = [run EXCEPT ![p].step = "checked", ![p].kind = "enter2"]
  /\ UNCHANGED <<lock, rec, session, posting, world, history>>

(* The session row is inserted, or the insert's result is unknown. *)
CreateSession(p) ==
  /\ at(p, "opened") /\ run[p].script = "enter" /\ host = "ready"
  /\ \/ /\ session' = [session EXCEPT ![p] = "live"]
        /\ run' = [run EXCEPT ![p].step = "session", ![p].row = "yes"]
     \/ /\ \E s \in {"pending", "live", "none"} : session' = [session EXCEPT ![p] = s]
        /\ run' = [run EXCEPT ![p].step = "finish", ![p].row = "unknown", ![p].code = 4]
  /\ UNCHANGED <<lock, rec, posting, world, history>>

Post(p) ==
  /\ at(p, "session")
  /\ run' = [run EXCEPT ![p].step = "posting", ![p].posted = TRUE]
  /\ posting' = posting \cup {p} /\ age' = 0
  /\ posts' = [posts EXCEPT ![run[p].kind] = @ + 1]
  /\ UNCHANGED <<lock, rec, session, reg, pod, stops, boot, host, conv, calls>>

(* revoke_session deletes the row and looks again; it may fail, with or    *)
(* without the row gone.  A row that is not there yet is not deleted.      *)
Revoking(p) ==
  {<<"gone", IF session[p] = "pending" THEN "pending" ELSE "none">>,
   <<"unproved", session[p]>>, <<"unproved", "none">>}

(* The answer, or a timeout; then the session is revoked, whatever it was. *)
Answered(p) ==
  /\ at(p, "posting")
  /\ \E a \in {run[p].answer, "none"}, r \in Revoking(p) :
       /\ session' = [session EXCEPT ![p] = r[2]]
       /\ run' = [run EXCEPT ![p].row = r[1],
                             ![p].step = IF a = "ok" THEN "waiting" ELSE "finish",
                             ![p].code = CASE a = "ok" -> 0 [] a = "refused" -> 5 [] OTHER -> 6]
  /\ UNCHANGED <<lock, rec, posting, world, history>>

(* wait_pod and prove: the Pod of the new generation runs in time and is   *)
(* what was approved, or the run ends.                                     *)
WaitPod(p) ==
  /\ at(p, "waiting")
  /\ LET g == Gen(run[p].kind)
     IN \/ /\ reg.phase = "ready" /\ reg.gen = g /\ pod = [gen |-> g, life |-> "running"]
           /\ \/ rec' = [rec EXCEPT ![run[p].kind].pod = g] /\ Goes(p, "polling")
              \/ rec' = [rec EXCEPT ![run[p].kind].pod = g] /\ Ends(p, 8)
        \/ rec' = rec /\ Ends(p, 7)
  /\ UNCHANGED <<lock, session, posting, world, history>>

(* health_poll settles, and the conversations are as before. *)
Settle(p) ==
  /\ at(p, "polling")
  /\ \/ conv # Record(p).conv /\ Ends(p, 12)
     \/ conv = Record(p).conv /\ \E c \in {0, 9} : Ends(p, c)
  /\ UNCHANGED <<lock, rec, session, posting, world, history>>

(* A signal, or an error nothing expects: before the POST and after it. *)
EnterBreaks(p) ==
  /\ run[p].script = "enter" /\ run[p].step \in {"opened", "session", "posting", "waiting", "polling"}
  /\ \E c \in {3, 6, 130} : /\ run[p].posted => c = 6
                            /\ at(p, "opened") => c # 6
                            /\ Ends(p, c)
  /\ UNCHANGED <<lock, rec, session, posting, world, history>>

(* Mutant: a row that may be left does not change a passing result. *)
EnterEndsQuietly(p) ==
  /\ at(p, "finish") /\ run[p].script = "enter"
  /\ \E r \in IF run[p].row \in {"yes", "unknown"} THEN Revoking(p) ELSE {<<run[p].row, session[p]>>} :
       /\ session' = [session EXCEPT ![p] = r[2]]
       /\ Finish(p, run[p].code, r[1])
  /\ UNCHANGED <<posting, world, history>>

(* finish: the row is revoked if it was not, and the result is recorded. *)
EnterEnds(p) ==
  /\ at(p, "finish") /\ run[p].script = "enter"
  /\ \E r \in IF run[p].row \in {"yes", "unknown"} THEN Revoking(p) ELSE {<<run[p].row, session[p]>>} :
       /\ session' = [session EXCEPT ![p] = r[2]]
       /\ Finish(p, IF run[p].code = 0 /\ r[1] = "unproved" THEN 70 ELSE run[p].code, r[1])
  /\ UNCHANGED <<posting, world, history>>

Enter(p) ==
  \/ CheckEnter(p) \/ CreateSession(p) \/ Post(p) \/ Answered(p) \/ WaitPod(p) \/ Settle(p)
  \/ EnterBreaks(p) \/ EnterEnds(p)

-----------------------------------------------------------------------------
(* w6a2-reboot.py *)

(* registry_problems and pod_problems: enter1's Pod runs, nothing stops.   *)
RunnerQuiet ==
  /\ reg = [phase |-> "ready", gen |-> GEN1, pod |-> rec.enter1.pod]
  /\ pod = [gen |-> rec.enter1.pod, life |-> "running"] /\ ~stops[GEN1].asked

(* node_check, host_check and restore_check: the storage of every state is *)
(* mounted as recorded and would be restored after a boot.                 *)
HostAsRecorded == host = "ready"

(* time_fence: not later than REBOOT_BOUND after the POST. *)
InsideFence == age <= RebootBound

(* enter1_record: one passing entry, and only the given records. *)
Entered(ks) == Only(ks) /\ rec.enter1.result = 0

(* Mutant: an earlier record of a reboot does not refuse this one. *)
RebootCheckedAgain(p) ==
  /\ at(p, "locked") /\ run[p].script = "reboot"
  /\ rec.enter1.made /\ rec.enter1.result = 0 /\ rec.enter1.boot = boot
  /\ HostAsRecorded /\ RunnerQuiet /\ conv = rec.enter1.conv /\ InsideFence
  /\ run' = [run EXCEPT ![p].step = "checked", ![p].kind = "reboot"]
  /\ UNCHANGED <<lock, rec, session, posting, world, history>>

(* precheck: a passing enter1 and no later record, the same boot, the      *)
(* runner quiet, and inside the time fence.                                *)
CheckReboot(p) ==
  /\ at(p, "locked") /\ run[p].script = "reboot"
  /\ Entered({"enter1"}) /\ rec.enter1.boot = boot
  /\ HostAsRecorded /\ RunnerQuiet /\ conv = rec.enter1.conv /\ InsideFence
  /\ run' = [run EXCEPT ![p].step = "checked", ![p].kind = "reboot"]
  /\ UNCHANGED <<lock, rec, session, posting, world, history>>

(* capture: the journal and logs are saved, which may take long or fail. *)
Capture(p) ==
  /\ at(p, "opened") /\ run[p].script = "reboot"
  /\ \/ Goes(p, "captured")
     \/ \E c \in {4, 130} : Ends(p, c)
  /\ UNCHANGED <<lock, rec, session, posting, world, history>>

(* Mutant: the time fence is checked in the precheck only. *)
FinalLookUnfenced(p) ==
  /\ at(p, "captured")
  /\ \/ RunnerQuiet /\ conv = rec.enter1.conv /\ Goes(p, "looked")
     \/ Ends(p, 5)
  /\ UNCHANGED <<lock, rec, session, posting, world, history>>

(* Signals are ignored from here; everything quick is looked at again. *)
FinalLook(p) ==
  /\ at(p, "captured")
  /\ \/ RunnerQuiet /\ conv = rec.enter1.conv /\ InsideFence /\ Goes(p, "looked")
     \/ Ends(p, 5)
  /\ UNCHANGED <<lock, rec, session, posting, world, history>>

(* The intent is durable before the call. *)
Intend(p) ==
  /\ at(p, "looked")
  /\ \/ rec' = [rec EXCEPT !.reboot.intent = TRUE] /\ Goes(p, "intended")
     \/ /\ \E i \in BOOLEAN : rec' = [rec EXCEPT !.reboot.intent = i]
        /\ Ends(p, 4)
  /\ UNCHANGED <<lock, session, posting, world, history>>

(* `systemctl reboot`, accepted (0) or not (1). *)
CallReboot(p) ==
  /\ at(p, "intended") /\ calls' = calls + 1
  /\ \E rc \in {0, 1} : run' = [run EXCEPT ![p].step = "called", ![p].rc = rc]
  /\ UNCHANGED <<lock, rec, session, posting, world, posts>>

(* Mutant: the result code is the code of the call. *)
RecordCallRaw(p) ==
  /\ at(p, "called")
  /\ rec' = [rec EXCEPT !.reboot.call = run[p].rc] /\ Ends(p, run[p].rc)
  /\ UNCHANGED <<lock, session, posting, world, history>>

(* The call's result is recorded, or its write fails. *)
RecordCall(p) ==
  /\ at(p, "called")
  /\ \/ rec' = [rec EXCEPT !.reboot.call = run[p].rc] /\ Ends(p, IF run[p].rc = 0 THEN 0 ELSE 7)
     \/ rec' = rec /\ Ends(p, IF run[p].rc = 0 THEN 8 ELSE 7)
  /\ UNCHANGED <<lock, session, posting, world, history>>

RebootEnds(p) ==
  /\ at(p, "finish") /\ run[p].script = "reboot" /\ Finish(p, run[p].code, "no")
  /\ UNCHANGED <<session, posting, world, history>>

Reboot(p) ==
  \/ CheckReboot(p) \/ Capture(p) \/ FinalLook(p) \/ Intend(p) \/ CallReboot(p) \/ RecordCall(p)
  \/ RebootEnds(p)

-----------------------------------------------------------------------------
(* w6a2-observe.py *)

(* precheck: an entry that passed, a reboot with an intent and no failed   *)
(* call, and another boot than the intent's.                               *)
CheckObserve(p) ==
  /\ at(p, "locked") /\ run[p].script = "observe"
  /\ Entered({"enter1", "reboot"})
  /\ rec.reboot.intent /\ rec.reboot.call \in {Open, 0} /\ rec.reboot.result \in {Open, 0, 8}
  /\ boot # rec.reboot.boot
  /\ run' = [run EXCEPT ![p].step = "checked", ![p].kind = "observe"]
  /\ UNCHANGED <<lock, rec, session, posting, world, history>>

(* g2: k3s and the node are back, and this boot restored the storage. *)
HostBack == host = "ready"

(* Mutant: a stop with its receipt is taken for a completed one. *)
RecoveredEarly ==
  /\ stops[GEN1].late /\ stops[GEN1].receipt = 2
  /\ conv = rec.reboot.conv

(* g3: the controller's own dead-runner path, completed on this boot. *)
Recovered ==
  /\ stops[GEN1].done /\ stops[GEN1].late /\ stops[GEN1].boot = boot /\ stops[GEN1].receipt = 2
  /\ reg = Stopped(GEN1) /\ pod.life = "absent" /\ conv = rec.reboot.conv

(* What no waiting can make right. *)
Mismatch ==
  \/ reg.gen > GEN1
  \/ stops[GEN1].asked /\ ~stops[GEN1].late
  \/ stops[GEN1].receipt = 3
  \/ stops[GEN1].done /\ stops[GEN1].boot # boot

Observes(p) ==
  /\ at(p, "opened") /\ run[p].script = "observe"
  /\ \/ HostBack /\ Recovered /\ ~Mismatch /\ Goes(p, "proved")
     \/ HostBack /\ Mismatch /\ Ends(p, 6)
     \/ \E c \in {5, 130} : Ends(p, c)
  /\ UNCHANGED <<lock, rec, session, posting, world, history>>

(* The proof is recorded with the hashes of the two earlier records. *)
RecordProof(p) ==
  /\ at(p, "proved")
  /\ \/ /\ rec' = [rec EXCEPT !.observe.chain = <<rec.enter1, rec.reboot>>, !.observe.stop = stops[GEN1],
                              !.observe.conv = rec.reboot.conv]
        /\ Ends(p, 0)
     \/ rec' = rec /\ Ends(p, 9)
  /\ UNCHANGED <<lock, session, posting, world, history>>

ObserveEnds(p) ==
  /\ at(p, "finish") /\ run[p].script = "observe" /\ Finish(p, run[p].code, "no")
  /\ UNCHANGED <<session, posting, world, history>>

Observe(p) == CheckObserve(p) \/ Observes(p) \/ RecordProof(p) \/ ObserveEnds(p)

Step(p) ==
  \/ \E s \in {"enter", "reboot", "observe"} : TakeLock(p, s)
  \/ Killed(p) \/ OpenRecord(p) \/ Enter(p) \/ Reboot(p) \/ Observe(p)

Next == Environment \/ \E p \in Runs : Step(p)

Spec == Init /\ [][Next]_vars

-----------------------------------------------------------------------------
(* Properties of states and, where a variable is primed, of steps. *)

(* Over all runs, interruptions and restarts the guest is asked to reboot  *)
(* at most once (issue61/README.md: "one guest reboot"), and each of the   *)
(* two entries makes at most one POST ("never a second POST").             *)
RebootOnce == calls <= 1
EntriesOnce == \A k \in Enters : posts[k] <= 1

(* At the moment of the call the runner that enter1 started is up and its  *)
(* stop has not been asked for: the drain that runs against the clock      *)
(* cannot have begun (1200 s of the fence against 1800 s).                 *)
RebootUnderQuietRunner == calls' > calls => RunnerQuiet

(* A passing observation stands for a release by the controller itself,    *)
(* after the intent, on a later boot than the one the intent names, and    *)
(* the records it is built on are still the ones it saw.                   *)
PassMeansRecovered ==
  rec.observe.result = 0 =>
    /\ stops[GEN1].done /\ stops[GEN1].receipt = 2 /\ stops[GEN1].late
    /\ stops[GEN1].boot > rec.reboot.boot /\ rec.reboot.intent
    /\ rec.observe.chain = <<rec.enter1, rec.reboot>>

(* The re-entry starts its runner on the boot that was proved. *)
ReentryOnProvedBoot ==
  posts'.enter2 > posts.enter2 => boot = rec.observe.boot /\ boot # rec.reboot.boot

(* An entry that passes has left no session behind. *)
PassLeavesNoSession ==
  \A k \in Enters : rec[k].result = Open /\ rec'[k].result = 0 =>
    \A p \in Runs : session'[p] = "none"

(* A record with a result is never written again ("an attempt is never     *)
(* reused").                                                               *)
RecordsAreFinal == \A k \in Kinds : rec[k].result # Open => rec'[k] = rec[k]

=============================================================================
