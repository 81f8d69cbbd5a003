------------------------------ MODULE EntryGate -----------------------------
(***************************************************************************)
(* The first start of the one runner on the moved binding and the verdict  *)
(* on it: issue61/w4-enter.py, run once, which sends one POST with a       *)
(* session of its own and proves the Pod that comes, and w4-observe.py,    *)
(* which says later whether that Pod was released in time because its      *)
(* authorization was revoked.  The API, the controller and a person act    *)
(* meanwhile; the scripts can be stopped or killed anywhere.               *)
(***************************************************************************)
EXTENDS Naturals

CONSTANTS Interval,  \* the 60 minutes from the Pod's start to the deadline
          MaxHour    \* bound: time

EntryAssumption == Interval \in Nat /\ MaxHour \in Nat \ {0}

Old == 3  \* the generation at the fence
New == 4  \* the one that is entered

VARIABLES
  hour,      \* time
  proper,    \* whether the new generation's Pod resolves to the approved images
  registry,  \* phase and generation
  runner,    \* the Pod: generation (0: none), whether it runs, what /health says, its start
  halt,      \* the stop of the new generation
  talk,      \* the snapshot of every conversation
  row,       \* the session row: none, live, an insert still under way, or one that landed late
  mail,      \* the POST: none, sent, or started and refused when its answer is ready
  entry,     \* the entry script
  file,      \* its run.json
  watch,     \* the observer
  sent       \* history: POSTs

entryVars == << hour, proper, registry, runner, halt, talk, row, mail, entry, file, watch, sent >>
worldVars == << hour, proper, registry, runner, halt, talk >>

NoPod  == [ gen |-> 0, life |-> "none", health |-> "other", start |-> 0 ]
NoHalt == [ asked |-> FALSE, receipt |-> 0, reason |-> "other", verified |-> 0, done |-> 0 ]
NoFile == [ made |-> FALSE, talk |-> 0, post |-> "none", pod |-> 0, deadline |-> 0, proof |-> FALSE, saw |-> "none", result |-> 255 ]
Fresh  == [ step |-> "precheck", opened |-> FALSE, posted |-> FALSE, row |-> "no", code |-> 0 ]
Idle   == [ step |-> "idle", certifies |-> FALSE, found |-> "pending", code |-> 255 ]

Health == {"other", "auth_revoked", "available"}

TypeOK ==
  /\ hour \in 1..MaxHour /\ proper \in BOOLEAN
  /\ registry \in [ phase : {"idle_stopped", "provisioning", "ready", "draining"}, gen : Old..New + 1 ]
  /\ runner \in [ gen : {0, New, New + 1}, life : {"none", "running", "dead"}, health : Health, start : 0..MaxHour ]
  /\ halt \in [ asked : BOOLEAN, receipt : 0..3, reason : Health, verified : 0..MaxHour, done : 0..MaxHour ]
  /\ talk \in 1..2 /\ row \in {"none", "pending", "late", "live"} /\ mail \in {"none", "sent", "accepted", "refused"}
  /\ entry \in [ step : {"precheck", "evidence", "session", "post", "wait", "revoke", "answered", "pod", "proof",
                         "health", "finish", "done"},
                 opened : BOOLEAN, posted : BOOLEAN, row : {"no", "unknown", "yes", "gone", "unproved"},
                 code : {0, 3, 4, 5, 6, 7, 8, 9, 70, 130, 137} ]
  /\ file \in [ made : BOOLEAN, talk : 0..2, post : {"none", "accepted", "refused", "unknown"}, pod : {0, New},
                deadline : 0..MaxHour + Interval, proof : BOOLEAN, saw : {"none", "yes", "no"}, result : {0, 3, 4, 5, 6, 7, 8, 9, 70, 130, 255} ]
  /\ watch \in [ step : {"idle", "state", "pod", "talk", "done"}, certifies : BOOLEAN,
                 found : {"pending", "good", "bad"}, code : {0, 3, 4, 5, 6, 255} ]
  /\ sent \in Nat

Init ==
  /\ hour = 1 /\ proper \in BOOLEAN /\ registry = [ phase |-> "idle_stopped", gen |-> Old ]
  /\ runner = NoPod /\ halt = NoHalt /\ talk = 1 /\ row = "none" /\ mail = "none"
  /\ entry = Fresh /\ file = NoFile /\ watch = Idle /\ sent = 0

-----------------------------------------------------------------------------
(* The cluster and its people.                                             *)

Scripts == << row, mail, entry, file, watch, sent >>

(* Time decides nothing before the new generation's Pod has started.       *)
Tick ==
  /\ hour < MaxHour /\ (runner.start # 0 \/ halt.asked) /\ hour' = hour + 1
  /\ UNCHANGED << proper, registry, runner, halt, talk, Scripts >>

(* A person who logs in meanwhile starts the runner, or has a turn.        *)
Started == registry.phase = "idle_stopped" /\ registry.gen <= New

UserStarts ==
  /\ Started /\ registry' = [ phase |-> "provisioning", gen |-> registry.gen + 1 ]
  /\ UNCHANGED << hour, proper, runner, halt, talk, Scripts >>

UserTurn ==
  /\ registry.phase = "ready" /\ runner.health = "available" /\ talk' = 2
  /\ UNCHANGED << hour, proper, registry, runner, halt, Scripts >>

PodRuns ==
  /\ registry.phase = "provisioning" /\ registry' = [registry EXCEPT !.phase = "ready"]
  /\ runner' = [ gen |-> registry.gen, life |-> "running", health |-> "other", start |-> hour ]
  /\ UNCHANGED << hour, proper, halt, talk, Scripts >>

(* The runner's credentials turn out revoked, or good; before that, or     *)
(* when it fails otherwise, /health says something else.                   *)
Settles ==
  /\ runner.life = "running" /\ runner.health = "other"
  /\ \E h \in Health \ {"other"} : runner' = [runner EXCEPT !.health = h]
  /\ UNCHANGED << hour, proper, registry, halt, talk, Scripts >>

Dies ==
  /\ runner.life = "running" /\ runner' = [runner EXCEPT !.life = "dead"]
  /\ UNCHANGED << hour, proper, registry, halt, talk, Scripts >>

StopAsked ==
  /\ registry = [ phase |-> "ready", gen |-> New ]
  /\ registry' = [registry EXCEPT !.phase = "draining"] /\ halt' = [halt EXCEPT !.asked = TRUE]
  /\ UNCHANGED << hour, proper, runner, talk, Scripts >>

(* An ordinary drain, a terminal receipt for a dead runner, or the third   *)
(* version, which names the failure that /health named.                    *)
Receipt ==
  /\ halt.asked /\ halt.receipt = 0
  /\ halt' = [halt EXCEPT !.receipt = CASE runner.life = "dead" -> 2
                                        [] runner.health = "available" -> 1
                                        [] OTHER -> 3,
                          !.reason = IF runner.life = "dead" THEN "other" ELSE runner.health]
  /\ UNCHANGED << hour, proper, registry, runner, talk, Scripts >>

PodDeleted ==
  /\ halt.receipt # 0 /\ halt.verified = 0 /\ halt' = [halt EXCEPT !.verified = hour] /\ runner' = NoPod
  /\ UNCHANGED << hour, proper, registry, talk, Scripts >>

Released ==
  /\ halt.verified # 0 /\ halt.done = 0 /\ halt' = [halt EXCEPT !.done = hour]
  /\ registry' = [registry EXCEPT !.phase = "idle_stopped"]
  /\ UNCHANGED << hour, proper, runner, talk, Scripts >>

(* The API takes the POST, perhaps long after the script gave it up; its   *)
(* session must still be there.  It may refuse for reasons of its own.     *)
Answered(answer) == mail' = IF entry.step = "wait" THEN answer ELSE "none"

ApiAnswers ==
  /\ mail = "sent"
  /\ \/ /\ row = "live" /\ Answered("accepted")
        /\ registry' = IF Started THEN [ phase |-> "provisioning", gen |-> registry.gen + 1 ] ELSE registry
     \/ Answered("refused") /\ UNCHANGED registry
  /\ UNCHANGED << hour, proper, runner, halt, talk, row, entry, file, watch, sent >>

InsertLands ==
  /\ row = "pending" /\ row' \in {"late", "none"}
  /\ UNCHANGED << worldVars, mail, entry, file, watch, sent >>

-----------------------------------------------------------------------------
(* The entry.                                                              *)

Others == << worldVars, watch >>

To(step) == entry' = [entry EXCEPT !.step = step]

(* Every failure goes to the finish with its code.                         *)
Fails(code) == entry' = [entry EXCEPT !.step = "finish", !.code = code]

(* Mutant: a run that left evidence may be run again.                      *)
FirstRunAny == TRUE

(* "no earlier W4 evidence".                                               *)
FirstRun == ~file.made

(* The runner at its fence, no Pod, no live session, nothing pending.      *)
Precheck ==
  /\ entry.step = "precheck"
  /\ \/ /\ FirstRun /\ registry = [ phase |-> "idle_stopped", gen |-> Old ] /\ runner = NoPod /\ row = "none"
        /\ To("evidence")
     \/ Fails(3)
  /\ UNCHANGED << Others, row, mail, file, sent >>

(* The directory and the snapshot, before anything changes.                *)
OpenEvidence ==
  /\ entry.step = "evidence" /\ entry' = [entry EXCEPT !.step = "session", !.opened = TRUE]
  /\ file' = [NoFile EXCEPT !.made = TRUE, !.talk = talk]
  /\ UNCHANGED << Others, row, mail, sent >>

(* One row, valid one hour.  When the answer is lost it may be there, or   *)
(* come to be there after the script looked for it.                        *)
CreateSession ==
  /\ entry.step = "session"
  /\ \/ row' = "live" /\ entry' = [entry EXCEPT !.step = "post", !.row = "yes"]
     \/ row' \in {"live", "none", "pending"}
        /\ entry' = [entry EXCEPT !.step = "finish", !.row = "unknown", !.code = 4]
  /\ UNCHANGED << Others, mail, file, sent >>

(* The idempotency key is on disk before the one POST.                     *)
Post ==
  /\ entry.step = "post" /\ entry' = [entry EXCEPT !.step = "wait", !.posted = TRUE]
  /\ file' = [file EXCEPT !.post = "unknown"] /\ mail' = "sent" /\ sent' = sent + 1
  /\ UNCHANGED << Others, row >>

(* An answer nobody waits for any more. *)
Forgotten == mail' = IF mail = "sent" THEN "sent" ELSE "none"

(* The answer, or a timeout or lost connection in its place.               *)
Answer ==
  /\ entry.step = "wait"
  /\ \E a \in {"unknown"} \cup ({mail} \cap {"accepted", "refused"}) :
       /\ entry' = [entry EXCEPT !.step = "revoke"] /\ file' = [file EXCEPT !.post = a]
  /\ Forgotten
  /\ UNCHANGED << Others, row, sent >>

(* Mutant: a DELETE that was sent counts as done.                          *)
RevokesUnproved(next) ==
  \E done \in BOOLEAN :
    /\ row' = IF done THEN "none" ELSE row
    /\ entry' = [entry EXCEPT !.row = "gone", !.step = next]

(* DELETE of exactly this row, proved by a count of 0.                     *)
Revokes(next) ==
  \E proof \in BOOLEAN, done \in BOOLEAN :
    /\ proof => done
    /\ row' = IF done /\ row # "pending" THEN "none" ELSE row
    /\ entry' = [entry EXCEPT !.row = IF proof THEN "gone" ELSE "unproved", !.step = next]

Revoke ==
  /\ entry.step = "revoke" /\ Revokes("answered")
  /\ UNCHANGED << Others, mail, file, sent >>

Judge ==
  /\ entry.step = "answered"
  /\ CASE file.post = "unknown" -> Fails(6)
       [] file.post = "refused" -> Fails(5)
       [] file.post = "accepted" -> To("pod")
  /\ UNCHANGED << Others, row, mail, file, sent >>

(* The Pod of the new generation, by the registry.                         *)
NewPod == registry.gen = New /\ runner.gen = New /\ runner.life = "running" /\ registry.phase # "idle_stopped"

WaitPod ==
  /\ entry.step = "pod"
  /\ \/ /\ NewPod /\ To("proof")
        /\ file' = [file EXCEPT !.pod = New, !.deadline = runner.start + Interval]
     \/ Fails(7) /\ UNCHANGED file
  /\ UNCHANGED << Others, row, mail, sent >>

(* Mutant: the images are those the Pod's specification names.             *)
ApprovedBySpec == TRUE

(* The instance, each image through the container runtime, the mounts.     *)
Approved == runner.gen = New /\ runner.life = "running" /\ proper

Prove ==
  /\ entry.step = "proof"
  /\ \/ Approved /\ To("health") /\ file' = [file EXCEPT !.proof = TRUE]
     \/ Fails(8) /\ UNCHANGED file
  /\ UNCHANGED << Others, row, mail, sent >>

RevokedIn(health) == IF health = "auth_revoked" THEN "yes" ELSE "no"

(* Mutant: a health that was read does not matter.                         *)
ExpectedAny(saw) == TRUE

Expected(saw) == saw # "no"

(* /health of this Pod, if it can be read; then the conversations again,   *)
(* whose lookup may fail.                                                  *)
EarlyHealth ==
  /\ entry.step = "health"
  /\ \E saw \in {"none"} \cup (IF runner.gen = New /\ runner.life = "running" THEN {RevokedIn(runner.health)} ELSE {}) :
       /\ file' = [file EXCEPT !.saw = saw]
       /\ \E code \in IF Expected(saw) THEN {0, 9} ELSE {9} : Fails(code)
  /\ UNCHANGED << Others, row, mail, sent >>

(* A signal or an unexpected error, which may come in the middle of the    *)
(* insert, or between the decision to POST and the POST.                   *)
Interrupted ==
  /\ entry.step \notin {"finish", "done"}
  /\ \E begun \in {entry.posted, entry.posted \/ entry.step = "post"} :
     \E code \in IF begun THEN {6} ELSE {3, 130} :
       entry' = [entry EXCEPT !.step = "finish", !.code = code, !.posted = begun,
                              !.row = IF entry.step = "session" THEN "unknown" ELSE @]
  /\ row' \in IF entry.step = "session" THEN {"none", "live", "pending"} ELSE {row}
  /\ Forgotten
  /\ UNCHANGED << Others, file, sent >>

Killed ==
  /\ entry.step # "done" /\ entry' = [entry EXCEPT !.step = "done", !.code = 137, !.row = "no"]
  /\ row' \in IF entry.step = "session" THEN {"none", "live", "pending"} ELSE {row}
  /\ Forgotten
  /\ UNCHANGED << Others, file, sent >>

(* Mutant: the finish revokes what is known to have been created.          *)
LeftOverKnown == {"yes"}

(* A session that may be there is looked for and revoked, on every path.   *)
LeftOver == {"yes", "unknown"}

Clear ==
  /\ entry.step = "finish" /\ entry.row \in LeftOver
  /\ \/ Revokes("finish")
     \/ entry.row = "unknown" /\ row \in {"none", "pending"} /\ entry' = [entry EXCEPT !.row = "gone"] /\ UNCHANGED row
  /\ UNCHANGED << Others, mail, file, sent >>

(* A pass whose session is not proved revoked says so; a result that       *)
(* cannot be written changes nothing.                                      *)
Finish ==
  /\ entry.step = "finish" /\ entry.row \notin LeftOver
  /\ LET code == IF entry.code = 0 /\ entry.row = "unproved" THEN 70 ELSE entry.code
     IN /\ entry' = [entry EXCEPT !.step = "done", !.code = code]
        /\ file' \in IF entry.opened THEN {[file EXCEPT !.result = code], file} ELSE {file}
  /\ UNCHANGED << Others, row, mail, sent >>

(* A second run; once the new generation is there the fence refuses it too. *)
RunAgain ==
  /\ entry.step = "done" /\ registry.gen = Old /\ entry' = Fresh
  /\ UNCHANGED << Others, row, mail, file, sent >>

-----------------------------------------------------------------------------
(* The observer.                                                           *)

Quiet == << worldVars, row, mail, entry, file, sent >>

(* Mutant: a run that proved the Pod certifies, whatever its result.       *)
CertifiesProof == file.proof

(* "failed or incomplete entry evidence never certifies".                  *)
Certifies == file.result \in {0, 70} /\ file.proof /\ file.post = "accepted"

(* Without a Pod on record there is nothing to observe; before the entry   *)
(* has ended its record has no result, which does not certify.             *)
Load ==
  /\ watch.step \in {"idle", "done"} /\ entry.step = "done" /\ file.pod = New
  /\ watch' = [Idle EXCEPT !.step = "state", !.certifies = Certifies]
  /\ UNCHANGED Quiet

(* Mutant: what counts is when the Pod's deletion was verified.            *)
InTimeVerified == halt.verified <= file.deadline

(* "AT OR BEFORE the deadline": the completion and the proof.              *)
InTime == halt.done <= file.deadline /\ halt.verified <= file.deadline

(* Mutant: any receipt of the stop will do.                                *)
ForRevocationAny == halt.receipt # 0

(* The third version's receipt, which names the failure.                   *)
ForRevocation == halt.receipt = 3 /\ halt.reason = "auth_revoked"

(* The stop with the registry, then the Pod, then the conversations; each  *)
(* is a lookup of its own.                                                 *)
ReadState ==
  /\ watch.step = "state"
  /\ watch' = [watch EXCEPT !.step = "pod",
                  !.found = IF halt.done = 0 THEN "pending"
                            ELSE IF ForRevocation /\ InTime /\ registry = [ phase |-> "idle_stopped", gen |-> New ]
                                 THEN "good" ELSE "bad"]
  /\ UNCHANGED Quiet

Spoils(bad) == IF watch.found = "good" /\ bad THEN "bad" ELSE watch.found

ReadPod ==
  /\ watch.step = "pod" /\ watch' = [watch EXCEPT !.step = "talk", !.found = Spoils(runner.gen # 0)]
  /\ UNCHANGED Quiet

Ends(code) == watch' = [Idle EXCEPT !.step = "done", !.code = IF watch.certifies \/ code = 3 THEN code ELSE 6]

(* With --wait, here at any turn, a pending stop is looked at again until   *)
(* the deadline.                                                           *)
Conclude ==
  /\ watch.step = "talk"
  /\ LET found == Spoils(talk # file.talk) IN
     CASE found = "good" -> Ends(0)
       [] found = "bad" -> Ends(4)
       [] found = "pending" -> Ends(5) \/ (hour < file.deadline /\ watch' = [watch EXCEPT !.step = "state"])
  /\ UNCHANGED Quiet

LookupFails ==
  /\ watch.step \in {"state", "pod", "talk"} /\ Ends(3)
  /\ UNCHANGED Quiet

(* Both scripts have ended; what the cluster does next is its own affair.  *)
Rests == entry.step = "done" /\ watch.step \in {"idle", "done"} /\ UNCHANGED entryVars

-----------------------------------------------------------------------------
Next ==
  \/ Tick \/ UserStarts \/ UserTurn \/ PodRuns \/ Settles \/ Dies \/ StopAsked \/ Receipt \/ PodDeleted \/ Released
  \/ ApiAnswers \/ InsertLands
  \/ Precheck \/ OpenEvidence \/ CreateSession \/ Post \/ Answer \/ Revoke \/ Judge \/ WaitPod \/ Prove \/ EarlyHealth
  \/ Interrupted \/ Killed \/ Clear \/ Finish \/ RunAgain
  \/ Load \/ ReadState \/ ReadPod \/ Conclude \/ LookupFails \/ Rests

Spec == Init /\ [][Next]_entryVars

-----------------------------------------------------------------------------
(* "ONE POST": over every run of the script, however each ended.           *)
OnePost == sent <= 1

(* "the session row is revoked right after the POST, on every path": a run *)
(* that was not killed leaves its session only when it says so, or when an *)
(* insert whose answer was lost landed after it was looked for; one that   *)
(* sent the POST leaves none at all.                                       *)
NoSessionIsLeft ==
  entry.step = "done" /\ entry.opened /\ entry.code # 137 /\ entry.row # "unproved" =>
    row # "live" /\ (entry.posted => row = "none")

(* "entered, Pod proved": a pass is one POST that was accepted, and the    *)
(* new generation on the approved images.                                  *)
PassIsEntered ==
  file.result \in {0, 70} => sent = 1 /\ file.post = "accepted" /\ proper /\ registry.gen >= New /\ file.pod = New

(* "R1 done": the Pod that was entered, on the approved images, was        *)
(* released no later than an hour after its start, because its             *)
(* authorization was revoked, and the entry had not seen otherwise.        *)
ReleaseIsTrue ==
  watch.code = 0 =>
    /\ sent = 1 /\ proper /\ file.saw # "no"
    /\ halt.done \in 1..file.deadline /\ halt.verified \in 1..halt.done
    /\ halt.receipt = 3 /\ halt.reason = "auth_revoked"
=============================================================================
