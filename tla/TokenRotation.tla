---------------------------- MODULE TokenRotation ----------------------------
(***************************************************************************)
(* The observation that the in-cluster controller goes on working when its *)
(* projected service-account token rotates: issue61/w5-rotation.py.  It    *)
(* only reads; what it must not do is pass for something it did not see,   *)
(* while the kubelet rotates tokens, containers restart, reads are slow    *)
(* and the resident controller may fail.                                   *)
(***************************************************************************)
EXTENDS Naturals

CONSTANTS Wait,          \* the window: 75 minutes, in polls
          MaxClock,      \* bound: the clock, in polls
          MaxTokens,     \* bound: tokens that are issued
          MaxContainers  \* bound: containers of the controller

RotationAssumption ==
  Wait \in Nat /\ MaxClock \in Nat \ {0} /\ MaxTokens \in Nat \ {0} /\ MaxContainers \in Nat \ {0}

VARIABLES
  clock,    \* monotonic time
  jti,      \* the token in the file; tokens are numbered as they are issued
  issued,   \* history: token -> when it appeared, 0 for not yet
  container,\* the resident controller's container
  logged,   \* when the resident last logged reconciliation_required, 0 for never
  stage,    \* how far the script has got
  first,    \* the token and the container of the start, when the window began and the first read returned
  seen,     \* the token of the last read
  proved,   \* what the proof process used: its first look, its calls, its last look
  verdict,  \* the exit code, Running before
  recorded, \* run.json is written
  noted     \* history: what befell the resident from the first read on

rotationVars == << clock, jti, issued, container, logged, stage, first, seen, proved, verdict, recorded, noted >>

Running == 1
Codes   == {0, 3, 4, 5, 6, 7, 8, 9, 130, Running}
ReadToProof == {"poll", "look", "read", "begin", "calls", "last", "pod"}
NoProof == [ before |-> 0, calls |-> {}, after |-> 0 ]

TypeOK ==
  /\ clock \in 1..MaxClock /\ jti \in 1..MaxTokens /\ issued \in [1..MaxTokens -> 0..MaxClock]
  /\ container \in 1..MaxContainers /\ logged \in 0..MaxClock
  /\ stage \in {"precheck", "first", "poll", "look", "read", "begin", "calls", "last", "pod", "log", "record", "done"}
  /\ first \in [ jti : 0..MaxTokens, container : 0..MaxContainers, at : 0..MaxClock, read : 0..MaxClock ]
  /\ seen \in 0..MaxTokens
  /\ proved \in [ before : 0..MaxTokens, calls : SUBSET (1..MaxTokens), after : 0..MaxTokens ]
  /\ verdict \in Codes /\ recorded \in BOOLEAN
  /\ noted \in [ replaced : BOOLEAN, failing : BOOLEAN, late : BOOLEAN ]
  /\ stage = "done" <=> verdict # Running

Init ==
  /\ clock = 1 /\ jti = 1 /\ issued = [t \in 1..MaxTokens |-> IF t = 1 THEN 1 ELSE 0] /\ container = 1 /\ logged = 0
  /\ stage = "precheck" /\ first = [ jti |-> 0, container |-> 0, at |-> 0, read |-> 0 ] /\ seen = 0 /\ proved = NoProof
  /\ verdict = Running /\ recorded = FALSE /\ noted = [ replaced |-> FALSE, failing |-> FALSE, late |-> FALSE ]

-----------------------------------------------------------------------------
(* The cluster: time, the kubelet, the resident controller.                *)

Tick ==
  /\ clock < MaxClock /\ clock' = clock + 1
  /\ UNCHANGED << jti, issued, container, logged, stage, first, seen, proved, verdict, recorded, noted >>

Rotate ==
  /\ jti < MaxTokens /\ jti' = jti + 1 /\ issued' = [issued EXCEPT ![jti + 1] = clock]
  /\ UNCHANGED << clock, container, logged, stage, first, seen, proved, verdict, recorded, noted >>

(* kubectl logs shows the container that runs, not the one before.         *)
RestartContainer ==
  /\ container < MaxContainers /\ container' = container + 1 /\ logged' = 0
  /\ noted' = [noted EXCEPT !.replaced = @ \/ stage \in ReadToProof, !.late = @ \/ stage = "log"]
  /\ UNCHANGED << clock, jti, issued, stage, first, seen, proved, verdict, recorded >>

ResidentFails ==
  /\ logged' = clock /\ noted' = [noted EXCEPT !.failing = @ \/ stage \in ReadToProof \cup {"log"}]
  /\ UNCHANGED << clock, jti, issued, container, stage, first, seen, proved, verdict, recorded >>

-----------------------------------------------------------------------------
(* The script.  Any command may fail; what it looks at may have changed.   *)

Left == first.at + Wait - clock

Ends(code) == verdict' = code /\ stage' = "done"

(* run.json is written at every end but that of a refused precheck; only   *)
(* an end that would pass is changed when it cannot be.                    *)
Stops(codes) ==
  /\ stage \notin {"precheck", "done"} /\ \E code \in codes : Ends(code)
  /\ recorded' \in BOOLEAN
  /\ UNCHANGED << clock, jti, issued, container, logged, first, seen, proved, noted >>

Interrupted == Stops({130})

(* The controller at its recorded identity; the claims start the window.   *)
Precheck ==
  /\ stage = "precheck"
  /\ \/ /\ stage' = "first" /\ first' = [first EXCEPT !.container = container, !.at = clock] /\ UNCHANGED verdict
     \/ Ends(3) /\ UNCHANGED first
  /\ UNCHANGED << clock, jti, issued, container, logged, seen, proved, recorded, noted >>

FirstClaims ==
  /\ stage = "first" /\ stage' = "poll" /\ first' = [first EXCEPT !.jti = jti, !.read = clock] /\ seen' = jti
  /\ UNCHANGED << clock, jti, issued, container, logged, proved, verdict, recorded, noted >>

(* After a sleep of one poll, or of what is left.                          *)
Poll ==
  /\ stage = "poll" /\ Left > 0 /\ stage' = "look"
  /\ UNCHANGED << clock, jti, issued, container, logged, first, seen, proved, verdict, recorded, noted >>

TooLate == stage = "poll" /\ Left <= 0 /\ Stops({5})

(* Mutant: the Pod is the same by its UID.                                 *)
SameByUid == TRUE

Same == container = first.container

SamePod(next) ==
  /\ Same /\ stage' = next
  /\ UNCHANGED << clock, jti, issued, container, logged, first, seen, proved, verdict, recorded, noted >>

Look == stage = "look" /\ SamePod("read")

(* Mutant: the window is not looked at again when the read returns.        *)
InsideWhenAsked == TRUE

(* "judged when the read returned, before any proof".                      *)
Inside == Left >= 0

ReadClaims ==
  /\ stage = "read"
  /\ IF Inside
     THEN /\ seen' = jti /\ stage' = (IF jti # first.jti THEN "begin" ELSE "poll") /\ UNCHANGED << verdict, recorded >>
     ELSE Ends(5) /\ recorded' \in BOOLEAN /\ UNCHANGED seen
  /\ UNCHANGED << clock, jti, issued, container, logged, first, proved, noted >>

(* The proof process looks at the token, makes the controller's own calls, *)
(* each of which reads the file again, and looks once more.                *)
ProofBegins ==
  /\ stage = "begin" /\ stage' = "calls" /\ proved' = [proved EXCEPT !.before = jti]
  /\ UNCHANGED << clock, jti, issued, container, logged, first, seen, verdict, recorded, noted >>

ProofCalls ==
  /\ stage = "calls" /\ proved' = [proved EXCEPT !.calls = @ \cup {jti}]
  /\ stage' \in {"calls", "last"}
  /\ UNCHANGED << clock, jti, issued, container, logged, first, seen, verdict, recorded, noted >>

(* Mutant: the token is compared before the calls only.                    *)
SameTokenBefore(after) == proved.before = seen

(* "both must be the rotated jti"; no retry.                               *)
SameToken(after) == proved.before = seen /\ after = seen

ProofEnds ==
  /\ stage = "last" /\ proved' = [proved EXCEPT !.after = jti]
  /\ IF SameToken(jti) THEN stage' = "pod" /\ UNCHANGED << verdict, recorded >>
     ELSE Ends(6) /\ recorded' \in BOOLEAN
  /\ UNCHANGED << clock, jti, issued, container, logged, first, seen, noted >>

LookAgain == stage = "pod" /\ SamePod("log")

ChangedPod == stage \in {"look", "pod"} /\ ~Same /\ Stops({8})

(* Mutant: the log is read from the rotation on.                           *)
QuietSinceRotation == logged < issued[seen]

(* No reconciliation_required since the first read.                        *)
Quiet == logged < first.read

ReadLog ==
  /\ stage = "log"
  /\ IF Quiet THEN stage' = "record" /\ UNCHANGED << verdict, recorded >> ELSE Ends(4) /\ recorded' \in BOOLEAN
  /\ UNCHANGED << clock, jti, issued, container, logged, first, seen, proved, noted >>

(* Everything passed; it counts only once it is on disk.                   *)
WriteRecord ==
  /\ stage = "record" /\ recorded' \in BOOLEAN /\ Ends(IF recorded' THEN 0 ELSE 9)
  /\ UNCHANGED << clock, jti, issued, container, logged, first, seen, proved, noted >>

(* Lookups and reads that fail: the Pod's, the claims', the proof's.       *)
CommandFails ==
  \/ stage \in {"look", "pod"} /\ Stops({8})
  \/ stage \in {"first", "read"} /\ Stops({7})
  \/ stage \in {"calls", "last", "log"} /\ Stops({4})

-----------------------------------------------------------------------------
Next ==
  \/ Tick \/ Rotate \/ RestartContainer \/ ResidentFails
  \/ Precheck \/ FirstClaims \/ Poll \/ TooLate \/ Look \/ ReadClaims \/ ProofBegins \/ ProofCalls \/ ProofEnds
  \/ LookAgain \/ ChangedPod \/ ReadLog \/ WriteRecord \/ CommandFails \/ Interrupted

Spec == Init /\ [][Next]_rotationVars

-----------------------------------------------------------------------------
(* "success = the controller code succeeds with the rotated jti and the    *)
(* resident process stayed the same": a pass is on disk, its token came    *)
(* after the first read and within the window, and every call was made     *)
(* with it; from the first read to the end of the proof the resident was   *)
(* not replaced, and it logged no failure.  (A failure is missed when the  *)
(* container is replaced after the last look at it, with its log.)         *)
PassWasSeen ==
  verdict = 0 =>
    /\ recorded /\ proved.calls = {seen} /\ seen # first.jti
    /\ issued[seen] >= first.at /\ issued[seen] <= first.at + Wait
    /\ ~noted.replaced /\ (noted.failing => noted.late)
=============================================================================
