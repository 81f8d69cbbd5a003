--------------------------- MODULE ModelQuarantine ---------------------------
(***************************************************************************)
(* What a runner with a personal managed cache shows of a conversation     *)
(* whose turns may be served by another model (runner/app.py:              *)
(* store_record, quarantine_history, block_model), through refusals, late  *)
(* results, history reads, an operator's release and restarts              *)
(* (runner/auth.py: release_model_block).                                  *)
(*                                                                         *)
(* Original turns live in the native process's history and may appear      *)
(* there after the worker that started them gave up.  A turn of another    *)
(* model is announced by some event, at any time, at the latest by its     *)
(* completion; the worker of another turn, or a history read, may be the   *)
(* one that receives it.                                                   *)
(***************************************************************************)
EXTENDS Naturals

CONSTANT MaxTurn     \* bound: turns started

QuarantineAssumption == MaxTurn \in Nat \ {0}

VARIABLES
  bad,      \* turns that another model serves
  next,     \* the turn that is started next
  orig,     \* turns in the native history
  entry,    \* the conversation's entry of the mapping
  disk,     \* its entry in broker.json
  worker,   \* the step run_turn is at
  reading,  \* a history read: "no", "in flight", or "overtaken" by an admission
  up,       \* the native process serves
  active,   \* the ledger's nativeActive: started and not cleanly closed
  blocked,  \* the runner refuses turns for the model
  noted,    \* model-block.json and the ledger's modelBlocked
  caught    \* history: turns whose own refusal was saved

vars == << bad, next, orig, entry, disk, worker, reading, up, active, blocked, noted, caught >>
native == << bad, next, orig >>

Turns  == 1..MaxTurn
NoBase == {0}        \* modelMismatchBaseline is absent

Fresh == [ state |-> "idle", error |-> "none", cur |-> 0, turns |-> {}, mismatch |-> {},
           base |-> NoBase, verified |-> {} ]

Entries == [ state : {"idle", "running", "failed"}, error : {"none", "model", "other"}, cur : 0..MaxTurn,
             turns : SUBSET Turns, mismatch : SUBSET Turns, base : {NoBase} \cup SUBSET Turns,
             verified : SUBSET Turns ]

TypeOK ==
  /\ bad \subseteq Turns /\ next \in 1..(MaxTurn + 1) /\ orig \subseteq 1..(next - 1)
  /\ {entry, disk} \subseteq Entries
  /\ worker \in {"none", "resume", "sent", "named", "completed", "failed", "ends"}
  /\ reading \in {"no", "in flight", "overtaken"}
  /\ {up, active, blocked, noted} \subseteq BOOLEAN /\ caught \subseteq Turns
  /\ up => active
  /\ blocked = noted
  /\ worker # "none" => up /\ entry.state \in {"running", "idle", "failed"}
  /\ entry.base = NoBase => entry.verified = {} /\ entry.mismatch = {}

Init ==
  /\ bad \in SUBSET Turns /\ next = 1 /\ orig = {}
  /\ entry = Fresh /\ disk = Fresh /\ worker = "none" /\ reading = "no"
  /\ up = TRUE /\ active = TRUE /\ blocked = FALSE /\ noted = FALSE /\ caught = {}

(* What the conversation's reader is given with its assistant's answers.   *)
Shown(e) == e.turns \ e.mismatch

-----------------------------------------------------------------------------
(* The projection.                                                         *)

(* The boundary is frozen once, at the first failed projection.            *)
Base(e) ==
  IF e.base # NoBase THEN e.base
  ELSE IF e.error = "model" THEN e.turns ELSE NoBase

(* Mutant: a history read vouches for what it finds.                       *)
VouchedByRead(e, t, read) == read \ e.mismatch

(* Only the completed turn of the worker itself is vouched for.            *)
Vouched(e, t, read) == {t} \ ({0} \cup e.mismatch)

(* store_record: the original turns as read, those behind the boundary     *)
(* that nobody vouched for without their answers.                          *)
Stored(e, t, read) ==
  LET base     == Base(e)
      verified == e.verified \cup Vouched(e, t, read)
  IN  IF base = NoBase THEN [e EXCEPT !.turns = read]
      ELSE [e EXCEPT !.turns = read, !.base = base, !.verified = verified,
                     !.mismatch = @ \cup (read \ (base \cup verified))]

(* Mutant: nothing is recorded before the history can be read.             *)
QuarantinedLater(e) == e

(* quarantine_history: the safe boundary, before any fallible call.        *)
Quarantined(e) == IF e.base = NoBase THEN [e EXCEPT !.base = e.turns] ELSE e

(* The entry is written, or the write fails and memory is ahead of it.     *)
Save ==
  \/ disk' = entry' /\ caught' = IF entry'.error = "model" THEN caught \cup ({entry'.cur} \ {0}) ELSE caught
  \/ UNCHANGED << disk, caught >>

Unsaved == UNCHANGED << disk, caught >>

(* block_model: in memory, in model-block.json and in the ledger.          *)
Block == blocked' = TRUE /\ noted' = TRUE

-----------------------------------------------------------------------------
(* The native process.                                                     *)

TurnAppears ==
  /\ up /\ \E t \in 1..(next - 1) : t \notin orig /\ orig' = orig \cup {t}
  /\ UNCHANGED << bad, next, entry, disk, worker, reading, up, active, blocked, noted, caught >>

(* An event that names another model.                                      *)
Announced == orig \cap bad # {}

-----------------------------------------------------------------------------
(* A turn: accept and run_turn.                                            *)

(* Mutant: the new request starts from a new record.                       *)
CarriedAfresh(e) == [e EXCEPT !.base = NoBase, !.verified = {}, !.mismatch = {}]

(* The record goes over to the next request's entry; its error does not.   *)
Carried(e) == e

Accept ==
  /\ up /\ ~blocked /\ worker = "none" /\ next <= MaxTurn
  /\ entry' = [Carried(entry) EXCEPT !.state = "running", !.error = "none", !.cur = 0]
  /\ disk' = entry' /\ worker' = "resume"
  /\ reading' = IF reading = "no" THEN "no" ELSE "overtaken"
  /\ UNCHANGED << native, up, active, blocked, noted, caught >>

(* The thread is resumed, once no history read holds the protocol, and     *)
(* turn/start is sent.                                                     *)
SendTurn ==
  /\ worker = "resume" /\ reading = "no"
  /\ next' = next + 1 /\ entry' = [entry EXCEPT !.cur = next] /\ worker' = "sent"
  /\ disk' = entry
  /\ UNCHANGED << bad, orig, reading, up, active, blocked, noted, caught >>

Named ==
  /\ worker = "sent" /\ entry.cur \in orig /\ worker' = "named"
  /\ disk' = entry
  /\ UNCHANGED << native, entry, reading, up, active, blocked, noted, caught >>

Completes ==
  /\ worker = "named" /\ entry.cur \notin bad
  /\ entry' = [entry EXCEPT !.state = "idle"] /\ worker' = "completed" /\ Unsaved
  /\ UNCHANGED << native, reading, up, active, blocked, noted >>

(* The worker receives an event of another model, of its own turn or of an *)
(* earlier one; or thread/resume answers with another model.               *)
Refused ==
  /\ \/ worker \in {"sent", "named", "completed"} /\ Announced
     \/ worker = "resume" /\ reading = "no"
  /\ Block /\ worker' = "failed" /\ Unsaved
  /\ entry' = Quarantined([entry EXCEPT !.state = "failed", !.error = "model"])
  /\ UNCHANGED << native, reading, up, active >>

(* Any other failure: silence, an error of the turn, a lost thread.        *)
FailsOtherwise ==
  /\ worker \in {"resume", "sent", "named", "completed"} /\ (worker = "resume" => reading = "no")
  /\ entry' = [entry EXCEPT !.state = "failed", !.error = "other"] /\ worker' = "failed" /\ Unsaved
  /\ UNCHANGED << native, reading, up, active, blocked, noted >>

(* The history is read at the end of the turn; after a failure the read    *)
(* may fail too, and an announcement that it meets is only blocked on.     *)
Projects ==
  /\ \/ worker = "completed" /\ entry' = Stored(entry, entry.cur, orig) /\ UNCHANGED << blocked, noted >>
     \/ worker = "failed" /\ entry' = Stored(entry, 0, orig) /\ UNCHANGED << blocked, noted >>
     \/ worker = "failed" /\ UNCHANGED << entry, blocked, noted >>
     \/ worker = "failed" /\ Announced /\ Block /\ UNCHANGED entry
  /\ worker' = "ends" /\ Unsaved
  /\ UNCHANGED << native, reading, up, active >>

Ends ==
  /\ worker = "ends" /\ worker' = "none" /\ UNCHANGED entry /\ Save
  /\ UNCHANGED << native, reading, up, active, blocked, noted >>

-----------------------------------------------------------------------------
(* A history read: read.                                                   *)

ReadBegins ==
  /\ up /\ worker = "none" /\ reading = "no" /\ entry.state # "running" /\ next > 1
  /\ reading' = "in flight"
  /\ UNCHANGED << native, entry, disk, worker, up, active, blocked, noted, caught >>

ReadEnds ==
  /\ reading # "no" /\ reading' = "no"
  /\ \/ reading = "in flight" /\ entry' = Stored(entry, 0, orig) /\ Save /\ UNCHANGED << blocked, noted >>
     \/ reading = "overtaken" /\ UNCHANGED entry /\ Unsaved /\ UNCHANGED << blocked, noted >>
     \/ Announced /\ Block /\ UNCHANGED entry /\ Unsaved
  /\ UNCHANGED << native, worker, up, active >>

-----------------------------------------------------------------------------
(* Ends and starts of the process.                                         *)

(* A quiet process closes cleanly and the ledger says so.                  *)
ClosesCleanly ==
  /\ up /\ worker = "none" /\ up' = FALSE /\ active' = FALSE /\ reading' = "no"
  /\ UNCHANGED << native, entry, disk, worker, blocked, noted, caught >>

(* A crash, or a close that is not clean: nativeActive stays.              *)
Crash ==
  /\ up /\ up' = FALSE /\ worker' = "none" /\ reading' = "no"
  /\ UNCHANGED << native, entry, disk, active, blocked, noted, caught >>

(* attach refuses a cache that was not closed; broker.json is loaded.      *)
Starts ==
  /\ ~up /\ ~active /\ up' = TRUE /\ active' = TRUE
  /\ entry' = [disk EXCEPT !.state = IF @ = "running" THEN "failed" ELSE @]
  /\ disk' = entry' /\ blocked' = noted
  /\ UNCHANGED << native, worker, reading, noted, caught >>

(* The operator's release removes the block and nothing else.              *)
Release ==
  /\ ~up /\ ~active /\ noted /\ noted' = FALSE /\ blocked' = FALSE
  /\ UNCHANGED << native, entry, disk, worker, reading, up, active, caught >>

(* A cache that was not closed is left for a person to reconcile.          *)
Wedged == ~up /\ active /\ UNCHANGED vars

Next ==
  \/ TurnAppears
  \/ Accept \/ SendTurn \/ Named \/ Completes \/ Refused \/ FailsOtherwise \/ Projects \/ Ends
  \/ ReadBegins \/ ReadEnds
  \/ ClosesCleanly \/ Crash \/ Starts \/ Release \/ Wedged

Spec == Init /\ [][Next]_vars

-----------------------------------------------------------------------------
(* A turn whose worker refused it for its model, once that is saved, is    *)
(* never shown with an answer: "quarantine survive[s] successful new       *)
(* requests", late results, repeated reads, an operator's release and      *)
(* restarts (PERSONAL-CODEX-TEST.md:97).                                   *)
QuarantineHolds == caught \cap (Shown(entry) \cup Shown(disk)) = {}

(* "Previous normal turns are preserved" (PERSONAL-CODEX-TEST.md:91): what *)
(* a running process has shown it goes on showing.                         *)
ShownIsKept == [][ up /\ up' => Shown(entry) \subseteq Shown(entry') ]_vars

(* "allowing a newly verified normal turn" (PERSONAL-CODEX-TEST.md:93): a  *)
(* turn that completed is shown when its worker ends, whatever was         *)
(* quarantined before it.                                                  *)
CompletedIsShown == worker = "ends" /\ entry.state = "idle" => entry.cur \in Shown(entry)
=============================================================================
