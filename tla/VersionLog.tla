----------------------------- MODULE VersionLog -----------------------------
(***************************************************************************)
(* What the research store promises its writers: each item is a log to     *)
(* which a version is only ever appended, by somebody who had the last     *)
(* entry in front of them, and which an archive closes for good.  Nothing  *)
(* is said of drafts, proposals, revisions or version tokens: those are    *)
(* how module DocumentWriting (and PostWriting) keeps the promise.         *)
(***************************************************************************)
EXTENDS Naturals

CONSTANT Items

VARIABLES length,  \* entries in each log
          closed,  \* the logs no more is appended to
          newest   \* what the writer of the last entry knew: its predecessor

logVars == << length, closed, newest >>

LogInit ==
  /\ length = [i \in Items |-> 0]
  /\ closed = {}
  /\ newest = [i \in Items |-> 0]

LogAppend(i) ==
  /\ i \notin closed
  /\ length' = [length EXCEPT ![i] = @ + 1]
  /\ newest' = [newest EXCEPT ![i] = length[i]]
  /\ UNCHANGED closed

LogClose(i) ==
  /\ i \notin closed
  /\ length[i] > 0
  /\ closed' = closed \cup {i}
  /\ UNCHANGED << length, newest >>

LogNext == \E i \in Items : LogAppend(i) \/ LogClose(i)

LogSpec == LogInit /\ [][LogNext]_logVars
=============================================================================
