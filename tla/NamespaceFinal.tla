--------------------------- MODULE NamespaceFinal ---------------------------
(***************************************************************************)
(* issue61/w1c-finalize-ns.py: one namespace that its controller cannot    *)
(* finish, because an aggregated API gives no discovery, is finalized by   *)
(* hand after every kind of object was listed empty.  Its content can only *)
(* go while it is Terminating; the controller may finish it first, and     *)
(* others may then make a namespace of the same name.                      *)
(***************************************************************************)
EXTENDS Naturals, FiniteSets

CONSTANTS Kinds,     \* the kinds of objects that the API stores
          MaxVersion \* bound: resource versions of the namespace

(* The metrics API stores no objects: it is none of the kinds.             *)
NamespaceAssumption == MaxVersion \in Nat \ {0} /\ "metrics" \notin Kinds

VARIABLES
  space,    \* the namespace of that name: UID (0: none, 1: ours, 2: another), version, what its status says
  holds,    \* the kinds that have an object in it
  failing,  \* the kinds whose discovery fails, and "metrics", which stores nothing
  pass,     \* the script: step, the version it read, kinds listed, exit code
  wrote     \* history: the script's PUT was applied

spaceVars == << space, holds, failing, pass, wrote >>
NoCode == 1

TypeOK ==
  /\ space \in [ uid : 0..2, version : 0..MaxVersion, settled : BOOLEAN, blind : SUBSET (Kinds \cup {"metrics"}) ]
  /\ holds \subseteq Kinds /\ failing \subseteq Kinds \cup {"metrics"}
  /\ pass \in [ step : {"idle", "list", "put", "sent", "gone"}, version : 0..MaxVersion,
                listed : SUBSET (Kinds \cup {"metrics"}), code : {NoCode, 0, 3, 5, 8} ]
  /\ wrote \in BOOLEAN

Init ==
  /\ space = [ uid |-> 1, version |-> 1, settled |-> FALSE, blind |-> {} ]
  /\ holds \in SUBSET Kinds /\ failing \in SUBSET (Kinds \cup {"metrics"})
  /\ pass = [ step |-> "idle", version |-> 0, listed |-> {}, code |-> NoCode ] /\ wrote = FALSE

-----------------------------------------------------------------------------
(* The namespace controller, the API server and others.                    *)

ContentGoes ==
  /\ space.uid # 0 /\ \E k \in holds : holds' = holds \ {k}
  /\ UNCHANGED << space, failing, pass, wrote >>

(* It writes the conditions; they tell of one earlier look, of the kinds   *)
(* that were not failing.                                                  *)
StatusWritten ==
  /\ space.uid = 1 /\ space.version < MaxVersion
  /\ space' = [space EXCEPT !.version = @ + 1, !.settled = (holds \ failing = {}), !.blind = failing]
  /\ UNCHANGED << holds, failing, pass, wrote >>

DiscoveryChanges ==
  /\ \E k \in Kinds \cup {"metrics"} : failing' = IF k \in failing THEN failing \ {k} ELSE failing \cup {k}
  /\ UNCHANGED << space, holds, pass, wrote >>

(* With discovery whole again, the controller finishes by itself.          *)
ControllerFinalizes ==
  /\ space.uid = 1 /\ failing = {} /\ holds = {} /\ space' = [space EXCEPT !.uid = 0]
  /\ UNCHANGED << holds, failing, pass, wrote >>

OthersCreate ==
  /\ space.uid = 0 /\ space.version < MaxVersion
  /\ space' = [ uid |-> 2, version |-> space.version + 1, settled |-> FALSE, blind |-> {} ] /\ holds' \in SUBSET Kinds
  /\ UNCHANGED << failing, pass, wrote >>

-----------------------------------------------------------------------------
Goes(step) == pass' = [pass EXCEPT !.step = step]
Ends(code) == pass' = [pass EXCEPT !.step = "idle", !.code = code]
World == << space, holds, failing, wrote >>

(* The status says that it is empty, and of all but the metrics.           *)
Tells == space.settled /\ space.blind \subseteq {"metrics"}

(* Exactly this UID, Terminating, and such a status.                       *)
Precheck ==
  /\ pass.step = "idle" /\ pass.code = NoCode
  /\ IF space.uid = 1 /\ Tells
     THEN pass' = [pass EXCEPT !.step = "list", !.version = space.version]
     ELSE Ends(3)
  /\ UNCHANGED World

(* Only the metrics API, which stores no objects, may fail.                *)
Lists(k) ==
  IF k \in failing THEN (IF k = "metrics" THEN "skipped" ELSE "refused")
  ELSE IF k \in holds THEN "refused" ELSE "empty"

(* Every listable kind in turn; then at least one was listed.              *)
Enumerate ==
  /\ pass.step = "list"
  /\ LET left == (Kinds \cup {"metrics"}) \ pass.listed IN
       IF left = {} THEN Goes("put")
       ELSE \E k \in left : IF Lists(k) = "refused" THEN Ends(3) ELSE pass' = [pass EXCEPT !.listed = @ \cup {k}]
  /\ UNCHANGED World

(* Mutant: the object is sent without its version.                         *)
AcceptedByName == space.uid # 0

(* "uid and resourceVersion stay as read: the API refuses a changed        *)
(* object".                                                                *)
Accepted == space.uid = 1 /\ space.version = pass.version

(* The PUT may be applied although its answer is lost.                     *)
Finalize ==
  /\ pass.step = "put"
  /\ \/ Accepted /\ space' = [space EXCEPT !.uid = 0] /\ holds' = {} /\ wrote' = TRUE /\ Goes("gone")
     \/ Accepted /\ space' = [space EXCEPT !.uid = 0] /\ holds' = {} /\ wrote' = TRUE /\ Ends(5)
     \/ Ends(5) /\ UNCHANGED << space, holds, wrote >>
  /\ UNCHANGED failing

(* Mutant: an answer to the PUT is proof enough.                           *)
PostcheckTrusting == Ends(0)

(* Absent is done; present, another or a failed lookup is not, and neither *)
(* is an unexpected error.                                                 *)
Postcheck == (space.uid = 0 /\ Ends(0)) \/ Ends(8) \/ Ends(5)

Gone == pass.step = "gone" /\ Postcheck /\ UNCHANGED World

(* A listing that fails, is paginated or malformed; an unexpected error.   *)
Errs == pass.step = "list" /\ Ends(3) /\ UNCHANGED World

Rests == pass.code # NoCode /\ UNCHANGED spaceVars

-----------------------------------------------------------------------------
Next ==
  \/ ContentGoes \/ StatusWritten \/ DiscoveryChanges \/ ControllerFinalizes \/ OthersCreate
  \/ Precheck \/ Enumerate \/ Finalize \/ Gone \/ Errs \/ Rests

Spec == Init /\ [][Next]_spaceVars

-----------------------------------------------------------------------------
(* What is finalized by hand is the namespace that was read, and nothing   *)
(* is left in it: each kind was listed at its own moment, which is enough  *)
(* because a Terminating namespace gains no objects.                       *)
OnlyTheEmptyOne == [][~wrote /\ wrote' => space.uid = 1 /\ holds = {}]_spaceVars

(* "3 precheck refused, nothing changed", "0 finalized and gone".          *)
CodesAreMeant ==
  [][/\ pass'.code = 3 => ~wrote'
     /\ pass.code = NoCode /\ pass'.code = 0 => wrote /\ space.uid = 0]_spaceVars
=============================================================================
