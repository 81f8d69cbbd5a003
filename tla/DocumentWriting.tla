-------------------------- MODULE DocumentWriting ---------------------------
(***************************************************************************)
(* One owner's documents, their drafts and Codex's proposals               *)
(* (app/research.py, app/writing.py, app/document_proposals.py).           *)
(*                                                                         *)
(* Every mutation takes the owner's graph lock first, so each is one step. *)
(* What makes them hard is that their callers are tabs and tools holding   *)
(* old copies: every version, revision or head a request names is any      *)
(* value that was once current.  A version is a log entry that remembers   *)
(* where it came from instead of its text.                                 *)
(***************************************************************************)
EXTENDS Naturals, Sequences, FiniteSets

CONSTANTS Docs, Drafts, Proposals,
          None,         \* no document, draft or resolved version
          MaxVersion,   \* bound: an item's version
          MaxRevision   \* bound: a draft's revision

ASSUME WritingAssumption ==
  /\ None \notin Docs \cup Drafts \cup Proposals
  /\ Drafts \cap Proposals = {}   \* rows of two tables
  /\ MaxVersion \in Nat \ {0}
  /\ MaxRevision \in Nat \ {0}

VARIABLES
  items,      \* research.items of kind document, with their research.versions
  drafts,     \* research.document_drafts
  proposals   \* research.document_proposals

vars == << items, drafts, proposals >>

(* log[n]: content version n.  basis is the content version its writer had *)
(* in front of them; from the draft or proposal whose row made it; closes  *)
(* the draft finished with it; seen the draft revision the writer named    *)
(* and held the one the store had.                                         *)
(* headAt[v]: the content version that was last when the item's version    *)
(* was v, which is what a tab that loaded version v shows.                 *)
NoItem     == [ version |-> 0, archived |-> FALSE, log |-> << >>, headAt |-> << >> ]
NoDraft    == [ state |-> "none", doc |-> None, revision |-> 0, base |-> 0, baseHead |-> 0 ]
NoProposal == [ status |-> "none", doc |-> None, version |-> 0, base |-> 0,
                baseHead |-> 0, accepted |-> 0 ]

Entries == [ basis : Nat, from : Drafts \cup Proposals \cup {None},
             closes : Drafts \cup {None}, seen : Nat, held : Nat ]

DraftStates      == { "none", "active", "committed", "discarded" }
ProposalStatuses == { "none", "pending", "accepted", "discarded" }

TypeOK ==
  /\ items \in [Docs -> [version : Nat, archived : BOOLEAN, log : Seq(Entries), headAt : Seq(Nat)]]
  /\ drafts \in [Drafts -> [state : DraftStates, doc : Docs \cup {None}, revision : Nat,
                            base : Nat, baseHead : Nat]]
  /\ proposals \in [Proposals -> [status : ProposalStatuses, doc : Docs \cup {None}, version : Nat,
                                  base : Nat, baseHead : Nat, accepted : Nat]]

Init ==
  /\ items = [d \in Docs |-> NoItem]
  /\ drafts = [r \in Drafts |-> NoDraft]
  /\ proposals = [p \in Proposals |-> NoProposal]

-----------------------------------------------------------------------------
Exists(d)  == items[d].version > 0

(* Mutant: an archived document still counts as active.                    *)
ActiveArchived(d) == Exists(d)

Active(d)  == Exists(d) /\ ~items[d].archived
HeadOf(d)    == Len(items[d].log)
Current(d) == { r \in Drafts : drafts[r].state = "active" /\ drafts[r].doc = d }

(* Expected version numbers a tab or tool may still hold.                  *)
Held(d) == 1..items[d].version

Direct(basis)      == [ basis |-> basis, from |-> None, closes |-> None, seen |-> 0, held |-> 0 ]
Text(basis, p, r, seen) ==
  [ basis |-> basis, from |-> p, closes |-> r, seen |-> seen,
    held |-> IF r = None THEN 0 ELSE drafts[r].revision ]

(* change_item: the item's version and its content number both move.       *)
Appended(row, entry) ==
  [ row EXCEPT !.version = @ + 1, !.log = Append(@, entry),
               !.headAt = Append(@, Len(row.log) + 1) ]

(* Its archiving and its publications move the version alone.              *)
Moved(row) == [ row EXCEPT !.version = @ + 1, !.headAt = Append(@, Len(row.log)) ]

(* Mutant: the state is written under a name the schema does not know.     *)
FinishedClosed(row, state) == [ row EXCEPT !.state = "closed", !.revision = @ + 1 ]

Finished(row, state) == [ row EXCEPT !.state = state, !.revision = @ + 1 ]

-----------------------------------------------------------------------------
CreateItem(d) ==
  /\ ~Exists(d)
  /\ items' = [items EXCEPT ![d] = Appended(@, Direct(0))]
  /\ UNCHANGED << drafts, proposals >>

ExpectVersion(d, expected) == items[d].version = expected

ChangeItem(d, expected) ==
  /\ Active(d) /\ items[d].version < MaxVersion
  /\ ExpectVersion(d, expected)
  /\ items' = [items EXCEPT ![d] = Appended(@, Direct(items[d].headAt[expected]))]
  /\ UNCHANGED << drafts, proposals >>

ArchiveItem(d, expected) ==
  /\ Active(d) /\ items[d].version < MaxVersion
  /\ ExpectVersion(d, expected)
  /\ items' = [items EXCEPT ![d] = [Moved(@) EXCEPT !.archived = TRUE]]
  /\ UNCHANGED << drafts, proposals >>

(* Publishing and withdrawing move the item's version, not its content.    *)
(* (Module Publication has what they publish.)  Withdrawing is possible on *)
(* an archived document.                                                   *)
PublicationMoved(d, expected) ==
  /\ Exists(d) /\ items[d].version < MaxVersion
  /\ ExpectVersion(d, expected)
  /\ items' = [items EXCEPT ![d] = Moved(@)]
  /\ UNCHANGED << drafts, proposals >>

-----------------------------------------------------------------------------
CreateNewDraft(r) ==
  /\ drafts[r].state = "none"
  /\ drafts' = [drafts EXCEPT ![r] = [NoDraft EXCEPT !.state = "active", !.revision = 1]]
  /\ UNCHANGED << items, proposals >>

(* Mutant: the active draft is looked for among committed ones.            *)
NoCommittedDraft(d) == { r \in Drafts : drafts[r].state = "committed" /\ drafts[r].doc = d } = {}

NoActiveDraft(d) == Current(d) = {}

CreateDraft(r, d, expected, baseHead) ==
  /\ drafts[r].state = "none"
  /\ Active(d) /\ NoActiveDraft(d)
  /\ ExpectVersion(d, expected)
  /\ HeadOf(d) = baseHead
  /\ drafts' = [drafts EXCEPT ![r] = [ state |-> "active", doc |-> d, revision |-> 1,
                                       base |-> expected, baseHead |-> baseHead ]]
  /\ UNCHANGED << items, proposals >>

(* Mutant: a closed draft is taken for an open one.                        *)
CheckRevision(r, revision) == drafts[r].state # "none" /\ drafts[r].revision = revision

CheckDraft(r, revision) == drafts[r].state = "active" /\ drafts[r].revision = revision

SaveDraft(r, revision) ==
  /\ CheckDraft(r, revision) /\ drafts[r].revision < MaxRevision
  /\ drafts[r].doc # None => Active(drafts[r].doc)
  /\ drafts' = [drafts EXCEPT ![r].revision = @ + 1]
  /\ UNCHANGED << items, proposals >>

DiscardDraft(r, revision) ==
  /\ CheckDraft(r, revision)
  /\ drafts' = [drafts EXCEPT ![r] = Finished(@, "discarded")]
  /\ UNCHANGED << items, proposals >>

CommitNewDraft(r, revision, d) ==
  /\ CheckDraft(r, revision)
  /\ drafts[r].doc = None /\ ~Exists(d)
  /\ items' = [items EXCEPT ![d] = Appended(@, Text(0, r, r, revision))]
  /\ drafts' = [drafts EXCEPT ![r] = Finished([@ EXCEPT !.doc = d, !.base = 1, !.baseHead = 1], "committed")]
  /\ UNCHANGED proposals

(* Mutant: an unresolved base is let through when no resolution is named.  *)
BaseUnchecked(r, resolved) == resolved \in {0, HeadOf(drafts[r].doc)}

(* The draft was begun on what is still there, or its writer names the     *)
(* current head as the version the conflict was resolved against.          *)
BaseHolds(r, resolved) ==
  LET d == drafts[r].doc IN
  IF items[d].version # drafts[r].base \/ HeadOf(d) # drafts[r].baseHead
  THEN resolved = HeadOf(d)
  ELSE resolved \in {0, HeadOf(d)}

CommitDraft(r, revision, expected, resolved) ==
  LET d == drafts[r].doc IN
  /\ CheckDraft(r, revision)
  /\ d # None
  /\ Active(d) /\ items[d].version < MaxVersion
  /\ ExpectVersion(d, expected)
  /\ BaseHolds(r, resolved)
  /\ items' = [items EXCEPT ![d] =
       Appended(@, Text(IF resolved = 0 THEN drafts[r].baseHead ELSE resolved, r, r, revision))]
  /\ drafts' = [drafts EXCEPT ![r] = Finished(@, "committed")]
  /\ UNCHANGED proposals

-----------------------------------------------------------------------------
CreateProposal(p, d, expected) ==
  /\ proposals[p].status = "none"
  /\ Active(d) /\ ExpectVersion(d, expected)
  /\ proposals' = [proposals EXCEPT ![p] =
       [ status |-> "pending", doc |-> d, version |-> 1, base |-> items[d].version,
         baseHead |-> HeadOf(d), accepted |-> 0 ]]
  /\ UNCHANGED << items, drafts >>

CreateNewProposal(p) ==
  /\ proposals[p].status = "none"
  /\ proposals' = [proposals EXCEPT ![p] = [NoProposal EXCEPT !.status = "pending", !.version = 1]]
  /\ UNCHANGED << items, drafts >>

(* Mutant: only the proposal's version is compared, against any it had.    *)
OpenOnce(p, version) == proposals[p].status # "none" /\ version <= proposals[p].version

Open(p, version) == proposals[p].status = "pending" /\ proposals[p].version = version

DiscardProposal(p, version) ==
  /\ Open(p, version)
  /\ proposals' = [proposals EXCEPT ![p].status = "discarded", ![p].version = @ + 1]
  /\ UNCHANGED << items, drafts >>

(* Mutant: the draft's revision goes unchecked.                            *)
PairedUnchecked(d, r, revision) ==
  IF Current(d) = {} THEN r = None ELSE r \in Current(d)

(* The current draft is closed by the acceptance, and only if the request  *)
(* names it at its revision; a draft that is gone may not be named.        *)
Paired(d, r, revision) ==
  IF Current(d) = {} THEN r = None
  ELSE r \in Current(d) /\ CheckDraft(r, revision)

AcceptProposal(p, version, expected, resolved, r, revision) ==
  LET d == proposals[p].doc IN
  /\ Open(p, version)
  /\ d # None
  /\ Active(d) /\ items[d].version < MaxVersion
  /\ ExpectVersion(d, expected)
  /\ HeadOf(d) = resolved
  /\ Paired(d, r, revision)
  /\ items' = [items EXCEPT ![d] = Appended(@, Text(resolved, p, r, revision))]
  /\ drafts' = IF r = None THEN drafts ELSE [drafts EXCEPT ![r] = Finished(@, "committed")]
  /\ proposals' = [proposals EXCEPT ![p].status = "accepted", ![p].version = @ + 1,
                                    ![p].accepted = HeadOf(d) + 1]

AcceptNewProposal(p, version, r, revision, d) ==
  /\ Open(p, version)
  /\ proposals[p].doc = None /\ ~Exists(d)
  /\ r # None => CheckDraft(r, revision) /\ drafts[r].doc = None
  /\ items' = [items EXCEPT ![d] = Appended(@, Text(0, p, r, revision))]
  /\ drafts' = IF r = None THEN drafts
               ELSE [drafts EXCEPT ![r] = Finished([@ EXCEPT !.doc = d, !.base = 1, !.baseHead = 1],
                                                   "committed")]
  /\ proposals' = [proposals EXCEPT ![p] = [ status |-> "accepted", doc |-> d, version |-> @.version + 1,
                                             base |-> 1, baseHead |-> 1, accepted |-> 1 ]]

-----------------------------------------------------------------------------
(* The requests: what each names is current, or was.                       *)
ItemRequest ==
  \E d \in Docs :
    \/ CreateItem(d)
    \/ \E v \in Held(d) : ChangeItem(d, v) \/ ArchiveItem(d, v) \/ PublicationMoved(d, v)

DraftRequest ==
  \E r \in Drafts :
    \/ CreateNewDraft(r)
    \/ \E d \in Docs : \E v \in Held(d), h \in 1..HeadOf(d) : CreateDraft(r, d, v, h)
    \/ \E n \in 1..drafts[r].revision :
         \/ SaveDraft(r, n)
         \/ DiscardDraft(r, n)
         \/ \E d \in Docs : CommitNewDraft(r, n, d)
         \/ \E v \in 1..MaxVersion, h \in 0..MaxVersion : CommitDraft(r, n, v, h)

ProposalRequest ==
  \E p \in Proposals :
    \/ \E d \in Docs : \E v \in Held(d) : CreateProposal(p, d, v)
    \/ CreateNewProposal(p)
    \/ \E n \in 1..proposals[p].version :
         \/ DiscardProposal(p, n)
         \/ \E r \in Drafts \cup {None} :
              \E s \in IF r = None THEN {0} ELSE 1..drafts[r].revision :
                \/ \E v \in 1..MaxVersion, h \in 1..MaxVersion : AcceptProposal(p, n, v, h, r, s)
                \/ \E d \in Docs : AcceptNewProposal(p, n, r, s, d)

Next == ItemRequest \/ DraftRequest \/ ProposalRequest

Spec == Init /\ [][Next]_vars

-----------------------------------------------------------------------------
(* No update is lost: whoever wrote content version n had version n - 1 in *)
(* front of them, or named it as the version their conflict was resolved   *)
(* against.  Tabs, drafts begun earlier and proposals compete for it.      *)
NoLostUpdate ==
  \A d \in Docs : \A n \in 1..HeadOf(d) : items[d].log[n].basis = n - 1

(* A document has at most one active draft (create_draft's check; the      *)
(* unique index of 005_writing.sql says the same), although a new draft    *)
(* gets its document only when it is committed.                            *)
OneActiveDraft ==
  \A d \in Docs : Cardinality(Current(d)) <= 1

(* Typed text leaves the draft for good only into a version whose writer   *)
(* knew the draft's last revision: a committed draft was closed by exactly *)
(* one version, with the revision the store had, and no other draft was.   *)
DraftClosedByOneVersion ==
  \A r \in Drafts :
    LET closing == { e \in UNION { {<< d, n >> : n \in 1..HeadOf(d)} : d \in Docs } :
                       items[e[1]].log[e[2]].closes = r } IN
    IF drafts[r].state = "committed"
    THEN /\ Cardinality(closing) = 1
         /\ \A e \in closing :
              LET entry == items[e[1]].log[e[2]] IN
              /\ e[1] = drafts[r].doc
              /\ entry.seen = entry.held
              /\ entry.held = drafts[r].revision - 1
    ELSE closing = {}

(* "A new Codex document is a proposal, never an implicit document         *)
(* version" (document_proposals.py:1): a proposal has made a version       *)
(* exactly if it was accepted, then exactly one, the one it points at.     *)
ProposalIsOneVersion ==
  \A p \in Proposals :
    LET made == { e \in UNION { {<< d, n >> : n \in 1..HeadOf(d)} : d \in Docs } :
                    items[e[1]].log[e[2]].from = p } IN
    made = IF proposals[p].status = "accepted"
           THEN { << proposals[p].doc, proposals[p].accepted >> } ELSE {}

(* A closed draft or proposal is never reopened, rewritten or resolved     *)
(* again, whatever late or repeated request still names it.                *)
ClosedStaysClosed ==
  [][ /\ \A r \in Drafts : drafts[r].state \in {"committed", "discarded"} => drafts'[r] = drafts[r]
      /\ \A p \in Proposals :
           proposals[p].status \in {"accepted", "discarded"} => proposals'[p] = proposals[p] ]_vars

(* The store's documents are version logs: appended to knowingly, one      *)
(* entry at a time, and never after the archive.                           *)
LastBasis(d) == IF HeadOf(d) = 0 THEN 0 ELSE items[d].log[HeadOf(d)].basis

Log == INSTANCE VersionLog WITH
  Items  <- Docs,
  length <- [d \in Docs |-> HeadOf(d)],
  closed <- { d \in Docs : items[d].archived },
  newest <- [d \in Docs |-> LastBasis(d)]

ImplementsLog == Log!LogSpec
=============================================================================
