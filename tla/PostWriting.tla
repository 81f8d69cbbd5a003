---------------------------- MODULE PostWriting ----------------------------
(***************************************************************************)
(* One owner's posts: drafts, Codex's proposals and releases               *)
(* (app/posts.py, app/post_proposals.py, app/post_publications.py).        *)
(*                                                                         *)
(* As in DocumentWriting each mutation holds the owner's graph lock and    *)
(* names versions, revisions and heads that were current once.  Posts      *)
(* differ in what makes them: there are no direct edits, a proposal may    *)
(* stand on a draft that has no post yet, and an archive takes the release *)
(* down.                                                                   *)
(***************************************************************************)
EXTENDS Naturals, Sequences, FiniteSets

CONSTANTS Posts, Drafts, Proposals,
          None,         \* no post, draft or proposal
          MaxVersion,   \* bound: a post's version
          MaxRevision   \* bound: a draft's revision

(* What the constants must satisfy, assumed where they get their values.   *)
PostAssumption ==
  /\ None \notin Posts \cup Drafts \cup Proposals
  /\ Drafts \cap Proposals = {}   \* rows of two tables
  /\ MaxVersion \in Nat \ {0} /\ MaxRevision \in Nat \ {0}

VARIABLES
  posts,      \* research.posts with their post_versions and publication heads
  drafts,     \* research.post_drafts
  proposals,  \* research.post_proposals
  releases    \* research.post_publications; a release's place is its time

vars == << posts, drafts, proposals, releases >>

(* log and its entries: as in DocumentWriting.  head: the release shown.   *)
NoPost     == [ version |-> 0, archived |-> FALSE, log |-> << >>, head |-> 0 ]
NoDraft    == [ state |-> "none", post |-> None, revision |-> 0, base |-> 0, baseHead |-> 0 ]
NoProposal == [ status |-> "none", post |-> None, version |-> 0, draft |-> None, accepted |-> 0 ]

Entries == [ basis : Nat, from : Drafts \cup Proposals, closes : Drafts \cup {None},
             seen : Nat, held : Nat ]

Init ==
  /\ posts = [p \in Posts |-> NoPost]
  /\ drafts = [r \in Drafts |-> NoDraft]
  /\ proposals = [q \in Proposals |-> NoProposal]
  /\ releases = << >>

-----------------------------------------------------------------------------
Exists(p)  == posts[p].version > 0

(* Mutant: an archived post still counts as active.                        *)
ActiveArchived(p) == Exists(p)

Active(p)  == Exists(p) /\ ~posts[p].archived
HeadOf(p)  == Len(posts[p].log)
Current(p) == { r \in Drafts : drafts[r].state = "active" /\ drafts[r].post = p }

ExpectVersion(p, expected) == posts[p].version = expected

(* Mutant: a closed draft is taken for an open one.                        *)
CheckRevision(r, revision) == drafts[r].state # "none" /\ drafts[r].revision = revision

CheckDraft(r, revision) == drafts[r].state = "active" /\ drafts[r].revision = revision

(* save_version: the post's version and its content number both move.      *)
Saved(p, basis, from, closes, seen) ==
  [ posts[p] EXCEPT !.version = @ + 1,
      !.log = Append(@, [ basis |-> basis, from |-> from, closes |-> closes, seen |-> seen,
                          held |-> IF closes = None THEN 0 ELSE drafts[closes].revision ]) ]

(* Mutant: the state is written under a name the schema does not know.     *)
FinishedClosed(row, state) == [ row EXCEPT !.state = "closed", !.revision = @ + 1 ]

(* Mutant: the row keeps its revision.                                     *)
FinishedInPlace(row, state) == [ row EXCEPT !.state = state ]

Finished(row, state) == [ row EXCEPT !.state = state, !.revision = @ + 1 ]

(* A new post's draft gets the post it was saved as.                       *)
Bound(row, p) ==
  IF row.post = None THEN [ row EXCEPT !.post = p, !.base = 1, !.baseHead = 1 ] ELSE row

-----------------------------------------------------------------------------
CreateNewDraft(r) ==
  /\ drafts[r].state = "none"
  /\ drafts' = [drafts EXCEPT ![r] = [NoDraft EXCEPT !.state = "active", !.revision = 1]]
  /\ UNCHANGED << posts, proposals, releases >>

(* Mutant: only a draft of the same base is looked for.                    *)
NoSameBase(p) == { r \in Current(p) : drafts[r].base = posts[p].version } = {}

NoActiveDraft(p) == Current(p) = {}

CreateDraft(r, p, expected, baseHead) ==
  /\ drafts[r].state = "none"
  /\ Active(p) /\ NoActiveDraft(p)
  /\ ExpectVersion(p, expected) /\ HeadOf(p) = baseHead
  /\ drafts' = [drafts EXCEPT ![r] = [ state |-> "active", post |-> p, revision |-> 1,
                                       base |-> expected, baseHead |-> baseHead ]]
  /\ UNCHANGED << posts, proposals, releases >>

SaveDraft(r, revision) ==
  /\ CheckDraft(r, revision) /\ drafts[r].revision < MaxRevision
  /\ drafts[r].post # None => Active(drafts[r].post)
  /\ drafts' = [drafts EXCEPT ![r].revision = @ + 1]
  /\ UNCHANGED << posts, proposals, releases >>

DiscardDraft(r, revision) ==
  /\ CheckDraft(r, revision)
  /\ drafts' = [drafts EXCEPT ![r] = Finished(@, "discarded")]
  /\ UNCHANGED << posts, proposals, releases >>

CommitNewDraft(r, revision, p) ==
  /\ CheckDraft(r, revision)
  /\ drafts[r].post = None /\ ~Exists(p)
  /\ posts' = [posts EXCEPT ![p] = Saved(p, 0, r, r, revision)]
  /\ drafts' = [drafts EXCEPT ![r] = Finished(Bound(@, p), "committed")]
  /\ UNCHANGED << proposals, releases >>

(* The base still holds, or its writer names the head it was resolved with.*)
BaseHolds(r, resolved) ==
  LET p == drafts[r].post IN
  IF posts[p].version # drafts[r].base \/ HeadOf(p) # drafts[r].baseHead
  THEN resolved = HeadOf(p)
  ELSE resolved \in {0, HeadOf(p)}

CommitDraft(r, revision, expected, resolved) ==
  LET p == drafts[r].post IN
  /\ CheckDraft(r, revision)
  /\ p # None /\ Active(p) /\ posts[p].version < MaxVersion
  /\ ExpectVersion(p, expected)
  /\ BaseHolds(r, resolved)
  /\ posts' = [posts EXCEPT ![p] =
       Saved(p, IF resolved = 0 THEN drafts[r].baseHead ELSE resolved, r, r, revision)]
  /\ drafts' = [drafts EXCEPT ![r] = Finished(@, "committed")]
  /\ UNCHANGED << proposals, releases >>

-----------------------------------------------------------------------------
(* create: of a post or a new one, and with the draft Codex worked from.   *)
CreateProposal(q, p, expected, r, revision) ==
  /\ proposals[q].status = "none"
  /\ p # None => Active(p) /\ ExpectVersion(p, expected)
  /\ r # None => CheckDraft(r, revision) /\ drafts[r].post = p
  /\ proposals' = [proposals EXCEPT ![q] =
       [ status |-> "pending", post |-> p, version |-> 1, draft |-> r, accepted |-> 0 ]]
  /\ UNCHANGED << posts, drafts, releases >>

(* Mutant: only the proposal's version is compared, against any it had.    *)
OpenOnce(q, version) == proposals[q].status # "none" /\ version <= proposals[q].version

Open(q, version) == proposals[q].status = "pending" /\ proposals[q].version = version

DiscardProposal(q, version) ==
  /\ Open(q, version)
  /\ proposals' = [proposals EXCEPT ![q].status = "discarded", ![q].version = @ + 1]
  /\ UNCHANGED << posts, drafts, releases >>

(* The draft an acceptance closes: the post's current one; of a new post,  *)
(* the one the proposal stands on or the one the request names.            *)
Involved(q, named) ==
  LET p == proposals[q].post IN
  IF p # None THEN Current(p)
  ELSE IF proposals[q].draft # None THEN {proposals[q].draft}
  ELSE {named} \ {None}

(* Mutant: a draft that is not open any more is simply not closed.         *)
PairedIfOpen(q, named, revision) ==
  LET open == { r \in Involved(q, named) : drafts[r].state = "active" } IN
  IF open = {} THEN named = None ELSE named \in open /\ CheckDraft(named, revision)

Paired(q, named, revision) ==
  IF Involved(q, named) = {} THEN named = None
  ELSE /\ named \in Involved(q, named)
       /\ drafts[named].post = proposals[q].post
       /\ CheckDraft(named, revision)

Closing(r, p) ==
  IF r = None THEN drafts ELSE [drafts EXCEPT ![r] = Finished(Bound(@, p), "committed")]

Accepted(row, p, n) == [ row EXCEPT !.status = "accepted", !.version = @ + 1, !.post = p, !.accepted = n ]

(* Mutant: any version of the post will do.                                *)
ResolvedAny(p, resolved) == resolved \in 1..HeadOf(p)

Resolved(p, resolved) == HeadOf(p) = resolved

AcceptProposal(q, version, expected, resolved, r, revision) ==
  LET p == proposals[q].post IN
  /\ Open(q, version)
  /\ p # None /\ Active(p) /\ posts[p].version < MaxVersion
  /\ ExpectVersion(p, expected)
  /\ Resolved(p, resolved)
  /\ Paired(q, r, revision)
  /\ posts' = [posts EXCEPT ![p] = Saved(p, resolved, q, r, revision)]
  /\ drafts' = Closing(r, p)
  /\ proposals' = [proposals EXCEPT ![q] = Accepted(@, p, HeadOf(p) + 1)]
  /\ UNCHANGED releases

AcceptNewProposal(q, version, r, revision, p) ==
  /\ Open(q, version)
  /\ proposals[q].post = None /\ ~Exists(p)
  /\ Paired(q, r, revision)
  /\ posts' = [posts EXCEPT ![p] = Saved(p, 0, q, r, revision)]
  /\ drafts' = Closing(r, p)
  /\ proposals' = [proposals EXCEPT ![q] = Accepted(@, p, 1)]
  /\ UNCHANGED releases

-----------------------------------------------------------------------------
(* Mutant: each release is published anew.                                 *)
StampsAnew(previous, now) == [ published |-> now, updated |-> now ]

(* release_stamps: a live release passes its first time on.                *)
Stamps(previous, now) ==
  [ published |-> IF previous = 0 THEN now ELSE releases[previous].stamps.published, updated |-> now ]

(* publish, once its preview is found unchanged (module Publication has    *)
(* that protocol; posts' tokens hold the post's version as well).          *)
Publish(p, expected, n) ==
  /\ Active(p) /\ posts[p].version < MaxVersion
  /\ ExpectVersion(p, expected)
  /\ releases' = Append(releases, [ post |-> p, content |-> n,
                                    stamps |-> Stamps(posts[p].head, Len(releases) + 1) ])
  /\ posts' = [posts EXCEPT ![p].head = Len(releases) + 1, ![p].version = @ + 1]
  /\ UNCHANGED << drafts, proposals >>

Withdraw(p, expected) ==
  /\ Exists(p) /\ posts[p].version < MaxVersion
  /\ ExpectVersion(p, expected)
  /\ posts[p].head # 0
  /\ posts' = [posts EXCEPT ![p].head = 0, ![p].version = @ + 1]
  /\ UNCHANGED << drafts, proposals, releases >>

(* Mutant: archiving leaves the release up, as it does for documents.      *)
ArchivedKept(row) == [ row EXCEPT !.archived = TRUE, !.version = @ + 1 ]

Archived(row) == [ row EXCEPT !.archived = TRUE, !.version = @ + 1, !.head = 0 ]

Archive(p, expected) ==
  /\ Active(p) /\ posts[p].version < MaxVersion
  /\ ExpectVersion(p, expected)
  /\ posts' = [posts EXCEPT ![p] = Archived(@)]
  /\ UNCHANGED << drafts, proposals, releases >>

-----------------------------------------------------------------------------
(* The requests: what each names is current, or was.                       *)
Held(p)      == 1..posts[p].version
Revisions(r) == IF r = None THEN {0} ELSE 1..drafts[r].revision

PostRequest ==
  \E p \in Posts : \E v \in Held(p) :
    \/ \E n \in 1..HeadOf(p) : Publish(p, v, n)
    \/ Withdraw(p, v)
    \/ Archive(p, v)

DraftRequest ==
  \E r \in Drafts :
    \/ CreateNewDraft(r)
    \/ \E p \in Posts : \E v \in Held(p), h \in 1..HeadOf(p) : CreateDraft(r, p, v, h)
    \/ \E n \in 1..drafts[r].revision :
         \/ SaveDraft(r, n)
         \/ DiscardDraft(r, n)
         \/ \E p \in Posts : CommitNewDraft(r, n, p)
         \/ \E p \in Posts \cap {drafts[r].post} : \E v \in Held(p), h \in 0..HeadOf(p) :
              CommitDraft(r, n, v, h)

ProposalRequest ==
  \E q \in Proposals, r \in Drafts \cup {None} : \E s \in Revisions(r) :
    \/ \E p \in Posts \cup {None} : \E v \in IF p = None THEN {0} ELSE Held(p) :
         CreateProposal(q, p, v, r, s)
    \/ \E n \in 1..proposals[q].version :
         \/ DiscardProposal(q, n)
         \/ \E p \in Posts \cap {proposals[q].post} : \E v \in Held(p), h \in 1..HeadOf(p) :
              AcceptProposal(q, n, v, h, r, s)
         \/ \E p \in Posts : AcceptNewProposal(q, n, r, s, p)

Next == PostRequest \/ DraftRequest \/ ProposalRequest

Spec == Init /\ [][Next]_vars

-----------------------------------------------------------------------------
TypeOK ==
  /\ posts \in [Posts -> [version : 0..MaxVersion, archived : BOOLEAN, log : Seq(Entries), head : Nat]]
  /\ drafts \in [Drafts -> [state : {"none", "active", "committed", "discarded"},
                            post : Posts \cup {None}, revision : Nat, base : Nat, baseHead : Nat]]
  /\ proposals \in [Proposals -> [status : {"none", "pending", "accepted", "discarded"},
                                  post : Posts \cup {None}, version : Nat,
                                  draft : Drafts \cup {None}, accepted : Nat]]
  /\ \A n \in 1..Len(releases) :
       releases[n] \in [post : Posts, content : Nat, stamps : [published : 1..n, updated : {n}]]

(* No update is lost: whoever saved content version n of a post had n - 1  *)
(* in front of them, or named it as what their conflict was resolved with. *)
NoLostUpdate ==
  \A p \in Posts : \A n \in 1..HeadOf(p) : posts[p].log[n].basis = n - 1

(* A post has at most one active draft (research_active_post_draft).       *)
OneActiveDraft ==
  \A p \in Posts : Cardinality(Current(p)) <= 1

AllEntries == UNION { {<< p, n >> : n \in 1..HeadOf(p)} : p \in Posts }
EntryOf(e) == posts[e[1]].log[e[2]]

(* A committed draft was closed by exactly one version of its own post,    *)
(* whose writer named the last revision of the text it put away.           *)
DraftClosedByOneVersion ==
  \A r \in Drafts :
    LET closing == { e \in AllEntries : EntryOf(e).closes = r } IN
    IF drafts[r].state = "committed"
    THEN /\ Cardinality(closing) = 1
         /\ \A e \in closing : /\ e[1] = drafts[r].post
                               /\ EntryOf(e).seen = EntryOf(e).held
                               /\ EntryOf(e).held = drafts[r].revision - 1
    ELSE closing = {}

(* "Codex can propose; only an authenticated human action creates a post   *)
(* version" (post_proposals.py:1): a proposal has made exactly the version *)
(* its acceptance points at, and none otherwise.                           *)
ProposalIsOneVersion ==
  \A q \in Proposals :
    { e \in AllEntries : EntryOf(e).from = q } =
      IF proposals[q].status = "accepted" THEN { << proposals[q].post, proposals[q].accepted >> } ELSE {}

(* One draft of a new post becomes at most one post, whether it is saved   *)
(* itself or a proposal that stands on it is accepted.                     *)
BornOf(p, r) ==
  /\ Exists(p)
  /\ LET first == posts[p].log[1] IN
     first.from = r \/ first.closes = r
       \/ \E q \in Proposals : first.from = q /\ proposals[q].draft = r

NoTwinPost ==
  \A r \in Drafts : Cardinality({ p \in Posts : BornOf(p, r) }) <= 1

(* "Republishing over a live release keeps its first publishedAt; after a  *)
(* withdraw ... the next publish starts a new publishedAt"                 *)
(* (post_publications.py:47), also when an archive took it down.           *)
FirstPublicationStands ==
  [][ \A p \in Posts : LET was == posts[p].head
                           now == posts'[p].head IN
        now # 0 /\ now # was =>
          IF was # 0 THEN releases'[now].stamps.published = releases[was].stamps.published
          ELSE \A n \in 1..Len(releases) : releases'[now].stamps.published > releases[n].stamps.updated ]_vars

(* An archived post is not public, and is not made public again.           *)
ArchivedIsPrivate ==
  \A p \in Posts : posts[p].archived => posts[p].head = 0

LastBasis(p) == IF HeadOf(p) = 0 THEN 0 ELSE posts[p].log[HeadOf(p)].basis

Log == INSTANCE VersionLog WITH
  Items  <- Posts,
  length <- [p \in Posts |-> HeadOf(p)],
  closed <- { p \in Posts : posts[p].archived },
  newest <- [p \in Posts |-> LastBasis(p)]

(* Posts keep the store's promise to its writers, too.                     *)
ImplementsLog == Log!LogSpec
=============================================================================
