--------------------------- MODULE ResearchProofs ---------------------------
(***************************************************************************)
(* The research store keeps its writers' and its readers' properties, for  *)
(* any number of documents, posts, drafts, proposals, materials, images,   *)
(* tabs and readers: theorems about MCResearch.                            *)
(*                                                                         *)
(* Each part has an inductive invariant of its own (DocInv, PostInv,       *)
(* ReleaseInv, ImageInv): what its rows say of each other between two      *)
(* requests.  The parts are then put together as the composition does.     *)
(***************************************************************************)
EXTENDS MCResearch, FiniteSetTheorems, TLAPS

-----------------------------------------------------------------------------
(* Sequences and small sets.                                               *)

(* What appending does to a sequence, entry by entry.                      *)
LEMMA Appending ==
  ASSUME NEW S, NEW s \in Seq(S), NEW e \in S
  PROVE  /\ Append(s, e) \in Seq(S)
         /\ Len(s) \in Nat /\ Len(Append(s, e)) = Len(s) + 1
         /\ \A n \in 1..Len(s) : Append(s, e)[n] = s[n]
         /\ Append(s, e)[Len(s) + 1] = e
  OBVIOUS

(* A set in which any two members are equal has at most one.               *)
LEMMA AtMostOne ==
  ASSUME NEW S, \A x, y \in S : x = y
  PROVE  Cardinality(S) <= 1
<1>1. CASE S = {}
  BY <1>1, FS_EmptySet
<1>2. CASE S # {}
  <2>1. PICK x \in S : TRUE
    BY <1>2
  <2>2. S = {x}
    BY <2>1
  <2> QED BY <2>2, FS_Singleton
<1> QED BY <1>1, <1>2

(* And conversely.                                                         *)
LEMMA OnlyOne ==
  ASSUME NEW x
  PROVE  Cardinality({x}) = 1
  BY FS_Singleton

-----------------------------------------------------------------------------
(* Documents.                                                              *)

(* A document's version and content number, its log and the history of its *)
(* head agree, and every entry was written on the one before it.           *)
Whole(it) ==
  /\ Len(it.headAt) = it.version
  /\ it.version > 0 => Len(it.log) > 0 /\ it.headAt[it.version] = Len(it.log)
  /\ it.version = 0 => it.log = << >> /\ it.headAt = << >> /\ ~it.archived
  /\ \A n \in 1..Len(it.log) : it.log[n].basis = n - 1

ItemsWhole == \A d \in Docs : Whole(items[d])

OneOpen ==
  \A r, s \in Drafts :
    drafts[r].state = "active" /\ drafts[s].state = "active" /\ drafts[r].doc # None
      /\ drafts[r].doc = drafts[s].doc => r = s

(* The entry that closes a draft is the only one, of the draft's document, *)
(* written by somebody who named the draft's last revision.                *)
ClosedBy(d, n) ==
  LET e == items[d].log[n] IN
  e.closes # None =>
    /\ drafts[e.closes].state = "committed" /\ drafts[e.closes].doc = d
    /\ e.seen = e.held /\ e.held = drafts[e.closes].revision - 1
    /\ \A m \in 1..HeadOf(d) : items[d].log[m].closes = e.closes => m = n

ClosingsKnown ==
  /\ \A d \in Docs : \A n \in 1..HeadOf(d) : ClosedBy(d, n)
  /\ \A r \in Drafts : drafts[r].state = "committed" =>
       drafts[r].doc \in Docs /\ \E n \in 1..HeadOf(drafts[r].doc) : items[drafts[r].doc].log[n].closes = r

(* The entry of an accepted proposal is the one it points at.              *)
ProposalsKnown ==
  /\ \A d \in Docs : \A n \in 1..HeadOf(d) :
       LET p == items[d].log[n].from IN
       p \in Proposals => /\ proposals[p].status = "accepted"
                          /\ proposals[p].doc = d /\ proposals[p].accepted = n
  /\ \A p \in Proposals : proposals[p].status = "accepted" =>
       /\ proposals[p].doc \in Docs /\ proposals[p].accepted \in 1..HeadOf(proposals[p].doc)
       /\ items[proposals[p].doc].log[proposals[p].accepted].from = p

DocInv == TypeOK /\ ItemsWhole /\ OneOpen /\ ClosingsKnown /\ ProposalsKnown

DraftRows    == [state : DraftStates, doc : Docs \cup {None}, revision : Nat, base : Nat, baseHead : Nat]
ProposalRows == [status : ProposalStatuses, doc : Docs \cup {None}, version : Nat,
                 base : Nat, baseHead : Nat, accepted : Nat]
ItemRows     == [version : Nat, archived : BOOLEAN, log : Seq(Entries), headAt : Seq(Nat)]

(* Writing to a row of the items.                                          *)
LEMMA ItemSet ==
  ASSUME NEW it \in ItemRows, NEW v \in Nat, NEW l \in Seq(Entries), NEW h \in Seq(Nat)
  PROVE  [it EXCEPT !.version = v, !.log = l, !.headAt = h] \in ItemRows
  BY DEF ItemRows

(* A row of the items whose log is kept.                                   *)
LEMMA WholeMoves ==
  ASSUME NEW it \in ItemRows, NEW new, Whole(it), it.version > 0,
         new \in ItemRows, new.log = it.log,
         new.version = it.version + 1, new.headAt = Append(it.headAt, Len(it.log))
  PROVE  Whole(new)
<1>1. it.log \in Seq(Entries) /\ it.headAt \in Seq(Nat) /\ it.version \in Nat /\ Len(it.log) \in Nat
  BY DEF ItemRows
<1>2. /\ Len(new.headAt) = Len(it.headAt) + 1
      /\ new.headAt[Len(it.headAt) + 1] = Len(it.log)
  BY <1>1, Appending
<1> QED BY <1>1, <1>2 DEF Whole

(* Appending an entry on the head keeps a row whole.                       *)
LEMMA WholeAppended ==
  ASSUME NEW it \in ItemRows, NEW e \in Entries, Whole(it), e.basis = Len(it.log)
  PROVE  /\ Appended(it, e) \in ItemRows /\ Whole(Appended(it, e))
         /\ Appended(it, e).log = Append(it.log, e)
         /\ Appended(it, e).version = it.version + 1
         /\ Appended(it, e).archived = it.archived
<1> DEFINE new == Appended(it, e)
<1>1. it.log \in Seq(Entries) /\ it.headAt \in Seq(Nat) /\ it.version \in Nat /\ Len(it.log) \in Nat
  BY DEF ItemRows
<1>2. /\ Append(it.log, e) \in Seq(Entries)
      /\ Len(Append(it.log, e)) = Len(it.log) + 1
      /\ \A n \in 1..Len(it.log) : Append(it.log, e)[n] = it.log[n]
      /\ Append(it.log, e)[Len(it.log) + 1] = e
  BY <1>1, Appending
<1>3. /\ Append(it.headAt, Len(it.log) + 1) \in Seq(Nat)
      /\ Len(Append(it.headAt, Len(it.log) + 1)) = Len(it.headAt) + 1
      /\ Append(it.headAt, Len(it.log) + 1)[Len(it.headAt) + 1] = Len(it.log) + 1
  <2>1. Len(it.log) + 1 \in Nat
    BY <1>1
  <2> QED BY <1>1, <2>1, Appending
<1>4. /\ new \in ItemRows
      /\ new.version = it.version + 1 /\ new.archived = it.archived
      /\ new.log = Append(it.log, e) /\ new.headAt = Append(it.headAt, Len(it.log) + 1)
  <2>1. new.version = it.version + 1
    BY DEF Appended, ItemRows
  <2>2. new.archived = it.archived
    BY DEF Appended, ItemRows
  <2>3. new.log = Append(it.log, e)
    BY DEF Appended, ItemRows
  <2>4. new.headAt = Append(it.headAt, Len(it.log) + 1)
    BY DEF Appended, ItemRows
  <2>5. new \in ItemRows
    <3>1. it.version + 1 \in Nat
      BY <1>1
    <3> QED BY <1>2, <1>3, <3>1, ItemSet DEF Appended
  <2> QED BY <2>1, <2>2, <2>3, <2>4, <2>5
<1> HIDE DEF new
<1>5. \A n \in 1..Len(new.log) : new.log[n].basis = n - 1
  <2> TAKE n \in 1..Len(new.log)
  <2>1. CASE n \in 1..Len(it.log)
    BY <1>2, <1>4, <2>1 DEF Whole
  <2>2. CASE n = Len(it.log) + 1
    BY <1>1, <1>2, <1>4, <2>2
  <2> QED BY <1>1, <1>2, <1>4, <2>1, <2>2
<1>6. Whole(new)
  BY <1>1, <1>2, <1>3, <1>4, <1>5 DEF Whole
<1> QED BY <1>4, <1>6 DEF new

(* Nothing about logs, closed drafts or accepted proposals changes.        *)
LEMMA LogsStand ==
  ASSUME TypeOK, ClosingsKnown, ProposalsKnown,
         \A d \in Docs : items'[d].log = items[d].log,
         \A r \in Drafts : drafts'[r] = drafts[r] \/ (drafts[r].state # "committed" /\ drafts'[r].state # "committed"),
         \A p \in Proposals : proposals'[p] = proposals[p]
                                \/ (proposals[p].status # "accepted" /\ proposals'[p].status # "accepted")
  PROVE  ClosingsKnown' /\ ProposalsKnown'
<1>1. \A d \in Docs : HeadOf(d)' = HeadOf(d) /\ \A n \in 1..HeadOf(d) : items'[d].log[n] = items[d].log[n] /\ items[d].log[n] \in Entries
  BY DEF HeadOf, TypeOK
<1>2. ASSUME NEW d \in Docs, NEW n \in 1..HeadOf(d) PROVE ClosedBy(d, n)'
  <2>1. ClosedBy(d, n) /\ items[d].log[n].closes \in Drafts \cup {None}
    BY <1>1 DEF ClosingsKnown, Entries
  <2> QED BY <1>1, <2>1 DEF ClosedBy
<1>3. ASSUME NEW r \in Drafts, drafts'[r].state = "committed"
      PROVE  (drafts[r].doc \in Docs /\ \E n \in 1..HeadOf(drafts[r].doc) : items[drafts[r].doc].log[n].closes = r)'
  <2>1. drafts'[r] = drafts[r]
    BY <1>3
  <2>2. drafts[r].doc \in Docs /\ \E n \in 1..HeadOf(drafts[r].doc) : items[drafts[r].doc].log[n].closes = r
    BY <1>3, <2>1 DEF ClosingsKnown
  <2> QED BY <1>1, <2>1, <2>2
<1>4. ASSUME NEW d \in Docs, NEW n \in 1..HeadOf(d), items[d].log[n].from \in Proposals
      PROVE  LET p == items[d].log[n].from IN
             proposals'[p].status = "accepted" /\ proposals'[p].doc = d /\ proposals'[p].accepted = n
  BY <1>4 DEF ProposalsKnown
<1>5. ASSUME NEW p \in Proposals, proposals'[p].status = "accepted"
      PROVE  (/\ proposals[p].doc \in Docs /\ proposals[p].accepted \in 1..HeadOf(proposals[p].doc)
              /\ items[proposals[p].doc].log[proposals[p].accepted].from = p)'
  <2>1. proposals'[p] = proposals[p]
    BY <1>5
  <2>2. /\ proposals[p].doc \in Docs /\ proposals[p].accepted \in 1..HeadOf(proposals[p].doc)
        /\ items[proposals[p].doc].log[proposals[p].accepted].from = p
    BY <1>5, <2>1 DEF ProposalsKnown
  <2> QED BY <1>1, <2>1, <2>2
<1>6. ProposalsKnown'
  BY <1>1, <1>4, <1>5 DEF ProposalsKnown
<1> QED BY <1>1, <1>2, <1>3, <1>6 DEF ClosingsKnown

(* A draft is begun, saved or discarded.                                   *)
LEMMA DraftMoves ==
  ASSUME DocInv, NEW r \in Drafts, NEW new \in DraftRows,
         drafts' = [drafts EXCEPT ![r] = new], UNCHANGED << items, proposals >>,
         drafts[r].state # "committed", new.state # "committed",
         new.state = "active" /\ new.doc # None =>
           \A s \in Drafts \ {r} : drafts[s].state = "active" => drafts[s].doc # new.doc
  PROVE  DocInv'
<1>1. drafts'[r] = new /\ \A s \in Drafts \ {r} : drafts'[s] = drafts[s]
  BY DEF DocInv, TypeOK
<1>2. TypeOK'
  BY DEF DocInv, TypeOK, DraftRows
<1>3. ItemsWhole'
  BY DEF DocInv, ItemsWhole
<1>4. OneOpen'
  BY <1>1 DEF DocInv, OneOpen
<1>5. ClosingsKnown' /\ ProposalsKnown'
  BY <1>1, LogsStand DEF DocInv
<1> QED BY <1>2, <1>3, <1>4, <1>5 DEF DocInv

(* A proposal is made or discarded.                                        *)
LEMMA ProposalMoves ==
  ASSUME DocInv, NEW p \in Proposals, NEW new \in ProposalRows,
         proposals' = [proposals EXCEPT ![p] = new], UNCHANGED << items, drafts >>,
         proposals[p].status # "accepted", new.status # "accepted"
  PROVE  DocInv'
<1>1. proposals'[p] = new /\ \A q \in Proposals \ {p} : proposals'[q] = proposals[q]
  BY DEF DocInv, TypeOK
<1>2. TypeOK'
  BY DEF DocInv, TypeOK, ProposalRows
<1>3. ItemsWhole' /\ OneOpen'
  BY DEF DocInv, ItemsWhole, OneOpen
<1>5. ClosingsKnown' /\ ProposalsKnown'
  BY <1>1, LogsStand DEF DocInv
<1> QED BY <1>2, <1>3, <1>5 DEF DocInv

(* A document's version moves, its content does not.                       *)
LEMMA VersionMoves ==
  ASSUME DocInv, NEW d \in Docs, NEW new \in ItemRows, Exists(d),
         items' = [items EXCEPT ![d] = new], UNCHANGED << drafts, proposals >>,
         new.log = items[d].log, new.version = items[d].version + 1,
         new.headAt = Append(items[d].headAt, Len(items[d].log))
  PROVE  DocInv'
<1>1. items'[d] = new /\ (\A c \in Docs \ {d} : items'[c] = items[c]) /\ items[d] \in ItemRows
  BY DEF DocInv, TypeOK, ItemRows
<1>2. TypeOK'
  BY DEF DocInv, TypeOK, ItemRows
<1>3. ItemsWhole'
  <2>1. Whole(new)
    BY <1>1, WholeMoves DEF DocInv, ItemsWhole, Exists
  <2> QED BY <1>1, <2>1 DEF DocInv, ItemsWhole
<1>4. OneOpen'
  BY DEF DocInv, OneOpen
<1>5. ClosingsKnown' /\ ProposalsKnown'
  BY <1>1, LogsStand DEF DocInv
<1> QED BY <1>2, <1>3, <1>4, <1>5 DEF DocInv

(* A version is appended: what it closes and what it accepts moves with it.*)
LEMMA VersionAppended ==
  ASSUME DocInv, NEW d \in Docs, NEW e \in Entries, e.basis = HeadOf(d),
         items' = [items EXCEPT ![d] = Appended(@, e)],
         NEW r \in Drafts \cup {None}, e.closes = r,
         r = None => UNCHANGED drafts,
         r # None =>
           \E new \in DraftRows :
             /\ drafts' = [drafts EXCEPT ![r] = new]
             /\ drafts[r].state = "active" /\ new.state = "committed" /\ new.doc = d
             /\ e.seen = e.held /\ e.held = new.revision - 1,
         e.from \notin Proposals => UNCHANGED proposals,
         e.from \in Proposals =>
           \E new \in ProposalRows :
             /\ proposals' = [proposals EXCEPT ![e.from] = new]
             /\ proposals[e.from].status = "pending" /\ new.status = "accepted"
             /\ new.doc = d /\ new.accepted = HeadOf(d) + 1
  PROVE  DocInv'
<1> DEFINE new == Appended(items[d], e)
<1>1. items'[d] = new /\ (\A c \in Docs \ {d} : items'[c] = items[c]) /\ items[d] \in ItemRows
  BY DEF DocInv, TypeOK, ItemRows
<1>2. new \in ItemRows /\ Whole(new) /\ new.log = Append(items[d].log, e)
  BY <1>1, WholeAppended DEF DocInv, ItemsWhole, HeadOf
<1> HIDE DEF new
<1>3. /\ \A c \in Docs : HeadOf(c) \in Nat
      /\ HeadOf(d)' = HeadOf(d) + 1
      /\ items'[d].log[HeadOf(d) + 1] = e
      /\ \A n \in 1..HeadOf(d) : items'[d].log[n] = items[d].log[n]
  <2>1. items[d].log \in Seq(Entries) /\ \A c \in Docs : items[c].log \in Seq(Entries)
    BY DEF DocInv, TypeOK
  <2> QED BY <1>1, <1>2, <2>1, Appending DEF HeadOf
<1>4. \A c \in Docs \ {d} : HeadOf(c)' = HeadOf(c) /\ items'[c].log = items[c].log
  BY <1>1 DEF HeadOf
<1>5. \A c \in Docs : \A n \in 1..HeadOf(c)' :
        \/ n \in 1..HeadOf(c) /\ items'[c].log[n] = items[c].log[n]
        \/ c = d /\ n = HeadOf(d) + 1 /\ items'[c].log[n] = e
  BY <1>3, <1>4
<1>6. \A c \in Docs : \A n \in 1..HeadOf(c) : n \in 1..HeadOf(c)' /\ items'[c].log[n] = items[c].log[n] /\ items[c].log[n] \in Entries
  <2>1. \A c \in Docs : items[c].log \in Seq(Entries)
    BY DEF DocInv, TypeOK
  <2>2. \A c \in Docs : \A n \in 1..HeadOf(c) : items[c].log[n] \in Entries
    BY <2>1 DEF HeadOf
  <2> QED BY <1>3, <1>4, <2>2
<1>7. /\ \A s \in Drafts : s # r => drafts'[s] = drafts[s]
      /\ r # None => /\ drafts[r].state = "active" /\ drafts'[r].state = "committed" /\ drafts'[r].doc = d
                     /\ drafts'[r] \in DraftRows /\ e.seen = e.held /\ e.held = drafts'[r].revision - 1
      /\ drafts' \in [Drafts -> DraftRows]
  <2>0. drafts \in [Drafts -> DraftRows]
    BY DEF DocInv, TypeOK, DraftRows
  <2>1. CASE r = None
    BY <2>0, <2>1, WritingAssumption
  <2>2. CASE r # None
    BY <2>0, <2>2
  <2> QED BY <2>1, <2>2
<1>8. /\ \A p \in Proposals : p # e.from => proposals'[p] = proposals[p]
      /\ e.from \in Proposals => /\ proposals[e.from].status = "pending" /\ proposals'[e.from].status = "accepted"
                                 /\ proposals'[e.from].doc = d /\ proposals'[e.from].accepted = HeadOf(d) + 1
      /\ proposals' \in [Proposals -> ProposalRows]
  <2>0. proposals \in [Proposals -> ProposalRows]
    BY DEF DocInv, TypeOK, ProposalRows
  <2>1. CASE e.from \notin Proposals
    BY <2>0, <2>1
  <2>2. CASE e.from \in Proposals
    BY <2>0, <2>2
  <2> QED BY <2>1, <2>2
<1>9. TypeOK'
  <2>1. items' \in [Docs -> ItemRows]
    BY <1>1, <1>2 DEF DocInv, TypeOK, ItemRows, new
  <2> QED BY <1>7, <1>8, <2>1 DEF TypeOK, ItemRows, DraftRows, ProposalRows
<1>10. ItemsWhole'
  BY <1>1, <1>2 DEF DocInv, ItemsWhole
<1>11. OneOpen'
  <2> SUFFICES ASSUME NEW s \in Drafts, NEW t \in Drafts, drafts'[s].state = "active", drafts'[t].state = "active",
                      drafts'[s].doc # None, drafts'[s].doc = drafts'[t].doc
               PROVE  s = t
    BY DEF OneOpen
  <2>1. s # r /\ t # r
    BY <1>7, WritingAssumption
  <2> QED BY <1>7, <2>1 DEF DocInv, OneOpen
<1>12. ASSUME NEW c \in Docs, NEW n \in 1..HeadOf(c)' PROVE ClosedBy(c, n)'
  <2> SUFFICES ASSUME items'[c].log[n].closes # None
               PROVE  LET f == items'[c].log[n] IN
                      /\ drafts'[f.closes].state = "committed" /\ drafts'[f.closes].doc = c
                      /\ f.seen = f.held /\ f.held = drafts'[f.closes].revision - 1
                      /\ \A m \in 1..HeadOf(c)' : items'[c].log[m].closes = f.closes => m = n
    BY DEF ClosedBy
  <2>1. CASE n \in 1..HeadOf(c) /\ items'[c].log[n] = items[c].log[n]
    <3> DEFINE f == items[c].log[n]
    <3>1. ClosedBy(c, n) /\ f.closes \in Drafts
      BY <1>6, <2>1 DEF DocInv, ClosingsKnown, Entries
    <3>2. f.closes # r
      BY <1>7, <2>1, <3>1 DEF ClosedBy
    <3>3. drafts'[f.closes] = drafts[f.closes]
      BY <1>7, <3>1, <3>2
    <3>4. ASSUME NEW m \in 1..HeadOf(c)', items'[c].log[m].closes = f.closes PROVE m = n
      <4>1. m \in 1..HeadOf(c) /\ items'[c].log[m] = items[c].log[m]
        BY <1>5, <3>2, <3>4
      <4> QED BY <2>1, <3>1, <3>4, <4>1 DEF ClosedBy
    <3> QED BY <2>1, <3>1, <3>3, <3>4 DEF ClosedBy
  <2>2. CASE c = d /\ n = HeadOf(d) + 1 /\ items'[c].log[n] = e
    <3>1. r \in Drafts /\ r # None
      BY <2>2
    <3>2. ASSUME NEW m \in 1..HeadOf(c)', items'[c].log[m].closes = r PROVE m = n
      <4>1. CASE m \in 1..HeadOf(c) /\ items'[c].log[m] = items[c].log[m]
        <5>1. ClosedBy(c, m)
          BY <4>1 DEF DocInv, ClosingsKnown
        <5> QED BY <1>7, <3>1, <3>2, <4>1, <5>1 DEF ClosedBy
      <4> QED BY <1>5, <2>2, <4>1
    <3> QED BY <1>7, <2>2, <3>1, <3>2
  <2> QED BY <1>5, <2>1, <2>2
<1>13. ASSUME NEW s \in Drafts, drafts'[s].state = "committed"
       PROVE  (drafts[s].doc \in Docs /\ \E n \in 1..HeadOf(drafts[s].doc) : items[drafts[s].doc].log[n].closes = s)'
  <2>1. CASE s = r
    <3>1. s # None
      BY WritingAssumption
    <3>2. drafts'[s].doc = d /\ HeadOf(d) + 1 \in 1..HeadOf(d)' /\ items'[d].log[HeadOf(d) + 1].closes = s
      BY <1>3, <1>7, <2>1, <3>1
    <3> QED BY <3>2
  <2>2. CASE s # r
    <3>1. drafts'[s] = drafts[s]
      BY <1>7, <2>2
    <3>2. drafts[s].doc \in Docs /\ \E n \in 1..HeadOf(drafts[s].doc) : items[drafts[s].doc].log[n].closes = s
      BY <1>13, <3>1 DEF DocInv, ClosingsKnown
    <3> QED BY <1>6, <3>1, <3>2
  <2> QED BY <2>1, <2>2
<1>14. ClosingsKnown'
  BY <1>12, <1>13 DEF ClosingsKnown
<1>15. ASSUME NEW c \in Docs, NEW n \in 1..HeadOf(c)', items'[c].log[n].from \in Proposals
       PROVE  LET p == items'[c].log[n].from IN
              proposals'[p].status = "accepted" /\ proposals'[p].doc = c /\ proposals'[p].accepted = n
  <2>1. CASE n \in 1..HeadOf(c) /\ items'[c].log[n] = items[c].log[n]
    <3> DEFINE p == items[c].log[n].from
    <3>1. p \in Proposals /\ proposals[p].status = "accepted" /\ proposals[p].doc = c /\ proposals[p].accepted = n
      BY <1>15, <2>1 DEF DocInv, ProposalsKnown
    <3>2. proposals'[p] = proposals[p]
      BY <1>8, <3>1
    <3> QED BY <2>1, <3>1, <3>2
  <2>2. CASE c = d /\ n = HeadOf(d) + 1 /\ items'[c].log[n] = e
    BY <1>8, <1>15, <2>2
  <2> QED BY <1>5, <2>1, <2>2
<1>16. ASSUME NEW p \in Proposals, proposals'[p].status = "accepted"
       PROVE  (/\ proposals[p].doc \in Docs /\ proposals[p].accepted \in 1..HeadOf(proposals[p].doc)
               /\ items[proposals[p].doc].log[proposals[p].accepted].from = p)'
  <2>1. CASE p = e.from
    BY <1>3, <1>8, <2>1
  <2>2. CASE p # e.from
    <3>1. proposals'[p] = proposals[p]
      BY <1>8, <2>2
    <3>2. /\ proposals[p].doc \in Docs /\ proposals[p].accepted \in 1..HeadOf(proposals[p].doc)
          /\ items[proposals[p].doc].log[proposals[p].accepted].from = p
      BY <1>16, <3>1 DEF DocInv, ProposalsKnown
    <3> QED BY <1>6, <3>1, <3>2
  <2> QED BY <2>1, <2>2
<1>17. ProposalsKnown'
  BY <1>15, <1>16 DEF ProposalsKnown
<1> QED BY <1>9, <1>10, <1>11, <1>14, <1>17 DEF DocInv

LEMMA DocInit == Init => DocInv
<1> SUFFICES ASSUME Init PROVE DocInv
  OBVIOUS
<1>1. NoItem \in ItemRows /\ Whole(NoItem) /\ Len(NoItem.log) = 0
  <2>1. << >> \in Seq(Entries) /\ << >> \in Seq(Nat) /\ Len(<< >>) = 0
    OBVIOUS
  <2> QED BY <2>1 DEF NoItem, ItemRows, Whole
<1>2. NoDraft \in DraftRows /\ NoDraft.state = "none"
  BY DEF NoDraft, DraftRows, DraftStates
<1>3. NoProposal \in ProposalRows /\ NoProposal.status = "none"
  BY DEF NoProposal, ProposalRows, ProposalStatuses
<1>4. TypeOK
  BY <1>1, <1>2, <1>3 DEF Init, TypeOK, ItemRows, DraftRows, ProposalRows
<1>5. \A d \in Docs : HeadOf(d) = 0
  BY <1>1 DEF Init, HeadOf
<1> QED BY <1>1, <1>2, <1>3, <1>4, <1>5 DEF Init, DocInv, ItemsWhole, OneOpen, ClosingsKnown, ProposalsKnown

(* The rows and numbers a step finds.                                      *)
LEMMA DocRows ==
  ASSUME DocInv
  PROVE  /\ \A d \in Docs : /\ items[d] \in ItemRows /\ HeadOf(d) \in Nat
                            /\ items[d].version \in Nat /\ items[d].archived \in BOOLEAN
                            /\ items[d].log \in Seq(Entries) /\ items[d].headAt \in Seq(Nat)
                            /\ (Exists(d) => HeadOf(d) > 0 /\ items[d].headAt[items[d].version] = HeadOf(d))
                            /\ (~Exists(d) => HeadOf(d) = 0 /\ ~items[d].archived)
         /\ \A r \in Drafts : /\ drafts[r] \in DraftRows /\ drafts[r].revision \in Nat
                              /\ drafts[r].doc \in Docs \cup {None} /\ drafts[r].baseHead \in Nat
         /\ \A p \in Proposals : proposals[p] \in ProposalRows /\ proposals[p].version \in Nat
                                   /\ proposals[p].doc \in Docs \cup {None}
<1>1. \A d \in Docs : items[d] \in ItemRows /\ Whole(items[d])
  BY DEF DocInv, TypeOK, ItemsWhole, ItemRows
<1>2. \A d \in Docs : items[d].log \in Seq(Entries) /\ HeadOf(d) \in Nat /\ items[d].version \in Nat
  BY <1>1 DEF ItemRows, HeadOf
<1>3. \A d \in Docs : (Exists(d) => HeadOf(d) > 0 /\ items[d].headAt[items[d].version] = HeadOf(d))
                        /\ (~Exists(d) => HeadOf(d) = 0 /\ ~items[d].archived)
  BY <1>1, <1>2 DEF Exists, HeadOf, Whole
<1>4. \A r \in Drafts : drafts[r] \in DraftRows
  BY DEF DocInv, TypeOK, DraftRows
<1>5. \A p \in Proposals : proposals[p] \in ProposalRows
  BY DEF DocInv, TypeOK, ProposalRows
<1> QED BY <1>1, <1>2, <1>3, <1>4, <1>5 DEF ItemRows, DraftRows, ProposalRows

LEMMA EntryTyped ==
  ASSUME NEW b \in Nat, NEW f \in Drafts \cup Proposals \cup {None}, NEW c \in Drafts \cup {None},
         NEW s \in Nat, NEW h \in Nat
  PROVE  [ basis |-> b, from |-> f, closes |-> c, seen |-> s, held |-> h ] \in Entries
  BY DEF Entries

LEMMA ItemRequestKeeps ==
  ASSUME DocInv, ItemRequest
  PROVE  DocInv'
<1> PICK d \in Docs : \/ CreateItem(d)
                      \/ \E v \in Held(d) : ChangeItem(d, v) \/ ArchiveItem(d, v) \/ PublicationMoved(d, v)
  BY DEF ItemRequest
<1>0. None \notin Docs \cup Drafts \cup Proposals /\ Drafts \cap Proposals = {}
  BY WritingAssumption
<1>a. ASSUME NEW b \in Nat, b = HeadOf(d), items' = [items EXCEPT ![d] = Appended(@, Direct(b))],
             UNCHANGED << drafts, proposals >>
      PROVE  DocInv'
  <2>1. Direct(b) \in Entries /\ Direct(b).basis = b /\ Direct(b).from = None /\ Direct(b).closes = None
    BY EntryTyped DEF Direct
  <2> QED BY <1>0, <1>a, <2>1, VersionAppended
<1>1. CASE CreateItem(d)
  BY <1>1, <1>a, DocRows DEF CreateItem
<1>2. ASSUME NEW v \in Held(d), ChangeItem(d, v) PROVE DocInv'
  <2>1. items[d].headAt[v] = HeadOf(d) /\ HeadOf(d) \in Nat
    BY <1>2, DocRows DEF ChangeItem, ExpectVersion, Active
  <2> QED BY <1>2, <1>a, <2>1 DEF ChangeItem
<1>b. Exists(d) => /\ Moved(items[d]) \in ItemRows /\ Moved(items[d]).log = items[d].log
                   /\ Moved(items[d]).version = items[d].version + 1
                   /\ Moved(items[d]).headAt = Append(items[d].headAt, Len(items[d].log))
  <2>1. items[d] \in ItemRows
    BY DocRows
  <2>2. Append(items[d].headAt, Len(items[d].log)) \in Seq(Nat) /\ items[d].version + 1 \in Nat
    BY DocRows, Appending DEF HeadOf
  <2>3. Moved(items[d]) \in ItemRows
    BY <2>1, <2>2 DEF Moved, ItemRows
  <2> QED BY <2>1, <2>3 DEF Moved, ItemRows
<1>3. ASSUME NEW v \in Held(d), ArchiveItem(d, v) PROVE DocInv'
  <2> DEFINE new == [Moved(items[d]) EXCEPT !.archived = TRUE]
  <2>1. items' = [items EXCEPT ![d] = new] /\ UNCHANGED << drafts, proposals >> /\ Exists(d)
    BY <1>3 DEF ArchiveItem, Active
  <2>2. /\ new \in ItemRows
        /\ new.version = items[d].version + 1 /\ new.log = items[d].log
        /\ new.headAt = Append(items[d].headAt, Len(items[d].log))
    BY <1>b, <2>1 DEF ItemRows
  <2> HIDE DEF new
  <2> QED BY <2>1, <2>2, VersionMoves
<1>4. ASSUME NEW v \in Held(d), PublicationMoved(d, v) PROVE DocInv'
  BY <1>4, <1>b, VersionMoves DEF PublicationMoved
<1> QED BY <1>1, <1>2, <1>3, <1>4

(* What committing makes of a draft's row.                                 *)
LEMMA FinishedRow ==
  ASSUME NEW it \in DraftRows, NEW state \in {"committed", "discarded"}
  PROVE  /\ Finished(it, state) \in DraftRows /\ Finished(it, state).state = state
         /\ Finished(it, state).revision = it.revision + 1 /\ Finished(it, state).doc = it.doc
<1>1. it.revision + 1 \in Nat /\ state \in DraftStates
  BY DEF DraftRows, DraftStates
<1>2. Finished(it, state) \in DraftRows
  BY <1>1 DEF DraftRows, Finished
<1> QED BY <1>2 DEF DraftRows, Finished

LEMMA BoundRow ==
  ASSUME NEW it \in DraftRows, NEW d \in Docs
  PROVE  LET new == [it EXCEPT !.doc = d, !.base = 1, !.baseHead = 1] IN
         new \in DraftRows /\ new.doc = d /\ new.revision = it.revision
  BY DEF DraftRows

LEMMA DraftRequestKeeps ==
  ASSUME DocInv, DraftRequest
  PROVE  DocInv'
<1> PICK r \in Drafts :
      \/ CreateNewDraft(r)
      \/ \E d \in Docs : \E v \in Held(d), h \in 1..HeadOf(d) : CreateDraft(r, d, v, h)
      \/ \E n \in 1..drafts[r].revision :
           \/ SaveDraft(r, n)
           \/ DiscardDraft(r, n)
           \/ \E d \in Docs : CommitNewDraft(r, n, d)
           \/ \E v \in 1..MaxVersion, h \in 0..MaxVersion : CommitDraft(r, n, v, h)
  BY DEF DraftRequest
<1>0. None \notin Docs \cup Drafts \cup Proposals /\ Drafts \cap Proposals = {}
  BY WritingAssumption
<1>r. /\ drafts[r] \in DraftRows /\ drafts[r].revision \in Nat /\ drafts[r].doc \in Docs \cup {None}
      /\ drafts[r].baseHead \in Nat
  BY DocRows
<1>1. CASE CreateNewDraft(r)
  <2> DEFINE new == [NoDraft EXCEPT !.state = "active", !.revision = 1]
  <2>1. new \in DraftRows /\ new.state = "active" /\ new.doc = None
    BY DEF NoDraft, DraftRows, DraftStates
  <2>2. drafts' = [drafts EXCEPT ![r] = new] /\ UNCHANGED << items, proposals >> /\ drafts[r].state = "none"
    BY <1>1 DEF CreateNewDraft
  <2> HIDE DEF new
  <2> QED BY <2>1, <2>2, DraftMoves
<1>2. ASSUME NEW d \in Docs, NEW v \in Held(d), NEW h \in 1..HeadOf(d), CreateDraft(r, d, v, h) PROVE DocInv'
  <2> DEFINE new == [ state |-> "active", doc |-> d, revision |-> 1, base |-> v, baseHead |-> h ]
  <2>1. v \in Nat /\ h \in Nat
    BY DEF Held
  <2>2. new \in DraftRows /\ new.state = "active" /\ new.doc = d
    BY <2>1 DEF DraftRows, DraftStates
  <2>3. drafts' = [drafts EXCEPT ![r] = new] /\ UNCHANGED << items, proposals >> /\ drafts[r].state = "none"
    BY <1>2 DEF CreateDraft
  <2>4. \A s \in Drafts : drafts[s].state = "active" => drafts[s].doc # d
    BY <1>2 DEF CreateDraft, NoActiveDraft, Current
  <2> HIDE DEF new
  <2> QED BY <2>2, <2>3, <2>4, DraftMoves
<1>3. ASSUME NEW n \in 1..drafts[r].revision, SaveDraft(r, n) PROVE DocInv'
  <2> DEFINE new == [drafts[r] EXCEPT !.revision = @ + 1]
  <2>1. new \in DraftRows /\ new.state = drafts[r].state /\ new.doc = drafts[r].doc
    BY <1>r DEF DraftRows
  <2>2. drafts' = [drafts EXCEPT ![r] = new] /\ UNCHANGED << items, proposals >> /\ drafts[r].state = "active"
    BY <1>3 DEF SaveDraft, CheckDraft
  <2>3. drafts[r].doc # None => \A s \in Drafts \ {r} : drafts[s].state = "active" => drafts[s].doc # drafts[r].doc
    BY <2>2 DEF DocInv, OneOpen
  <2> HIDE DEF new
  <2> QED BY <2>1, <2>2, <2>3, DraftMoves
<1>4. ASSUME NEW n \in 1..drafts[r].revision, DiscardDraft(r, n) PROVE DocInv'
  <2>1. /\ drafts' = [drafts EXCEPT ![r] = Finished(drafts[r], "discarded")] /\ UNCHANGED << items, proposals >>
        /\ drafts[r].state = "active"
    BY <1>4 DEF DiscardDraft, CheckDraft
  <2>2. Finished(drafts[r], "discarded") \in DraftRows /\ Finished(drafts[r], "discarded").state = "discarded"
    BY <1>r, FinishedRow
  <2> QED BY <2>1, <2>2, DraftMoves
<1>5. ASSUME NEW n \in 1..drafts[r].revision, NEW d \in Docs, CommitNewDraft(r, n, d) PROVE DocInv'
  <2> DEFINE new == Finished([drafts[r] EXCEPT !.doc = d, !.base = 1, !.baseHead = 1], "committed")
             e   == Text(0, r, r, n)
  <2>0. LET bound == [drafts[r] EXCEPT !.doc = d, !.base = 1, !.baseHead = 1] IN
        bound \in DraftRows /\ bound.doc = d /\ bound.revision = drafts[r].revision
    BY <1>r, BoundRow
  <2>1. new \in DraftRows /\ new.state = "committed" /\ new.doc = d /\ new.revision = drafts[r].revision + 1
    BY <2>0, FinishedRow
  <2>2. /\ items' = [items EXCEPT ![d] = Appended(@, e)] /\ drafts' = [drafts EXCEPT ![r] = new]
        /\ UNCHANGED proposals /\ drafts[r].state = "active" /\ n = drafts[r].revision /\ ~Exists(d)
    BY <1>5 DEF CommitNewDraft, CheckDraft
  <2>3. r # None /\ r \notin Proposals
    BY <1>0
  <2>4. /\ e \in Entries /\ e.basis = 0 /\ e.closes = r /\ e.from = r
        /\ e.seen = n /\ e.held = drafts[r].revision
    BY <1>r, <2>2, <2>3, EntryTyped DEF Text
  <2>5. HeadOf(d) = 0
    BY <2>2, DocRows
  <2> HIDE DEF new, e
  <2>6. \E it \in DraftRows :
          /\ drafts' = [drafts EXCEPT ![r] = it]
          /\ drafts[r].state = "active" /\ it.state = "committed" /\ it.doc = d
          /\ e.seen = e.held /\ e.held = it.revision - 1
    <3>1. e.seen = e.held /\ e.held = new.revision - 1
      BY <1>r, <2>1, <2>2, <2>4
    <3> QED BY <2>1, <2>2, <3>1
  <2> QED BY <2>2, <2>3, <2>4, <2>5, <2>6, VersionAppended
<1>6. ASSUME NEW n \in 1..drafts[r].revision, NEW v \in 1..MaxVersion, NEW h \in 0..MaxVersion,
             CommitDraft(r, n, v, h)
      PROVE  DocInv'
  <2> DEFINE d   == drafts[r].doc
             new == Finished(drafts[r], "committed")
             b   == IF h = 0 THEN drafts[r].baseHead ELSE h
             e   == Text(b, r, r, n)
  <2>1. new \in DraftRows /\ new.state = "committed" /\ new.doc = d /\ new.revision = drafts[r].revision + 1
    BY <1>r, FinishedRow
  <2>2. /\ items' = [items EXCEPT ![d] = Appended(@, e)] /\ drafts' = [drafts EXCEPT ![r] = new]
        /\ UNCHANGED proposals /\ drafts[r].state = "active" /\ n = drafts[r].revision /\ d # None /\ Exists(d)
    BY <1>6 DEF CommitDraft, CheckDraft, Active
  <2>3. r # None /\ r \notin Proposals /\ d \in Docs /\ h \in Nat
    BY <1>0, <1>r, <2>2
  <2>4. b = HeadOf(d)
    <3>1. IF items[d].version # drafts[r].base \/ HeadOf(d) # drafts[r].baseHead
          THEN h = HeadOf(d) ELSE h \in {0, HeadOf(d)}
      BY <1>6 DEF CommitDraft, BaseHolds
    <3>2. HeadOf(d) > 0
      BY <2>2, <2>3, DocRows
    <3> QED BY <3>1, <3>2
  <2>5. /\ e \in Entries /\ e.basis = b /\ e.closes = r /\ e.from = r
        /\ e.seen = n /\ e.held = drafts[r].revision
    BY <1>r, <2>2, <2>3, EntryTyped DEF Text
  <2> HIDE DEF new, e, b, d
  <2>6. \E it \in DraftRows :
          /\ drafts' = [drafts EXCEPT ![r] = it]
          /\ drafts[r].state = "active" /\ it.state = "committed" /\ it.doc = d
          /\ e.seen = e.held /\ e.held = it.revision - 1
    <3>1. e.seen = e.held /\ e.held = new.revision - 1
      BY <1>r, <2>1, <2>2, <2>5
    <3> QED BY <2>1, <2>2, <3>1
  <2> QED BY <2>2, <2>3, <2>4, <2>5, <2>6, VersionAppended
<1> QED BY <1>1, <1>2, <1>3, <1>4, <1>5, <1>6

LEMMA ProposalRequestKeeps ==
  ASSUME DocInv, ProposalRequest
  PROVE  DocInv'
<1> PICK p \in Proposals :
      \/ \E d \in Docs : \E v \in Held(d) : CreateProposal(p, d, v)
      \/ CreateNewProposal(p)
      \/ \E n \in 1..proposals[p].version :
           \/ DiscardProposal(p, n)
           \/ \E r \in Drafts \cup {None} :
                \E s \in IF r = None THEN {0} ELSE 1..drafts[r].revision :
                  \/ \E v \in 1..MaxVersion, h \in 1..MaxVersion : AcceptProposal(p, n, v, h, r, s)
                  \/ \E d \in Docs : AcceptNewProposal(p, n, r, s, d)
  BY DEF ProposalRequest
<1>0. None \notin Docs \cup Drafts \cup Proposals /\ Drafts \cap Proposals = {}
  BY WritingAssumption
<1>r. /\ proposals[p] \in ProposalRows /\ proposals[p].version \in Nat
      /\ proposals[p].doc \in Docs \cup {None}
  BY DocRows
<1>1. ASSUME NEW d \in Docs, NEW v \in Held(d), CreateProposal(p, d, v) PROVE DocInv'
  <2> DEFINE new == [ status |-> "pending", doc |-> d, version |-> 1, base |-> items[d].version,
                      baseHead |-> HeadOf(d), accepted |-> 0 ]
  <2>1. new \in ProposalRows /\ new.status = "pending"
    BY DocRows DEF ProposalRows, ProposalStatuses
  <2>2. proposals' = [proposals EXCEPT ![p] = new] /\ UNCHANGED << items, drafts >> /\ proposals[p].status = "none"
    BY <1>1 DEF CreateProposal
  <2> HIDE DEF new
  <2> QED BY <2>1, <2>2, ProposalMoves
<1>2. CASE CreateNewProposal(p)
  <2> DEFINE new == [NoProposal EXCEPT !.status = "pending", !.version = 1]
  <2>1. new \in ProposalRows /\ new.status = "pending"
    BY DEF NoProposal, ProposalRows, ProposalStatuses
  <2>2. proposals' = [proposals EXCEPT ![p] = new] /\ UNCHANGED << items, drafts >> /\ proposals[p].status = "none"
    BY <1>2 DEF CreateNewProposal
  <2> HIDE DEF new
  <2> QED BY <2>1, <2>2, ProposalMoves
<1>3. ASSUME NEW n \in 1..proposals[p].version, DiscardProposal(p, n) PROVE DocInv'
  <2> DEFINE new == [proposals[p] EXCEPT !.status = "discarded", !.version = @ + 1]
  <2>1. new \in ProposalRows /\ new.status = "discarded"
    <3>1. proposals[p].version + 1 \in Nat
      BY <1>r
    <3>2. new \in ProposalRows
      BY <1>r, <3>1 DEF ProposalRows, ProposalStatuses
    <3> QED BY <1>r, <3>2 DEF ProposalRows
  <2>2. proposals' = [proposals EXCEPT ![p] = new] /\ UNCHANGED << items, drafts >> /\ proposals[p].status = "pending"
    BY <1>3, <1>r DEF DiscardProposal, Open, DocInv, TypeOK
  <2> HIDE DEF new
  <2> QED BY <2>1, <2>2, ProposalMoves
<1>4. ASSUME NEW n \in 1..proposals[p].version, NEW r \in Drafts \cup {None},
             NEW s \in IF r = None THEN {0} ELSE 1..drafts[r].revision,
             NEW v \in 1..MaxVersion, NEW h \in 1..MaxVersion, AcceptProposal(p, n, v, h, r, s)
      PROVE  DocInv'
  <2> DEFINE d   == proposals[p].doc
             new == [proposals[p] EXCEPT !.status = "accepted", !.version = @ + 1, !.accepted = HeadOf(d) + 1]
             e   == Text(h, p, r, s)
  <2>1. /\ items' = [items EXCEPT ![d] = Appended(@, e)]
        /\ proposals[p].status = "pending" /\ d # None /\ Paired(d, r, s)
        /\ HeadOf(d) = h
        /\ drafts' = IF r = None THEN drafts ELSE [drafts EXCEPT ![r] = Finished(@, "committed")]
    BY <1>4 DEF AcceptProposal, Open
  <2>2. d \in Docs /\ HeadOf(d) \in Nat
    BY <1>r, <2>1, DocRows
  <2>3. proposals' = [proposals EXCEPT ![p] = new]
    BY <1>4, <1>r DEF AcceptProposal, DocInv, TypeOK
  <2>4. new \in ProposalRows /\ new.status = "accepted" /\ new.doc = d /\ new.accepted = HeadOf(d) + 1
    <3>1. HeadOf(d) + 1 \in Nat /\ proposals[p].version + 1 \in Nat
      BY <1>r, <2>2
    <3>2. new \in ProposalRows
      BY <1>r, <3>1 DEF ProposalRows, ProposalStatuses
    <3> QED BY <1>r, <3>2 DEF ProposalRows
  <2>5. r # None => r \in Drafts /\ drafts[r].state = "active" /\ drafts[r].doc = d /\ drafts[r].revision = s
    BY <2>1 DEF Paired, Current, CheckDraft
  <2>6. s \in Nat /\ (r = None => s = 0) /\ (r # None => drafts[r].revision \in Nat)
    BY <2>5, DocRows
  <2>7. /\ e \in Entries /\ e.basis = h /\ e.from = p /\ e.closes = r
        /\ e.seen = s /\ e.held = s
    BY <1>0, <2>2, <2>1, <2>5, <2>6, EntryTyped DEF Text
  <2>8. r # None =>
          \E it \in DraftRows :
            /\ drafts' = [drafts EXCEPT ![r] = it]
            /\ drafts[r].state = "active" /\ it.state = "committed" /\ it.doc = d
            /\ e.seen = e.held /\ e.held = it.revision - 1
    <3> SUFFICES ASSUME r # None
                 PROVE  \E it \in DraftRows :
                          /\ drafts' = [drafts EXCEPT ![r] = it]
                          /\ drafts[r].state = "active" /\ it.state = "committed" /\ it.doc = d
                          /\ e.seen = e.held /\ e.held = it.revision - 1
      OBVIOUS
    <3>0. drafts[r] \in DraftRows
      BY <2>5, DocRows
    <3>1. /\ Finished(drafts[r], "committed") \in DraftRows
          /\ Finished(drafts[r], "committed").state = "committed"
          /\ Finished(drafts[r], "committed").doc = drafts[r].doc
          /\ Finished(drafts[r], "committed").revision = drafts[r].revision + 1
      BY <3>0, FinishedRow
    <3> HIDE DEF e, d
    <3>2. drafts' = [drafts EXCEPT ![r] = Finished(drafts[r], "committed")]
      BY <2>1
    <3>3. e.seen = e.held /\ e.held = Finished(drafts[r], "committed").revision - 1
      BY <2>5, <2>6, <2>7, <3>1
    <3> QED BY <2>5, <3>1, <3>2, <3>3
  <2> HIDE DEF new, e, d
  <2>9. r = None => UNCHANGED drafts
    BY <2>1
  <2>10. e.from \in Proposals => \E it \in ProposalRows :
           /\ proposals' = [proposals EXCEPT ![e.from] = it]
           /\ proposals[e.from].status = "pending" /\ it.status = "accepted"
           /\ it.doc = d /\ it.accepted = HeadOf(d) + 1
    BY <2>1, <2>3, <2>4, <2>7
  <2>11. e.from \notin Proposals => UNCHANGED proposals
    BY <2>7
  <2>12. e \in Entries /\ e.basis = HeadOf(d) /\ e.closes = r /\ items' = [items EXCEPT ![d] = Appended(@, e)]
    BY <2>1, <2>2, <2>7
  <2> QED BY <2>2, <2>8, <2>9, <2>10, <2>11, <2>12, VersionAppended, ZenonT(60)
<1>5. ASSUME NEW n \in 1..proposals[p].version, NEW r \in Drafts \cup {None},
             NEW s \in IF r = None THEN {0} ELSE 1..drafts[r].revision,
             NEW d \in Docs, AcceptNewProposal(p, n, r, s, d)
      PROVE  DocInv'
  <2> DEFINE new == [ status |-> "accepted", doc |-> d, version |-> proposals[p].version + 1,
                      base |-> 1, baseHead |-> 1, accepted |-> 1 ]
             e   == Text(0, p, r, s)
             it  == [drafts[r] EXCEPT !.doc = d, !.base = 1, !.baseHead = 1]
  <2>1. /\ items' = [items EXCEPT ![d] = Appended(@, e)]
        /\ proposals[p].status = "pending" /\ ~Exists(d)
        /\ r # None => CheckDraft(r, s) /\ drafts[r].doc = None
        /\ proposals' = [proposals EXCEPT ![p] = new]
        /\ drafts' = IF r = None THEN drafts ELSE [drafts EXCEPT ![r] = Finished(it, "committed")]
    BY <1>5 DEF AcceptNewProposal, Open
  <2>2. HeadOf(d) = 0
    BY <2>1, DocRows
  <2>4. new \in ProposalRows /\ new.status = "accepted" /\ new.doc = d /\ new.accepted = HeadOf(d) + 1
    BY <1>r, <2>2 DEF ProposalRows, ProposalStatuses
  <2>5. r # None => r \in Drafts /\ drafts[r].state = "active" /\ drafts[r].revision = s
    BY <2>1 DEF CheckDraft
  <2>6. s \in Nat /\ (r = None => s = 0) /\ (r # None => drafts[r].revision \in Nat)
    BY <2>5, DocRows
  <2>7. /\ e \in Entries /\ e.basis = 0 /\ e.from = p /\ e.closes = r
        /\ e.seen = s /\ e.held = s
    BY <1>0, <2>5, <2>6, EntryTyped DEF Text
  <2>8. r # None =>
          \E done \in DraftRows :
            /\ drafts' = [drafts EXCEPT ![r] = done]
            /\ drafts[r].state = "active" /\ done.state = "committed" /\ done.doc = d
            /\ e.seen = e.held /\ e.held = done.revision - 1
    <3> SUFFICES ASSUME r # None
                 PROVE  \E done \in DraftRows :
                          /\ drafts' = [drafts EXCEPT ![r] = done]
                          /\ drafts[r].state = "active" /\ done.state = "committed" /\ done.doc = d
                          /\ e.seen = e.held /\ e.held = done.revision - 1
      OBVIOUS
    <3>0. drafts[r] \in DraftRows
      BY <2>5, DocRows
    <3>1. it \in DraftRows /\ it.doc = d /\ it.revision = drafts[r].revision
      BY <3>0, BoundRow
    <3> HIDE DEF it, e
    <3>2. /\ Finished(it, "committed") \in DraftRows
          /\ Finished(it, "committed").state = "committed"
          /\ Finished(it, "committed").doc = d
          /\ Finished(it, "committed").revision = drafts[r].revision + 1
      BY <3>1, FinishedRow
    <3>3. drafts' = [drafts EXCEPT ![r] = Finished(it, "committed")]
      BY <2>1
    <3>4. e.seen = e.held /\ e.held = Finished(it, "committed").revision - 1
      BY <2>5, <2>6, <2>7, <3>2
    <3> QED BY <2>5, <3>2, <3>3, <3>4
  <2> HIDE DEF new, e, it
  <2>9. r = None => UNCHANGED drafts
    BY <2>1
  <2>10. e.from \in Proposals => \E made \in ProposalRows :
           /\ proposals' = [proposals EXCEPT ![e.from] = made]
           /\ proposals[e.from].status = "pending" /\ made.status = "accepted"
           /\ made.doc = d /\ made.accepted = HeadOf(d) + 1
    BY <2>1, <2>4, <2>7
  <2>11. e.from \notin Proposals => UNCHANGED proposals
    BY <2>7
  <2>12. e \in Entries /\ e.basis = HeadOf(d) /\ e.closes = r /\ items' = [items EXCEPT ![d] = Appended(@, e)]
    BY <2>1, <2>2, <2>7
  <2> QED BY <2>2, <2>8, <2>9, <2>10, <2>11, <2>12, VersionAppended, ZenonT(60)
<1> QED BY <1>1, <1>2, <1>3, <1>4, <1>5

LEMMA DocStep ==
  ASSUME DocInv, Next \/ UNCHANGED vars
  PROVE  DocInv'
<1>1. CASE UNCHANGED vars
  <2> USE <1>1 DEF vars
  <2>1. TypeOK' /\ ItemsWhole' /\ OneOpen'
    BY DEF DocInv, TypeOK, ItemsWhole, OneOpen
  <2>2. ClosingsKnown' /\ ProposalsKnown'
    BY LogsStand DEF DocInv
  <2> QED BY <2>1, <2>2 DEF DocInv
<1> QED BY <1>1, ItemRequestKeeps, DraftRequestKeeps, ProposalRequestKeeps DEF Next

(* What the invariant of the documents says of the run's properties.       *)
LEMMA DocFollows ==
  ASSUME DocInv
  PROVE  NoLostUpdate /\ OneActiveDraft /\ DraftClosedByOneVersion /\ ProposalIsOneVersion
<1>0. None \notin Docs \cup Drafts \cup Proposals
  BY WritingAssumption
<1>1. NoLostUpdate
  BY DEF NoLostUpdate, DocInv, ItemsWhole, Whole, HeadOf
<1>2. OneActiveDraft
  <2> SUFFICES ASSUME NEW d \in Docs PROVE Cardinality(Current(d)) <= 1
    BY DEF OneActiveDraft
  <2>1. \A r, s \in Current(d) : r = s
    BY <1>0 DEF Current, DocInv, OneOpen
  <2> QED BY <2>1, AtMostOne
<1> DEFINE entries == UNION { {<< d, n >> : n \in 1..HeadOf(d)} : d \in Docs }
<1>3. \A e \in entries : e[1] \in Docs /\ e[2] \in 1..HeadOf(e[1]) /\ e = << e[1], e[2] >>
  OBVIOUS
<1>4. \A d \in Docs : \A n \in 1..HeadOf(d) : << d, n >> \in entries
  OBVIOUS
<1>5. DraftClosedByOneVersion
  <2> SUFFICES ASSUME NEW r \in Drafts
               PROVE  LET closing == { e \in entries : items[e[1]].log[e[2]].closes = r } IN
                      IF drafts[r].state = "committed"
                      THEN /\ Cardinality(closing) = 1
                           /\ \A e \in closing :
                                LET entry == items[e[1]].log[e[2]] IN
                                /\ e[1] = drafts[r].doc
                                /\ entry.seen = entry.held
                                /\ entry.held = drafts[r].revision - 1
                      ELSE closing = {}
    BY DEF DraftClosedByOneVersion
  <2> DEFINE closing == { e \in entries : items[e[1]].log[e[2]].closes = r }
  <2> HIDE DEF entries
  <2>1. ASSUME NEW e \in closing
        PROVE  /\ drafts[r].state = "committed" /\ e[1] = drafts[r].doc
               /\ items[e[1]].log[e[2]].seen = items[e[1]].log[e[2]].held
               /\ items[e[1]].log[e[2]].held = drafts[r].revision - 1
               /\ \A m \in 1..HeadOf(e[1]) : items[e[1]].log[m].closes = r => m = e[2]
    <3>1. e[1] \in Docs /\ e[2] \in 1..HeadOf(e[1]) /\ items[e[1]].log[e[2]].closes = r /\ r # None
      BY <1>0, <1>3
    <3>2. ClosedBy(e[1], e[2])
      BY <3>1 DEF DocInv, ClosingsKnown
    <3> QED BY <3>1, <3>2 DEF ClosedBy
  <2>2. CASE drafts[r].state = "committed"
    <3>1. PICK n \in 1..HeadOf(drafts[r].doc) : items[drafts[r].doc].log[n].closes = r
      BY <2>2 DEF DocInv, ClosingsKnown
    <3>2. drafts[r].doc \in Docs
      BY <2>2 DEF DocInv, ClosingsKnown
    <3>3. << drafts[r].doc, n >> \in closing
      BY <1>4, <3>1, <3>2
    <3>4. \A e \in closing : e = << drafts[r].doc, n >>
      BY <1>3, <2>1, <3>1
    <3>5. closing = { << drafts[r].doc, n >> }
      BY <3>3, <3>4
    <3>6. Cardinality(closing) = 1
      BY <3>5, OnlyOne
    <3> QED BY <2>1, <2>2, <3>6
  <2>3. CASE drafts[r].state # "committed"
    BY <2>1, <2>3
  <2> QED BY <2>2, <2>3
<1>6. ProposalIsOneVersion
  <2> SUFFICES ASSUME NEW p \in Proposals
               PROVE  { e \in entries : items[e[1]].log[e[2]].from = p }
                        = IF proposals[p].status = "accepted"
                          THEN { << proposals[p].doc, proposals[p].accepted >> } ELSE {}
    BY DEF ProposalIsOneVersion
  <2> HIDE DEF entries
  <2>1. \A e \in entries : items[e[1]].log[e[2]].from = p =>
          proposals[p].status = "accepted" /\ e = << proposals[p].doc, proposals[p].accepted >>
    BY <1>3 DEF DocInv, ProposalsKnown
  <2>2. proposals[p].status = "accepted" =>
          /\ << proposals[p].doc, proposals[p].accepted >> \in entries
          /\ items[proposals[p].doc].log[proposals[p].accepted].from = p
    BY <1>4 DEF DocInv, ProposalsKnown
  <2>3. CASE proposals[p].status = "accepted"
    BY <2>1, <2>2, <2>3
  <2>4. CASE proposals[p].status # "accepted"
    BY <2>1, <2>4
  <2> QED BY <2>3, <2>4
<1> QED BY <1>1, <1>2, <1>5, <1>6

(* A closed draft or proposal is not written to.                           *)
LEMMA ClosedStayClosed ==
  ASSUME DocInv, Next \/ UNCHANGED vars
  PROVE  [ /\ \A r \in Drafts : drafts[r].state \in {"committed", "discarded"} => drafts'[r] = drafts[r]
           /\ \A p \in Proposals :
                proposals[p].status \in {"accepted", "discarded"} => proposals'[p] = proposals[p] ]_vars
<1> DEFINE Stay == /\ \A r \in Drafts : drafts[r].state \in {"committed", "discarded"} => drafts'[r] = drafts[r]
                   /\ \A p \in Proposals :
                        proposals[p].status \in {"accepted", "discarded"} => proposals'[p] = proposals[p]
<1>0. drafts \in [Drafts -> DraftRows] /\ proposals \in [Proposals -> ProposalRows]
  BY DEF DocInv, TypeOK, DraftRows, ProposalRows
<1>a. ASSUME NEW r \in Drafts, drafts[r].state \notin {"committed", "discarded"}, NEW new,
             drafts' = [drafts EXCEPT ![r] = new], UNCHANGED proposals
      PROVE  Stay
  BY <1>0, <1>a
<1>b. ASSUME NEW p \in Proposals, proposals[p].status \notin {"accepted", "discarded"}, NEW new,
             proposals' = [proposals EXCEPT ![p] = new],
             \A r \in Drafts : drafts[r].state \in {"committed", "discarded"} => drafts'[r] = drafts[r]
      PROVE  Stay
  BY <1>0, <1>b
<1>1. CASE ItemRequest
  BY <1>1 DEF ItemRequest, CreateItem, ChangeItem, ArchiveItem, PublicationMoved
<1>2. CASE DraftRequest
  <2> PICK r \in Drafts :
        \/ CreateNewDraft(r)
        \/ \E d \in Docs : \E v \in Held(d), h \in 1..HeadOf(d) : CreateDraft(r, d, v, h)
        \/ \E n \in 1..drafts[r].revision :
             \/ SaveDraft(r, n)
             \/ DiscardDraft(r, n)
             \/ \E d \in Docs : CommitNewDraft(r, n, d)
             \/ \E v \in 1..MaxVersion, h \in 0..MaxVersion : CommitDraft(r, n, v, h)
    BY <1>2 DEF DraftRequest
  <2>1. CASE CreateNewDraft(r)
    BY <2>1, <1>a DEF CreateNewDraft
  <2>2. ASSUME NEW d \in Docs, NEW v \in Held(d), NEW h \in 1..HeadOf(d), CreateDraft(r, d, v, h) PROVE Stay
    BY <2>2, <1>a DEF CreateDraft
  <2>3. ASSUME NEW n \in 1..drafts[r].revision, SaveDraft(r, n) PROVE Stay
    BY <1>0, <2>3 DEF SaveDraft, CheckDraft
  <2>4. ASSUME NEW n \in 1..drafts[r].revision, DiscardDraft(r, n) PROVE Stay
    BY <2>4, <1>a DEF DiscardDraft, CheckDraft
  <2>5. ASSUME NEW n \in 1..drafts[r].revision, NEW d \in Docs, CommitNewDraft(r, n, d) PROVE Stay
    BY <2>5, <1>a DEF CommitNewDraft, CheckDraft
  <2>6. ASSUME NEW n \in 1..drafts[r].revision, NEW v \in 1..MaxVersion, NEW h \in 0..MaxVersion,
               CommitDraft(r, n, v, h)
        PROVE  Stay
    BY <2>6, <1>a DEF CommitDraft, CheckDraft
  <2> QED BY <2>1, <2>2, <2>3, <2>4, <2>5, <2>6
<1>3. CASE ProposalRequest
  <2> PICK p \in Proposals :
        \/ \E d \in Docs : \E v \in Held(d) : CreateProposal(p, d, v)
        \/ CreateNewProposal(p)
        \/ \E n \in 1..proposals[p].version :
             \/ DiscardProposal(p, n)
             \/ \E r \in Drafts \cup {None} :
                  \E s \in IF r = None THEN {0} ELSE 1..drafts[r].revision :
                    \/ \E v \in 1..MaxVersion, h \in 1..MaxVersion : AcceptProposal(p, n, v, h, r, s)
                    \/ \E d \in Docs : AcceptNewProposal(p, n, r, s, d)
    BY <1>3 DEF ProposalRequest
  <2>1. ASSUME NEW d \in Docs, NEW v \in Held(d), CreateProposal(p, d, v) PROVE Stay
    BY <2>1, <1>b DEF CreateProposal
  <2>2. CASE CreateNewProposal(p)
    BY <2>2, <1>b DEF CreateNewProposal
  <2>3. ASSUME NEW n \in 1..proposals[p].version, DiscardProposal(p, n) PROVE Stay
    BY <1>0, <2>3 DEF DiscardProposal, Open
  <2>4. ASSUME NEW n \in 1..proposals[p].version, NEW r \in Drafts \cup {None},
               NEW s \in IF r = None THEN {0} ELSE 1..drafts[r].revision,
               NEW v \in 1..MaxVersion, NEW h \in 1..MaxVersion, AcceptProposal(p, n, v, h, r, s)
        PROVE  Stay
    <3>1. \A q \in Drafts : drafts[q].state \in {"committed", "discarded"} => drafts'[q] = drafts[q]
      <4>1. r # None => r \in Drafts /\ drafts[r].state = "active"
        BY <2>4 DEF AcceptProposal, Paired, CheckDraft
      <4> QED BY <1>0, <2>4, <4>1 DEF AcceptProposal
    <3>2. \A q \in Proposals : q # p => proposals'[q] = proposals[q]
      BY <1>0, <2>4 DEF AcceptProposal
    <3> QED BY <2>4, <3>1, <3>2 DEF AcceptProposal, Open
  <2>5. ASSUME NEW n \in 1..proposals[p].version, NEW r \in Drafts \cup {None},
               NEW s \in IF r = None THEN {0} ELSE 1..drafts[r].revision,
               NEW d \in Docs, AcceptNewProposal(p, n, r, s, d)
        PROVE  Stay
    <3>1. \A q \in Drafts : drafts[q].state \in {"committed", "discarded"} => drafts'[q] = drafts[q]
      <4>1. r # None => r \in Drafts /\ drafts[r].state = "active"
        BY <2>5 DEF AcceptNewProposal, CheckDraft
      <4> QED BY <1>0, <2>5, <4>1 DEF AcceptNewProposal
    <3>2. \A q \in Proposals : q # p => proposals'[q] = proposals[q]
      BY <1>0, <2>5 DEF AcceptNewProposal
    <3> QED BY <2>5, <3>1, <3>2 DEF AcceptNewProposal, Open
  <2> QED BY <2>1, <2>2, <2>3, <2>4, <2>5
<1> QED BY <1>1, <1>2, <1>3 DEF Next, vars

(* The documents implement version logs: a request appends an entry on the *)
(* last one, archives a document that has one, or does nothing to the logs.*)
LEMMA LogStarts == Init => Log!LogInit
<1> SUFFICES ASSUME Init PROVE Log!LogInit
  OBVIOUS
<1>1. \A d \in Docs : HeadOf(d) = 0 /\ ~items[d].archived
  BY DEF Init, NoItem, HeadOf
<1> QED BY <1>1 DEF Log!LogInit, LastBasis

LEMMA LogAppends ==
  ASSUME DocInv, DocInv', NEW d \in Docs, NEW e, ~items[d].archived,
         items' = [items EXCEPT ![d] = Appended(@, e)]
  PROVE  Log!LogAppend(d)
<1>1. items[d] \in ItemRows /\ items[d].log \in Seq(Entries) /\ HeadOf(d) \in Nat /\ (\A c \in Docs : HeadOf(c) \in Nat)
  BY DocRows
<1>2. items'[d] = Appended(items[d], e) /\ \A c \in Docs \ {d} : items'[c] = items[c]
  BY DEF DocInv, TypeOK
<1>3. items'[d].log = Append(items[d].log, e) /\ items'[d].archived = items[d].archived
  BY <1>1, <1>2 DEF Appended, ItemRows
<1>4. HeadOf(d)' = HeadOf(d) + 1
  <2>1. items[d].log \in Seq(Entries \cup {e})
    BY <1>1
  <2>2. Len(Append(items[d].log, e)) = Len(items[d].log) + 1
    BY <2>1, Appending
  <2> QED BY <1>3, <2>2 DEF HeadOf
<1>5. LastBasis(d)' = HeadOf(d)
  <2>1. HeadOf(d)' \in 1..HeadOf(d)' /\ HeadOf(d)' # 0
    BY <1>1, <1>4
  <2>2. \A n \in 1..HeadOf(d)' : items'[d].log[n].basis = n - 1
    BY DEF DocInv, ItemsWhole, Whole, HeadOf
  <2>3. items'[d].log[HeadOf(d)'].basis = HeadOf(d)' - 1
    BY <2>1, <2>2
  <2> QED BY <1>1, <1>4, <2>1, <2>3 DEF LastBasis
<1>6. \A c \in Docs \ {d} : HeadOf(c)' = HeadOf(c) /\ LastBasis(c)' = LastBasis(c) /\ items'[c].archived = items[c].archived
  BY <1>2 DEF HeadOf, LastBasis
<1>7. d \notin { c \in Docs : items[c].archived }
  OBVIOUS
<1>8. [c \in Docs |-> HeadOf(c)]' = [[c \in Docs |-> HeadOf(c)] EXCEPT ![d] = @ + 1]
  BY <1>4, <1>6
<1>9. [c \in Docs |-> LastBasis(c)]' = [[c \in Docs |-> LastBasis(c)] EXCEPT ![d] = [c \in Docs |-> HeadOf(c)][d]]
  BY <1>5, <1>6
<1>10. { c \in Docs : items[c].archived }' = { c \in Docs : items[c].archived }
  BY <1>3, <1>6
<1> QED BY <1>7, <1>8, <1>9, <1>10 DEF Log!LogAppend

LEMMA LogCloses ==
  ASSUME DocInv, NEW d \in Docs, Active(d), items' = [items EXCEPT ![d] = [Moved(@) EXCEPT !.archived = TRUE]]
  PROVE  Log!LogClose(d)
<1>1. items[d] \in ItemRows /\ HeadOf(d) > 0 /\ ~items[d].archived
  BY DocRows DEF Active
<1>2. items'[d] = [Moved(items[d]) EXCEPT !.archived = TRUE] /\ \A c \in Docs \ {d} : items'[c] = items[c]
  BY DEF DocInv, TypeOK
<1>3. items'[d].log = items[d].log /\ items'[d].archived = TRUE
  BY <1>1, <1>2 DEF Moved, ItemRows
<1>4. \A c \in Docs : items'[c].log = items[c].log
  BY <1>2, <1>3
<1>5. \A c \in Docs : HeadOf(c)' = HeadOf(c) /\ LastBasis(c)' = LastBasis(c)
  BY <1>4 DEF HeadOf, LastBasis
<1>6. { c \in Docs : items[c].archived }' = { c \in Docs : items[c].archived } \cup {d}
  BY <1>2, <1>3
<1> QED BY <1>1, <1>5, <1>6 DEF Log!LogClose

LEMMA LogRests ==
  ASSUME \A d \in Docs : items'[d].log = items[d].log /\ items'[d].archived = items[d].archived
  PROVE  UNCHANGED Log!logVars
<1>1. \A c \in Docs : HeadOf(c)' = HeadOf(c) /\ LastBasis(c)' = LastBasis(c)
  BY DEF HeadOf, LastBasis
<1> QED BY <1>1 DEF Log!logVars

LEMMA LogStep ==
  ASSUME DocInv, DocInv', Next \/ UNCHANGED vars
  PROVE  [Log!LogNext]_(Log!logVars)
<1> DEFINE Steps == \/ \E d \in Docs : \E e : ~items[d].archived /\ items' = [items EXCEPT ![d] = Appended(@, e)]
                    \/ \E d \in Docs : Active(d) /\ items' = [items EXCEPT ![d] = [Moved(@) EXCEPT !.archived = TRUE]]
                    \/ \E d \in Docs : items' = [items EXCEPT ![d] = Moved(@)]
                    \/ UNCHANGED items
<1>1. ASSUME ItemRequest PROVE Steps
  <2>1. \A d \in Docs : ~Exists(d) => ~items[d].archived
    BY DocRows
  <2>2. ASSUME NEW d \in Docs, CreateItem(d) PROVE Steps
    BY <2>1, <2>2 DEF CreateItem
  <2>3. ASSUME NEW d \in Docs, NEW v \in Held(d), ChangeItem(d, v) PROVE Steps
    BY <2>3 DEF ChangeItem, Active
  <2>4. ASSUME NEW d \in Docs, NEW v \in Held(d), ArchiveItem(d, v) PROVE Steps
    BY <2>4 DEF ArchiveItem
  <2>5. ASSUME NEW d \in Docs, NEW v \in Held(d), PublicationMoved(d, v) PROVE Steps
    BY <2>5 DEF PublicationMoved
  <2> HIDE DEF Steps
  <2> QED BY <1>1, <2>2, <2>3, <2>4, <2>5 DEF ItemRequest
<1>2. ASSUME DraftRequest PROVE Steps
  <2> PICK r \in Drafts :
        \/ CreateNewDraft(r)
        \/ \E d \in Docs : \E v \in Held(d), h \in 1..HeadOf(d) : CreateDraft(r, d, v, h)
        \/ \E n \in 1..drafts[r].revision :
             \/ SaveDraft(r, n)
             \/ DiscardDraft(r, n)
             \/ \E d \in Docs : CommitNewDraft(r, n, d)
             \/ \E v \in 1..MaxVersion, h \in 0..MaxVersion : CommitDraft(r, n, v, h)
    BY <1>2 DEF DraftRequest
  <2>1. ASSUME NEW n, NEW d \in Docs, CommitNewDraft(r, n, d) PROVE Steps
    <3>1. ~items[d].archived
      BY <2>1, DocRows DEF CommitNewDraft
    <3> QED BY <2>1, <3>1 DEF CommitNewDraft
  <2>2. ASSUME NEW n, NEW v, NEW h, CommitDraft(r, n, v, h) PROVE Steps
    <3>1. drafts[r].doc \in Docs /\ ~items[drafts[r].doc].archived
      BY <2>2, DocRows DEF CommitDraft, Active
    <3> QED BY <2>2, <3>1 DEF CommitDraft
  <2>3. ASSUME CreateNewDraft(r) PROVE Steps
    BY <2>3 DEF CreateNewDraft
  <2>4. ASSUME NEW d, NEW v, NEW h, CreateDraft(r, d, v, h) PROVE Steps
    BY <2>4 DEF CreateDraft
  <2>5. ASSUME NEW n, SaveDraft(r, n) \/ DiscardDraft(r, n) PROVE Steps
    BY <2>5 DEF SaveDraft, DiscardDraft
  <2> HIDE DEF Steps
  <2> QED BY <2>1, <2>2, <2>3, <2>4, <2>5
<1>3. ASSUME ProposalRequest PROVE Steps
  <2> PICK p \in Proposals :
        \/ \E d \in Docs : \E v \in Held(d) : CreateProposal(p, d, v)
        \/ CreateNewProposal(p)
        \/ \E n \in 1..proposals[p].version :
             \/ DiscardProposal(p, n)
             \/ \E r \in Drafts \cup {None} :
                  \E s \in IF r = None THEN {0} ELSE 1..drafts[r].revision :
                    \/ \E v \in 1..MaxVersion, h \in 1..MaxVersion : AcceptProposal(p, n, v, h, r, s)
                    \/ \E d \in Docs : AcceptNewProposal(p, n, r, s, d)
    BY <1>3 DEF ProposalRequest
  <2>1. ASSUME NEW n, NEW v, NEW h, NEW r, NEW s, AcceptProposal(p, n, v, h, r, s) PROVE Steps
    <3>1. proposals[p].doc \in Docs /\ ~items[proposals[p].doc].archived
      BY <2>1, DocRows DEF AcceptProposal, Active
    <3> QED BY <2>1, <3>1 DEF AcceptProposal
  <2>2. ASSUME NEW n, NEW r, NEW s, NEW d \in Docs, AcceptNewProposal(p, n, r, s, d) PROVE Steps
    <3>1. ~items[d].archived
      BY <2>2, DocRows DEF AcceptNewProposal
    <3> QED BY <2>2, <3>1 DEF AcceptNewProposal
  <2>3. ASSUME NEW d, NEW v, CreateProposal(p, d, v) PROVE Steps
    BY <2>3 DEF CreateProposal
  <2>4. ASSUME CreateNewProposal(p) PROVE Steps
    BY <2>4 DEF CreateNewProposal
  <2>5. ASSUME NEW n, DiscardProposal(p, n) PROVE Steps
    BY <2>5 DEF DiscardProposal
  <2> HIDE DEF Steps
  <2> QED BY <2>1, <2>2, <2>3, <2>4, <2>5
<1>4. ASSUME UNCHANGED vars PROVE Steps
  BY <1>4 DEF vars
<1>5. Steps
  <2> HIDE DEF Steps
  <2> QED BY <1>1, <1>2, <1>3, <1>4 DEF Next
<1>6. ASSUME NEW d \in Docs, items' = [items EXCEPT ![d] = Moved(@)] PROVE UNCHANGED Log!logVars
  <2>1. items[d] \in ItemRows
    BY DocRows
  <2>2. Moved(items[d]).log = items[d].log /\ Moved(items[d]).archived = items[d].archived
    BY <2>1 DEF Moved, ItemRows
  <2>3. items'[d] = Moved(items[d]) /\ \A c \in Docs \ {d} : items'[c] = items[c]
    BY <1>6 DEF DocInv, TypeOK
  <2> QED BY <2>2, <2>3, LogRests
<1>7. UNCHANGED items => UNCHANGED Log!logVars
  BY LogRests
<1> QED BY <1>5, <1>6, <1>7, LogAppends, LogCloses DEF Log!LogNext

-----------------------------------------------------------------------------
(* Posts: the same argument for their tables, and what releases add.       *)

PostRows         == [version : 0..MaxPostVersion, archived : BOOLEAN, log : Seq(Post!Entries), head : Nat]
PostDraftRows    == [state : {"none", "active", "committed", "discarded"},
                     post : Posts \cup {None}, revision : Nat, base : Nat, baseHead : Nat]
PostProposalRows == [status : {"none", "pending", "accepted", "discarded"},
                     post : Posts \cup {None}, version : Nat, draft : PostDrafts \cup {None}, accepted : Nat]
ReleaseRows      == [post : Posts, content : Nat, stamps : [published : Nat, updated : Nat]]

(* A post has versions if it exists, each written on the one before it; a  *)
(* draft that makes a version is closed by it; an archived post and one    *)
(* that does not exist have no release.                                    *)
PostWhole(it) ==
  /\ it.version > 0 <=> Len(it.log) > 0
  /\ it.version = 0 => ~it.archived /\ it.head = 0
  /\ it.archived => it.head = 0
  /\ it.head <= Len(postReleases)
  /\ \A n \in 1..Len(it.log) : /\ it.log[n].basis = n - 1
                               /\ it.log[n].from \in PostDrafts => it.log[n].closes = it.log[n].from

PostsWhole == \A p \in Posts : PostWhole(posts[p])

PostOneOpen ==
  \A r, s \in PostDrafts :
    postDrafts[r].state = "active" /\ postDrafts[s].state = "active" /\ postDrafts[r].post # None
      /\ postDrafts[r].post = postDrafts[s].post => r = s

(* As with documents.                                                      *)
PostClosedBy(p, n) ==
  LET e == posts[p].log[n] IN
  e.closes # None =>
    /\ postDrafts[e.closes].state = "committed" /\ postDrafts[e.closes].post = p
    /\ e.seen = e.held /\ e.held = postDrafts[e.closes].revision - 1
    /\ \A m \in 1..Post!HeadOf(p) : posts[p].log[m].closes = e.closes => m = n

PostClosingsKnown ==
  /\ \A p \in Posts : \A n \in 1..Post!HeadOf(p) : PostClosedBy(p, n)
  /\ \A r \in PostDrafts : postDrafts[r].state = "committed" =>
       /\ postDrafts[r].post \in Posts
       /\ \E n \in 1..Post!HeadOf(postDrafts[r].post) : posts[postDrafts[r].post].log[n].closes = r

PostMadeBy(p, n) ==
  LET q == posts[p].log[n].from IN
  q \in PostProposals =>
    /\ postProposals[q].status = "accepted" /\ postProposals[q].post = p /\ postProposals[q].accepted = n
    /\ n = 1 /\ postProposals[q].draft # None => posts[p].log[n].closes = postProposals[q].draft

PostProposalsKnown ==
  /\ \A p \in Posts : \A n \in 1..Post!HeadOf(p) : PostMadeBy(p, n)
  /\ \A q \in PostProposals : postProposals[q].status = "accepted" =>
       /\ postProposals[q].post \in Posts
       /\ postProposals[q].accepted \in 1..Post!HeadOf(postProposals[q].post)
       /\ posts[postProposals[q].post].log[postProposals[q].accepted].from = q

(* A release is stamped with its place, and passes on an earlier one.      *)
ReleasesStamped ==
  /\ postReleases \in Seq(ReleaseRows)
  /\ \A n \in 1..Len(postReleases) :
       postReleases[n].stamps.published \in 1..n /\ postReleases[n].stamps.updated = n

PostTyped ==
  /\ posts \in [Posts -> PostRows]
  /\ postDrafts \in [PostDrafts -> PostDraftRows]
  /\ postProposals \in [PostProposals -> PostProposalRows]

PostInv == /\ PostTyped /\ PostsWhole /\ PostOneOpen
           /\ PostClosingsKnown /\ PostProposalsKnown /\ ReleasesStamped

LEMMA PostConstants ==
  /\ None \notin Posts \cup PostDrafts \cup PostProposals
  /\ PostDrafts \cap PostProposals = {}
  /\ MaxPostVersion \in Nat /\ MaxPostVersion > 0
  BY PartsAssumption DEF Post!PostAssumption

PostAppended(it, e) == [ it EXCEPT !.version = @ + 1, !.log = Append(@, e) ]

(* Appending an entry on the head keeps a post whole.                      *)
LEMMA PostWholeAppended ==
  ASSUME NEW it \in PostRows, NEW e \in Post!Entries, PostWhole(it), e.basis = Len(it.log),
         it.version < MaxPostVersion, e.from \in PostDrafts => e.closes = e.from
  PROVE  /\ PostAppended(it, e) \in PostRows /\ PostWhole(PostAppended(it, e))
         /\ PostAppended(it, e).log = Append(it.log, e)
         /\ PostAppended(it, e).archived = it.archived /\ PostAppended(it, e).head = it.head
<1> DEFINE new == PostAppended(it, e)
<1>1. it.log \in Seq(Post!Entries) /\ it.version \in Nat /\ Len(it.log) \in Nat /\ it.version + 1 \in 0..MaxPostVersion
  BY PostConstants DEF PostRows
<1>2. /\ Append(it.log, e) \in Seq(Post!Entries)
      /\ Len(Append(it.log, e)) = Len(it.log) + 1
      /\ \A n \in 1..Len(it.log) : Append(it.log, e)[n] = it.log[n]
      /\ Append(it.log, e)[Len(it.log) + 1] = e
  BY <1>1, Appending
<1>3. new \in PostRows
  BY <1>1, <1>2 DEF PostAppended, PostRows
<1>4. /\ new.version = it.version + 1 /\ new.archived = it.archived /\ new.head = it.head
      /\ new.log = Append(it.log, e)
  BY <1>3 DEF PostAppended, PostRows
<1> HIDE DEF new
<1>5. ASSUME NEW n \in 1..Len(new.log)
      PROVE  new.log[n].basis = n - 1 /\ (new.log[n].from \in PostDrafts => new.log[n].closes = new.log[n].from)
  <2>1. CASE n \in 1..Len(it.log)
    BY <1>2, <1>4, <2>1 DEF PostWhole
  <2>2. CASE n = Len(it.log) + 1
    BY <1>1, <1>2, <1>4, <2>2
  <2> QED BY <1>1, <1>2, <1>4, <2>1, <2>2
<1>6. PostWhole(new)
  BY <1>1, <1>2, <1>4, <1>5 DEF PostWhole
<1> QED BY <1>3, <1>4, <1>6 DEF new

LEMMA PostLogsStand ==
  ASSUME PostTyped, PostClosingsKnown, PostProposalsKnown,
         \A p \in Posts : posts'[p].log = posts[p].log,
         \A r \in PostDrafts :
           postDrafts'[r] = postDrafts[r] \/ (postDrafts[r].state # "committed" /\ postDrafts'[r].state # "committed"),
         \A q \in PostProposals :
           postProposals'[q] = postProposals[q]
             \/ (postProposals[q].status # "accepted" /\ postProposals'[q].status # "accepted")
  PROVE  PostClosingsKnown' /\ PostProposalsKnown'
<1>1. \A p \in Posts : /\ Post!HeadOf(p)' = Post!HeadOf(p)
                       /\ \A n \in 1..Post!HeadOf(p) : posts'[p].log[n] = posts[p].log[n] /\ posts[p].log[n] \in Post!Entries
  BY DEF Post!HeadOf, PostTyped, PostRows
<1>2. ASSUME NEW p \in Posts, NEW n \in 1..Post!HeadOf(p) PROVE PostClosedBy(p, n)'
  <2>1. PostClosedBy(p, n) /\ posts[p].log[n].closes \in PostDrafts \cup {None}
    BY <1>1 DEF PostClosingsKnown, Post!Entries
  <2> QED BY <1>1, <2>1 DEF PostClosedBy
<1>3. ASSUME NEW r \in PostDrafts, postDrafts'[r].state = "committed"
      PROVE  (/\ postDrafts[r].post \in Posts
              /\ \E n \in 1..Post!HeadOf(postDrafts[r].post) : posts[postDrafts[r].post].log[n].closes = r)'
  <2>1. postDrafts'[r] = postDrafts[r]
    BY <1>3
  <2>2. /\ postDrafts[r].post \in Posts
        /\ \E n \in 1..Post!HeadOf(postDrafts[r].post) : posts[postDrafts[r].post].log[n].closes = r
    BY <1>3, <2>1 DEF PostClosingsKnown
  <2> QED BY <1>1, <2>1, <2>2
<1>4. ASSUME NEW p \in Posts, NEW n \in 1..Post!HeadOf(p) PROVE PostMadeBy(p, n)'
  <2> DEFINE q == posts[p].log[n].from
  <2>1. PostMadeBy(p, n)
    BY DEF PostProposalsKnown
  <2>2. posts'[p].log[n] = posts[p].log[n]
    BY <1>1
  <2>3. q \in PostProposals /\ postProposals[q].status = "accepted" => postProposals'[q] = postProposals[q]
    BY DEF q
  <2> QED BY <2>1, <2>2, <2>3 DEF PostMadeBy
<1>5. ASSUME NEW q \in PostProposals, postProposals'[q].status = "accepted"
      PROVE  (/\ postProposals[q].post \in Posts /\ postProposals[q].accepted \in 1..Post!HeadOf(postProposals[q].post)
              /\ posts[postProposals[q].post].log[postProposals[q].accepted].from = q)'
  <2>1. postProposals'[q] = postProposals[q]
    BY <1>5
  <2>2. /\ postProposals[q].post \in Posts /\ postProposals[q].accepted \in 1..Post!HeadOf(postProposals[q].post)
        /\ posts[postProposals[q].post].log[postProposals[q].accepted].from = q
    BY <1>5, <2>1 DEF PostProposalsKnown
  <2> QED BY <1>1, <2>1, <2>2
<1>6. PostProposalsKnown'
  BY <1>1, <1>4, <1>5 DEF PostProposalsKnown
<1> QED BY <1>1, <1>2, <1>3, <1>6 DEF PostClosingsKnown

(* A post's draft is begun, saved or discarded.                            *)
LEMMA PostDraftMoves ==
  ASSUME PostInv, NEW r \in PostDrafts, NEW new \in PostDraftRows,
         postDrafts' = [postDrafts EXCEPT ![r] = new], UNCHANGED << posts, postProposals, postReleases >>,
         postDrafts[r].state # "committed", new.state # "committed",
         new.state = "active" /\ new.post # None =>
           \A s \in PostDrafts \ {r} : postDrafts[s].state = "active" => postDrafts[s].post # new.post
  PROVE  PostInv'
<1>1. postDrafts'[r] = new /\ \A s \in PostDrafts \ {r} : postDrafts'[s] = postDrafts[s]
  BY DEF PostInv, PostTyped
<1>2. PostTyped'
  BY DEF PostInv, PostTyped
<1>3. PostsWhole' /\ ReleasesStamped'
  BY DEF PostInv, PostsWhole, PostWhole, ReleasesStamped
<1>4. PostOneOpen'
  BY <1>1 DEF PostInv, PostOneOpen
<1>5. PostClosingsKnown' /\ PostProposalsKnown'
  BY <1>1, PostLogsStand DEF PostInv
<1> QED BY <1>2, <1>3, <1>4, <1>5 DEF PostInv

(* A post's proposal is made or discarded.                                 *)
LEMMA PostProposalMoves ==
  ASSUME PostInv, NEW q \in PostProposals, NEW new \in PostProposalRows,
         postProposals' = [postProposals EXCEPT ![q] = new], UNCHANGED << posts, postDrafts, postReleases >>,
         postProposals[q].status # "accepted", new.status # "accepted"
  PROVE  PostInv'
<1>1. postProposals'[q] = new /\ \A s \in PostProposals \ {q} : postProposals'[s] = postProposals[s]
  BY DEF PostInv, PostTyped
<1>2. PostTyped'
  BY DEF PostInv, PostTyped
<1>3. PostsWhole' /\ ReleasesStamped' /\ PostOneOpen'
  BY DEF PostInv, PostsWhole, PostWhole, ReleasesStamped, PostOneOpen
<1>5. PostClosingsKnown' /\ PostProposalsKnown'
  BY <1>1, PostLogsStand DEF PostInv
<1> QED BY <1>2, <1>3, <1>5 DEF PostInv

(* A post is published, withdrawn or archived.                             *)
LEMMA PostVersionMoves ==
  ASSUME PostInv, NEW p \in Posts, NEW new \in PostRows, posts[p].version > 0,
         posts' = [posts EXCEPT ![p] = new], UNCHANGED << postDrafts, postProposals >>,
         new.log = posts[p].log, new.version = posts[p].version + 1, new.archived => new.head = 0,
         new.head <= Len(postReleases'), Len(postReleases) <= Len(postReleases'), ReleasesStamped'
  PROVE  PostInv'
<1>1. posts'[p] = new /\ (\A c \in Posts \ {p} : posts'[c] = posts[c]) /\ \A c \in Posts : posts[c] \in PostRows
  BY DEF PostInv, PostTyped
<1>2. PostTyped'
  BY DEF PostInv, PostTyped
<1>3. PostsWhole'
  <2> SUFFICES ASSUME NEW c \in Posts PROVE PostWhole(posts[c])'
    BY DEF PostsWhole
  <2>1. PostWhole(posts[c]) /\ posts[c].head \in Nat /\ posts[c].version \in Nat
    BY <1>1, PostConstants DEF PostInv, PostsWhole, PostRows
  <2>2. Len(postReleases) \in Nat /\ Len(postReleases') \in Nat
    BY DEF PostInv, ReleasesStamped
  <2>3. CASE c = p
    BY <1>1, <2>1, <2>2, <2>3 DEF PostWhole
  <2>4. CASE c # p
    BY <1>1, <2>1, <2>2, <2>4 DEF PostWhole
  <2> QED BY <2>3, <2>4
<1>4. PostOneOpen'
  BY DEF PostInv, PostOneOpen
<1>5. PostClosingsKnown' /\ PostProposalsKnown'
  BY <1>1, PostLogsStand DEF PostInv
<1> QED BY <1>2, <1>3, <1>4, <1>5 DEF PostInv

(* The draft that entry e closes, if any, is committed as a text of p; and *)
(* so is the proposal it is from accepted, which has closed the draft that *)
(* it stands on if the post is new.                                        *)
ClosesWith(e, r, p) ==
  /\ r = None => UNCHANGED postDrafts
  /\ r # None =>
       \E new \in PostDraftRows :
         /\ postDrafts' = [postDrafts EXCEPT ![r] = new]
         /\ postDrafts[r].state = "active" /\ new.state = "committed" /\ new.post = p
         /\ e.seen = e.held /\ e.held = new.revision - 1

AcceptsWith(e, r, p) ==
  /\ e.from \notin PostProposals => UNCHANGED postProposals
  /\ e.from \in PostProposals =>
       \E new \in PostProposalRows :
         /\ postProposals' = [postProposals EXCEPT ![e.from] = new]
         /\ postProposals[e.from].status = "pending" /\ new.status = "accepted"
         /\ new.post = p /\ new.accepted = Post!HeadOf(p) + 1
         /\ Post!HeadOf(p) = 0 /\ new.draft # None => r = new.draft

(* A version is saved: what it closes and what it accepts moves with it.   *)
LEMMA PostSaved ==
  ASSUME PostInv, NEW p \in Posts, NEW e \in Post!Entries, e.basis = Post!HeadOf(p),
         posts[p].version < MaxPostVersion,
         posts' = [posts EXCEPT ![p] = PostAppended(posts[p], e)], UNCHANGED postReleases,
         NEW r \in PostDrafts \cup {None}, e.closes = r,
         e.from \in PostDrafts => r = e.from,
         ClosesWith(e, r, p), AcceptsWith(e, r, p)
  PROVE  PostInv'
<1> DEFINE saved == PostAppended(posts[p], e)
<1>1. posts'[p] = saved /\ (\A c \in Posts \ {p} : posts'[c] = posts[c]) /\ posts[p] \in PostRows
  BY DEF PostInv, PostTyped
<1>2. /\ saved \in PostRows /\ PostWhole(saved) /\ saved.log = Append(posts[p].log, e)
  BY <1>1, PostWholeAppended DEF PostInv, PostsWhole, Post!HeadOf
<1> HIDE DEF saved
<1>3. /\ \A c \in Posts : Post!HeadOf(c) \in Nat
      /\ Post!HeadOf(p)' = Post!HeadOf(p) + 1
      /\ posts'[p].log[Post!HeadOf(p) + 1] = e
      /\ \A n \in 1..Post!HeadOf(p) : posts'[p].log[n] = posts[p].log[n]
  <2>1. posts[p].log \in Seq(Post!Entries) /\ \A c \in Posts : posts[c].log \in Seq(Post!Entries)
    BY DEF PostInv, PostTyped, PostRows
  <2> QED BY <1>1, <1>2, <2>1, Appending DEF Post!HeadOf
<1>4. \A c \in Posts \ {p} : Post!HeadOf(c)' = Post!HeadOf(c) /\ posts'[c].log = posts[c].log
  BY <1>1 DEF Post!HeadOf
<1>5. \A c \in Posts : \A n \in 1..Post!HeadOf(c)' :
        \/ n \in 1..Post!HeadOf(c) /\ posts'[c].log[n] = posts[c].log[n]
        \/ c = p /\ n = Post!HeadOf(p) + 1 /\ posts'[c].log[n] = e
  BY <1>3, <1>4
<1>6. \A c \in Posts : \A n \in 1..Post!HeadOf(c) :
        n \in 1..Post!HeadOf(c)' /\ posts'[c].log[n] = posts[c].log[n] /\ posts[c].log[n] \in Post!Entries
  <2>1. \A c \in Posts : posts[c].log \in Seq(Post!Entries)
    BY DEF PostInv, PostTyped, PostRows
  <2>2. \A c \in Posts : \A n \in 1..Post!HeadOf(c) : posts[c].log[n] \in Post!Entries
    BY <2>1 DEF Post!HeadOf
  <2> QED BY <1>3, <1>4, <2>2
<1>7. /\ \A s \in PostDrafts : s # r => postDrafts'[s] = postDrafts[s]
      /\ r # None => /\ postDrafts[r].state = "active" /\ postDrafts'[r].state = "committed" /\ postDrafts'[r].post = p
                     /\ postDrafts'[r] \in PostDraftRows /\ e.seen = e.held /\ e.held = postDrafts'[r].revision - 1
      /\ postDrafts' \in [PostDrafts -> PostDraftRows]
  <2>0. postDrafts \in [PostDrafts -> PostDraftRows]
    BY DEF PostInv, PostTyped
  <2>1. CASE r = None
    BY <2>0, <2>1, PostConstants DEF ClosesWith
  <2>2. CASE r # None
    BY <2>0, <2>2 DEF ClosesWith
  <2> QED BY <2>1, <2>2
<1>8. /\ \A q \in PostProposals : q # e.from => postProposals'[q] = postProposals[q]
      /\ e.from \in PostProposals =>
           /\ postProposals[e.from].status = "pending" /\ postProposals'[e.from].status = "accepted"
           /\ postProposals'[e.from].post = p /\ postProposals'[e.from].accepted = Post!HeadOf(p) + 1
           /\ Post!HeadOf(p) = 0 /\ postProposals'[e.from].draft # None => r = postProposals'[e.from].draft
      /\ postProposals' \in [PostProposals -> PostProposalRows]
  <2>0. postProposals \in [PostProposals -> PostProposalRows]
    BY DEF PostInv, PostTyped
  <2>1. CASE e.from \notin PostProposals
    BY <2>0, <2>1 DEF AcceptsWith
  <2>2. CASE e.from \in PostProposals
    BY <2>0, <2>2 DEF AcceptsWith
  <2> QED BY <2>1, <2>2
<1>9. PostTyped' /\ ReleasesStamped'
  <2>1. posts' \in [Posts -> PostRows]
    BY <1>1, <1>2 DEF PostInv, PostTyped, saved
  <2> QED BY <1>7, <1>8, <2>1 DEF PostTyped, PostInv, ReleasesStamped
<1>10. PostsWhole'
  <2> SUFFICES ASSUME NEW c \in Posts PROVE PostWhole(posts[c])'
    BY DEF PostsWhole
  <2>1. CASE c = p
    <3>1. PostWhole(saved) /\ posts'[c] = saved
      BY <1>1, <1>2, <2>1
    <3> QED BY <3>1 DEF PostWhole
  <2>2. CASE c # p
    <3>1. PostWhole(posts[c]) /\ posts'[c] = posts[c]
      BY <1>1, <2>2 DEF PostInv, PostsWhole
    <3> QED BY <3>1 DEF PostWhole
  <2> QED BY <2>1, <2>2
<1>11. PostOneOpen'
  <2> SUFFICES ASSUME NEW s \in PostDrafts, NEW t \in PostDrafts,
                      postDrafts'[s].state = "active", postDrafts'[t].state = "active",
                      postDrafts'[s].post # None, postDrafts'[s].post = postDrafts'[t].post
               PROVE  s = t
    BY DEF PostOneOpen
  <2>1. s # r /\ t # r
    BY <1>7, PostConstants
  <2> QED BY <1>7, <2>1 DEF PostInv, PostOneOpen
<1>12. ASSUME NEW c \in Posts, NEW n \in 1..Post!HeadOf(c)' PROVE PostClosedBy(c, n)'
  <2> SUFFICES ASSUME posts'[c].log[n].closes # None
               PROVE  LET f == posts'[c].log[n] IN
                      /\ postDrafts'[f.closes].state = "committed" /\ postDrafts'[f.closes].post = c
                      /\ f.seen = f.held /\ f.held = postDrafts'[f.closes].revision - 1
                      /\ \A m \in 1..Post!HeadOf(c)' : posts'[c].log[m].closes = f.closes => m = n
    BY DEF PostClosedBy
  <2>1. CASE n \in 1..Post!HeadOf(c) /\ posts'[c].log[n] = posts[c].log[n]
    <3> DEFINE f == posts[c].log[n]
    <3>1. PostClosedBy(c, n) /\ f.closes \in PostDrafts
      BY <1>6, <2>1 DEF PostInv, PostClosingsKnown, Post!Entries
    <3>2. f.closes # r
      BY <1>7, <2>1, <3>1 DEF PostClosedBy
    <3>3. postDrafts'[f.closes] = postDrafts[f.closes]
      BY <1>7, <3>1, <3>2
    <3>4. ASSUME NEW m \in 1..Post!HeadOf(c)', posts'[c].log[m].closes = f.closes PROVE m = n
      <4>1. m \in 1..Post!HeadOf(c) /\ posts'[c].log[m] = posts[c].log[m]
        BY <1>5, <3>2, <3>4
      <4> QED BY <2>1, <3>1, <3>4, <4>1 DEF PostClosedBy
    <3> QED BY <2>1, <3>1, <3>3, <3>4 DEF PostClosedBy
  <2>2. CASE c = p /\ n = Post!HeadOf(p) + 1 /\ posts'[c].log[n] = e
    <3>1. r \in PostDrafts /\ r # None
      BY <2>2
    <3>2. ASSUME NEW m \in 1..Post!HeadOf(c)', posts'[c].log[m].closes = r PROVE m = n
      <4>1. CASE m \in 1..Post!HeadOf(c) /\ posts'[c].log[m] = posts[c].log[m]
        <5>1. PostClosedBy(c, m)
          BY <4>1 DEF PostInv, PostClosingsKnown
        <5> QED BY <1>7, <3>1, <3>2, <4>1, <5>1 DEF PostClosedBy
      <4> QED BY <1>5, <2>2, <4>1
    <3> QED BY <1>7, <2>2, <3>1, <3>2
  <2> QED BY <1>5, <2>1, <2>2
<1>13. ASSUME NEW s \in PostDrafts, postDrafts'[s].state = "committed"
       PROVE  (/\ postDrafts[s].post \in Posts
               /\ \E n \in 1..Post!HeadOf(postDrafts[s].post) : posts[postDrafts[s].post].log[n].closes = s)'
  <2>1. CASE s = r
    <3>1. s # None
      BY PostConstants
    <3>2. /\ postDrafts'[s].post = p /\ Post!HeadOf(p) + 1 \in 1..Post!HeadOf(p)'
          /\ posts'[p].log[Post!HeadOf(p) + 1].closes = s
      BY <1>3, <1>7, <2>1, <3>1
    <3> QED BY <3>2
  <2>2. CASE s # r
    <3>1. postDrafts'[s] = postDrafts[s]
      BY <1>7, <2>2
    <3>2. /\ postDrafts[s].post \in Posts
          /\ \E n \in 1..Post!HeadOf(postDrafts[s].post) : posts[postDrafts[s].post].log[n].closes = s
      BY <1>13, <3>1 DEF PostInv, PostClosingsKnown
    <3> QED BY <1>6, <3>1, <3>2
  <2> QED BY <2>1, <2>2
<1>14. PostClosingsKnown'
  BY <1>12, <1>13 DEF PostClosingsKnown
<1>15. ASSUME NEW c \in Posts, NEW n \in 1..Post!HeadOf(c)' PROVE PostMadeBy(c, n)'
  <2>1. CASE n \in 1..Post!HeadOf(c) /\ posts'[c].log[n] = posts[c].log[n]
    <3>1. PostMadeBy(c, n)
      BY <2>1 DEF PostInv, PostProposalsKnown
    <3>2. ASSUME NEW q \in PostProposals, postProposals[q].status = "accepted" PROVE postProposals'[q] = postProposals[q]
      BY <1>8, <3>2
    <3> QED BY <2>1, <3>1, <3>2 DEF PostMadeBy
  <2>2. CASE c = p /\ n = Post!HeadOf(p) + 1 /\ posts'[c].log[n] = e
    <3>1. n = 1 => Post!HeadOf(p) = 0
      BY <1>3, <2>2
    <3> QED BY <1>8, <2>2, <3>1 DEF PostMadeBy
  <2> QED BY <1>5, <2>1, <2>2
<1>16. ASSUME NEW q \in PostProposals, postProposals'[q].status = "accepted"
       PROVE  (/\ postProposals[q].post \in Posts
               /\ postProposals[q].accepted \in 1..Post!HeadOf(postProposals[q].post)
               /\ posts[postProposals[q].post].log[postProposals[q].accepted].from = q)'
  <2>1. CASE q = e.from
    BY <1>3, <1>8, <2>1
  <2>2. CASE q # e.from
    <3>1. postProposals'[q] = postProposals[q]
      BY <1>8, <2>2
    <3>2. /\ postProposals[q].post \in Posts
          /\ postProposals[q].accepted \in 1..Post!HeadOf(postProposals[q].post)
          /\ posts[postProposals[q].post].log[postProposals[q].accepted].from = q
      BY <1>16, <3>1 DEF PostInv, PostProposalsKnown
    <3> QED BY <1>6, <3>1, <3>2
  <2> QED BY <2>1, <2>2
<1>17. PostProposalsKnown'
  BY <1>15, <1>16 DEF PostProposalsKnown
<1> QED BY <1>9, <1>10, <1>11, <1>14, <1>17 DEF PostInv

LEMMA PostInit == Post!Init => PostInv
<1> SUFFICES ASSUME Post!Init PROVE PostInv
  OBVIOUS
<1>1. Post!NoPost \in PostRows /\ Post!NoPost.version = 0 /\ Post!NoPost.head = 0 /\ Len(Post!NoPost.log) = 0 /\ ~Post!NoPost.archived
  <2>1. << >> \in Seq(Post!Entries) /\ Len(<< >>) = 0 /\ 0 \in 0..MaxPostVersion
    BY PostConstants
  <2> QED BY <2>1 DEF Post!NoPost, PostRows
<1>2. Post!NoDraft \in PostDraftRows /\ Post!NoDraft.state = "none"
  BY DEF Post!NoDraft, PostDraftRows
<1>3. Post!NoProposal \in PostProposalRows /\ Post!NoProposal.status = "none"
  BY DEF Post!NoProposal, PostProposalRows
<1>4. PostTyped
  BY <1>1, <1>2, <1>3 DEF Post!Init, PostTyped
<1>5. \A p \in Posts : posts[p] = Post!NoPost /\ Post!HeadOf(p) = 0
  BY <1>1 DEF Post!Init, Post!HeadOf
<1>6. ReleasesStamped /\ Len(postReleases) = 0
  BY DEF Post!Init, ReleasesStamped
<1>7. PostsWhole
  BY <1>1, <1>5, <1>6 DEF PostsWhole, PostWhole
<1> QED BY <1>2, <1>3, <1>4, <1>5, <1>6, <1>7
        DEF Post!Init, PostInv, PostOneOpen, PostClosingsKnown, PostProposalsKnown

(* The rows and numbers a step finds.                                      *)
LEMMA PostRowsFound ==
  ASSUME PostInv
  PROVE  /\ \A p \in Posts : /\ posts[p] \in PostRows /\ Post!HeadOf(p) \in Nat
                             /\ posts[p].version \in Nat /\ posts[p].version <= MaxPostVersion
                             /\ posts[p].archived \in BOOLEAN /\ posts[p].head \in Nat
                             /\ posts[p].head <= Len(postReleases)
                             /\ posts[p].log \in Seq(Post!Entries)
                             /\ Post!HeadOf(p) > 0 <=> posts[p].version > 0
                             /\ (posts[p].version = 0 => ~posts[p].archived)
         /\ \A r \in PostDrafts : /\ postDrafts[r] \in PostDraftRows /\ postDrafts[r].revision \in Nat
                                  /\ postDrafts[r].post \in Posts \cup {None} /\ postDrafts[r].baseHead \in Nat
         /\ \A q \in PostProposals : /\ postProposals[q] \in PostProposalRows /\ postProposals[q].version \in Nat
                                     /\ postProposals[q].post \in Posts \cup {None}
                                     /\ postProposals[q].draft \in PostDrafts \cup {None}
<1>1. \A p \in Posts : posts[p] \in PostRows /\ PostWhole(posts[p])
  BY DEF PostInv, PostTyped, PostsWhole
<1>2. \A p \in Posts : posts[p].log \in Seq(Post!Entries) /\ Post!HeadOf(p) \in Nat /\ posts[p].version \in Nat
                         /\ posts[p].version <= MaxPostVersion /\ posts[p].archived \in BOOLEAN /\ posts[p].head \in Nat
  BY <1>1, PostConstants DEF PostRows, Post!HeadOf
<1>3. \A p \in Posts : /\ posts[p].head <= Len(postReleases) /\ (Post!HeadOf(p) > 0 <=> posts[p].version > 0)
                       /\ (posts[p].version = 0 => ~posts[p].archived)
  BY <1>1, <1>2 DEF Post!HeadOf, PostWhole
<1>4. \A r \in PostDrafts : postDrafts[r] \in PostDraftRows
  BY DEF PostInv, PostTyped
<1>5. \A q \in PostProposals : postProposals[q] \in PostProposalRows
  BY DEF PostInv, PostTyped
<1>6. \A r \in PostDrafts : /\ postDrafts[r].revision \in Nat
                            /\ postDrafts[r].post \in Posts \cup {None} /\ postDrafts[r].baseHead \in Nat
  BY <1>4 DEF PostDraftRows
<1>7. \A q \in PostProposals : /\ postProposals[q].version \in Nat
                               /\ postProposals[q].post \in Posts \cup {None}
                               /\ postProposals[q].draft \in PostDrafts \cup {None}
  BY <1>5 DEF PostProposalRows
<1>8. ASSUME NEW p \in Posts
      PROVE  /\ posts[p] \in PostRows /\ Post!HeadOf(p) \in Nat
             /\ posts[p].version \in Nat /\ posts[p].version <= MaxPostVersion
             /\ posts[p].archived \in BOOLEAN /\ posts[p].head \in Nat
             /\ posts[p].head <= Len(postReleases)
             /\ posts[p].log \in Seq(Post!Entries)
             /\ Post!HeadOf(p) > 0 <=> posts[p].version > 0
             /\ (posts[p].version = 0 => ~posts[p].archived)
  <2>1. posts[p] \in PostRows
    BY <1>1
  <2>2. /\ posts[p].log \in Seq(Post!Entries) /\ Post!HeadOf(p) \in Nat /\ posts[p].version \in Nat
        /\ posts[p].version <= MaxPostVersion /\ posts[p].archived \in BOOLEAN /\ posts[p].head \in Nat
    BY <1>2
  <2>3. /\ posts[p].head <= Len(postReleases) /\ (Post!HeadOf(p) > 0 <=> posts[p].version > 0)
        /\ (posts[p].version = 0 => ~posts[p].archived)
    BY <1>3
  <2> QED BY <2>1, <2>2, <2>3
<1> QED BY <1>4, <1>5, <1>6, <1>7, <1>8

LEMMA PostEntryTyped ==
  ASSUME NEW b \in Nat, NEW f \in PostDrafts \cup PostProposals, NEW c \in PostDrafts \cup {None},
         NEW s \in Nat, NEW h \in Nat
  PROVE  [ basis |-> b, from |-> f, closes |-> c, seen |-> s, held |-> h ] \in Post!Entries
  BY DEF Post!Entries

LEMMA PostRequestKeeps ==
  ASSUME PostInv, Post!PostRequest
  PROVE  PostInv'
<1> PICK p \in Posts : \E v \in Post!Held(p) :
      \/ \E n \in 1..Post!HeadOf(p) : Post!Publish(p, v, n)
      \/ Post!Withdraw(p, v)
      \/ Post!Archive(p, v)
  BY DEF Post!PostRequest
<1> PICK v \in Post!Held(p) :
      \/ \E n \in 1..Post!HeadOf(p) : Post!Publish(p, v, n)
      \/ Post!Withdraw(p, v)
      \/ Post!Archive(p, v)
  OBVIOUS
<1>r. /\ posts[p] \in PostRows /\ posts[p].version \in Nat /\ posts[p].head \in Nat /\ Post!HeadOf(p) \in Nat
      /\ posts[p].head <= Len(postReleases) /\ MaxPostVersion \in Nat
  BY PostRowsFound, PostConstants
<1>s. postReleases \in Seq(ReleaseRows) /\ Len(postReleases) \in Nat /\ ReleasesStamped
  BY DEF PostInv, ReleasesStamped
<1>1. ASSUME NEW n \in 1..Post!HeadOf(p), Post!Publish(p, v, n) PROVE PostInv'
  <2> DEFINE now == Len(postReleases) + 1
             e   == [ post |-> p, content |-> n, stamps |-> Post!Stamps(posts[p].head, now) ]
             new == [posts[p] EXCEPT !.head = now, !.version = @ + 1]
  <2>1. /\ postReleases' = Append(postReleases, e) /\ posts[p].version > 0 /\ ~posts[p].archived
        /\ posts[p].version < MaxPostVersion /\ UNCHANGED << postDrafts, postProposals >>
    BY <1>1 DEF Post!Publish, Post!Active, Post!Exists
  <2>2. posts' = [posts EXCEPT ![p] = new]
    BY <1>1 DEF Post!Publish, PostInv, PostTyped
  <2>3. now \in Nat /\ posts[p].version + 1 \in 0..MaxPostVersion
    BY <1>r, <1>s, <2>1
  <2>4. new \in PostRows
    BY <1>r, <2>3 DEF PostRows
  <2>5. new.head = now /\ new.version = posts[p].version + 1 /\ new.log = posts[p].log /\ new.archived = posts[p].archived
    BY <1>r, <2>4 DEF PostRows
  <2>6. Post!Stamps(posts[p].head, now).published \in 1..now /\ Post!Stamps(posts[p].head, now).updated = now
          /\ Post!Stamps(posts[p].head, now) \in [published : Nat, updated : Nat]
    <3>1. CASE posts[p].head = 0
      BY <1>s, <2>3, <3>1 DEF Post!Stamps
    <3>2. CASE posts[p].head # 0
      <4>1. posts[p].head \in 1..Len(postReleases)
        BY <1>r, <1>s, <3>2
      <4>2. postReleases[posts[p].head].stamps.published \in 1..posts[p].head
        BY <1>s, <4>1 DEF ReleasesStamped
      <4> QED BY <1>r, <1>s, <2>3, <3>2, <4>1, <4>2 DEF Post!Stamps
    <3> QED BY <3>1, <3>2
  <2>7. e \in ReleaseRows
    BY <2>6 DEF ReleaseRows
  <2>8. ReleasesStamped'
    <3>1. /\ postReleases' \in Seq(ReleaseRows) /\ Len(postReleases') = now
          /\ \A m \in 1..Len(postReleases) : postReleases'[m] = postReleases[m]
          /\ postReleases'[now] = e
      BY <1>s, <2>1, <2>7, Appending
    <3>2. ASSUME NEW m \in 1..Len(postReleases')
          PROVE  postReleases'[m].stamps.published \in 1..m /\ postReleases'[m].stamps.updated = m
      <4>1. CASE m \in 1..Len(postReleases)
        BY <1>s, <3>1, <4>1 DEF ReleasesStamped
      <4>2. CASE m = now
        BY <2>6, <3>1, <4>2
      <4> QED BY <1>s, <3>1, <4>1, <4>2
    <3> QED BY <3>1, <3>2 DEF ReleasesStamped
  <2>9. Len(postReleases') = now
    BY <1>s, <2>1, <2>7, Appending
  <2> HIDE DEF new, e
  <2>10. new.head <= Len(postReleases') /\ Len(postReleases) <= Len(postReleases')
    BY <1>s, <2>5, <2>9
  <2> QED BY <2>1, <2>2, <2>4, <2>5, <2>8, <2>10, PostVersionMoves
<1>2. CASE Post!Withdraw(p, v)
  <2> DEFINE new == [posts[p] EXCEPT !.head = 0, !.version = @ + 1]
  <2>1. /\ postReleases' = postReleases /\ posts[p].version > 0
        /\ posts[p].version < MaxPostVersion /\ UNCHANGED << postDrafts, postProposals >>
    BY <1>2 DEF Post!Withdraw, Post!Exists
  <2>2. posts' = [posts EXCEPT ![p] = new]
    BY <1>2 DEF Post!Withdraw, PostInv, PostTyped
  <2>3. posts[p].version + 1 \in 0..MaxPostVersion
    BY <1>r, <2>1
  <2>4. new \in PostRows
    BY <1>r, <2>3 DEF PostRows
  <2>5. new.head = 0 /\ new.version = posts[p].version + 1 /\ new.log = posts[p].log
    BY <1>r, <2>4 DEF PostRows
  <2>6. new.head <= Len(postReleases') /\ Len(postReleases) <= Len(postReleases') /\ ReleasesStamped'
    BY <1>s, <2>1, <2>5 DEF ReleasesStamped
  <2> HIDE DEF new
  <2> QED BY <2>1, <2>2, <2>4, <2>5, <2>6, PostVersionMoves
<1>3. CASE Post!Archive(p, v)
  <2> DEFINE new == Post!Archived(posts[p])
  <2>1. /\ postReleases' = postReleases /\ posts[p].version > 0
        /\ posts[p].version < MaxPostVersion /\ UNCHANGED << postDrafts, postProposals >>
    BY <1>3 DEF Post!Archive, Post!Active, Post!Exists
  <2>2. posts' = [posts EXCEPT ![p] = new]
    BY <1>3 DEF Post!Archive
  <2>3. posts[p].version + 1 \in 0..MaxPostVersion
    BY <1>r, <2>1
  <2>4. new \in PostRows
    BY <1>r, <2>3 DEF Post!Archived, PostRows
  <2>5. new.head = 0 /\ new.version = posts[p].version + 1 /\ new.log = posts[p].log
    BY <1>r, <2>4 DEF Post!Archived, PostRows
  <2> HIDE DEF new
  <2>6. new.head <= Len(postReleases') /\ Len(postReleases) <= Len(postReleases') /\ ReleasesStamped'
    BY <1>s, <2>1, <2>5 DEF ReleasesStamped
  <2> QED BY <2>1, <2>2, <2>4, <2>5, <2>6, PostVersionMoves
<1> QED BY <1>1, <1>2, <1>3

(* What a version is saved with.                                           *)
SavedAs(p, b, f, r, n) ==
  \E e \in Post!Entries :
    /\ Post!Saved(p, b, f, r, n) = PostAppended(posts[p], e)
    /\ e.basis = b /\ e.from = f /\ e.closes = r /\ e.seen = n /\ e.held = n

(* Saving a draft or a proposal appends one entry that names it.           *)
LEMMA SavedEntry ==
  ASSUME NEW p, NEW b \in Nat, NEW f \in PostDrafts \cup PostProposals, NEW r \in PostDrafts \cup {None},
         NEW s \in Nat, r # None => postDrafts[r].revision = s, r = None => s = 0
  PROVE  SavedAs(p, b, f, r, s)
<1> DEFINE e == [ basis |-> b, from |-> f, closes |-> r, seen |-> s,
                  held |-> IF r = None THEN 0 ELSE postDrafts[r].revision ]
<1>1. (IF r = None THEN 0 ELSE postDrafts[r].revision) = s
  OBVIOUS
<1>2. e \in Post!Entries
  BY <1>1, PostEntryTyped
<1>3. e.basis = b /\ e.from = f /\ e.closes = r /\ e.seen = s /\ e.held = s
  BY <1>1
<1>4. Post!Saved(p, b, f, r, s) = PostAppended(posts[p], e)
  BY DEF Post!Saved, PostAppended
<1> QED BY <1>2, <1>3, <1>4 DEF SavedAs

LEMMA PostFinishedRow ==
  ASSUME NEW it \in PostDraftRows, NEW state \in {"committed", "discarded"}
  PROVE  /\ Post!Finished(it, state) \in PostDraftRows /\ Post!Finished(it, state).state = state
         /\ Post!Finished(it, state).revision = it.revision + 1 /\ Post!Finished(it, state).post = it.post
<1>1. it.revision + 1 \in Nat /\ state \in {"none", "active", "committed", "discarded"}
  BY DEF PostDraftRows
<1>2. Post!Finished(it, state) \in PostDraftRows
  BY <1>1 DEF PostDraftRows, Post!Finished
<1> QED BY <1>2 DEF PostDraftRows, Post!Finished

LEMMA PostBoundRow ==
  ASSUME NEW it \in PostDraftRows, NEW p \in Posts, it.post \in {None, p}
  PROVE  /\ Post!Bound(it, p) \in PostDraftRows /\ Post!Bound(it, p).post = p
         /\ Post!Bound(it, p).revision = it.revision
  BY PostConstants DEF PostDraftRows, Post!Bound

(* A draft's commit, as an acceptance and as its own request make it.      *)
LEMMA CommittedRow ==
  ASSUME NEW it \in PostDraftRows, NEW p \in Posts, it.post \in {None, p}
  PROVE  LET new == Post!Finished(Post!Bound(it, p), "committed") IN
         /\ new \in PostDraftRows /\ new.state = "committed" /\ new.post = p
         /\ new.revision = it.revision + 1
<1>1. /\ Post!Bound(it, p) \in PostDraftRows /\ Post!Bound(it, p).post = p
      /\ Post!Bound(it, p).revision = it.revision
  BY PostBoundRow
<1> QED BY <1>1, PostFinishedRow

(* What closes the draft r, if one is closed, as the lemma PostSaved has it*)
LEMMA Closed ==
  ASSUME PostInv, NEW p \in Posts, NEW r \in PostDrafts \cup {None}, NEW s,
         r # None => Post!CheckDraft(r, s) /\ postDrafts[r].post \in {None, p},
         postDrafts' = Post!Closing(r, p)
  PROVE  /\ r = None => UNCHANGED postDrafts
         /\ r # None =>
              \E new \in PostDraftRows :
                /\ postDrafts' = [postDrafts EXCEPT ![r] = new]
                /\ postDrafts[r].state = "active" /\ new.state = "committed" /\ new.post = p
                /\ s = new.revision - 1
<1>1. CASE r = None
  BY <1>1 DEF Post!Closing
<1>2. CASE r # None
  <2> DEFINE new == Post!Finished(Post!Bound(postDrafts[r], p), "committed")
  <2>1. postDrafts[r] \in PostDraftRows /\ postDrafts[r].revision \in Nat
    BY <1>2, PostRowsFound
  <2>2. new \in PostDraftRows /\ new.state = "committed" /\ new.post = p /\ new.revision = postDrafts[r].revision + 1
    BY <1>2, <2>1, CommittedRow
  <2>3. postDrafts' = [postDrafts EXCEPT ![r] = new]
    BY <1>2 DEF Post!Closing
  <2>4. postDrafts[r].state = "active" /\ s = postDrafts[r].revision
    BY <1>2 DEF Post!CheckDraft
  <2> HIDE DEF new
  <2>5. s = new.revision - 1
    BY <2>1, <2>2, <2>4
  <2> QED BY <1>2, <2>2, <2>3, <2>4, <2>5
<1> QED BY <1>1, <1>2

LEMMA PostDraftRequestKeeps ==
  ASSUME PostInv, Post!DraftRequest
  PROVE  PostInv'
<1> PICK r \in PostDrafts :
      \/ Post!CreateNewDraft(r)
      \/ \E p \in Posts : \E v \in Post!Held(p), h \in 1..Post!HeadOf(p) : Post!CreateDraft(r, p, v, h)
      \/ \E n \in 1..postDrafts[r].revision :
           \/ Post!SaveDraft(r, n)
           \/ Post!DiscardDraft(r, n)
           \/ \E p \in Posts : Post!CommitNewDraft(r, n, p)
           \/ \E p \in Posts \cap {postDrafts[r].post} : \E v \in Post!Held(p), h \in 0..Post!HeadOf(p) :
                Post!CommitDraft(r, n, v, h)
  BY DEF Post!DraftRequest
<1>r. /\ postDrafts[r] \in PostDraftRows /\ postDrafts[r].revision \in Nat
      /\ postDrafts[r].post \in Posts \cup {None} /\ postDrafts[r].baseHead \in Nat
  BY PostRowsFound
<1>1. CASE Post!CreateNewDraft(r)
  <2> DEFINE new == [Post!NoDraft EXCEPT !.state = "active", !.revision = 1]
  <2>1. new \in PostDraftRows /\ new.state = "active" /\ new.post = None
    BY DEF Post!NoDraft, PostDraftRows
  <2>2. /\ postDrafts' = [postDrafts EXCEPT ![r] = new] /\ UNCHANGED << posts, postProposals, postReleases >>
        /\ postDrafts[r].state = "none"
    BY <1>1 DEF Post!CreateNewDraft
  <2> HIDE DEF new
  <2> QED BY <2>1, <2>2, PostDraftMoves
<1>2. ASSUME NEW p \in Posts, NEW v \in Post!Held(p), NEW h \in 1..Post!HeadOf(p), Post!CreateDraft(r, p, v, h)
      PROVE  PostInv'
  <2> DEFINE new == [ state |-> "active", post |-> p, revision |-> 1, base |-> v, baseHead |-> h ]
  <2>1. v \in Nat /\ h \in Nat
    BY DEF Post!Held
  <2>2. new \in PostDraftRows /\ new.state = "active" /\ new.post = p
    BY <2>1 DEF PostDraftRows
  <2>3. /\ postDrafts' = [postDrafts EXCEPT ![r] = new] /\ UNCHANGED << posts, postProposals, postReleases >>
        /\ postDrafts[r].state = "none"
    BY <1>2 DEF Post!CreateDraft
  <2>4. \A s \in PostDrafts : postDrafts[s].state = "active" => postDrafts[s].post # p
    BY <1>2 DEF Post!CreateDraft, Post!NoActiveDraft, Post!Current
  <2> HIDE DEF new
  <2> QED BY <2>2, <2>3, <2>4, PostDraftMoves
<1>3. ASSUME NEW n \in 1..postDrafts[r].revision, Post!SaveDraft(r, n) PROVE PostInv'
  <2> DEFINE new == [postDrafts[r] EXCEPT !.revision = @ + 1]
  <2>1. new \in PostDraftRows /\ new.state = postDrafts[r].state /\ new.post = postDrafts[r].post
    BY <1>r DEF PostDraftRows
  <2>2. /\ postDrafts' = [postDrafts EXCEPT ![r] = new] /\ UNCHANGED << posts, postProposals, postReleases >>
        /\ postDrafts[r].state = "active"
    BY <1>3 DEF Post!SaveDraft, Post!CheckDraft
  <2>3. postDrafts[r].post # None =>
          \A s \in PostDrafts \ {r} : postDrafts[s].state = "active" => postDrafts[s].post # postDrafts[r].post
    BY <2>2 DEF PostInv, PostOneOpen
  <2> HIDE DEF new
  <2> QED BY <2>1, <2>2, <2>3, PostDraftMoves
<1>4. ASSUME NEW n \in 1..postDrafts[r].revision, Post!DiscardDraft(r, n) PROVE PostInv'
  <2>1. /\ postDrafts' = [postDrafts EXCEPT ![r] = Post!Finished(postDrafts[r], "discarded")]
        /\ UNCHANGED << posts, postProposals, postReleases >> /\ postDrafts[r].state = "active"
    BY <1>4 DEF Post!DiscardDraft, Post!CheckDraft
  <2>2. /\ Post!Finished(postDrafts[r], "discarded") \in PostDraftRows
        /\ Post!Finished(postDrafts[r], "discarded").state = "discarded"
    BY <1>r, PostFinishedRow
  <2> QED BY <2>1, <2>2, PostDraftMoves
<1>a. ASSUME NEW p \in Posts, NEW n, n \in Nat, NEW b, b \in Nat, b = Post!HeadOf(p), Post!CheckDraft(r, n),
             postDrafts[r].post \in {None, p}, posts[p].version < MaxPostVersion,
             posts' = [posts EXCEPT ![p] = Post!Saved(p, b, r, r, n)],
             postDrafts' = [postDrafts EXCEPT ![r] = Post!Finished(Post!Bound(@, p), "committed")],
             UNCHANGED << postProposals, postReleases >>
      PROVE  PostInv'
  <2>1. r # None /\ r \notin PostProposals
    BY PostConstants
  <2>2. postDrafts[r].revision = n
    BY <1>a DEF Post!CheckDraft
  <2> DEFINE e == [ basis |-> b, from |-> r, closes |-> r, seen |-> n, held |-> n ]
  <2>3. /\ Post!Saved(p, b, r, r, n) = PostAppended(posts[p], e)
        /\ e.basis = b /\ e.from = r /\ e.closes = r /\ e.seen = n /\ e.held = n /\ e \in Post!Entries
    <3>1. e \in Post!Entries
      BY <1>a, PostEntryTyped
    <3>2. Post!Saved(p, b, r, r, n) = PostAppended(posts[p], e)
      BY <2>1, <2>2 DEF Post!Saved, PostAppended
    <3> QED BY <3>1, <3>2
  <2> HIDE DEF e
  <2>4. postDrafts' = Post!Closing(r, p)
    BY <1>a, <2>1 DEF Post!Closing
  <2>5. \E new \in PostDraftRows :
          /\ postDrafts' = [postDrafts EXCEPT ![r] = new]
          /\ postDrafts[r].state = "active" /\ new.state = "committed" /\ new.post = p
          /\ n = new.revision - 1
    <3>1. /\ r \in PostDrafts \cup {None}
          /\ r # None => Post!CheckDraft(r, n) /\ postDrafts[r].post \in {None, p}
      BY <1>a
    <3> QED BY <2>1, <2>4, <3>1, Closed
  <2>6. ClosesWith(e, r, p)
    BY <2>1, <2>3, <2>5 DEF ClosesWith
  <2>7. /\ posts' = [posts EXCEPT ![p] = PostAppended(posts[p], e)]
        /\ e \in Post!Entries /\ e.basis = Post!HeadOf(p) /\ e.closes = r
        /\ e.from \in PostDrafts => r = e.from
        /\ posts[p].version < MaxPostVersion /\ UNCHANGED postReleases
    BY <1>a, <2>3
  <2>8. AcceptsWith(e, r, p)
    BY <1>a, <2>1, <2>3 DEF AcceptsWith
  <2> QED BY <2>6, <2>7, <2>8, PostSaved
<1>5. ASSUME NEW n \in 1..postDrafts[r].revision, NEW p \in Posts, Post!CommitNewDraft(r, n, p) PROVE PostInv'
  <2>1. Post!HeadOf(p) = 0 /\ posts[p].version < MaxPostVersion
    BY <1>5, PostRowsFound, PostConstants DEF Post!CommitNewDraft, Post!Exists
  <2>2. n \in Nat /\ 0 \in Nat
    BY <1>r
  <2>3. /\ Post!CheckDraft(r, n) /\ postDrafts[r].post \in {None, p}
        /\ posts' = [posts EXCEPT ![p] = Post!Saved(p, 0, r, r, n)]
        /\ postDrafts' = [postDrafts EXCEPT ![r] = Post!Finished(Post!Bound(@, p), "committed")]
        /\ UNCHANGED << postProposals, postReleases >>
    BY <1>5 DEF Post!CommitNewDraft
  <2> QED BY <1>a, <2>1, <2>2, <2>3
<1>6. ASSUME NEW n \in 1..postDrafts[r].revision, NEW p \in Posts \cap {postDrafts[r].post},
             NEW v \in Post!Held(p), NEW h \in 0..Post!HeadOf(p), Post!CommitDraft(r, n, v, h)
      PROVE  PostInv'
  <2> DEFINE b == IF h = 0 THEN postDrafts[r].baseHead ELSE h
  <2>0. p \in Posts /\ p = postDrafts[r].post /\ p # None /\ n \in Nat /\ h \in Nat
    BY PostConstants
  <2>1. posts[p].version < MaxPostVersion /\ posts[p].version > 0
    BY <1>6, <2>0 DEF Post!CommitDraft, Post!Active, Post!Exists
  <2>2. b = Post!HeadOf(p) /\ b \in Nat
    <3>1. IF posts[p].version # postDrafts[r].base \/ Post!HeadOf(p) # postDrafts[r].baseHead
          THEN h = Post!HeadOf(p) ELSE h \in {0, Post!HeadOf(p)}
      BY <1>6, <2>0 DEF Post!CommitDraft, Post!BaseHolds
    <3>2. Post!HeadOf(p) > 0 /\ Post!HeadOf(p) \in Nat
      BY <2>0, <2>1, PostRowsFound
    <3> QED BY <3>1, <3>2
  <2>3. Post!Bound(postDrafts[r], p) = postDrafts[r]
    BY <2>0 DEF Post!Bound
  <2>4. /\ Post!CheckDraft(r, n)
        /\ posts' = [posts EXCEPT ![p] = Post!Saved(p, b, r, r, n)]
        /\ postDrafts' = [postDrafts EXCEPT ![r] = Post!Finished(postDrafts[r], "committed")]
        /\ UNCHANGED << postProposals, postReleases >>
    BY <1>6, <2>0 DEF Post!CommitDraft
  <2>5. postDrafts' = [postDrafts EXCEPT ![r] = Post!Finished(Post!Bound(@, p), "committed")]
    BY <2>3, <2>4
  <2> HIDE DEF b
  <2> QED BY <1>a, <2>0, <2>1, <2>2, <2>4, <2>5
<1> QED BY <1>1, <1>2, <1>3, <1>4, <1>5, <1>6

LEMMA PostProposalRequestKeeps ==
  ASSUME PostInv, Post!ProposalRequest
  PROVE  PostInv'
<1> PICK q \in PostProposals, r \in PostDrafts \cup {None} : \E s \in Post!Revisions(r) :
      \/ \E p \in Posts \cup {None} : \E v \in IF p = None THEN {0} ELSE Post!Held(p) :
           Post!CreateProposal(q, p, v, r, s)
      \/ \E n \in 1..postProposals[q].version :
           \/ Post!DiscardProposal(q, n)
           \/ \E p \in Posts \cap {postProposals[q].post} : \E v \in Post!Held(p), h \in 1..Post!HeadOf(p) :
                Post!AcceptProposal(q, n, v, h, r, s)
           \/ \E p \in Posts : Post!AcceptNewProposal(q, n, r, s, p)
  BY DEF Post!ProposalRequest
<1> PICK s \in Post!Revisions(r) :
      \/ \E p \in Posts \cup {None} : \E v \in IF p = None THEN {0} ELSE Post!Held(p) :
           Post!CreateProposal(q, p, v, r, s)
      \/ \E n \in 1..postProposals[q].version :
           \/ Post!DiscardProposal(q, n)
           \/ \E p \in Posts \cap {postProposals[q].post} : \E v \in Post!Held(p), h \in 1..Post!HeadOf(p) :
                Post!AcceptProposal(q, n, v, h, r, s)
           \/ \E p \in Posts : Post!AcceptNewProposal(q, n, r, s, p)
  OBVIOUS
<1>r. /\ postProposals[q] \in PostProposalRows /\ postProposals[q].version \in Nat
      /\ postProposals[q].post \in Posts \cup {None} /\ postProposals[q].draft \in PostDrafts \cup {None}
  BY PostRowsFound
<1>s. s \in Nat /\ (r = None => s = 0)
  <2>1. r # None => postDrafts[r].revision \in Nat
    BY PostRowsFound
  <2> QED BY <2>1 DEF Post!Revisions
<1>1. ASSUME NEW p \in Posts \cup {None}, NEW v, Post!CreateProposal(q, p, v, r, s) PROVE PostInv'
  <2> DEFINE new == [ status |-> "pending", post |-> p, version |-> 1, draft |-> r, accepted |-> 0 ]
  <2>1. new \in PostProposalRows /\ new.status = "pending"
    BY DEF PostProposalRows
  <2>2. /\ postProposals' = [postProposals EXCEPT ![q] = new] /\ UNCHANGED << posts, postDrafts, postReleases >>
        /\ postProposals[q].status = "none"
    BY <1>1 DEF Post!CreateProposal
  <2> HIDE DEF new
  <2> QED BY <2>1, <2>2, PostProposalMoves
<1>2. ASSUME NEW n \in 1..postProposals[q].version, Post!DiscardProposal(q, n) PROVE PostInv'
  <2> DEFINE new == [postProposals[q] EXCEPT !.status = "discarded", !.version = @ + 1]
  <2>1. new \in PostProposalRows /\ new.status = "discarded"
    <3>1. postProposals[q].version + 1 \in Nat
      BY <1>r
    <3>2. new \in PostProposalRows
      BY <1>r, <3>1 DEF PostProposalRows
    <3> QED BY <1>r, <3>2 DEF PostProposalRows
  <2>2. /\ postProposals' = [postProposals EXCEPT ![q] = new] /\ UNCHANGED << posts, postDrafts, postReleases >>
        /\ postProposals[q].status = "pending"
    BY <1>2 DEF Post!DiscardProposal, Post!Open, PostInv, PostTyped
  <2> HIDE DEF new
  <2> QED BY <2>1, <2>2, PostProposalMoves
<1>a. ASSUME NEW p \in Posts, NEW n, NEW b \in Nat, b = Post!HeadOf(p), NEW c, c = b + 1, Post!Open(q, n), Post!Paired(q, r, s),
             postProposals[q].post \in {None, p}, posts[p].version < MaxPostVersion,
             Post!HeadOf(p) = 0 => postProposals[q].post = None,
             posts' = [posts EXCEPT ![p] = Post!Saved(p, b, q, r, s)],
             postDrafts' = Post!Closing(r, p),
             postProposals' = [postProposals EXCEPT ![q] = Post!Accepted(@, p, c)],
             UNCHANGED postReleases
      PROVE  PostInv'
  <2>1. q \notin PostDrafts
    BY PostConstants
  <2>2. r # None => Post!CheckDraft(r, s) /\ postDrafts[r].post \in {None, p}
    <3> SUFFICES ASSUME r # None PROVE Post!CheckDraft(r, s) /\ postDrafts[r].post \in {None, p}
      OBVIOUS
    <3>1. Post!Involved(q, r) # {}
      BY <1>a DEF Post!Paired
    <3> QED BY <1>a, <3>1 DEF Post!Paired
  <2>3. r # None => postDrafts[r].revision = s
    BY <2>2 DEF Post!CheckDraft
  <2>4. PICK e \in Post!Entries :
          /\ Post!Saved(p, b, q, r, s) = PostAppended(posts[p], e)
          /\ e.basis = b /\ e.from = q /\ e.closes = r /\ e.seen = s /\ e.held = s
    <3>1. q \in PostDrafts \cup PostProposals /\ r \in PostDrafts \cup {None} /\ b \in Nat
      OBVIOUS
    <3>2. s \in Nat /\ (r = None => s = 0)
      BY <1>s
    <3>3. SavedAs(p, b, q, r, s)
      BY <2>3, <3>1, <3>2, SavedEntry
    <3> QED BY <3>3 DEF SavedAs
  <2> DEFINE new == Post!Accepted(postProposals[q], p, c)
  <2>5. /\ new \in PostProposalRows /\ new.status = "accepted" /\ new.post = p /\ new.accepted = c
        /\ new.draft = postProposals[q].draft
    <3>1. postProposals[q].version + 1 \in Nat /\ c \in Nat
      BY <1>a, <1>r
    <3>2. new \in PostProposalRows
      BY <1>r, <3>1 DEF PostProposalRows, Post!Accepted
    <3> QED BY <1>r, <3>2 DEF PostProposalRows, Post!Accepted
  <2>6. Post!HeadOf(p) = 0 /\ postProposals[q].draft # None => r = postProposals[q].draft
    BY <1>a DEF Post!Paired, Post!Involved
  <2>7. postProposals' = [postProposals EXCEPT ![q] = new] /\ postProposals[q].status = "pending"
    BY <1>a DEF Post!Open
  <2> HIDE DEF new
  <2>8. /\ r = None => UNCHANGED postDrafts
        /\ r # None =>
             \E it \in PostDraftRows :
               /\ postDrafts' = [postDrafts EXCEPT ![r] = it]
               /\ postDrafts[r].state = "active" /\ it.state = "committed" /\ it.post = p
               /\ s = it.revision - 1
    BY <1>a, <2>2, Closed
  <2>9. ClosesWith(e, r, p)
    BY <2>4, <2>8 DEF ClosesWith
  <2>10. AcceptsWith(e, r, p)
    BY <1>a, <2>4, <2>5, <2>6, <2>7 DEF AcceptsWith
  <2>11. /\ posts' = [posts EXCEPT ![p] = PostAppended(posts[p], e)]
         /\ e \in Post!Entries /\ e.basis = Post!HeadOf(p) /\ e.closes = r
         /\ e.from \in PostDrafts => r = e.from
         /\ posts[p].version < MaxPostVersion /\ UNCHANGED postReleases
    BY <1>a, <2>1, <2>4
  <2> QED BY <2>9, <2>10, <2>11, PostSaved
<1>3. ASSUME NEW n \in 1..postProposals[q].version, NEW p \in Posts \cap {postProposals[q].post},
             NEW v \in Post!Held(p), NEW h \in 1..Post!HeadOf(p), Post!AcceptProposal(q, n, v, h, r, s)
      PROVE  PostInv'
  <2>0. p \in Posts /\ p = postProposals[q].post /\ h \in Nat
    OBVIOUS
  <2>1. /\ posts[p].version < MaxPostVersion /\ posts[p].version > 0
        /\ Post!HeadOf(p) = h /\ Post!Open(q, n) /\ Post!Paired(q, r, s)
        /\ posts' = [posts EXCEPT ![p] = Post!Saved(p, h, q, r, s)]
        /\ postDrafts' = Post!Closing(r, p)
        /\ postProposals' = [postProposals EXCEPT ![q] = Post!Accepted(@, p, Post!HeadOf(p) + 1)]
        /\ UNCHANGED postReleases
    BY <1>3, <2>0 DEF Post!AcceptProposal, Post!Active, Post!Exists, Post!Resolved
  <2>2. Post!HeadOf(p) > 0
    BY <2>0, <2>1, PostRowsFound
  <2>3. postProposals[q].post \in {None, p} /\ (Post!HeadOf(p) = 0 => postProposals[q].post = None)
    BY <2>0, <2>1, <2>2
  <2> QED BY <1>a, <2>0, <2>1, <2>3, ZenonT(30)
<1>4. ASSUME NEW n \in 1..postProposals[q].version, NEW p \in Posts, Post!AcceptNewProposal(q, n, r, s, p)
      PROVE  PostInv'
  <2>1. Post!HeadOf(p) = 0 /\ posts[p].version < MaxPostVersion
    BY <1>4, PostRowsFound, PostConstants DEF Post!AcceptNewProposal, Post!Exists
  <2>2. /\ postProposals[q].post = None /\ Post!Open(q, n) /\ Post!Paired(q, r, s)
        /\ posts' = [posts EXCEPT ![p] = Post!Saved(p, 0, q, r, s)]
        /\ postDrafts' = Post!Closing(r, p)
        /\ postProposals' = [postProposals EXCEPT ![q] = Post!Accepted(@, p, 1)]
        /\ UNCHANGED postReleases
    BY <1>4 DEF Post!AcceptNewProposal
  <2>3. /\ postProposals[q].post \in {None, p} /\ (Post!HeadOf(p) = 0 => postProposals[q].post = None)
        /\ 0 = Post!HeadOf(p) /\ 0 \in Nat /\ 1 = 0 + 1
    BY <2>1, <2>2
  <2> QED BY <1>a, <2>1, <2>2, <2>3, ZenonT(30)
<1> QED BY <1>1, <1>2, <1>3, <1>4

LEMMA PostStep ==
  ASSUME PostInv, Post!Next \/ UNCHANGED postVars
  PROVE  PostInv'
<1>1. CASE UNCHANGED postVars
  <2> USE <1>1 DEF postVars
  <2>1. PostTyped' /\ PostsWhole' /\ PostOneOpen' /\ ReleasesStamped'
    BY DEF PostInv, PostTyped, PostsWhole, PostWhole, PostOneOpen, ReleasesStamped
  <2>2. PostClosingsKnown' /\ PostProposalsKnown'
    BY PostLogsStand DEF PostInv
  <2> QED BY <2>1, <2>2 DEF PostInv
<1> QED BY <1>1, PostRequestKeeps, PostDraftRequestKeeps, PostProposalRequestKeeps DEF Post!Next

(* The posts count their sets as this module does.                         *)
LEMMA PostSameCount == ASSUME NEW S PROVE Post!Cardinality(S) = Cardinality(S)
  BY DEF Post!Cardinality, Cardinality

(* What the invariant of the posts says of the run's properties.           *)
LEMMA PostFollows ==
  ASSUME PostInv
  PROVE  /\ Post!TypeOK /\ Post!NoLostUpdate /\ Post!OneActiveDraft /\ Post!DraftClosedByOneVersion
         /\ Post!ProposalIsOneVersion /\ Post!NoTwinPost /\ Post!ArchivedIsPrivate
<1>0. None \notin Posts \cup PostDrafts \cup PostProposals /\ PostDrafts \cap PostProposals = {}
  BY PostConstants
<1>t. Post!TypeOK
  <2>1. ASSUME NEW n \in 1..Len(postReleases)
        PROVE  postReleases[n] \in [post : Posts, content : Nat, stamps : [published : 1..n, updated : {n}]]
    <3>1. postReleases[n] \in ReleaseRows
      BY DEF PostInv, ReleasesStamped
    <3>2. postReleases[n].stamps.published \in 1..n /\ postReleases[n].stamps.updated = n
      BY DEF PostInv, ReleasesStamped
    <3>3. postReleases[n].stamps \in [published : 1..n, updated : {n}]
      BY <3>1, <3>2 DEF ReleaseRows
    <3> QED BY <3>1, <3>3 DEF ReleaseRows
  <2>2. PostTyped
    BY DEF PostInv
  <2> QED BY <2>1, <2>2 DEF Post!TypeOK, PostTyped, PostRows, PostDraftRows, PostProposalRows
<1>1. Post!NoLostUpdate
  BY DEF Post!NoLostUpdate, PostInv, PostsWhole, PostWhole, Post!HeadOf
<1>2. Post!OneActiveDraft
  <2> SUFFICES ASSUME NEW p \in Posts PROVE Cardinality(Post!Current(p)) <= 1
    BY PostSameCount DEF Post!OneActiveDraft
  <2>1. \A r, s \in Post!Current(p) : r = s
    BY <1>0 DEF Post!Current, PostInv, PostOneOpen
  <2> QED BY <2>1, AtMostOne
<1>3. \A e \in Post!AllEntries : e[1] \in Posts /\ e[2] \in 1..Post!HeadOf(e[1]) /\ e = << e[1], e[2] >>
  BY DEF Post!AllEntries
<1>4. \A p \in Posts : \A n \in 1..Post!HeadOf(p) : << p, n >> \in Post!AllEntries
  BY DEF Post!AllEntries
<1>5. Post!DraftClosedByOneVersion
  <2> SUFFICES ASSUME NEW r \in PostDrafts
               PROVE  LET closing == { e \in Post!AllEntries : Post!EntryOf(e).closes = r } IN
                      IF postDrafts[r].state = "committed"
                      THEN /\ Cardinality(closing) = 1
                           /\ \A e \in closing : /\ e[1] = postDrafts[r].post
                                                 /\ Post!EntryOf(e).seen = Post!EntryOf(e).held
                                                 /\ Post!EntryOf(e).held = postDrafts[r].revision - 1
                      ELSE closing = {}
    BY PostSameCount DEF Post!DraftClosedByOneVersion
  <2> DEFINE closing == { e \in Post!AllEntries : Post!EntryOf(e).closes = r }
  <2>1. ASSUME NEW e \in closing
        PROVE  /\ postDrafts[r].state = "committed" /\ e[1] = postDrafts[r].post
               /\ Post!EntryOf(e).seen = Post!EntryOf(e).held
               /\ Post!EntryOf(e).held = postDrafts[r].revision - 1
               /\ \A m \in 1..Post!HeadOf(e[1]) : posts[e[1]].log[m].closes = r => m = e[2]
    <3>1. e[1] \in Posts /\ e[2] \in 1..Post!HeadOf(e[1]) /\ posts[e[1]].log[e[2]].closes = r /\ r # None
      BY <1>0, <1>3 DEF Post!EntryOf
    <3>2. PostClosedBy(e[1], e[2])
      BY <3>1 DEF PostInv, PostClosingsKnown
    <3> QED BY <3>1, <3>2 DEF PostClosedBy, Post!EntryOf
  <2>2. CASE postDrafts[r].state = "committed"
    <3>1. PICK n \in 1..Post!HeadOf(postDrafts[r].post) : posts[postDrafts[r].post].log[n].closes = r
      BY <2>2 DEF PostInv, PostClosingsKnown
    <3>2. postDrafts[r].post \in Posts
      BY <2>2 DEF PostInv, PostClosingsKnown
    <3>3. << postDrafts[r].post, n >> \in closing
      BY <1>4, <3>1, <3>2 DEF Post!EntryOf
    <3>4. \A e \in closing : e = << postDrafts[r].post, n >>
      BY <1>3, <2>1, <3>1
    <3>5. closing = { << postDrafts[r].post, n >> }
      BY <3>3, <3>4
    <3>6. Cardinality(closing) = 1
      BY <3>5, OnlyOne
    <3> QED BY <2>1, <2>2, <3>6
  <2>3. CASE postDrafts[r].state # "committed"
    BY <2>1, <2>3
  <2> QED BY <2>2, <2>3
<1>6. Post!ProposalIsOneVersion
  <2> SUFFICES ASSUME NEW q \in PostProposals
               PROVE  { e \in Post!AllEntries : Post!EntryOf(e).from = q }
                        = IF postProposals[q].status = "accepted"
                          THEN { << postProposals[q].post, postProposals[q].accepted >> } ELSE {}
    BY DEF Post!ProposalIsOneVersion
  <2>1. ASSUME NEW e \in Post!AllEntries, Post!EntryOf(e).from = q
        PROVE  postProposals[q].status = "accepted" /\ e = << postProposals[q].post, postProposals[q].accepted >>
    <3>1. e[1] \in Posts /\ e[2] \in 1..Post!HeadOf(e[1]) /\ e = << e[1], e[2] >>
      BY <1>3
    <3>2. PostMadeBy(e[1], e[2])
      BY <3>1 DEF PostInv, PostProposalsKnown
    <3> QED BY <2>1, <3>1, <3>2 DEF PostMadeBy, Post!EntryOf
  <2>2. postProposals[q].status = "accepted" =>
          /\ << postProposals[q].post, postProposals[q].accepted >> \in Post!AllEntries
          /\ Post!EntryOf(<< postProposals[q].post, postProposals[q].accepted >>).from = q
    BY <1>4 DEF PostInv, PostProposalsKnown, Post!EntryOf
  <2>3. CASE postProposals[q].status = "accepted"
    BY <2>1, <2>2, <2>3
  <2>4. CASE postProposals[q].status # "accepted"
    BY <2>1, <2>4
  <2> QED BY <2>3, <2>4
<1>7. Post!NoTwinPost
  <2> SUFFICES ASSUME NEW r \in PostDrafts PROVE Cardinality({ p \in Posts : Post!BornOf(p, r) }) <= 1
    BY PostSameCount DEF Post!NoTwinPost
  <2>1. ASSUME NEW p \in Posts, Post!BornOf(p, r) PROVE postDrafts[r].post = p
    <3>1. 1 \in 1..Post!HeadOf(p)
      BY <2>1, PostRowsFound DEF Post!BornOf, Post!Exists
    <3>2. posts[p].log[1].from \in PostDrafts => posts[p].log[1].closes = posts[p].log[1].from
      BY <3>1 DEF PostInv, PostsWhole, PostWhole, Post!HeadOf
    <3>3. PostMadeBy(p, 1) /\ PostClosedBy(p, 1)
      BY <3>1 DEF PostInv, PostProposalsKnown, PostClosingsKnown
    <3>4. r # None
      BY <1>0
    <3>5. posts[p].log[1].closes = r
      BY <2>1, <3>2, <3>3, <3>4 DEF Post!BornOf, PostMadeBy
    <3> QED BY <3>3, <3>4, <3>5 DEF PostClosedBy
  <2>2. \A p, c \in { x \in Posts : Post!BornOf(x, r) } : p = c
    BY <2>1
  <2> QED BY <2>2, AtMostOne
<1>8. Post!ArchivedIsPrivate
  BY DEF Post!ArchivedIsPrivate, PostInv, PostsWhole, PostWhole
<1> QED BY <1>t, <1>1, <1>2, <1>5, <1>6, <1>7, <1>8

(* Which requests touch posts: a release or its end, the archive, or a     *)
(* version appended to a post that is not archived.                        *)
LEMMA PostKinds ==
  ASSUME PostInv, Post!Next \/ UNCHANGED postVars
  PROVE  \/ \E p \in Posts : \E v : \/ \E n : Post!Publish(p, v, n)
                                   \/ Post!Withdraw(p, v) \/ Post!Archive(p, v)
         \/ \E p \in Posts : \E e : /\ ~posts[p].archived /\ UNCHANGED postReleases
                                   /\ posts' = [posts EXCEPT ![p] = PostAppended(posts[p], e)]
         \/ UNCHANGED << posts, postReleases >>
<1> DEFINE Kinds == \/ \E p \in Posts : \E v : \/ \E n : Post!Publish(p, v, n)
                                              \/ Post!Withdraw(p, v) \/ Post!Archive(p, v)
                    \/ \E p \in Posts : \E e : /\ ~posts[p].archived /\ UNCHANGED postReleases
                                              /\ posts' = [posts EXCEPT ![p] = PostAppended(posts[p], e)]
                    \/ UNCHANGED << posts, postReleases >>
<1>1. ASSUME Post!PostRequest PROVE Kinds
  <2>1. PICK p \in Posts : \E v \in Post!Held(p) :
          \/ \E n \in 1..Post!HeadOf(p) : Post!Publish(p, v, n)
          \/ Post!Withdraw(p, v)
          \/ Post!Archive(p, v)
    BY <1>1 DEF Post!PostRequest
  <2> QED BY <2>1
<1>a. ASSUME NEW p \in Posts, NEW b, NEW f, NEW r, NEW s, ~posts[p].archived, UNCHANGED postReleases,
             posts' = [posts EXCEPT ![p] = Post!Saved(p, b, f, r, s)]
      PROVE  Kinds
  <2>1. \E e : Post!Saved(p, b, f, r, s) = PostAppended(posts[p], e)
    BY DEF Post!Saved, PostAppended
  <2> QED BY <1>a, <2>1
<1>b. \A p \in Posts : ~Post!Exists(p) => ~posts[p].archived
  BY PostRowsFound DEF Post!Exists
<1> HIDE DEF Kinds
<1>c. UNCHANGED << posts, postReleases >> => Kinds
  BY DEF Kinds
<1>2. ASSUME Post!DraftRequest PROVE Kinds
  <2> PICK r \in PostDrafts :
        \/ Post!CreateNewDraft(r)
        \/ \E p \in Posts : \E v \in Post!Held(p), h \in 1..Post!HeadOf(p) : Post!CreateDraft(r, p, v, h)
        \/ \E n \in 1..postDrafts[r].revision :
             \/ Post!SaveDraft(r, n)
             \/ Post!DiscardDraft(r, n)
             \/ \E p \in Posts : Post!CommitNewDraft(r, n, p)
             \/ \E p \in Posts \cap {postDrafts[r].post} : \E v \in Post!Held(p), h \in 0..Post!HeadOf(p) :
                  Post!CommitDraft(r, n, v, h)
    BY <1>2 DEF Post!DraftRequest
  <2>1. Post!CreateNewDraft(r) => Kinds
    BY <1>c DEF Post!CreateNewDraft
  <2>2. \A p, v, h : Post!CreateDraft(r, p, v, h) => Kinds
    BY <1>c DEF Post!CreateDraft
  <2>3. \A n : Post!SaveDraft(r, n) \/ Post!DiscardDraft(r, n) => Kinds
    BY <1>c DEF Post!SaveDraft, Post!DiscardDraft
  <2>4. ASSUME NEW n, NEW p \in Posts, Post!CommitNewDraft(r, n, p) PROVE Kinds
    BY <1>a, <1>b, <2>4 DEF Post!CommitNewDraft
  <2>5. ASSUME NEW n, NEW v, NEW h, postDrafts[r].post \in Posts, Post!CommitDraft(r, n, v, h) PROVE Kinds
    BY <1>a, <2>5 DEF Post!CommitDraft, Post!Active
  <2> QED BY <2>1, <2>2, <2>3, <2>4, <2>5
<1>3. ASSUME Post!ProposalRequest PROVE Kinds
  <2> PICK q \in PostProposals, r \in PostDrafts \cup {None} : \E s \in Post!Revisions(r) :
        \/ \E p \in Posts \cup {None} : \E v \in IF p = None THEN {0} ELSE Post!Held(p) :
             Post!CreateProposal(q, p, v, r, s)
        \/ \E n \in 1..postProposals[q].version :
             \/ Post!DiscardProposal(q, n)
             \/ \E p \in Posts \cap {postProposals[q].post} : \E v \in Post!Held(p), h \in 1..Post!HeadOf(p) :
                  Post!AcceptProposal(q, n, v, h, r, s)
             \/ \E p \in Posts : Post!AcceptNewProposal(q, n, r, s, p)
    BY <1>3 DEF Post!ProposalRequest
  <2>1. \A p, v, s : Post!CreateProposal(q, p, v, r, s) => Kinds
    BY <1>c DEF Post!CreateProposal
  <2>2. \A n : Post!DiscardProposal(q, n) => Kinds
    BY <1>c DEF Post!DiscardProposal
  <2>3. ASSUME NEW n, NEW v, NEW h, NEW s, postProposals[q].post \in Posts, Post!AcceptProposal(q, n, v, h, r, s)
        PROVE  Kinds
    BY <1>a, <2>3 DEF Post!AcceptProposal, Post!Active
  <2>4. ASSUME NEW n, NEW s, NEW p \in Posts, Post!AcceptNewProposal(q, n, r, s, p) PROVE Kinds
    BY <1>a, <1>b, <2>4 DEF Post!AcceptNewProposal
  <2> QED BY <2>1, <2>2, <2>3, <2>4
<1>4. ASSUME UNCHANGED postVars PROVE Kinds
  BY <1>4, <1>c DEF postVars
<1> QED BY <1>1, <1>2, <1>3, <1>4 DEF Post!Next, Kinds

(* A release of a public post keeps its first date, any other is newer     *)
(* than every release before it.                                           *)
LEMMA FirstStands ==
  ASSUME PostInv, Post!Next \/ UNCHANGED postVars
  PROVE  [ \A p \in Posts : LET was == posts[p].head
                                now == posts'[p].head IN
             now # 0 /\ now # was =>
               IF was # 0 THEN postReleases'[now].stamps.published = postReleases[was].stamps.published
               ELSE \A n \in 1..Len(postReleases) :
                      postReleases'[now].stamps.published > postReleases[n].stamps.updated ]_postVars
<1> SUFFICES ASSUME NEW c \in Posts, posts'[c].head # 0, posts'[c].head # posts[c].head
             PROVE  IF posts[c].head # 0
                    THEN postReleases'[posts'[c].head].stamps.published = postReleases[posts[c].head].stamps.published
                    ELSE \A n \in 1..Len(postReleases) :
                           postReleases'[posts'[c].head].stamps.published > postReleases[n].stamps.updated
  BY DEF postVars
<1>0. posts \in [Posts -> PostRows] /\ \A p \in Posts : posts[p] \in PostRows
  BY DEF PostInv, PostTyped
<1>1. ASSUME NEW p \in Posts, NEW v, NEW k, Post!Publish(p, v, k)
      PROVE  IF posts[c].head # 0
             THEN postReleases'[posts'[c].head].stamps.published = postReleases[posts[c].head].stamps.published
             ELSE \A n \in 1..Len(postReleases) :
                    postReleases'[posts'[c].head].stamps.published > postReleases[n].stamps.updated
  <2> DEFINE now == Len(postReleases) + 1
             e   == [ post |-> p, content |-> k, stamps |-> Post!Stamps(posts[p].head, now) ]
  <2>1. postReleases' = Append(postReleases, e)
    BY <1>1 DEF Post!Publish
  <2>2. c = p /\ posts'[p].head = now
    BY <1>0, <1>1 DEF Post!Publish, PostRows
  <2>3. postReleases \in Seq(ReleaseRows \cup {e}) /\ Len(postReleases) \in Nat
    BY DEF PostInv, ReleasesStamped
  <2>4. postReleases'[now] = e
    BY <2>1, <2>3, Appending
  <2>5. postReleases'[now].stamps.published =
          IF posts[p].head = 0 THEN now ELSE postReleases[posts[p].head].stamps.published
    BY <2>4 DEF Post!Stamps
  <2>6. \A n \in 1..Len(postReleases) : postReleases[n].stamps.updated = n
    BY DEF PostInv, ReleasesStamped
  <2> HIDE DEF e
  <2> QED BY <2>2, <2>3, <2>5, <2>6
<1>2. ASSUME NEW p \in Posts, NEW v, Post!Withdraw(p, v) \/ Post!Archive(p, v) PROVE FALSE
  <2>1. posts[p] \in PostRows
    BY <1>0
  <2>2. CASE Post!Withdraw(p, v)
    <3>1. posts' = [posts EXCEPT ![p].head = 0, ![p].version = posts[p].version + 1]
      BY <2>2 DEF Post!Withdraw
    <3> QED BY <1>0, <2>1, <3>1 DEF PostRows
  <2>3. CASE Post!Archive(p, v)
    <3> DEFINE a == Post!Archived(posts[p])
    <3>1. a.head = 0
      BY <2>1 DEF Post!Archived, PostRows
    <3>2. posts' = [posts EXCEPT ![p] = a]
      BY <2>3 DEF Post!Archive
    <3> HIDE DEF a
    <3> QED BY <1>0, <3>1, <3>2
  <2> QED BY <1>2, <2>2, <2>3
<1>3. ASSUME NEW p \in Posts, NEW e, posts' = [posts EXCEPT ![p] = PostAppended(posts[p], e)] PROVE FALSE
  BY <1>0, <1>3 DEF PostAppended, PostRows
<1>4. CASE UNCHANGED << posts, postReleases >>
  BY <1>4
<1> QED BY <1>1, <1>2, <1>3, <1>4, PostKinds

(* The posts implement version logs.                                       *)
LEMMA PostLogStarts == Post!Init => Post!Log!LogInit
<1> SUFFICES ASSUME Post!Init PROVE Post!Log!LogInit
  OBVIOUS
<1>1. \A p \in Posts : Post!HeadOf(p) = 0 /\ ~posts[p].archived
  BY DEF Post!Init, Post!NoPost, Post!HeadOf
<1> QED BY <1>1 DEF Post!Log!LogInit, Post!LastBasis

LEMMA PostLogAppends ==
  ASSUME PostInv, PostInv', NEW p \in Posts, NEW e, ~posts[p].archived,
         posts' = [posts EXCEPT ![p] = PostAppended(posts[p], e)]
  PROVE  Post!Log!LogAppend(p)
<1>1. posts[p] \in PostRows /\ posts[p].log \in Seq(Post!Entries) /\ (\A c \in Posts : Post!HeadOf(c) \in Nat)
  BY PostRowsFound
<1>2. posts'[p] = PostAppended(posts[p], e) /\ \A c \in Posts \ {p} : posts'[c] = posts[c]
  BY DEF PostInv, PostTyped
<1>3. posts'[p].log = Append(posts[p].log, e) /\ posts'[p].archived = posts[p].archived
  BY <1>1, <1>2 DEF PostAppended, PostRows
<1>4. Post!HeadOf(p)' = Post!HeadOf(p) + 1
  <2>1. posts[p].log \in Seq(Post!Entries \cup {e})
    BY <1>1
  <2>2. Len(Append(posts[p].log, e)) = Len(posts[p].log) + 1
    BY <2>1, Appending
  <2> QED BY <1>3, <2>2 DEF Post!HeadOf
<1>5. Post!LastBasis(p)' = Post!HeadOf(p)
  <2>0. Post!HeadOf(p) \in Nat
    BY <1>1
  <2>1. Post!HeadOf(p)' \in 1..Post!HeadOf(p)' /\ Post!HeadOf(p)' # 0
    BY <1>4, <2>0
  <2>2. \A n \in 1..Post!HeadOf(p)' : posts'[p].log[n].basis = n - 1
    BY DEF PostInv, PostsWhole, PostWhole, Post!HeadOf
  <2>3. posts'[p].log[Post!HeadOf(p)'].basis = Post!HeadOf(p)' - 1
    BY <2>1, <2>2
  <2> QED BY <1>4, <2>0, <2>1, <2>3 DEF Post!LastBasis
<1>6. \A c \in Posts \ {p} : /\ Post!HeadOf(c)' = Post!HeadOf(c) /\ Post!LastBasis(c)' = Post!LastBasis(c)
                             /\ posts'[c].archived = posts[c].archived
  BY <1>2 DEF Post!HeadOf, Post!LastBasis
<1>7. p \notin { c \in Posts : posts[c].archived }
  OBVIOUS
<1>8. [c \in Posts |-> Post!HeadOf(c)]' = [[c \in Posts |-> Post!HeadOf(c)] EXCEPT ![p] = @ + 1]
  BY <1>4, <1>6
<1>9. [c \in Posts |-> Post!LastBasis(c)]'
        = [[c \in Posts |-> Post!LastBasis(c)] EXCEPT ![p] = [c \in Posts |-> Post!HeadOf(c)][p]]
  BY <1>5, <1>6
<1>10. { c \in Posts : posts[c].archived }' = { c \in Posts : posts[c].archived }
  BY <1>3, <1>6
<1> QED BY <1>7, <1>8, <1>9, <1>10 DEF Post!Log!LogAppend

LEMMA PostLogRests ==
  ASSUME \A p \in Posts : posts'[p].log = posts[p].log /\ posts'[p].archived = posts[p].archived
  PROVE  UNCHANGED Post!Log!logVars
<1>1. \A c \in Posts : Post!HeadOf(c)' = Post!HeadOf(c) /\ Post!LastBasis(c)' = Post!LastBasis(c)
  BY DEF Post!HeadOf, Post!LastBasis
<1> QED BY <1>1 DEF Post!Log!logVars

LEMMA PostLogStep ==
  ASSUME PostInv, PostInv', Post!Next \/ UNCHANGED postVars
  PROVE  [Post!Log!LogNext]_(Post!Log!logVars)
<1>0. posts \in [Posts -> PostRows] /\ \A p \in Posts : posts[p] \in PostRows
  BY DEF PostInv, PostTyped
<1>1. ASSUME NEW p \in Posts, NEW v, NEW n, Post!Publish(p, v, n) PROVE UNCHANGED Post!Log!logVars
  <2>1. \A c \in Posts : posts'[c].log = posts[c].log /\ posts'[c].archived = posts[c].archived
    BY <1>0, <1>1 DEF Post!Publish, PostRows
  <2> QED BY <2>1, PostLogRests
<1>2. ASSUME NEW p \in Posts, NEW v, Post!Withdraw(p, v) PROVE UNCHANGED Post!Log!logVars
  <2>1. \A c \in Posts : posts'[c].log = posts[c].log /\ posts'[c].archived = posts[c].archived
    BY <1>0, <1>2 DEF Post!Withdraw, PostRows
  <2> QED BY <2>1, PostLogRests
<1>3. ASSUME NEW p \in Posts, NEW v, Post!Archive(p, v) PROVE Post!Log!LogClose(p)
  <2>1. /\ posts'[p] = Post!Archived(posts[p]) /\ (\A c \in Posts \ {p} : posts'[c] = posts[c])
        /\ ~posts[p].archived /\ posts[p].version > 0
    BY <1>0, <1>3 DEF Post!Archive, Post!Active, Post!Exists
  <2>2. posts'[p].log = posts[p].log /\ posts'[p].archived = TRUE
    BY <1>0, <2>1 DEF Post!Archived, PostRows
  <2>3. \A c \in Posts : posts'[c].log = posts[c].log
    BY <2>1, <2>2
  <2>4. \A c \in Posts : Post!HeadOf(c)' = Post!HeadOf(c) /\ Post!LastBasis(c)' = Post!LastBasis(c)
    BY <2>3 DEF Post!HeadOf, Post!LastBasis
  <2>5. { c \in Posts : posts[c].archived }' = { c \in Posts : posts[c].archived } \cup {p}
    BY <2>1, <2>2
  <2>6. Post!HeadOf(p) > 0
    BY <2>1, PostRowsFound
  <2> QED BY <2>1, <2>4, <2>5, <2>6 DEF Post!Log!LogClose
<1>4. UNCHANGED << posts, postReleases >> => UNCHANGED Post!Log!logVars
  BY PostLogRests
<1> QED BY <1>1, <1>2, <1>3, <1>4, PostKinds, PostLogAppends DEF Post!Log!LogNext

-----------------------------------------------------------------------------
(* Publication.                                                            *)

DocumentRow  == [version : 1..MaxDocVersion, content : Release!Contents, archived : BOOLEAN]
MaterialRows == [content : Release!Contents, archived : BOOLEAN]
RelationRows == [state : {"none", "active", "archived"}, target : Materials \cup {None}, version : Nat]
PublicRows   == [bundle : Release!Bundles \cup {None}, shown : Release!Bundles \cup {None}, knew : Nat, was : Nat]
Pages        == [release : Nat, got : (Materials \X Release!Contents) \cup {None}]

(* What a preview shows was so at one moment: its bundle and its token are *)
(* those of the same rows, and the relations it lists are known ones.      *)
ShownRight(s) ==
  /\ s.expected \in 1..doc.version /\ s.content \in 1..doc.content
  /\ s.token = << s.content, s.links >>
  /\ s.bundle = [ content |-> s.content, materials |-> [m \in DOMAIN s.links |-> s.links[m].content] ]
  /\ s.blocked \subseteq DOMAIN s.links
  /\ DOMAIN s.links \subseteq Materials
  /\ \A m \in DOMAIN s.links :
       /\ s.links[m].content \in Release!Contents
       /\ \A e \in s.links[m].relations : e[1] \in Relations /\ relations[e[1]].state # "none"

ScreensRight ==
  /\ screen = [t \in Tabs |-> screen[t]]
  /\ \A t \in Tabs : screen[t] # None => ShownRight(screen[t])

(* Every release is the bundle that was shown, by somebody who knew of the *)
(* one before it.                                                          *)
ReleasesKnown ==
  /\ releases \in Seq(PublicRows)
  /\ \A n \in 1..Len(releases) : releases[n].bundle = releases[n].shown /\ releases[n].knew = releases[n].was

(* The history of heads ends with the head, which is a publication.        *)
HeadsKnown ==
  /\ head \in 0..Len(releases) /\ (head # 0 => releases[head].bundle \in Release!Bundles)
  /\ headAt \in Seq(0..Len(releases)) /\ Len(headAt) = doc.version
  /\ headAt[doc.version] = head

RemovalsKnown ==
  /\ removed \in [Tabs -> SUBSET Relations]
  /\ \A t \in Tabs : \A r \in removed[t] : relations[r].state = "archived"

(* A relation that was made has a target.                                  *)
RelationsKnown ==
  /\ relations \in [Relations -> RelationRows]
  /\ \A r \in Relations : relations[r].state # "none" => relations[r].target \in Materials

(* A reader's page was a release, and what it got of it is in its bundle.  *)
PageRight(page) ==
  /\ page.release \in 0..Len(releases)
  /\ page.release # 0 => releases[page.release].bundle \in Release!Bundles
  /\ page.got # None =>
       /\ page.release # 0
       /\ page.got[1] \in DOMAIN releases[page.release].bundle.materials
       /\ page.got[2] = releases[page.release].bundle.materials[page.got[1]]

PagesRight ==
  /\ reader \in [Readers -> Pages]
  /\ \A r \in Readers : PageRight(reader[r])

ReleaseInv ==
  /\ doc \in DocumentRow /\ materials \in [Materials -> MaterialRows]
  /\ RelationsKnown /\ ReleasesKnown /\ HeadsKnown /\ ScreensRight /\ RemovalsKnown /\ PagesRight

LEMMA ReleaseConstants ==
  /\ None \notin Materials /\ None \notin Release!Bundles
  /\ MaxContent \in Nat /\ MaxContent > 0 /\ MaxDocVersion \in Nat /\ MaxDocVersion > 0
  BY PartsAssumption DEF Release!PublicationAssumption

(* One content version of every cited material makes a bundle.             *)
LEMMA BundleMade ==
  ASSUME NEW n \in Release!Contents, NEW S \in SUBSET Materials, NEW f, \A m \in S : f[m] \in Release!Contents
  PROVE  [ content |-> n, materials |-> [m \in S |-> f[m]] ] \in Release!Bundles
<1>1. [m \in S |-> f[m]] \in [S -> Release!Contents]
  OBVIOUS
<1>2. [m \in S |-> f[m]] \in UNION { [T -> Release!Contents] : T \in SUBSET Materials }
  BY <1>1
<1> QED BY <1>2 DEF Release!Bundles

(* What the owner's rows say is cited.                                     *)
LEMMA CitedNow ==
  ASSUME ReleaseInv
  PROVE  /\ Release!CitedNow \subseteq Materials
         /\ DOMAIN Release!MaterialsNow = Release!CitedNow
         /\ \A m \in Release!CitedNow :
              /\ Release!MaterialsNow[m].content = materials[m].content
              /\ materials[m].content \in Release!Contents
              /\ \A e \in Release!MaterialsNow[m].relations :
                   e[1] \in Relations /\ relations[e[1]].state = "active"
<1>1. Release!CitedNow \subseteq Materials
  BY DEF Release!CitedNow
<1>2. \A m \in Materials : materials[m].content \in Release!Contents
  BY DEF ReleaseInv, MaterialRows
<1>3. ASSUME NEW m \in Release!CitedNow
      PROVE  /\ Release!MaterialsNow[m].content = materials[m].content
             /\ Release!MaterialsNow[m].relations = { << r, relations[r].version >> : r \in Release!Linked(m) }
  BY DEF Release!MaterialsNow
<1>4. ASSUME NEW m \in Release!CitedNow, NEW e \in Release!MaterialsNow[m].relations
      PROVE  e[1] \in Relations /\ relations[e[1]].state = "active"
  <2>1. PICK r \in Release!Linked(m) : e = << r, relations[r].version >>
    BY <1>3
  <2> QED BY <2>1 DEF Release!Linked
<1> QED BY <1>1, <1>2, <1>3, <1>4 DEF Release!MaterialsNow

(* A bundle is a function of the token's material part.                    *)
LEMMA BundleOfToken ==
  ASSUME ReleaseInv, NEW n \in Release!Contents
  PROVE  /\ Release!BundleNow(n) = [ content |-> n, materials |->
               [m \in DOMAIN Release!MaterialsNow |-> Release!MaterialsNow[m].content] ]
         /\ Release!BundleNow(n) \in Release!Bundles
<1>1. [m \in DOMAIN Release!MaterialsNow |-> Release!MaterialsNow[m].content]
        = [m \in Release!CitedNow |-> materials[m].content]
  BY CitedNow
<1> DEFINE f == [m \in Release!CitedNow |-> materials[m].content]
<1>2. f \in [Release!CitedNow -> Release!Contents]
  BY CitedNow
<1>3. f \in UNION { [T -> Release!Contents] : T \in SUBSET Materials }
  BY <1>2, CitedNow
<1>4. [ content |-> n, materials |-> f ] \in Release!Bundles
  BY <1>3 DEF Release!Bundles
<1> QED BY <1>1, <1>4 DEF Release!BundleNow

LEMMA ReleaseInit == Release!Init => ReleaseInv
<1> SUFFICES ASSUME Release!Init PROVE ReleaseInv
  OBVIOUS
<1>0. 1 \in Release!Contents /\ 1 \in 1..MaxDocVersion
  BY ReleaseConstants DEF Release!Contents
<1>1. doc \in DocumentRow /\ doc.version = 1 /\ materials \in [Materials -> MaterialRows]
  BY <1>0 DEF Release!Init, DocumentRow, MaterialRows
<1>2. RelationsKnown /\ RemovalsKnown /\ ScreensRight
  BY DEF Release!Init, RelationsKnown, RemovalsKnown, ScreensRight, RelationRows, Release!NoRelation
<1>3. ReleasesKnown
  BY DEF Release!Init, ReleasesKnown
<1>4. HeadsKnown
  BY <1>1 DEF Release!Init, HeadsKnown
<1>5. PagesRight
  BY DEF Release!Init, PagesRight, PageRight, Pages, Release!NoPage
<1> QED BY <1>1, <1>2, <1>3, <1>4, <1>5 DEF ReleaseInv

(* What each table needs of a step to keep its part of the invariant.      *)
LEMMA ScreensStand ==
  ASSUME ReleaseInv, doc' \in DocumentRow, doc'.version >= doc.version, doc'.content >= doc.content,
         \A r \in Relations : relations[r].state # "none" => relations'[r].state # "none",
         screen' = [t \in Tabs |-> screen'[t]],
         \A t \in Tabs : screen'[t] = screen[t] \/ screen'[t] = None
  PROVE  ScreensRight'
<1>1. ASSUME NEW t \in Tabs, screen'[t] # None PROVE ShownRight(screen[t])'
  <2>1. screen'[t] = screen[t] /\ ShownRight(screen[t])
    BY <1>1 DEF ReleaseInv, ScreensRight
  <2>2. 1..doc.version \subseteq 1..doc'.version /\ 1..doc.content \subseteq 1..doc'.content
    BY DEF ReleaseInv, DocumentRow, Release!Contents
  <2>3. screen'[t].expected \in 1..doc'.version /\ screen'[t].content \in 1..doc'.content
    BY <2>1, <2>2 DEF ShownRight
  <2>4. \A m \in DOMAIN screen'[t].links :
          /\ screen'[t].links[m].content \in Release!Contents
          /\ \A e \in screen'[t].links[m].relations : e[1] \in Relations /\ relations'[e[1]].state # "none"
    BY <2>1 DEF ShownRight
  <2>5. /\ screen'[t].token = << screen'[t].content, screen'[t].links >>
        /\ screen'[t].bundle = [ content |-> screen'[t].content,
                                 materials |-> [m \in DOMAIN screen'[t].links |-> screen'[t].links[m].content] ]
        /\ screen'[t].blocked \subseteq DOMAIN screen'[t].links
        /\ DOMAIN screen'[t].links \subseteq Materials
    BY <2>1 DEF ShownRight
  <2> QED BY <2>3, <2>4, <2>5 DEF ShownRight, Release!Contents
<1> QED BY <1>1 DEF ScreensRight

LEMMA HeadsStand ==
  ASSUME ReleaseInv, doc'.version = doc.version, UNCHANGED << releases, head, headAt >>
  PROVE  HeadsKnown'
  BY DEF ReleaseInv, HeadsKnown

LEMMA HeadMoved ==
  ASSUME ReleaseInv, NEW h, doc'.version = doc.version + 1, Release!Moved(h),
         Len(releases') \in Nat, Len(releases') >= Len(releases),
         h \in 0..Len(releases'), h # 0 => releases'[h].bundle \in Release!Bundles
  PROVE  HeadsKnown'
<1>1. headAt' = Append(headAt, h) /\ head' = h
  BY DEF Release!Moved
<1>2. headAt \in Seq(0..Len(releases')) /\ Len(headAt) = doc.version
  <2>1. Len(releases) \in Nat
    BY DEF ReleaseInv, ReleasesKnown
  <2>2. 0..Len(releases) \subseteq 0..Len(releases')
    BY <2>1
  <2> QED BY <2>2 DEF ReleaseInv, HeadsKnown
<1>3. /\ headAt' \in Seq(0..Len(releases')) /\ Len(headAt') = Len(headAt) + 1
      /\ headAt'[Len(headAt) + 1] = h
  BY <1>1, <1>2, Appending
<1> QED BY <1>1, <1>2, <1>3 DEF HeadsKnown

LEMMA ReleaseAdded ==
  ASSUME ReleaseInv, NEW e \in PublicRows, releases' = Append(releases, e), e.bundle = e.shown, e.knew = e.was
  PROVE  /\ ReleasesKnown' /\ Len(releases') = Len(releases) + 1 /\ Len(releases) \in Nat
         /\ releases'[Len(releases) + 1] = e
         /\ \A n \in 1..Len(releases) : releases'[n] = releases[n]
<1>1. /\ releases' \in Seq(PublicRows) /\ Len(releases') = Len(releases) + 1 /\ Len(releases) \in Nat
      /\ releases'[Len(releases) + 1] = e
      /\ \A n \in 1..Len(releases) : releases'[n] = releases[n]
  BY Appending DEF ReleaseInv, ReleasesKnown
<1>2. ASSUME NEW n \in 1..Len(releases')
      PROVE  releases'[n].bundle = releases'[n].shown /\ releases'[n].knew = releases'[n].was
  <2>1. CASE n \in 1..Len(releases)
    BY <1>1, <2>1 DEF ReleaseInv, ReleasesKnown
  <2>2. CASE n = Len(releases) + 1
    BY <1>1, <2>2
  <2> QED BY <1>1, <2>1, <2>2
<1> QED BY <1>1, <1>2 DEF ReleasesKnown

LEMMA PagesStand ==
  ASSUME ReleaseInv, UNCHANGED reader, Len(releases') \in Nat, Len(releases') >= Len(releases),
         \A n \in 1..Len(releases) : releases'[n] = releases[n]
  PROVE  PagesRight'
<1>0. Len(releases) \in Nat
  BY DEF ReleaseInv, ReleasesKnown
<1>1. ASSUME NEW r \in Readers PROVE PageRight(reader[r])'
  <2>1. PageRight(reader[r]) /\ reader'[r] = reader[r]
    BY DEF ReleaseInv, PagesRight
  <2>2. reader[r].release \in 0..Len(releases')
    BY <1>0, <2>1 DEF PageRight
  <2>3. reader[r].release # 0 => releases'[reader[r].release] = releases[reader[r].release]
    BY <1>0, <2>1 DEF PageRight
  <2> QED BY <2>1, <2>2, <2>3 DEF PageRight
<1> QED BY <1>1 DEF ReleaseInv, PagesRight

LEMMA RelationMoves ==
  ASSUME ReleaseInv, NEW r \in Relations, NEW e \in RelationRows, relations' = [relations EXCEPT ![r] = e],
         e.state # "none", e.target \in Materials, relations[r].state # "archived"
  PROVE  /\ RelationsKnown' /\ relations'[r] = e
         /\ \A x \in Relations : relations[x].state # "none" => relations'[x].state # "none"
         /\ \A x \in Relations : relations[x].state = "archived" => relations'[x].state = "archived"
  BY DEF ReleaseInv, RelationsKnown

(* A step that touches no row but the relations'.                          *)
LEMMA RelationsAlone ==
  ASSUME ReleaseInv, NEW r \in Relations, NEW e \in RelationRows, relations' = [relations EXCEPT ![r] = e],
         e.state # "none", e.target \in Materials, relations[r].state # "archived",
         UNCHANGED << doc, materials, releases, head, headAt, screen, reader >>,
         \/ UNCHANGED removed
         \/ \E t \in Tabs : e.state = "archived" /\ removed' = [removed EXCEPT ![t] = @ \cup {r}]
  PROVE  ReleaseInv'
<1>1. /\ RelationsKnown' /\ relations'[r] = e
      /\ \A x \in Relations : relations[x].state # "none" => relations'[x].state # "none"
      /\ \A x \in Relations : relations[x].state = "archived" => relations'[x].state = "archived"
  BY RelationMoves
<1>2. doc' \in DocumentRow /\ doc.version \in Nat /\ doc.content \in Nat /\ Len(releases) \in Nat
  BY DEF ReleaseInv, DocumentRow, Release!Contents, ReleasesKnown
<1>3. ScreensRight'
  BY <1>1, <1>2, ScreensStand DEF ReleaseInv, ScreensRight
<1>4. HeadsKnown' /\ PagesRight' /\ ReleasesKnown' /\ materials' \in [Materials -> MaterialRows]
  BY <1>2, HeadsStand, PagesStand DEF ReleaseInv, ReleasesKnown
<1>5. RemovalsKnown'
  BY <1>1 DEF ReleaseInv, RemovalsKnown
<1> QED BY <1>1, <1>2, <1>3, <1>4, <1>5 DEF ReleaseInv

(* A step that leaves relations, removals and readers alone.               *)
LEMMA DocumentMoves ==
  ASSUME ReleaseInv, doc' \in DocumentRow, doc'.version >= doc.version, doc'.content >= doc.content,
         materials' \in [Materials -> MaterialRows], UNCHANGED << relations, releases, screen, removed, reader >>,
         HeadsKnown'
  PROVE  ReleaseInv'
<1>1. Len(releases) \in Nat
  BY DEF ReleaseInv, ReleasesKnown
<1>2. ScreensRight'
  BY ScreensStand DEF ReleaseInv, ScreensRight
<1>3. PagesRight'
  BY <1>1, PagesStand
<1>4. RelationsKnown' /\ ReleasesKnown' /\ RemovalsKnown'
  BY DEF ReleaseInv, RelationsKnown, ReleasesKnown, RemovalsKnown
<1> QED BY <1>2, <1>3, <1>4 DEF ReleaseInv

(* The owner's other requests.                                             *)
LEMMA OwnerStepKeeps ==
  ASSUME ReleaseInv, Release!OwnerStep
  PROVE  ReleaseInv'
<1>0. /\ doc.version \in 1..MaxDocVersion /\ doc.content \in 1..MaxContent /\ doc.archived \in BOOLEAN
      /\ Len(releases) \in Nat /\ doc \in DocumentRow
      /\ head \in 0..Len(releases) /\ (head # 0 => releases[head].bundle \in Release!Bundles)
  BY DEF ReleaseInv, DocumentRow, Release!Contents, ReleasesKnown, HeadsKnown
<1>1. CASE Release!ChangeDocument
  <2> DEFINE d == [doc EXCEPT !.version = @ + 1, !.content = @ + 1]
  <2>1. doc.version + 1 \in 1..MaxDocVersion /\ doc.content + 1 \in Release!Contents
    BY <1>0, <1>1, ReleaseConstants DEF Release!ChangeDocument, Release!Contents
  <2>2. doc' = d /\ d \in DocumentRow
    BY <1>0, <1>1, <2>1 DEF Release!ChangeDocument, DocumentRow
  <2>3. d.version = doc.version + 1 /\ d.content = doc.content + 1
    BY <1>0, <2>2 DEF DocumentRow
  <2> HIDE DEF d
  <2>4. HeadsKnown'
    BY <1>0, <1>1, <2>2, <2>3, HeadMoved DEF Release!ChangeDocument
  <2> QED BY <1>0, <1>1, <2>2, <2>3, <2>4, DocumentMoves DEF Release!ChangeDocument, ReleaseInv
<1>2. CASE Release!ArchiveDocument
  <2> DEFINE d == [doc EXCEPT !.version = @ + 1, !.archived = TRUE]
  <2>1. doc.version + 1 \in 1..MaxDocVersion
    BY <1>0, <1>2, ReleaseConstants DEF Release!ArchiveDocument
  <2>2. doc' = d /\ d \in DocumentRow
    BY <1>0, <1>2, <2>1 DEF Release!ArchiveDocument, DocumentRow
  <2>3. d.version = doc.version + 1 /\ d.content = doc.content
    BY <1>0, <2>2 DEF DocumentRow
  <2> HIDE DEF d
  <2>4. HeadsKnown'
    BY <1>0, <1>2, <2>2, <2>3, HeadMoved DEF Release!ArchiveDocument
  <2> QED BY <1>0, <1>2, <2>2, <2>3, <2>4, DocumentMoves DEF Release!ArchiveDocument, ReleaseInv
<1>3. ASSUME NEW m \in Materials, Release!ChangeMaterial(m) PROVE ReleaseInv'
  <2>1. materials[m] \in MaterialRows /\ materials[m].content + 1 \in Release!Contents
    BY <1>3, ReleaseConstants DEF ReleaseInv, Release!ChangeMaterial, MaterialRows, Release!Contents
  <2>2. materials' \in [Materials -> MaterialRows]
    BY <1>3, <2>1 DEF ReleaseInv, Release!ChangeMaterial, MaterialRows
  <2>3. HeadsKnown'
    BY <1>3, HeadsStand DEF Release!ChangeMaterial
  <2> QED BY <1>0, <1>3, <2>2, <2>3, DocumentMoves DEF Release!ChangeMaterial
<1>4. ASSUME NEW m \in Materials, Release!ArchiveMaterial(m) PROVE ReleaseInv'
  <2>1. materials' \in [Materials -> MaterialRows]
    BY <1>4 DEF ReleaseInv, Release!ArchiveMaterial, MaterialRows
  <2>2. HeadsKnown'
    BY <1>4, HeadsStand DEF Release!ArchiveMaterial
  <2> QED BY <1>0, <1>4, <2>1, <2>2, DocumentMoves DEF Release!ArchiveMaterial
<1>a. ASSUME NEW r \in Relations, relations[r].state = "active"
      PROVE  /\ relations[r] \in RelationRows /\ relations[r].target \in Materials
             /\ relations[r].version \in Nat
  BY <1>a DEF ReleaseInv, RelationsKnown, RelationRows
<1>5. ASSUME NEW r \in Relations, Release!ChangeRelation(r) PROVE ReleaseInv'
  <2> DEFINE e == [relations[r] EXCEPT !.version = @ + 1]
  <2>0. relations[r].state = "active"
    BY <1>5 DEF Release!ChangeRelation
  <2>1. relations' = [relations EXCEPT ![r] = e] /\ e \in RelationRows
    BY <1>5, <1>a, <2>0 DEF Release!ChangeRelation, RelationRows
  <2>2. e.state = "active" /\ e.target \in Materials
    BY <1>a, <2>0, <2>1 DEF RelationRows
  <2> HIDE DEF e
  <2> QED BY <1>5, <2>0, <2>1, <2>2, RelationsAlone DEF Release!ChangeRelation
<1>6. ASSUME NEW r \in Relations, Release!ArchiveRelation(r) PROVE ReleaseInv'
  <2> DEFINE e == [relations[r] EXCEPT !.state = "archived", !.version = @ + 1]
  <2>0. relations[r].state = "active"
    BY <1>6 DEF Release!ArchiveRelation, Release!FoundForRemoval
  <2>1. relations' = [relations EXCEPT ![r] = e] /\ e \in RelationRows
    <3>1. e \in RelationRows
      <4>1. relations[r].version + 1 \in Nat /\ relations[r] \in RelationRows
        BY <1>a, <2>0
      <4> QED BY <4>1 DEF RelationRows
    <3>2. relations' = [relations EXCEPT ![r] = e]
      BY <1>6 DEF Release!ArchiveRelation, ReleaseInv, RelationsKnown
    <3> QED BY <3>1, <3>2
  <2>2. e.state = "archived" /\ e.target \in Materials
    BY <1>a, <2>0, <2>1 DEF RelationRows
  <2> HIDE DEF e
  <2> QED BY <1>6, <2>0, <2>1, <2>2, RelationsAlone DEF Release!ArchiveRelation
<1>7. ASSUME NEW r \in Relations, NEW m \in Materials, Release!CreateRelation(r, m) PROVE ReleaseInv'
  <2> DEFINE e == [ state |-> "active", target |-> m, version |-> 1 ]
  <2>1. relations' = [relations EXCEPT ![r] = e] /\ e \in RelationRows /\ relations[r].state = "none"
    BY <1>7 DEF Release!CreateRelation, RelationRows
  <2>2. e.state = "active" /\ e.target \in Materials
    OBVIOUS
  <2> HIDE DEF e
  <2> QED BY <1>7, <2>1, <2>2, RelationsAlone DEF Release!CreateRelation
<1> QED BY <1>1, <1>2, <1>3, <1>4, <1>5, <1>6, <1>7 DEF Release!OwnerStep

(* A preview is right when it is taken.                                    *)
LEMMA PreviewKeeps ==
  ASSUME ReleaseInv, NEW t \in Tabs, NEW n \in 1..doc.content, Release!Preview(t, n)
  PROVE  ReleaseInv'
<1>0. /\ doc \in DocumentRow /\ doc.version \in 1..doc.version /\ n \in Release!Contents
      /\ Len(releases) \in Nat
  BY ReleaseConstants DEF ReleaseInv, DocumentRow, Release!Contents, ReleasesKnown
<1> DEFINE s == [ expected |-> doc.version, content |-> n, token |-> Release!Token(n), bundle |-> Release!BundleNow(n),
                  blocked |-> { m \in Release!CitedNow : materials[m].archived }, links |-> Release!MaterialsNow,
                  publishable |-> Release!Publishable ]
<1>1. screen' = [screen EXCEPT ![t] = s] /\ UNCHANGED << doc, materials, relations, releases, head, headAt, reader >>
  BY DEF Release!Preview, Release!store
<1>2. ShownRight(s)
  <2>1. /\ s.expected = doc.version /\ s.content = n /\ s.token = << n, s.links >>
        /\ s.bundle = Release!BundleNow(n) /\ s.links = Release!MaterialsNow
        /\ s.blocked \subseteq Release!CitedNow
    BY DEF Release!Token
  <2> HIDE DEF s
  <2>2. s.bundle = [ content |-> n, materials |-> [m \in DOMAIN s.links |-> s.links[m].content] ]
    BY <1>0, <2>1, BundleOfToken
  <2>3. \A m \in DOMAIN s.links :
          /\ s.links[m].content \in Release!Contents
          /\ \A e \in s.links[m].relations : e[1] \in Relations /\ relations[e[1]].state # "none"
    BY <2>1, CitedNow
  <2> QED BY <1>0, <2>1, <2>2, <2>3, CitedNow DEF ShownRight
<1> HIDE DEF s
<1>3. screen' = [x \in Tabs |-> screen'[x]] /\ screen'[t] = s /\ \A x \in Tabs \ {t} : screen'[x] = screen[x]
  BY <1>1 DEF ReleaseInv, ScreensRight
<1>4. ASSUME NEW x \in Tabs, screen'[x] # None PROVE ShownRight(screen[x])'
  <2>1. ShownRight(screen'[x])
    BY <1>2, <1>3, <1>4 DEF ReleaseInv, ScreensRight
  <2> QED BY <1>1, <2>1 DEF ShownRight, Release!Contents
<1>5. RemovalsKnown'
  <2>1. removed' = [removed EXCEPT ![t] = Release!Kept(t, n)]
    BY DEF Release!Preview
  <2>2. Release!Kept(t, n) \subseteq removed[t]
    BY DEF Release!Kept
  <2> QED BY <1>1, <2>1, <2>2 DEF ReleaseInv, RemovalsKnown
<1>6. ScreensRight'
  BY <1>3, <1>4 DEF ScreensRight
<1>7. PagesRight' /\ HeadsKnown'
  BY <1>0, <1>1, PagesStand, HeadsStand
<1> QED BY <1>1, <1>5, <1>6, <1>7 DEF ReleaseInv, RelationsKnown, ReleasesKnown

(* A removal, also one that was not found.                                 *)
LEMMA UnlinkKeeps ==
  ASSUME ReleaseInv, NEW t \in Tabs, NEW m \in Materials, NEW r \in Relations, Release!Unlink(t, m, r)
  PROVE  ReleaseInv'
<1>1. /\ screen[t] # None /\ m \in screen[t].blocked
      /\ UNCHANGED << doc, materials, releases, head, headAt, screen, reader >>
  BY DEF Release!Unlink
<1>2. PICK v \in { e[2] : e \in { x \in screen[t].links[m].relations : x[1] = r } } :
        \/ /\ ~Release!FoundForRemoval(r)
           /\ removed' = [removed EXCEPT ![t] = @ \cup {r}]
           /\ UNCHANGED relations
        \/ /\ Release!FoundForRemoval(r) /\ relations[r].version = v
           /\ relations' = [relations EXCEPT ![r].state = "archived", ![r].version = @ + 1]
           /\ removed' = [removed EXCEPT ![t] = @ \cup {r}]
  BY DEF Release!Unlink
<1>3. relations[r].state # "none" /\ relations[r].state \in {"none", "active", "archived"}
  <2>1. PICK e \in screen[t].links[m].relations : e[1] = r
    BY <1>2
  <2>2. ShownRight(screen[t])
    BY <1>1 DEF ReleaseInv, ScreensRight
  <2> QED BY <1>1, <2>1, <2>2 DEF ShownRight, ReleaseInv, RelationsKnown, RelationRows
<1>4. CASE ~Release!FoundForRemoval(r)
  <2>1. /\ relations[r].state = "archived" /\ UNCHANGED relations
        /\ removed' = [removed EXCEPT ![t] = @ \cup {r}]
    BY <1>2, <1>3, <1>4 DEF Release!FoundForRemoval
  <2>2. RemovalsKnown'
    BY <2>1 DEF ReleaseInv, RemovalsKnown
  <2>3. doc' \in DocumentRow /\ doc.version \in Nat /\ doc.content \in Nat /\ Len(releases) \in Nat
    BY <1>1 DEF ReleaseInv, DocumentRow, Release!Contents, ReleasesKnown
  <2>4. ScreensRight'
    BY <1>1, <2>1, <2>3, ScreensStand DEF ReleaseInv, ScreensRight
  <2>5. HeadsKnown' /\ PagesRight'
    BY <1>1, <2>3, HeadsStand, PagesStand
  <2> QED BY <1>1, <2>1, <2>2, <2>4, <2>5 DEF ReleaseInv, RelationsKnown, ReleasesKnown
<1>5. CASE Release!FoundForRemoval(r)
  <2> DEFINE e == [relations[r] EXCEPT !.state = "archived", !.version = @ + 1]
  <2>0. relations[r].state = "active"
    BY <1>5 DEF Release!FoundForRemoval
  <2>1. /\ relations[r] \in RelationRows /\ relations[r].target \in Materials
        /\ relations[r].version \in Nat
    BY <2>0 DEF ReleaseInv, RelationsKnown, RelationRows
  <2>2. relations' = [relations EXCEPT ![r] = e] /\ e \in RelationRows
    <3>1. e \in RelationRows
      <4>1. relations[r].version + 1 \in Nat /\ relations[r] \in RelationRows
        BY <2>1
      <4> QED BY <4>1 DEF RelationRows
    <3>2. relations' = [relations EXCEPT ![r] = e]
      BY <1>2, <1>5 DEF ReleaseInv, RelationsKnown
    <3> QED BY <3>1, <3>2
  <2>3. e.state = "archived" /\ e.target \in Materials
    BY <2>1, <2>2 DEF RelationRows
  <2> HIDE DEF e
  <2>4. removed' = [removed EXCEPT ![t] = @ \cup {r}]
    BY <1>2
  <2> QED BY <1>1, <2>0, <2>2, <2>3, <2>4, RelationsAlone
<1> QED BY <1>4, <1>5

(* A publication is what its tab showed, of the release it knew.           *)
LEMMA Published ==
  ASSUME ReleaseInv, NEW t \in Tabs, Release!Publish(t)
  PROVE  /\ Release!BundleNow(screen[t].content) = screen[t].bundle
         /\ screen[t].bundle \in Release!Bundles
         /\ headAt[screen[t].expected] = head
         /\ DOMAIN screen[t].bundle.materials = Release!CitedNow
<1>1. /\ screen[t] # None /\ doc.version = screen[t].expected
      /\ Release!Token(screen[t].content) = screen[t].token
  BY DEF Release!Publish, Release!ExpectVersion
<1>2. ShownRight(screen[t])
  BY <1>1 DEF ReleaseInv, ScreensRight
<1>3. screen[t].links = Release!MaterialsNow
  BY <1>1, <1>2 DEF ShownRight, Release!Token
<1>4. screen[t].content \in Release!Contents
  BY <1>2, ReleaseConstants DEF ShownRight, ReleaseInv, DocumentRow, Release!Contents
<1>5. /\ Release!BundleNow(screen[t].content) = screen[t].bundle
      /\ screen[t].bundle \in Release!Bundles
  BY <1>2, <1>3, <1>4, BundleOfToken DEF ShownRight
<1>6. DOMAIN screen[t].bundle.materials = Release!CitedNow
  BY <1>2, <1>3, CitedNow DEF ShownRight
<1> QED BY <1>1, <1>5, <1>6 DEF ReleaseInv, HeadsKnown

(* The release that a publication and a withdrawal add.                    *)
LEMMA PublishKeeps ==
  ASSUME ReleaseInv, NEW t \in Tabs, Release!Publish(t)
  PROVE  ReleaseInv'
<1> DEFINE e == [ bundle |-> Release!BundleNow(screen[t].content), shown |-> screen[t].bundle,
                  knew |-> headAt[screen[t].expected], was |-> head ]
           d == [doc EXCEPT !.version = @ + 1]
<1>0. /\ doc.version \in 1..MaxDocVersion /\ doc.content \in 1..MaxContent /\ doc \in DocumentRow
      /\ Len(releases) \in Nat /\ head \in Nat
  BY DEF ReleaseInv, DocumentRow, Release!Contents, ReleasesKnown, HeadsKnown
<1>1. e \in PublicRows /\ e.bundle = e.shown /\ e.knew = e.was /\ e.bundle \in Release!Bundles
  BY <1>0, Published DEF PublicRows
<1>2. releases' = Append(releases, e)
  BY DEF Release!Publish
<1>3. doc' = d /\ d \in DocumentRow /\ d.version = doc.version + 1 /\ d.content = doc.content
  <2>1. doc.version + 1 \in 1..MaxDocVersion
    BY <1>0, ReleaseConstants DEF Release!Publish
  <2>2. doc' = d /\ d \in DocumentRow
    BY <1>0, <2>1 DEF Release!Publish, DocumentRow
  <2> QED BY <1>0, <2>2 DEF DocumentRow
<1> HIDE DEF e, d
<1>4. /\ ReleasesKnown' /\ Len(releases') = Len(releases) + 1
      /\ releases'[Len(releases) + 1] = e
      /\ \A n \in 1..Len(releases) : releases'[n] = releases[n]
  BY <1>1, <1>2, ReleaseAdded
<1>5. HeadsKnown'
  <2>1. Release!Moved(Len(releases) + 1)
    BY DEF Release!Publish
  <2> QED BY <1>0, <1>1, <1>3, <1>4, <2>1, HeadMoved
<1>6. UNCHANGED << materials, relations, reader >>
  BY DEF Release!Publish
<1>7. ScreensRight'
  <2>1. screen' = [screen EXCEPT ![t] = None]
    BY DEF Release!Publish
  <2>2. screen' = [x \in Tabs |-> screen'[x]] /\ \A x \in Tabs : screen'[x] = screen[x] \/ screen'[x] = None
    BY <2>1 DEF ReleaseInv, ScreensRight
  <2>3. \A r \in Relations : relations[r].state # "none" => relations'[r].state # "none"
    BY <1>6
  <2> QED BY <1>0, <1>3, <2>2, <2>3, ScreensStand
<1>8. RemovalsKnown'
  <2>1. removed' = [removed EXCEPT ![t] = {}]
    BY DEF Release!Publish
  <2> QED BY <1>6, <2>1 DEF ReleaseInv, RemovalsKnown
<1>9. PagesRight'
  BY <1>0, <1>4, <1>6, PagesStand
<1> QED BY <1>3, <1>4, <1>5, <1>6, <1>7, <1>8, <1>9 DEF ReleaseInv, RelationsKnown

LEMMA WithdrawKeeps ==
  ASSUME ReleaseInv, NEW v \in 1..doc.version, Release!Withdraw(v)
  PROVE  ReleaseInv'
<1> DEFINE e == [ bundle |-> None, shown |-> None, knew |-> headAt[v], was |-> head ]
           d == [doc EXCEPT !.version = @ + 1]
<1>0. /\ doc.version \in 1..MaxDocVersion /\ doc.content \in 1..MaxContent /\ doc \in DocumentRow
      /\ Len(releases) \in Nat /\ head \in Nat
  BY DEF ReleaseInv, DocumentRow, Release!Contents, ReleasesKnown, HeadsKnown
<1>1. e \in PublicRows /\ e.bundle = e.shown /\ e.knew = e.was
  BY <1>0 DEF PublicRows, Release!Withdraw, Release!ExpectVersion, ReleaseInv, HeadsKnown
<1>2. releases' = Append(releases, e)
  BY DEF Release!Withdraw
<1>3. doc' = d /\ d \in DocumentRow /\ d.version = doc.version + 1 /\ d.content = doc.content
  <2>1. doc.version + 1 \in 1..MaxDocVersion
    BY <1>0, ReleaseConstants DEF Release!Withdraw
  <2>2. doc' = d /\ d \in DocumentRow
    BY <1>0, <2>1 DEF Release!Withdraw, DocumentRow
  <2> QED BY <1>0, <2>2 DEF DocumentRow
<1> HIDE DEF e, d
<1>4. /\ ReleasesKnown' /\ Len(releases') = Len(releases) + 1
      /\ \A n \in 1..Len(releases) : releases'[n] = releases[n]
  BY <1>1, <1>2, ReleaseAdded
<1>5. HeadsKnown'
  <2>1. Release!Moved(0)
    BY DEF Release!Withdraw, Release!NoHead
  <2> QED BY <1>0, <1>3, <1>4, <2>1, HeadMoved
<1>6. UNCHANGED << materials, relations, screen, removed, reader >>
  BY DEF Release!Withdraw
<1>7. ScreensRight'
  <2>2. screen' = [x \in Tabs |-> screen'[x]] /\ \A x \in Tabs : screen'[x] = screen[x]
    BY <1>6 DEF ReleaseInv, ScreensRight
  <2>3. \A r \in Relations : relations[r].state # "none" => relations'[r].state # "none"
    BY <1>6
  <2> QED BY <1>0, <1>3, <2>2, <2>3, ScreensStand
<1>8. PagesRight'
  BY <1>0, <1>4, <1>6, PagesStand
<1> QED BY <1>3, <1>4, <1>5, <1>6, <1>7, <1>8 DEF ReleaseInv, RelationsKnown, RemovalsKnown

(* A reader opens the current release, and gets materials of what it       *)
(* opened.                                                                 *)
LEMMA ReaderStepKeeps ==
  ASSUME ReleaseInv, Release!ReaderStep
  PROVE  ReleaseInv'
<1>0. /\ head \in 0..Len(releases) /\ Len(releases) \in Nat
      /\ head # 0 => releases[head].bundle \in Release!Bundles
  BY DEF ReleaseInv, ReleasesKnown, HeadsKnown
<1>1. ASSUME NEW r \in Readers, NEW page, reader' = [reader EXCEPT ![r] = page], page \in Pages, PageRight(page),
             UNCHANGED << doc, materials, relations, releases, head, headAt, screen, removed >>
      PROVE  ReleaseInv'
  <2>1. reader' \in [Readers -> Pages] /\ reader'[r] = page /\ \A x \in Readers \ {r} : reader'[x] = reader[x]
    BY <1>1 DEF ReleaseInv, PagesRight
  <2>2. \A x \in Readers : PageRight(reader'[x])
    BY <1>1, <2>1 DEF ReleaseInv, PagesRight
  <2>3. PagesRight'
    BY <1>1, <2>1, <2>2 DEF PagesRight, PageRight
  <2>4. ScreensRight'
    BY <1>1 DEF ReleaseInv, ScreensRight, ShownRight
  <2> QED BY <1>1, <2>3, <2>4 DEF ReleaseInv, RelationsKnown, ReleasesKnown, HeadsKnown, RemovalsKnown
<1>2. ASSUME NEW r \in Readers, Release!Open(r) PROVE ReleaseInv'
  <2> DEFINE page == [ release |-> head, got |-> None ]
  <2>1. page \in Pages /\ PageRight(page)
    BY <1>0 DEF Pages, PageRight
  <2>2. reader' = [reader EXCEPT ![r] = page]
    BY <1>2 DEF Release!Open
  <2> HIDE DEF page
  <2> QED BY <1>1, <1>2, <2>1, <2>2 DEF Release!Open, Release!store
<1>3. ASSUME NEW r \in Readers, NEW m \in Materials, Release!ReadMaterial(r, m) PROVE ReleaseInv'
  <2> DEFINE got  == << m, releases[head].bundle.materials[m] >>
             page == [ release |-> head, got |-> got ]
  <2>1. /\ head # 0 /\ reader[r].release = head /\ m \in DOMAIN releases[head].bundle.materials
        /\ reader[r] \in Pages
    BY <1>3 DEF Release!ReadMaterial, Release!Served, ReleaseInv, PagesRight
  <2>2. releases[head].bundle.materials[m] \in Release!Contents
    <3>1. PICK S \in SUBSET Materials : releases[head].bundle.materials \in [S -> Release!Contents]
      BY <1>0, <2>1 DEF Release!Bundles
    <3> QED BY <2>1, <3>1
  <2>3. page \in Pages
    BY <1>0, <2>2 DEF Pages
  <2>4. PageRight(page)
    BY <1>0, <2>1 DEF PageRight
  <2>5. reader' = [reader EXCEPT ![r] = page]
    <3>1. reader' = [reader EXCEPT ![r].got = got]
      BY <1>3 DEF Release!ReadMaterial
    <3>2. [reader[r] EXCEPT !.got = got] = page
      BY <2>1 DEF Pages
    <3> QED BY <3>1, <3>2 DEF ReleaseInv, PagesRight
  <2> HIDE DEF page
  <2> QED BY <1>1, <1>3, <2>3, <2>4, <2>5 DEF Release!ReadMaterial, Release!store
<1> QED BY <1>2, <1>3 DEF Release!ReaderStep

LEMMA ReleaseStep ==
  ASSUME ReleaseInv, Release!Next \/ UNCHANGED releaseVars
  PROVE  ReleaseInv'
<1>1. CASE UNCHANGED releaseVars
  BY <1>1 DEF releaseVars, ReleaseInv, RelationsKnown, ReleasesKnown, HeadsKnown, ScreensRight, ShownRight,
              RemovalsKnown, PagesRight, PageRight
<1>2. CASE Release!PanelStep
  BY <1>2, WithdrawKeeps, PreviewKeeps, UnlinkKeeps, PublishKeeps DEF Release!PanelStep
<1> QED BY <1>1, <1>2, OwnerStepKeeps, ReaderStepKeeps DEF Release!Next

(* What the invariant says of the run's properties.                        *)
LEMMA ReleaseFollows ==
  ASSUME ReleaseInv
  PROVE  /\ Release!TypeOK /\ Release!PublishedIsWhatWasShown
         /\ Release!NoBlindReplacement /\ Release!ReaderSeesOneRelease
<1>1. Release!TypeOK
  <2>1. \A n \in 1..Len(releases) : /\ releases[n].bundle \in Release!Bundles \cup {None}
                                    /\ releases[n].shown \in Release!Bundles \cup {None}
    <3>1. \A n \in 1..Len(releases) : releases[n] \in PublicRows
      BY DEF ReleaseInv, ReleasesKnown
    <3> QED BY <3>1 DEF PublicRows
  <2>2. head \in 0..Len(releases) /\ (head # 0 => releases[head].bundle # None)
    BY ReleaseConstants DEF ReleaseInv, HeadsKnown
  <2>3. reader \in [Readers -> [release : 0..Len(releases), got : (Materials \X Release!Contents) \cup {None}]]
    <3>1. ASSUME NEW r \in Readers
          PROVE  reader[r] \in [release : 0..Len(releases), got : (Materials \X Release!Contents) \cup {None}]
      <4>1. reader[r] \in Pages /\ reader[r].release \in 0..Len(releases)
        BY DEF ReleaseInv, PagesRight, PageRight
      <4> QED BY <4>1 DEF Pages
    <3> QED BY <3>1 DEF ReleaseInv, PagesRight
  <2> QED BY <2>1, <2>2, <2>3 DEF Release!TypeOK, ReleaseInv, DocumentRow, MaterialRows, RelationsKnown, RelationRows,
             HeadsKnown, RemovalsKnown
<1>2. Release!PublishedIsWhatWasShown /\ Release!NoBlindReplacement
  BY DEF Release!PublishedIsWhatWasShown, Release!NoBlindReplacement, ReleaseInv, ReleasesKnown
<1>3. Release!ReaderSeesOneRelease
  BY DEF Release!ReaderSeesOneRelease, ReleaseInv, PagesRight, PageRight
<1> QED BY <1>1, <1>2, <1>3

(* What a step may do to the head: one that is new is a publication.       *)
LEMMA HeadSteps ==
  ASSUME ReleaseInv, Release!Next \/ UNCHANGED releaseVars
  PROVE  \/ \E t \in Tabs : Release!Publish(t)
         \/ UNCHANGED head
         \/ head' = 0
<1>1. Release!OwnerStep => UNCHANGED head
  BY DEF Release!OwnerStep, Release!ChangeDocument, Release!ArchiveDocument, Release!ChangeMaterial,
         Release!ArchiveMaterial, Release!ChangeRelation, Release!ArchiveRelation, Release!CreateRelation,
         Release!Moved
<1>2. \A v : Release!Withdraw(v) => head' = 0
  BY DEF Release!Withdraw, Release!Moved, Release!NoHead
<1>3. \A t, n : Release!Preview(t, n) => UNCHANGED head
  BY DEF Release!Preview, Release!store
<1>4. \A t, m, r : Release!Unlink(t, m, r) => UNCHANGED head
  BY DEF Release!Unlink
<1>5. Release!ReaderStep => UNCHANGED head
  BY DEF Release!ReaderStep, Release!Open, Release!ReadMaterial, Release!store
<1>6. UNCHANGED releaseVars => UNCHANGED head
  BY DEF releaseVars
<1> QED BY <1>1, <1>2, <1>3, <1>4, <1>5, <1>6 DEF Release!Next, Release!PanelStep

(* A release is made of materials that are not archived at that moment.    *)
LEMMA ArchivedMaterialStep ==
  ASSUME ReleaseInv, Release!Next \/ UNCHANGED releaseVars, head' > head, head' = Len(releases'),
         NEW m \in DOMAIN releases'[head'].bundle.materials
  PROVE  ~materials[m].archived
<1>0. head \in Nat /\ Len(releases) \in Nat
  BY DEF ReleaseInv, HeadsKnown, ReleasesKnown
<1>1. PICK t \in Tabs : Release!Publish(t)
  BY <1>0, HeadSteps
<1> DEFINE e == [ bundle |-> Release!BundleNow(screen[t].content), shown |-> screen[t].bundle,
                  knew |-> headAt[screen[t].expected], was |-> head ]
<1>2. releases' = Append(releases, e) /\ head' = Len(releases) + 1 /\ Release!Publishable
  BY <1>1 DEF Release!Publish, Release!Moved
<1>3. releases \in Seq(PublicRows \cup {e})
  BY DEF ReleaseInv, ReleasesKnown
<1>4. releases'[head'] = e
  BY <1>2, <1>3, Appending
<1>5. releases'[head'].bundle = screen[t].bundle
  BY <1>1, <1>4, Published
<1> HIDE DEF e
<1>6. m \in Release!CitedNow
  BY <1>1, <1>5, Published
<1> QED BY <1>2, <1>6 DEF Release!Publishable

(* An archived document gets no release.                                   *)
LEMMA ArchivedDocumentStep ==
  ASSUME ReleaseInv, Release!Next \/ UNCHANGED releaseVars, doc.archived
  PROVE  head' \in {head, 0}
<1>1. \A t \in Tabs : ~Release!Publish(t)
  BY DEF Release!Publish, Release!DocumentOpen
<1> QED BY <1>1, HeadSteps

-----------------------------------------------------------------------------
(* Images.                                                                 *)

ImageStates  == {"none", "kept", "deleted", "purged"}
Writers      == [doing : {"none", "upload", "purge"}, image : Images \cup {None}]
ImageTexts   == [state : {"none", "open", "closed"}, images : SUBSET Images]
ImageReads   == [at : {"none", "row", "admitted", "served", "not_ready"}, image : Images \cup {None}, public : BOOLEAN]

(* What a text, open or closed, or a version refers to is kept.            *)
ReferencesKept ==
  /\ \A t \in Image!Texts : \A i \in texts[t].images : row[i] = "kept"
  /\ \A v \in 1..Len(versions) : \A i \in versions[v] : row[i] = "kept"

(* An image that is kept has its bytes, a purged one has none.             *)
BytesKnown == \A i \in Images : (row[i] = "kept" => i \in bytes) /\ (row[i] = "purged" => i \notin bytes)

(* Between the file and the row: an upload's file is there and its row is  *)
(* not, and it has a place in the quota; a purge's file is gone.           *)
WriterRight ==
  /\ writer.doing = "upload" =>
       /\ writer.image \in Images /\ writer.image \in bytes /\ row[writer.image] = "none"
       /\ Cardinality(Image!Stored) + 1 <= Quota
  /\ writer.doing = "purge" =>
       writer.image \in Images /\ row[writer.image] = "deleted" /\ writer.image \notin bytes

StoredWithinQuota == IsFiniteSet(Image!Stored) /\ Cardinality(Image!Stored) <= Quota

(* A reader admitted to a public image asks for one some version refers to.*)
ReadRight(r) ==
  /\ imageReader[r].at = "not_ready" => ~imageReader[r].public
  /\ imageReader[r].public => \E v \in 1..Len(versions) : imageReader[r].image \in versions[v]

ReadsRight ==
  /\ imageReader \in [ImageReaders -> ImageReads]
  /\ \A r \in ImageReaders : ReadRight(r)

(* The references and releases have the shape of their tables.             *)
TextsTyped ==
  /\ texts \in [Image!Texts -> ImageTexts] /\ versions \in Seq(SUBSET Images)
  /\ released \subseteq 1..Len(versions) /\ imageHead \in released \cup {0}

FilesTyped == row \in [Images -> ImageStates] /\ bytes \subseteq Images /\ writer \in Writers

ImageInv ==
  /\ FilesTyped /\ TextsTyped
  /\ ReferencesKept /\ BytesKnown /\ WriterRight /\ StoredWithinQuota /\ ReadsRight

LEMMA ImageConstants == None \notin Images /\ Quota \in Nat /\ MaxImageVersion \in Nat
  BY PartsAssumption DEF Image!PostImagesAssumption

(* The images are counted as this module does.                             *)
LEMMA ImageSameCount == ASSUME NEW S PROVE Image!Cardinality(S) = Cardinality(S)
  BY DEF Image!Cardinality, Cardinality

(* What a reference is, by its two kinds.                                  *)
LEMMA ReferencesFound ==
  ASSUME NEW i
  PROVE  i \in Image!Referenced <=> \/ \E t \in Image!Texts : i \in texts[t].images
                                    \/ \E v \in DOMAIN versions : i \in versions[v]
<1> DEFINE A == { texts[t].images : t \in Image!Texts }
           B == { versions[v] : v \in DOMAIN versions }
<1>1. i \in UNION A <=> \E t \in Image!Texts : i \in texts[t].images
  OBVIOUS
<1>2. i \in UNION B <=> \E v \in DOMAIN versions : i \in versions[v]
  OBVIOUS
<1>3. Image!Referenced = (UNION A) \cup (UNION B)
  BY DEF Image!Referenced
<1> HIDE DEF A, B
<1> QED BY <1>1, <1>2, <1>3

LEMMA ImageInit == Image!Init => ImageInv
<1> SUFFICES ASSUME Image!Init PROVE ImageInv
  OBVIOUS
<1>1. FilesTyped /\ TextsTyped /\ ReferencesKept /\ BytesKnown /\ WriterRight
  BY DEF Image!Init, FilesTyped, TextsTyped, ReferencesKept, BytesKnown, WriterRight, ImageStates, Writers,
         ImageTexts, Image!Free
<1>2. Image!Stored = {}
  BY DEF Image!Init, Image!Stored
<1>3. StoredWithinQuota
  BY <1>2, FS_EmptySet, ImageConstants DEF StoredWithinQuota
<1>4. ReadsRight
  BY DEF Image!Init, ReadsRight, ReadRight, ImageReads, Image!NoRead
<1> QED BY <1>1, <1>3, <1>4 DEF ImageInv

(* Steps of the files and rows.                                            *)
LEMMA LinkUploadKeeps ==
  ASSUME ImageInv, NEW i \in Images, Image!LinkUpload(i)
  PROVE  ImageInv'
<1>1. /\ row[i] = "none" /\ bytes' = bytes \cup {i} /\ writer' = [ doing |-> "upload", image |-> i ]
      /\ Cardinality(Image!Stored) + 1 <= Quota
      /\ UNCHANGED << row, texts, versions, released, imageHead, imageReader >>
  BY ImageSameCount DEF Image!LinkUpload, Image!rows
<1>2. Image!Stored' = Image!Stored
  BY <1>1 DEF Image!Stored
<1>3. FilesTyped' /\ BytesKnown'
  BY <1>1 DEF ImageInv, FilesTyped, BytesKnown, Writers
<1>4. WriterRight' /\ StoredWithinQuota'
  BY <1>1, <1>2 DEF ImageInv, WriterRight, StoredWithinQuota
<1> QED BY <1>1, <1>3, <1>4 DEF ImageInv, TextsTyped, ReferencesKept, ReadsRight, ReadRight

LEMMA CommitUploadKeeps ==
  ASSUME ImageInv, Image!CommitUpload
  PROVE  ImageInv'
<1> DEFINE i == writer.image
<1>1. /\ i \in Images /\ i \in bytes /\ row[i] = "none" /\ Cardinality(Image!Stored) + 1 <= Quota
      /\ row' = [row EXCEPT ![i] = "kept"] /\ writer' = Image!Free
      /\ UNCHANGED << bytes, texts, versions, released, imageHead, imageReader >>
  BY DEF Image!CommitUpload, Image!rows, ImageInv, WriterRight
<1> HIDE DEF i
<1>2. row' \in [Images -> ImageStates] /\ row'[i] = "kept" /\ \A x \in Images \ {i} : row'[x] = row[x]
  BY <1>1 DEF ImageInv, FilesTyped, ImageStates
<1>3. Image!Stored' = Image!Stored \cup {i}
  BY <1>1, <1>2 DEF Image!Stored
<1>4. StoredWithinQuota'
  <2>1. IsFiniteSet(Image!Stored)
    BY DEF ImageInv, StoredWithinQuota
  <2>2. IsFiniteSet(Image!Stored \cup {i}) /\ Cardinality(Image!Stored \cup {i}) <= Cardinality(Image!Stored) + 1
        /\ Cardinality(Image!Stored) \in Nat /\ Cardinality(Image!Stored \cup {i}) \in Nat
    BY <2>1, FS_AddElement, FS_CardinalityType
  <2> QED BY <1>1, <1>3, <2>2, ImageConstants DEF StoredWithinQuota
<1>5. FilesTyped' /\ BytesKnown'
  BY <1>1, <1>2 DEF ImageInv, FilesTyped, BytesKnown, Writers, Image!Free
<1>6. ReferencesKept'
  BY <1>1, <1>2 DEF ImageInv, ReferencesKept, FilesTyped, TextsTyped, ImageTexts
<1>7. WriterRight'
  BY <1>1 DEF WriterRight, Image!Free
<1> QED BY <1>1, <1>4, <1>5, <1>6, <1>7 DEF ImageInv, TextsTyped, ReadsRight, ReadRight

LEMMA RemoveKeeps ==
  ASSUME ImageInv, NEW i \in Images, Image!Remove(i)
  PROVE  ImageInv'
<1>1. /\ row[i] = "kept" /\ i \notin Image!Referenced /\ writer = Image!Free
      /\ row' = [row EXCEPT ![i] = "deleted"]
      /\ UNCHANGED << bytes, writer, texts, versions, released, imageHead, imageReader >>
  BY DEF Image!Remove, Image!rows
<1>2. row' \in [Images -> ImageStates] /\ row'[i] = "deleted" /\ \A x \in Images \ {i} : row'[x] = row[x]
  BY <1>1 DEF ImageInv, FilesTyped, ImageStates
<1>3. Image!Stored' = Image!Stored
  BY <1>1, <1>2 DEF Image!Stored
<1>4. /\ \A t \in Image!Texts : i \notin texts[t].images
      /\ \A v \in 1..Len(versions) : i \notin versions[v]
  <2>1. DOMAIN versions = 1..Len(versions)
    BY DEF ImageInv, TextsTyped
  <2>2. ASSUME NEW t \in Image!Texts, i \in texts[t].images PROVE i \in Image!Referenced
    BY <2>2, ReferencesFound
  <2>3. ASSUME NEW v \in 1..Len(versions), i \in versions[v] PROVE i \in Image!Referenced
    BY <2>1, <2>3, ReferencesFound
  <2> QED BY <1>1, <2>2, <2>3
<1>5. ReferencesKept'
  BY <1>1, <1>2, <1>4 DEF ImageInv, ReferencesKept, FilesTyped, TextsTyped, ImageTexts
<1>6. FilesTyped' /\ BytesKnown' /\ WriterRight' /\ StoredWithinQuota'
  BY <1>1, <1>2, <1>3 DEF ImageInv, FilesTyped, BytesKnown, WriterRight, StoredWithinQuota, Image!Free
<1> QED BY <1>1, <1>5, <1>6 DEF ImageInv, TextsTyped, ReadsRight, ReadRight

LEMMA UnlinkFileKeeps ==
  ASSUME ImageInv, NEW i \in Images, Image!Unlink(i)
  PROVE  ImageInv'
<1>1. /\ row[i] = "deleted" /\ bytes' = bytes \ {i} /\ writer' = [ doing |-> "purge", image |-> i ]
      /\ UNCHANGED << row, texts, versions, released, imageHead, imageReader >>
  BY DEF Image!Unlink, Image!rows
<1>2. Image!Stored' = Image!Stored
  BY <1>1 DEF Image!Stored
<1>3. FilesTyped' /\ BytesKnown'
  BY <1>1 DEF ImageInv, FilesTyped, BytesKnown, Writers
<1>4. WriterRight' /\ StoredWithinQuota'
  BY <1>1, <1>2 DEF ImageInv, WriterRight, StoredWithinQuota
<1> QED BY <1>1, <1>3, <1>4 DEF ImageInv, TextsTyped, ReferencesKept, ReadsRight, ReadRight

LEMMA CommitPurgeKeeps ==
  ASSUME ImageInv, Image!CommitPurge
  PROVE  ImageInv'
<1> DEFINE i == writer.image
<1>1. /\ i \in Images /\ i \notin bytes /\ row[i] = "deleted"
      /\ row' = [row EXCEPT ![i] = "purged"] /\ writer' = Image!Free
      /\ UNCHANGED << bytes, texts, versions, released, imageHead, imageReader >>
  BY DEF Image!CommitPurge, Image!rows, ImageInv, WriterRight
<1> HIDE DEF i
<1>2. row' \in [Images -> ImageStates] /\ row'[i] = "purged" /\ \A x \in Images \ {i} : row'[x] = row[x]
  BY <1>1 DEF ImageInv, FilesTyped, ImageStates
<1>3. StoredWithinQuota'
  <2>1. IsFiniteSet(Image!Stored) /\ Cardinality(Image!Stored) <= Quota
    BY DEF ImageInv, StoredWithinQuota
  <2>2. Image!Stored' \subseteq Image!Stored
    BY <1>2 DEF Image!Stored
  <2>3. IsFiniteSet(Image!Stored') /\ Cardinality(Image!Stored') <= Cardinality(Image!Stored)
        /\ Cardinality(Image!Stored) \in Nat /\ Cardinality(Image!Stored') \in Nat
    BY <2>1, <2>2, FS_Subset, FS_CardinalityType
  <2> QED BY <2>1, <2>3, ImageConstants DEF StoredWithinQuota
<1>4. FilesTyped' /\ BytesKnown'
  BY <1>1, <1>2 DEF ImageInv, FilesTyped, BytesKnown, Writers, Image!Free
<1>5. ReferencesKept'
  BY <1>1, <1>2 DEF ImageInv, ReferencesKept, FilesTyped, TextsTyped, ImageTexts
<1>6. WriterRight'
  BY <1>1 DEF WriterRight, Image!Free
<1> QED BY <1>1, <1>3, <1>4, <1>5, <1>6 DEF ImageInv, TextsTyped, ReadsRight, ReadRight

LEMMA RollBackKeeps ==
  ASSUME ImageInv, Image!RollBack
  PROVE  ImageInv'
<1>1. /\ writer' = Image!Free
      /\ UNCHANGED << row, bytes, texts, versions, released, imageHead, imageReader >>
  BY DEF Image!RollBack, Image!rows
<1>2. Image!Stored' = Image!Stored
  BY <1>1 DEF Image!Stored
<1>3. FilesTyped' /\ BytesKnown' /\ WriterRight' /\ StoredWithinQuota'
  BY <1>1, <1>2 DEF ImageInv, FilesTyped, BytesKnown, WriterRight, StoredWithinQuota, Writers, Image!Free
<1> QED BY <1>1, <1>3 DEF ImageInv, TextsTyped, ReferencesKept, ReadsRight, ReadRight

(* Steps of the texts, versions and releases: rows and files rest.         *)
LEMMA TextsMove ==
  ASSUME ImageInv, UNCHANGED << row, bytes, writer, imageReader >>, TextsTyped', ReferencesKept',
         Len(versions') \in Nat, Len(versions') >= Len(versions),
         \A v \in 1..Len(versions) : versions'[v] = versions[v]
  PROVE  ImageInv'
<1>0. Len(versions) \in Nat
  BY DEF ImageInv, TextsTyped
<1>1. Image!Stored' = Image!Stored
  BY DEF Image!Stored
<1>2. FilesTyped' /\ BytesKnown' /\ WriterRight' /\ StoredWithinQuota'
  BY <1>1 DEF ImageInv, FilesTyped, BytesKnown, WriterRight, StoredWithinQuota
<1>3. ASSUME NEW r \in ImageReaders PROVE ReadRight(r)'
  <2>1. ReadRight(r)
    BY DEF ImageInv, ReadsRight
  <2>2. ASSUME imageReader[r].public PROVE \E v \in 1..Len(versions') : imageReader[r].image \in versions'[v]
    <3>1. PICK v \in 1..Len(versions) : imageReader[r].image \in versions[v]
      BY <2>1, <2>2 DEF ReadRight
    <3>2. v \in 1..Len(versions') /\ versions'[v] = versions[v]
      BY <1>0
    <3> QED BY <3>1, <3>2
  <2> QED BY <2>1, <2>2 DEF ReadRight
<1>4. ReadsRight'
  BY <1>3 DEF ImageInv, ReadsRight
<1> QED BY <1>2, <1>4 DEF ImageInv

LEMMA WriteKeeps ==
  ASSUME ImageInv, NEW t \in Image!Texts, NEW images \in SUBSET Images, Image!Write(t, images)
  PROVE  ImageInv'
<1> DEFINE e == [ state |-> "open", images |-> images ]
<1>1. /\ texts' = [texts EXCEPT ![t] = e] /\ (\A i \in images : row[i] = "kept") /\ e \in ImageTexts
      /\ UNCHANGED << row, bytes, writer, versions, released, imageHead, imageReader >>
  BY DEF Image!Write, Image!Valid, ImageTexts
<1>2. e.images = images
  OBVIOUS
<1> HIDE DEF e
<1>3. TextsTyped' /\ texts'[t] = e /\ \A x \in Image!Texts \ {t} : texts'[x] = texts[x]
  BY <1>1 DEF ImageInv, TextsTyped
<1>4. ReferencesKept'
  BY <1>1, <1>2, <1>3 DEF ImageInv, ReferencesKept
<1>5. Len(versions) \in Nat
  BY DEF ImageInv, TextsTyped
<1> QED BY <1>1, <1>3, <1>4, <1>5, TextsMove

(* A text that is put away keeps what it refers to.                        *)
LEMMA TextCloses ==
  ASSUME ImageInv, NEW t \in Image!Texts, texts' = [texts EXCEPT ![t].state = "closed"]
  PROVE  /\ texts' \in [Image!Texts -> ImageTexts]
         /\ \A x \in Image!Texts : texts'[x].images = texts[x].images
<1> DEFINE e == [texts[t] EXCEPT !.state = "closed"]
<1>1. texts[t] \in ImageTexts
  BY DEF ImageInv, TextsTyped
<1>2. e \in ImageTexts /\ e.images = texts[t].images
  BY <1>1 DEF ImageTexts
<1>3. texts' = [texts EXCEPT ![t] = e]
  BY DEF ImageInv, TextsTyped
<1> HIDE DEF e
<1> QED BY <1>2, <1>3 DEF ImageInv, TextsTyped

LEMMA PostStepKeeps ==
  ASSUME ImageInv, Image!PostStep
  PROVE  ImageInv'
<1>0. Len(versions) \in Nat /\ DOMAIN versions = 1..Len(versions)
  BY DEF ImageInv, TextsTyped
<1>1. ASSUME NEW t \in Image!Texts, Image!Discard(t) PROVE ImageInv'
  <2>1. /\ texts' = [texts EXCEPT ![t].state = "closed"]
        /\ UNCHANGED << row, bytes, writer, versions, released, imageHead, imageReader >>
    BY <1>1 DEF Image!Discard
  <2>2. /\ texts' \in [Image!Texts -> ImageTexts]
        /\ \A x \in Image!Texts : texts'[x].images = texts[x].images
    BY <2>1, TextCloses
  <2>3. TextsTyped' /\ ReferencesKept'
    BY <2>1, <2>2 DEF ImageInv, TextsTyped, ReferencesKept
  <2> QED BY <1>0, <2>1, <2>3, TextsMove
<1>2. ASSUME NEW t \in Image!Texts, NEW images \in SUBSET Images, Image!SaveVersion(t, images)
      PROVE  ImageInv'
  <2>1. /\ texts' = [texts EXCEPT ![t].state = "closed"] /\ versions' = Append(versions, images)
        /\ UNCHANGED << row, bytes, writer, released, imageHead, imageReader >>
        /\ \A i \in images : row[i] = "kept"
    BY <1>2 DEF Image!SaveVersion, Image!Valid
  <2>2. /\ texts' \in [Image!Texts -> ImageTexts]
        /\ \A x \in Image!Texts : texts'[x].images = texts[x].images
    BY <2>1, TextCloses
  <2>3. /\ versions' \in Seq(SUBSET Images) /\ Len(versions') = Len(versions) + 1
        /\ versions'[Len(versions) + 1] = images
        /\ \A v \in 1..Len(versions) : versions'[v] = versions[v]
    BY <2>1, Appending DEF ImageInv, TextsTyped
  <2>4. TextsTyped'
    <3>1. 1..Len(versions) \subseteq 1..Len(versions')
      BY <1>0, <2>3
    <3> QED BY <2>1, <2>2, <2>3, <3>1 DEF ImageInv, TextsTyped
  <2>5. \A v \in 1..Len(versions') : v \in 1..Len(versions) \/ v = Len(versions) + 1
    BY <1>0, <2>3
  <2>6. ReferencesKept'
    BY <2>1, <2>2, <2>3, <2>5 DEF ImageInv, ReferencesKept
  <2> QED BY <1>0, <2>1, <2>3, <2>4, <2>6, TextsMove
<1>3. ASSUME NEW v \in DOMAIN versions, Image!Publish(v) PROVE ImageInv'
  <2>1. /\ imageHead' = v /\ released' = released \cup {v}
        /\ UNCHANGED << row, bytes, writer, texts, versions, imageReader >>
    BY <1>3 DEF Image!Publish
  <2>2. TextsTyped' /\ ReferencesKept'
    BY <1>0, <2>1 DEF ImageInv, TextsTyped, ReferencesKept
  <2> QED BY <1>0, <2>1, <2>2, TextsMove
<1>4. CASE Image!Withdraw
  <2>1. imageHead' = 0 /\ UNCHANGED << row, bytes, writer, texts, versions, released, imageReader >>
    BY <1>4 DEF Image!Withdraw
  <2>2. TextsTyped' /\ ReferencesKept'
    BY <2>1 DEF ImageInv, TextsTyped, ReferencesKept
  <2> QED BY <1>0, <2>1, <2>2, TextsMove
<1> QED BY <1>1, <1>2, <1>3, <1>4, WriteKeeps DEF Image!PostStep

(* Steps of the readers, without the lock.                                 *)
LEMMA ReadMoves ==
  ASSUME ImageInv, NEW r \in ImageReaders, NEW e \in ImageReads, imageReader' = [imageReader EXCEPT ![r] = e],
         e.at = "not_ready" => ~e.public,
         e.public => \E v \in 1..Len(versions) : e.image \in versions[v],
         UNCHANGED << row, bytes, writer, texts, versions, released, imageHead >>
  PROVE  ImageInv'
<1>1. /\ imageReader' \in [ImageReaders -> ImageReads] /\ imageReader'[r] = e
      /\ \A x \in ImageReaders \ {r} : imageReader'[x] = imageReader[x]
  BY DEF ImageInv, ReadsRight
<1>2. ASSUME NEW x \in ImageReaders PROVE ReadRight(x)'
  <2>1. CASE x = r
    BY <1>1, <2>1 DEF ReadRight
  <2>2. CASE x # r
    BY <1>1, <2>2 DEF ReadRight, ImageInv, ReadsRight
  <2> QED BY <2>1, <2>2
<1>3. ReadsRight'
  BY <1>1, <1>2 DEF ReadsRight
<1>4. Image!Stored' = Image!Stored
  BY DEF Image!Stored
<1> QED BY <1>3, <1>4 DEF ImageInv, FilesTyped, TextsTyped, ReferencesKept, BytesKnown, WriterRight, StoredWithinQuota

LEMMA MediaStepKeeps ==
  ASSUME ImageInv, Image!MediaStep
  PROVE  ImageInv'
<1> PICK r \in ImageReaders : \/ \E i \in Images : Image!ReadRow(r, i)
                              \/ Image!Admit(r) \/ Image!ReadBytes(r) \/ Image!Answered(r)
  BY DEF Image!MediaStep
<1>0. /\ imageReader[r] \in ImageReads /\ imageReader \in [ImageReaders -> ImageReads] /\ ReadRight(r)
      /\ imageReader[r].image \in Images \cup {None} /\ imageReader[r].public \in BOOLEAN
  BY DEF ImageInv, ReadsRight, ImageReads
<1>1. ASSUME NEW i \in Images, Image!ReadRow(r, i) PROVE ImageInv'
  <2> DEFINE e == [ at |-> "row", image |-> i, public |-> FALSE ]
  <2>1. e \in ImageReads /\ e.at = "row" /\ ~e.public
    BY DEF ImageReads
  <2>2. imageReader' = [imageReader EXCEPT ![r] = e] /\ UNCHANGED << row, bytes, writer, texts, versions, released, imageHead >>
    BY <1>1 DEF Image!ReadRow, Image!rows
  <2> HIDE DEF e
  <2> QED BY <2>1, <2>2, ReadMoves
<1>2. CASE Image!Admit(r)
  <2> DEFINE public == imageHead # 0 /\ imageReader[r].image \in versions[imageHead]
             e == [[imageReader[r] EXCEPT !.at = "admitted"] EXCEPT !.public = public]
  <2>1. public \in BOOLEAN /\ (public => \E v \in 1..Len(versions) : imageReader[r].image \in versions[v])
    BY DEF ImageInv, TextsTyped
  <2>2. /\ imageReader' = [imageReader EXCEPT ![r].at = "admitted", ![r].public = public]
        /\ UNCHANGED << row, bytes, writer, texts, versions, released, imageHead >>
    BY <1>2 DEF Image!Admit, Image!rows
  <2> HIDE DEF public
  <2>3. e \in ImageReads
    BY <1>0, <2>1 DEF ImageReads
  <2>4. imageReader' = [imageReader EXCEPT ![r] = e]
    BY <1>0, <2>2
  <2>5. e.at = "admitted" /\ e.public = public /\ e.image = imageReader[r].image
    BY <1>0, <2>1, <2>3 DEF ImageReads
  <2> HIDE DEF e
  <2> QED BY <2>1, <2>2, <2>3, <2>4, <2>5, ReadMoves
<1>3. CASE Image!ReadBytes(r)
  <2> DEFINE to == IF imageReader[r].image \in bytes THEN "served" ELSE "not_ready"
             e == [imageReader[r] EXCEPT !.at = to]
  <2>1. /\ imageReader' = [imageReader EXCEPT ![r].at = to]
        /\ UNCHANGED << row, bytes, writer, texts, versions, released, imageHead >>
    BY <1>3 DEF Image!ReadBytes, Image!rows
  <2>2. to \in {"served", "not_ready"} /\ (imageReader[r].image \in bytes => to = "served")
    OBVIOUS
  <2>3. imageReader[r].public => imageReader[r].image \in bytes
    <3> SUFFICES ASSUME imageReader[r].public PROVE imageReader[r].image \in bytes
      OBVIOUS
    <3>1. PICK v \in 1..Len(versions) : imageReader[r].image \in versions[v]
      BY <1>0 DEF ReadRight
    <3>2. versions[v] \subseteq Images
      BY DEF ImageInv, TextsTyped
    <3>3. row[imageReader[r].image] = "kept"
      BY <3>1 DEF ImageInv, ReferencesKept
    <3> QED BY <3>1, <3>2, <3>3 DEF ImageInv, BytesKnown
  <2> HIDE DEF to
  <2>4. imageReader' = [imageReader EXCEPT ![r] = e]
    BY <1>0, <2>1
  <2>5. e \in ImageReads /\ e.at = to /\ e.public = imageReader[r].public /\ e.image = imageReader[r].image
    BY <1>0, <2>2 DEF ImageReads
  <2> HIDE DEF e
  <2>6. e.at = "not_ready" => ~e.public
    BY <2>2, <2>3, <2>5
  <2>7. e.public => \E v \in 1..Len(versions) : e.image \in versions[v]
    BY <1>0, <2>5 DEF ReadRight
  <2> QED BY <2>1, <2>4, <2>5, <2>6, <2>7, ReadMoves
<1>4. CASE Image!Answered(r)
  <2> DEFINE e == Image!NoRead
  <2>1. e \in ImageReads /\ e.at = "none" /\ ~e.public
    BY DEF ImageReads, Image!NoRead
  <2>2. imageReader' = [imageReader EXCEPT ![r] = e] /\ UNCHANGED << row, bytes, writer, texts, versions, released, imageHead >>
    BY <1>4 DEF Image!Answered, Image!rows
  <2> HIDE DEF e
  <2> QED BY <2>1, <2>2, ReadMoves
<1> QED BY <1>1, <1>2, <1>3, <1>4

LEMMA ImageStep ==
  ASSUME ImageInv, Image!Next \/ UNCHANGED imageVars
  PROVE  ImageInv'
<1>1. CASE UNCHANGED imageVars
  <2>1. UNCHANGED << row, bytes, writer, texts, versions, released, imageHead, imageReader >>
    BY <1>1 DEF imageVars
  <2>2. Image!Stored' = Image!Stored
    BY <2>1 DEF Image!Stored
  <2> QED BY <2>1, <2>2 DEF ImageInv, FilesTyped, TextsTyped, ReferencesKept, BytesKnown, WriterRight,
                            StoredWithinQuota, ReadsRight, ReadRight
<1>2. CASE Image!ImageStep
  BY <1>2, LinkUploadKeeps, CommitUploadKeeps, RemoveKeeps, UnlinkFileKeeps, CommitPurgeKeeps, RollBackKeeps
     DEF Image!ImageStep
<1> QED BY <1>1, <1>2, PostStepKeeps, MediaStepKeeps DEF Image!Next

(* What the invariant says of the run's properties.                        *)
LEMMA ImageFollows ==
  ASSUME ImageInv
  PROVE  Image!TypeOK /\ Image!InventoryPasses /\ Image!DiskWithinQuota /\ Image!PublicImageServed
<1>0. DOMAIN versions = 1..Len(versions)
  BY DEF ImageInv, TextsTyped
<1>1. Image!TypeOK
  BY <1>0 DEF Image!TypeOK, ImageInv, FilesTyped, TextsTyped, ReadsRight, ImageStates, Writers, ImageTexts, ImageReads
<1>2. Image!InventoryPasses
  <2>1. ASSUME NEW i \in Image!Referenced PROVE row[i] = "kept"
    <3>1. (\E t \in Image!Texts : i \in texts[t].images) \/ (\E v \in DOMAIN versions : i \in versions[v])
      BY ReferencesFound
    <3> QED BY <1>0, <3>1 DEF ImageInv, ReferencesKept
  <2> QED BY <2>1 DEF Image!InventoryPasses, ImageInv, BytesKnown
<1>3. Image!DiskWithinQuota
  <2> DEFINE S == { i \in bytes : row[i] # "none" \/ writer = [doing |-> "upload", image |-> i] }
  <2>1. /\ IsFiniteSet(Image!Stored) /\ Cardinality(Image!Stored) <= Quota /\ Quota \in Nat
        /\ Cardinality(Image!Stored) \in Nat
    BY FS_CardinalityType, ImageConstants DEF ImageInv, StoredWithinQuota
  <2>2. \A i \in bytes : row[i] # "none" => i \in Image!Stored
    BY DEF ImageInv, BytesKnown, FilesTyped, ImageStates, Image!Stored
  <2>3. CASE writer.doing # "upload"
    <3>1. S \subseteq Image!Stored
      BY <2>2, <2>3
    <3>2. Cardinality(S) <= Cardinality(Image!Stored) /\ Cardinality(S) \in Nat
      BY <2>1, <3>1, FS_Subset, FS_CardinalityType
    <3> QED BY <2>1, <3>2, ImageSameCount DEF Image!DiskWithinQuota
  <2>4. CASE writer.doing = "upload"
    <3> DEFINE T == Image!Stored \cup {writer.image}
    <3>1. S \subseteq T
      BY <2>2
    <3>2. /\ IsFiniteSet(T) /\ Cardinality(T) \in Nat
          /\ Cardinality(T) <= Cardinality(Image!Stored) + 1
      <4> DEFINE known == Image!Stored
                 i     == writer.image
      <4>1. IsFiniteSet(known) /\ Cardinality(known) \in Nat
        BY <2>1
      <4> HIDE DEF known, i
      <4>2. /\ IsFiniteSet(known \cup {i}) /\ Cardinality(known \cup {i}) \in Nat
            /\ Cardinality(known \cup {i}) <= Cardinality(known) + 1
        BY <4>1, FS_AddElement, FS_CardinalityType
      <4> QED BY <4>2 DEF known, i
    <3>3. Cardinality(S) <= Cardinality(T) /\ Cardinality(S) \in Nat
      BY <3>1, <3>2, FS_Subset, FS_CardinalityType
    <3>4. Cardinality(Image!Stored) + 1 <= Quota
      BY <2>4 DEF ImageInv, WriterRight
    <3> QED BY <2>1, <3>2, <3>3, <3>4, ImageSameCount DEF Image!DiskWithinQuota
  <2> QED BY <2>3, <2>4
<1>4. Image!PublicImageServed
  BY DEF Image!PublicImageServed, ImageInv, ReadsRight, ReadRight
<1> QED BY <1>1, <1>2, <1>3, <1>4

-----------------------------------------------------------------------------
(* The parts together: a step of the composition is one of one part, and   *)
(* leaves the others' variables alone.                                     *)
StoreInv == DocInv /\ PostInv /\ ReleaseInv /\ ImageInv

storeVars == << part, vars, postVars, releaseVars, imageVars >>

LEMMA PartsStart == StoreInit => StoreInv
  BY DocInit, PostInit, ReleaseInit, ImageInit DEF StoreInit, StoreInv

(* Which step of which part it is.                                         *)
LEMMA PartSteps ==
  ASSUME [StoreNext]_storeVars
  PROVE  /\ Next \/ UNCHANGED vars
         /\ Post!Next \/ UNCHANGED postVars
         /\ Release!Next \/ UNCHANGED releaseVars
         /\ Image!Next \/ UNCHANGED imageVars
  BY DEF StoreNext, storeVars

LEMMA PartsMove ==
  ASSUME StoreInv, [StoreNext]_storeVars
  PROVE  StoreInv'
<1>1. DocInv'
  BY DocStep, PartSteps DEF StoreInv
<1>2. PostInv'
  BY PostStep, PartSteps DEF StoreInv
<1>3. ReleaseInv'
  BY ReleaseStep, PartSteps DEF StoreInv
<1>4. ImageInv'
  BY ImageStep, PartSteps DEF StoreInv
<1> QED BY <1>1, <1>2, <1>3, <1>4 DEF StoreInv

LEMMA PartsHold == StoreSpec => []StoreInv
<1>1. StoreInv /\ [StoreNext]_storeVars => StoreInv'
  BY PartsMove
<1> QED BY <1>1, PartsStart, PTL DEF StoreSpec, storeVars

(* Every part keeps the shapes of its tables and files, whatever the       *)
(* bounds are (MCResearch.StoreTypeOK).                                    *)
THEOREM StoreIsTyped == StoreSpec => []StoreTypeOK
<1>1. DocInv => TypeOK
  BY DEF DocInv, TypeOK, ItemRows, DraftRows, ProposalRows
<1>2. StoreInv => StoreTypeOK
  BY <1>1, PostFollows, ReleaseFollows, ImageFollows DEF StoreInv, StoreTypeOK
<1> QED BY <1>2, PartsHold, PTL

(* Whoever saves a version of a document or a post had the one before it   *)
(* in front of them, and no release is replaced by a page that did not     *)
(* know of it (MCResearch.NoUpdateIsLost).                                 *)
THEOREM UpdatesAreNotLost == StoreSpec => []NoUpdateIsLost
<1>1. StoreInv => NoUpdateIsLost
  BY DocFollows, PostFollows, ReleaseFollows DEF StoreInv, NoUpdateIsLost
<1> QED BY <1>1, PartsHold, PTL

(* A draft and a proposal become exactly the version that closed them, and *)
(* never two posts (MCResearch.TextBecomesOneVersion).                     *)
THEOREM TextsBecomeOneVersion == StoreSpec => []TextBecomesOneVersion
<1>1. StoreInv => TextBecomesOneVersion
  BY DocFollows, PostFollows DEF StoreInv, TextBecomesOneVersion
<1> QED BY <1>1, PartsHold, PTL

(* Readers see what was shown to the person who released it, of one        *)
(* release, and the bytes of the images in it                              *)
(* (MCResearch.ReadersSeeTheRelease).                                      *)
THEOREM ReleasesAreAsShown == StoreSpec => []ReadersSeeTheRelease
<1>1. StoreInv => ReadersSeeTheRelease
  BY PostFollows, ReleaseFollows, ImageFollows DEF StoreInv, ReadersSeeTheRelease
<1> QED BY <1>1, PartsHold, PTL

(* Between any two writes rows and files agree, within the quota           *)
(* (MCResearch.ImagesAreStored).                                           *)
THEOREM ImagesStayStored == StoreSpec => []ImagesAreStored
<1>1. StoreInv => ImagesAreStored
  BY ImageFollows DEF StoreInv, ImagesAreStored
<1> QED BY <1>1, PartsHold, PTL

(* Documents and posts implement version logs: every step appends to one,  *)
(* on its head, or closes one, or is none of the log's                     *)
(* (MCResearch.StoreImplementsLogs).                                       *)
THEOREM StoreRefinesLogs == StoreSpec => StoreImplementsLogs
<1>1. StoreInit => Log!LogInit /\ Post!Log!LogInit
  BY LogStarts, PostLogStarts DEF StoreInit
<1>2. StoreInv /\ [StoreNext]_storeVars => [Log!LogNext]_(Log!logVars)
  <2> SUFFICES ASSUME StoreInv, [StoreNext]_storeVars PROVE [Log!LogNext]_(Log!logVars)
    OBVIOUS
  <2>1. DocInv /\ DocInv'
    BY PartsMove DEF StoreInv
  <2> QED BY <2>1, PartSteps, LogStep
<1>3. StoreInv /\ [StoreNext]_storeVars => [Post!Log!LogNext]_(Post!Log!logVars)
  <2> SUFFICES ASSUME StoreInv, [StoreNext]_storeVars PROVE [Post!Log!LogNext]_(Post!Log!logVars)
    OBVIOUS
  <2>1. PostInv /\ PostInv'
    BY PartsMove DEF StoreInv
  <2> QED BY <2>1, PartSteps, PostLogStep
<1> QED BY <1>1, <1>2, <1>3, PartsHold, PTL
    DEF StoreSpec, storeVars, StoreImplementsLogs, ImplementsLog, Log!LogSpec, Post!ImplementsLog, Post!Log!LogSpec

(* What was closed, archived or removed stays so, and a live post keeps    *)
(* its first date (MCResearch.NothingIsReopened).                          *)
THEOREM ClosedThingsStayClosed == StoreSpec => NothingIsReopened
<1>1. StoreInv /\ [StoreNext]_storeVars =>
        [/\ \A r \in Drafts : drafts[r].state \in {"committed", "discarded"} => drafts'[r] = drafts[r]
         /\ \A p \in Proposals :
              proposals[p].status \in {"accepted", "discarded"} => proposals'[p] = proposals[p]]_vars
  BY ClosedStayClosed, PartSteps DEF StoreInv
<1>2. StoreInv /\ [StoreNext]_storeVars =>
        [\A p \in Posts : LET was == posts[p].head
                              now == posts'[p].head IN
           now # 0 /\ now # was =>
             IF was # 0 THEN postReleases'[now].stamps.published = postReleases[was].stamps.published
             ELSE \A n \in 1..Len(postReleases) :
                    postReleases'[now].stamps.published > postReleases[n].stamps.updated]_(Post!vars)
  BY FirstStands, PartSteps DEF StoreInv, postVars, Post!vars
<1>3. StoreInv /\ [StoreNext]_storeVars =>
        [head' > head /\ head' = Len(releases') =>
           \A m \in DOMAIN releases'[head'].bundle.materials : ~materials[m].archived]_(Release!vars)
  BY ArchivedMaterialStep, PartSteps DEF StoreInv
<1>4. StoreInv /\ [StoreNext]_storeVars => [doc.archived => head' \in {head, 0}]_(Release!vars)
  BY ArchivedDocumentStep, PartSteps DEF StoreInv
<1>5. StoreInv /\ [StoreNext]_storeVars =>
        [\A t \in Tabs : \A r \in removed'[t] : relations'[r].state = "archived"]_(Release!vars)
  <2> SUFFICES ASSUME StoreInv, [StoreNext]_storeVars
               PROVE  \A t \in Tabs : \A r \in removed'[t] : relations'[r].state = "archived"
    OBVIOUS
  <2>1. RemovalsKnown'
    BY PartsMove DEF StoreInv, ReleaseInv
  <2> QED BY <2>1 DEF RemovalsKnown
<1> QED BY <1>1, <1>2, <1>3, <1>4, <1>5, PartsHold, PTL
    DEF StoreSpec, storeVars, NothingIsReopened, ClosedStaysClosed, Post!FirstPublicationStands,
        Release!NoArchivedMaterialReleased, Release!ArchivedOnlyWithdraws, Release!RemovedIsRemoved

=============================================================================
