---------------------------- MODULE DraftProofs -----------------------------
(***************************************************************************)
(* What a person writes in the browser is neither overwritten unseen nor   *)
(* lost nor asked twice, for any number of tabs, texts, questions, edits   *)
(* and faults: theorems about MCDraftAutosave.                             *)
(*                                                                         *)
(* Drafts: a request to save names a revision and was written by a tab that*)
(* knew that revision's text (Sound); the server writes the next revision  *)
(* only on the one named; and a key stands for one request (asked), so that*)
(* a receipt replayed to a repetition speaks of the text the tab believes  *)
(* it sent.  Questions: of all requests made at most one is not settled,   *)
(* and that one is stored and pending on whatever screen is open.          *)
(*                                                                         *)
(* One editor that is refused nothing: its kept key stands for the one     *)
(* request that may be repeated, and the rows are where the tab believes   *)
(* them, or one step further while an answer is missing (WordInv); so what *)
(* it calls saved is on the server, and its conflicts are not its own.     *)
(***************************************************************************)
EXTENDS MCDraftAutosave, FiniteSetTheorems, TLAPS

-----------------------------------------------------------------------------
(* What the rows, the keys and the tabs know of each other.                *)

Idems == [request : Requests, key : Nat, unconfirmed : BOOLEAN]

(* A draft row: one text and one known text per revision.                  *)
RowOK(r) ==
  /\ r \in Rows /\ r.revision >= 1
  /\ Len(r.texts) = r.revision /\ Len(r.knew) = r.revision
  /\ \A v \in 2..r.revision : r.knew[v] = r.texts[v - 1]

RowsOK == rows \in Seq(Rows) /\ \A n \in 1..Len(rows) : RowOK(rows[n])

(* Revision rev of draft id exists and has this text; it always will.      *)
Holds(id, rev, text) ==
  /\ id \in 1..Len(rows) /\ rev \in 1..rows[id].revision
  /\ TextAt(id, rev) = text

(* Who asks for a save knows the text of the revision it names.            *)
Sound(s) == s.request.op = "save" => Holds(s.request.id, s.request.rev, s.knew)

(* The key stands for this request.                                        *)
Asks(asked, k, q) == k \in 1..keys /\ asked[k] = q

MessageOK(m, asked) ==
  /\ Sound(m.sent) /\ Asks(asked, m.sent.key, m.sent.request)
  /\ m.live => tab[m.tab].sent = m.sent /\ tab[m.tab].answer = Nothing

ReceiptOK(k, asked) ==
  /\ k \in 1..keys /\ receipts[k].kind = "ok"
  /\ Holds(receipts[k].id, receipts[k].rev, asked[k].text)

(* The draft a tab holds and the one it was shown.                         *)
Basis(x) ==
  /\ x.draft # 0 => Holds(x.draft, x.rev, x.saved)
  /\ x.server # 0 => x.server \in 1..Len(rows) /\ x.seen \in 1..rows[x.server].revision

(* What a tab waits for, under the key it keeps.                           *)
Waits(x) ==
  x.sent # Nothing =>
    /\ Sound(x.sent)
    /\ x.idem # Nothing /\ x.idem.key = x.sent.key /\ x.idem.request = x.sent.request

Heard(x) ==
  x.answer # Nothing =>
    /\ x.sent # Nothing
    /\ x.answer.kind = "ok" => Holds(x.answer.id, x.answer.rev, x.sent.request.text)

EditorOK(x, asked) ==
  /\ Basis(x) /\ Waits(x) /\ Heard(x)
  /\ x.idem # Nothing => Asks(asked, x.idem.key, x.idem.request)

Agreed(asked) ==
  /\ asked \in [1..keys -> Requests]
  /\ \A m \in net : MessageOK(m, asked)
  /\ \A k \in DOMAIN receipts : ReceiptOK(k, asked)
  /\ \A t \in Tabs : EditorOK(tab[t], asked)

DraftInv == TypeOK /\ RowsOK /\ \E asked : Agreed(asked)

-----------------------------------------------------------------------------
(* Records.                                                                *)

(* Nothing is no request, no kept key, no answer and no text.              *)
LEMMA NothingIsNone ==
  /\ Nothing \notin Sents /\ Nothing \notin Idems /\ Nothing \notin Results
  /\ Nothing \notin [text : Texts]
<1>1. DOMAIN Nothing = {"kind"}
  BY DEF Nothing
<1>2. \A s \in Sents : DOMAIN s = {"request", "key", "knew"}
  BY DEF Sents
<1>3. \A s \in Idems : DOMAIN s = {"request", "key", "unconfirmed"}
  BY DEF Idems
<1>4. \A s \in Results : DOMAIN s = {"kind", "id", "rev"}
  BY DEF Results
<1>5. \A s \in [text : Texts] : DOMAIN s = {"text"}
  OBVIOUS
<1>6. "kind" # "text" /\ "kind" # "key" /\ "kind" # "id" /\ "kind" # "request" /\ "kind" # "rev"
  OBVIOUS
<1> HIDE DEF Nothing
<1>7. Nothing \notin Sents
  <2> SUFFICES ASSUME Nothing \in Sents PROVE FALSE
    OBVIOUS
  <2>1. "key" \in {"kind"}
    BY <1>1, <1>2
  <2> QED BY <2>1, <1>6
<1>8. Nothing \notin Idems
  <2> SUFFICES ASSUME Nothing \in Idems PROVE FALSE
    OBVIOUS
  <2>1. "key" \in {"kind"}
    BY <1>1, <1>3
  <2> QED BY <2>1, <1>6
<1>9. Nothing \notin Results
  <2> SUFFICES ASSUME Nothing \in Results PROVE FALSE
    OBVIOUS
  <2>1. "id" \in {"kind"}
    BY <1>1, <1>4
  <2> QED BY <2>1, <1>6
<1>10. Nothing \notin [text : Texts]
  <2> SUFFICES ASSUME Nothing \in [text : Texts] PROVE FALSE
    OBVIOUS
  <2>1. "text" \in {"kind"}
    BY <1>1, <1>5
  <2> QED BY <2>1, <1>6
<1> QED BY <1>7, <1>8, <1>9, <1>10

(* What the fields of an editor are.                                       *)
LEMMA EditorFields ==
  ASSUME NEW x \in Editors
  PROVE  /\ x.values \in Texts /\ x.saved \in Texts /\ x.draft \in Nat /\ x.rev \in Nat
         /\ x.base \in Nat /\ x.status \in Statuses /\ x.why \in Kinds \cup {"none"}
         /\ x.server \in Nat /\ x.seen \in Nat
         /\ x.pending = Nothing \/ x.pending \in [text : Texts]
         /\ x.idem = Nothing \/ x.idem \in Idems
         /\ x.sent = Nothing \/ x.sent \in Sents
         /\ x.answer = Nothing \/ x.answer \in Results
         /\ x.again \in BOOLEAN /\ x.idle \in BOOLEAN /\ x.max \in {"off", "armed", "stale"}
  BY DEF Editors, Optional, Idems

(* Setting one field, or two that go together, makes an editor.            *)
LEMMA EditorSets ==
  ASSUME NEW x \in Editors
  PROVE  /\ \A v \in Texts : [x EXCEPT !.values = v] \in Editors
         /\ \A v \in Texts : [x EXCEPT !.saved = v] \in Editors
         /\ \A n \in Nat : [x EXCEPT !.draft = n] \in Editors
         /\ \A n \in Nat : [x EXCEPT !.rev = n] \in Editors
         /\ \A n \in Nat : [x EXCEPT !.base = n] \in Editors
         /\ \A n \in Nat : [x EXCEPT !.server = n] \in Editors
         /\ \A n \in Nat : [x EXCEPT !.seen = n] \in Editors
         /\ \A s \in Statuses : [x EXCEPT !.status = s] \in Editors
         /\ \A s \in Kinds \cup {"none"} : [x EXCEPT !.why = s] \in Editors
         /\ \A b \in BOOLEAN : [x EXCEPT !.again = b] \in Editors
         /\ \A b \in BOOLEAN : [x EXCEPT !.idle = b] \in Editors
         /\ \A m \in {"off", "armed", "stale"} : [x EXCEPT !.max = m] \in Editors
         /\ \A p \in Optional([text : Texts]) : [x EXCEPT !.pending = p] \in Editors
         /\ \A i \in Optional(Idems) : [x EXCEPT !.idem = i] \in Editors
         /\ \A s \in Optional(Sents) : [x EXCEPT !.sent = s] \in Editors
         /\ \A r \in Optional(Results) : [x EXCEPT !.answer = r] \in Editors
  BY DEF Editors, Idems

-----------------------------------------------------------------------------
(* What a tab may become.                                                  *)

(* x stands where tab t does: it has heard no more than t has.             *)
Follows(t, x) ==
  \/ x.sent = tab[t].sent /\ x.answer = tab[t].answer
  \/ /\ x.answer = Nothing
     /\ tab[t].sent = Nothing \/ tab[t].answer # Nothing

(* A state of tab t before it sends anything new.                          *)
Kept(asked, t, x) ==
  /\ x \in Editors /\ EditorOK(x, asked) /\ Follows(t, x)

(* A state of tab t that may have a request under a new key.               *)
Fits(asked, t, x) ==
  /\ x \in Editors /\ Basis(x) /\ Waits(x) /\ Heard(x) /\ Follows(t, x)
  /\ x.idem # Nothing =>
       \/ Asks(asked, x.idem.key, x.idem.request)
       \/ x.idem.key = keys + 1 /\ x.sent # Nothing

(* What a tab's sentences depend on.                                       *)
SameBasis(x, y) ==
  /\ y.draft = x.draft /\ y.rev = x.rev /\ y.saved = x.saved
  /\ y.server = x.server /\ y.seen = x.seen

SameTalk(x, y) == y.sent = x.sent /\ y.answer = x.answer /\ y.idem = x.idem

LEMMA KeptFits ==
  ASSUME NEW asked, NEW t \in Tabs, NEW x, Kept(asked, t, x)
  PROVE  Fits(asked, t, x)
  BY DEF Kept, Fits, EditorOK

(* A tab as it is.                                                         *)
LEMMA StaysKept ==
  ASSUME DraftInv, NEW asked, Agreed(asked), NEW t \in Tabs
  PROVE  Kept(asked, t, tab[t])
  BY DEF DraftInv, TypeOK, Agreed, Kept, Follows

(* Typing, timers and the screen touch neither.                            *)
LEMMA KeptMoves ==
  ASSUME NEW asked, NEW t \in Tabs, NEW x, Kept(asked, t, x),
         NEW y \in Editors, SameBasis(x, y), SameTalk(x, y)
  PROVE  Kept(asked, t, y)
  BY DEF Kept, SameBasis, SameTalk, EditorOK, Basis, Waits, Heard, Follows

(* A request of its own.                                                   *)
LEMMA AttemptSound ==
  ASSUME NEW x \in Editors, Basis(x)
  PROVE  /\ Attempt(x) \in Requests
         /\ Attempt(x).op = "save" => Holds(Attempt(x).id, Attempt(x).rev, x.saved)
<1>1. Body(x) \in Texts
  BY EditorFields, NothingIsNone DEF Body
<1> QED BY <1>1, EditorFields DEF Attempt, Requests, Basis

(* saveOnce sends under the key it kept for that request or a new one.     *)
LEMMA SaveOnceFits ==
  ASSUME NEW asked, NEW t \in Tabs, NEW x, Kept(asked, t, x), x.sent = Nothing, keys \in Nat,
         asked \in [1..keys -> Requests]
  PROVE  Fits(asked, t, SaveOnce(x))
<1> USE DEF Kept
<1>1. CASE x.pending = Nothing /\ x.values = x.saved
  <2>1. SaveOnce(x) = [x EXCEPT !.status = Shown(x)]
    BY <1>1 DEF SaveOnce
  <2>2. SaveOnce(x) \in Editors
    BY <2>1, EditorSets DEF Shown, Statuses
  <2>3. SameBasis(x, SaveOnce(x)) /\ SameTalk(x, SaveOnce(x))
    BY <2>1 DEF Editors, SameBasis, SameTalk
  <2> QED BY <2>2, <2>3, KeptMoves, KeptFits
<1>2. CASE ~(x.pending = Nothing /\ x.values = x.saved)
  <2> DEFINE q == Attempt(x)
             k == KeyFor(x, q)
             s == [request |-> q, key |-> k, knew |-> x.saved]
             i == IF x.idem # Nothing /\ x.idem.request = q /\ x.idem.key = k THEN x.idem
                  ELSE [request |-> q, key |-> k, unconfirmed |-> FALSE]
             y1 == [x EXCEPT !.status = "saving"]
             y2 == [y1 EXCEPT !.sent = s]
             y3 == [y2 EXCEPT !.idem = i]
  <2>1. SaveOnce(x) = y3
    BY <1>2 DEF SaveOnce, Editors
  <2>2. q \in Requests /\ (q.op = "save" => Holds(q.id, q.rev, x.saved))
    BY AttemptSound DEF EditorOK
  <2>3. /\ k \in Nat
        /\ k = keys + 1 \/ Asks(asked, k, q)
    BY EditorFields, NothingIsNone DEF KeyFor, EditorOK, Idems, Asks
  <2> HIDE DEF q, k
  <2>4. s \in Sents /\ s.request = q /\ s.key = k /\ s.knew = x.saved /\ s # Nothing
    BY <2>2, <2>3, EditorFields, NothingIsNone DEF Sents
  <2>5. i \in Idems /\ i.request = q /\ i.key = k /\ i # Nothing
    <3>1. x.idem # Nothing => x.idem \in Idems
      BY EditorFields
    <3>2. [request |-> q, key |-> k, unconfirmed |-> FALSE] \in Idems
      BY <2>2, <2>3 DEF Idems
    <3>3. i \in Idems /\ i.request = q /\ i.key = k
      BY <3>1, <3>2
    <3> QED BY <3>3, NothingIsNone
  <2> HIDE DEF s, i
  <2>6. y1 \in Editors /\ SameBasis(x, y1) /\ SameTalk(x, y1)
    <3>1. y1 \in Editors
      BY EditorSets DEF Statuses
    <3> QED BY <3>1 DEF Editors, SameBasis, SameTalk
  <2> HIDE DEF y1
  <2>7. y2 \in Editors /\ SameBasis(x, y2) /\ y2.sent = s /\ y2.answer = x.answer
    BY <2>6, <2>4, EditorSets DEF Optional, Editors, SameBasis, SameTalk
  <2> HIDE DEF y2
  <2>8. y3 \in Editors /\ SameBasis(x, y3) /\ y3.sent = s /\ y3.answer = x.answer /\ y3.idem = i
    <3>1. y3 \in Editors
      BY <2>7, <2>5, EditorSets DEF Optional
    <3> QED BY <3>1, <2>7 DEF Editors, SameBasis
  <2> HIDE DEF y3
  <2>9. Basis(y3)
    BY <2>8 DEF Basis, SameBasis, EditorOK
  <2>10. Waits(y3)
    BY <2>8, <2>2, <2>4, <2>5 DEF Waits, Sound
  <2>11. y3.answer = Nothing
    BY <2>8 DEF EditorOK, Heard
  <2>12. tab[t].sent = Nothing \/ tab[t].answer # Nothing
    BY DEF Follows
  <2> QED BY <2>1, <2>3, <2>4, <2>5, <2>8, <2>9, <2>10, <2>11, <2>12 DEF Fits, Heard, Follows
<1> QED BY <1>1, <1>2

(* save, from a state that has sent nothing new.                           *)
LEMMA SavingFits ==
  ASSUME NEW asked, NEW t \in Tabs, NEW x, Kept(asked, t, x), keys \in Nat,
         asked \in [1..keys -> Requests]
  PROVE  Fits(asked, t, Saving(x))
<1> x \in Editors
  BY DEF Kept
<1>1. CASE Blocked(x)
  BY <1>1, KeptFits DEF Saving
<1>2. CASE ~Blocked(x) /\ InFlight(x)
  <2> DEFINE y == [x EXCEPT !.again = TRUE]
  <2>1. y \in Editors /\ SameBasis(x, y) /\ SameTalk(x, y)
    <3>1. y \in Editors
      BY EditorSets
    <3> QED BY <3>1 DEF Editors, SameBasis, SameTalk
  <2>2. Saving(x) = y
    BY <1>2 DEF Saving
  <2> HIDE DEF y
  <2> QED BY <2>1, <2>2, KeptMoves, KeptFits
<1>3. CASE ~Blocked(x) /\ ~InFlight(x)
  <2> DEFINE y == [x EXCEPT !.idle = FALSE, !.max = "off", !.again = FALSE]
  <2>1. y \in Editors /\ SameBasis(x, y) /\ SameTalk(x, y)
    BY DEF Editors, SameBasis, SameTalk
  <2>2. Saving(x) = SaveOnce(y)
    BY <1>3 DEF Saving
  <2> HIDE DEF y
  <2>3. Kept(asked, t, y) /\ y.sent = Nothing
    BY <1>3, <2>1, KeptMoves DEF InFlight, SameTalk
  <2> QED BY <2>2, <2>3, SaveOnceFits
<1> QED BY <1>1, <1>2, <1>3

-----------------------------------------------------------------------------
(* A tab's step.                                                           *)

(* What b says of the keys there were, and of the request a tab sends.     *)
Extends(asked, b, t, z) ==
  /\ keys' \in Nat /\ keys' >= keys
  /\ b \in [1..keys' -> Requests] /\ \A n \in 1..keys : b[n] = asked[n]
  /\ \/ net' = net
     \/ /\ net' = net \cup {[tab |-> t, live |-> TRUE, sent |-> z.sent]}
        /\ z.sent # Nothing /\ z.sent # tab[t].sent
        /\ z.sent.key \in 1..keys' /\ b[z.sent.key] = z.sent.request
  /\ z.idem # Nothing => z.idem.key \in 1..keys' /\ b[z.idem.key] = z.idem.request

(* A request sent under a new key gives that key its meaning.              *)
LEMMA BecomeExtends ==
  ASSUME DraftInv, NEW asked, Agreed(asked), NEW t \in Tabs, NEW z, Fits(asked, t, z),
         Become(t, z)
  PROVE  \E b : Extends(asked, b, t, z)
<1> DEFINE new == [tab |-> t, live |-> TRUE, sent |-> z.sent]
           q == z.sent.request
<1>1. z \in Editors /\ keys \in Nat /\ asked \in [1..keys -> Requests]
  BY DEF DraftInv, TypeOK, Agreed, Fits
<1>2. z.sent # Nothing => /\ z.sent \in Sents /\ z.idem \in Idems
                          /\ z.idem.key = z.sent.key /\ z.idem.request = z.sent.request
                          /\ z.sent.key = keys + 1 \/ Asks(asked, z.sent.key, z.sent.request)
  BY <1>1, EditorFields DEF Fits, Waits
<1>3. tab[t].sent # Nothing => Asks(asked, tab[t].sent.key, tab[t].sent.request)
  BY DEF Agreed, EditorOK, Waits
<1>4. CASE z.idem # Nothing /\ z.idem.key = keys + 1
  <2> DEFINE b == [n \in 1..(keys + 1) |-> IF n = keys + 1 THEN q ELSE asked[n]]
  <2>1. z.sent # Nothing /\ z.sent.key = keys + 1
    BY <1>4, <1>2, <1>1 DEF Fits, Asks
  <2>2. z.sent # tab[t].sent
    BY <2>1, <1>3, <1>1 DEF Asks
  <2>3. q \in Requests /\ z.idem.request = q
    BY <2>1, <1>2 DEF Sents
  <2>4. net' = net \cup {new} /\ keys' = keys + 1
    BY <2>1, <2>2, <1>1 DEF Become
  <2> HIDE DEF q
  <2>5. b \in [1..keys' -> Requests] /\ b[keys + 1] = q /\ \A n \in 1..keys : b[n] = asked[n]
    BY <2>3, <2>4, <1>1
  <2> HIDE DEF b
  <2>6. Extends(asked, b, t, z)
    BY <1>1, <1>4, <2>1, <2>2, <2>3, <2>4, <2>5 DEF Extends, q
  <2> QED BY <2>6
<1>5. CASE ~(z.idem # Nothing /\ z.idem.key = keys + 1)
  <2>1. z.idem # Nothing => Asks(asked, z.idem.key, z.idem.request)
    BY <1>5 DEF Fits
  <2>2. z.sent # Nothing => Asks(asked, z.sent.key, z.sent.request)
    BY <2>1, <1>2 DEF Fits, Waits
  <2>3. keys' = keys
    BY <2>2, <1>1 DEF Become, Asks
  <2>4. net' = net \/ (net' = net \cup {new} /\ z.sent # Nothing /\ z.sent # tab[t].sent)
    BY DEF Become
  <2> HIDE DEF new
  <2>5. Extends(asked, asked, t, z)
    BY <1>1, <2>1, <2>2, <2>3, <2>4 DEF Extends, Asks, new
  <2> QED BY <2>5
<1> QED BY <1>4, <1>5

(* Whatever a tab becomes that fits, what it sends included, keeps them.   *)
LEMMA BecomeKeeps ==
  ASSUME DraftInv, NEW asked, Agreed(asked), NEW t \in Tabs, NEW z, Fits(asked, t, z),
         Become(t, z), UNCHANGED Server, typed' \in 0..MaxTyped, lost' \in 0..MaxLost
  PROVE  DraftInv'
<1> DEFINE new == [tab |-> t, live |-> TRUE, sent |-> z.sent]
<1> PICK b : Extends(asked, b, t, z)
  BY BecomeExtends
<1>1. rows' = rows /\ receipts' = receipts /\ document' = document
  BY DEF Server
<1>2. /\ tab \in [Tabs -> Editors] /\ z \in Editors /\ keys \in Nat /\ keys' \in Nat /\ keys' >= keys
      /\ asked \in [1..keys -> Requests]
  BY DEF DraftInv, TypeOK, Agreed, Fits, Extends
<1>3. tab' = [tab EXCEPT ![t] = z]
  BY DEF Become
<1>4. tab' \in [Tabs -> Editors] /\ tab'[t] = z /\ \A u \in Tabs : u # t => tab'[u] = tab[u]
  BY <1>2, <1>3
<1>5. \A id, rev, text : Holds(id, rev, text)' <=> Holds(id, rev, text)
  BY <1>1 DEF Holds, TextAt
<1>6. \A s : Sound(s)' <=> Sound(s)
  BY <1>5 DEF Sound
<1>7. \A k \in Nat : \A r : Asks(asked, k, r) => Asks(b, k, r)'
  BY <1>2 DEF Extends, Asks
<1>8. /\ net' = net \/ net' = net \cup {new}
      /\ new \in net' \ net => /\ z.sent \in Sents /\ Sound(z.sent) /\ z.answer = Nothing
                               /\ Asks(b, z.sent.key, z.sent.request)'
  <2>1. net' = net \/ (net' = net \cup {new} /\ z.sent # Nothing /\ z.sent # tab[t].sent
                                           /\ Asks(b, z.sent.key, z.sent.request)')
    BY DEF Extends, Asks
  <2>2. z.sent # Nothing => z.sent \in Sents /\ Sound(z.sent)
    BY <1>2, EditorFields DEF Fits, Waits
  <2>3. z.sent # tab[t].sent => z.answer = Nothing
    BY DEF Fits, Follows
  <2> QED BY <2>1, <2>2, <2>3
<1>9. net \subseteq [tab : Tabs, live : BOOLEAN, sent : Sents]
  BY DEF DraftInv, TypeOK
<1>10. TypeOK'
  <2>1. net' \subseteq [tab : Tabs, live : BOOLEAN, sent : Sents]
    <3>1. new \in net' \ net => new \in [tab : Tabs, live : BOOLEAN, sent : Sents]
      BY <1>8
    <3> QED BY <3>1, <1>8, <1>9
  <2> QED BY <1>1, <1>2, <1>4, <2>1 DEF DraftInv, TypeOK
<1>11. RowsOK'
  BY <1>1 DEF DraftInv, RowsOK
<1>12. \A m \in net' : MessageOK(m, b)'
  <2> TAKE m \in net'
  <2>1. CASE m \in net
    <3>1. MessageOK(m, asked) /\ m.tab \in Tabs /\ m.sent \in Sents /\ m.sent.key \in Nat
      BY <2>1, <1>9 DEF Agreed, Sents
    <3>2. Sound(m.sent)' /\ Asks(b, m.sent.key, m.sent.request)'
      BY <3>1, <1>6, <1>7 DEF MessageOK
    <3>3. m.live /\ m.tab = t => z.sent = m.sent /\ z.answer = Nothing
      BY <3>1, NothingIsNone DEF MessageOK, Fits, Follows
    <3>4. m.live => tab'[m.tab].sent = m.sent /\ tab'[m.tab].answer = Nothing
      BY <3>1, <3>3, <1>4 DEF MessageOK
    <3> QED BY <3>2, <3>4 DEF MessageOK
  <2>2. CASE m \notin net
    <3>1. m = new /\ new \in net' \ net
      BY <2>2, <1>8
    <3>2. Sound(m.sent)' /\ Asks(b, m.sent.key, m.sent.request)' /\ m.tab = t /\ m.sent = z.sent
      BY <3>1, <1>8, <1>6
    <3>3. z.answer = Nothing
      BY <3>1, <1>8
    <3> QED BY <3>2, <3>3, <1>4 DEF MessageOK
  <2> QED BY <2>1, <2>2
<1>13. \A k \in DOMAIN receipts : ReceiptOK(k, b)'
  <2> TAKE k \in DOMAIN receipts
  <2>1. ReceiptOK(k, asked)
    BY DEF Agreed
  <2> QED BY <2>1, <1>1, <1>2, <1>5 DEF ReceiptOK, Extends
<1>14. \A u \in Tabs : EditorOK(tab[u], b)'
  <2> TAKE u \in Tabs
  <2>1. Basis(tab'[u]) /\ Waits(tab'[u]) /\ Heard(tab'[u])
    BY <1>4 DEF Agreed, EditorOK, Fits
  <2>2. Basis(tab[u])' /\ Waits(tab[u])' /\ Heard(tab[u])'
    BY <2>1, <1>1, <1>5, <1>6 DEF Basis, Waits, Heard
  <2>3. tab'[u].idem # Nothing =>
          tab'[u].idem.key \in 1..keys' /\ b[tab'[u].idem.key] = tab'[u].idem.request
    <3>1. CASE u = t
      BY <3>1, <1>4 DEF Extends
    <3>2. CASE u # t
      <4>1. EditorOK(tab[u], asked) /\ tab[u] \in Editors
        BY <1>2 DEF Agreed
      <4>2. tab[u].idem # Nothing => tab[u].idem.key \in Nat
        BY <4>1, EditorFields DEF Idems
      <4> QED BY <3>2, <4>1, <4>2, <1>2, <1>4 DEF EditorOK, Asks, Extends
    <3> QED BY <3>1, <3>2
  <2> QED BY <2>2, <2>3 DEF EditorOK, Asks
<1>15. Agreed(b)'
  BY <1>1, <1>12, <1>13, <1>14 DEF Agreed, Extends
<1> QED BY <1>10, <1>11, <1>15 DEF DraftInv

-----------------------------------------------------------------------------
(* An answer taken in.                                                     *)

(* settle keeps the key, or forgets it.                                    *)
LEMMA SettledIdem ==
  ASSUME NEW x \in Editors, x.idem # Nothing, NEW kind
  PROVE  /\ Settled(x, kind) \in Optional(Idems)
         /\ Settled(x, kind) # Nothing =>
              Settled(x, kind).key = x.idem.key /\ Settled(x, kind).request = x.idem.request
<1>1. x.idem \in Idems
  BY EditorFields
<1> DEFINE u == [x.idem EXCEPT !.unconfirmed = TRUE]
<1>2. u \in Idems /\ u.key = x.idem.key /\ u.request = x.idem.request
  BY <1>1 DEF Idems
<1>3. Settled(x, kind) = Nothing \/ Settled(x, kind) = u
  BY DEF Settled
<1> HIDE DEF u
<1> QED BY <1>2, <1>3 DEF Optional

(* After the outcome the tab waits for nothing, and what it takes for saved*)
(* is on the server.                                                       *)
LEMMA ConcludedOK ==
  ASSUME NEW asked, NEW x \in Editors, EditorOK(x, asked), x.sent # Nothing,
         NEW r \in Results, r.kind = "ok" => Holds(r.id, r.rev, x.sent.request.text)
  PROVE  /\ Concluded(x, r) \in Editors /\ EditorOK(Concluded(x, r), asked)
         /\ Concluded(x, r).sent = Nothing /\ Concluded(x, r).answer = Nothing
         /\ Uncertain(r.kind) => Concluded(x, r).status = "retrying"
         /\ Concluded(x, r).draft = IF r.kind = "ok" THEN r.id ELSE x.draft
<1> DEFINE q == x.sent.request
           i == Settled(x, r.kind)
           y1 == [x EXCEPT !.sent = Nothing]
           y2 == [y1 EXCEPT !.answer = Nothing]
           y == [y2 EXCEPT !.idem = i]
<1>1. x.sent \in Sents /\ q \in Requests /\ q.text \in Texts
  BY EditorFields DEF Sents, Requests
<1>2. x.idem # Nothing /\ i \in Optional(Idems)
  BY SettledIdem DEF EditorOK, Waits
<1>3. i # Nothing => Asks(asked, i.key, i.request)
  BY <1>2, SettledIdem DEF EditorOK
<1>4. [x EXCEPT !.sent = Nothing, !.answer = Nothing, !.idem = Settled(x, r.kind)] = y
  BY DEF Editors
<1> HIDE DEF i, q
<1>5. y \in Editors
  <2>1. y1 \in Editors
    BY EditorSets DEF Optional
  <2>2. y2 \in Editors
    BY <2>1, EditorSets DEF Optional
  <2> QED BY <2>2, <1>2, EditorSets
<1>6. y.sent = Nothing /\ y.answer = Nothing /\ y.idem = i /\ SameBasis(x, y) /\ y.values = x.values
  BY <1>5 DEF Editors, SameBasis
<1> HIDE DEF y
<1>7. Basis(y)
  BY <1>6 DEF EditorOK, Basis, SameBasis
<1>8. CASE r.kind = "ok"
  <2> DEFINE same == q.text = x.values
             c == [y EXCEPT !.pending = Nothing, !.saved = q.text, !.draft = r.id, !.rev = r.rev,
                            !.status = IF same THEN "saved" ELSE "saving",
                            !.again = IF same THEN y.again ELSE TRUE]
             c1 == [y EXCEPT !.pending = Nothing]
             c2 == [c1 EXCEPT !.saved = q.text]
             c3 == [c2 EXCEPT !.draft = r.id]
             c4 == [c3 EXCEPT !.rev = r.rev]
             c5 == [c4 EXCEPT !.status = IF same THEN "saved" ELSE "saving"]
             c6 == [c5 EXCEPT !.again = IF same THEN y.again ELSE TRUE]
  <2>1. Concluded(x, r) = c
    BY <1>8, <1>4 DEF Concluded, Landed, q
  <2>2. c = c6
    BY <1>5 DEF Editors
  <2>3. r.id \in Nat /\ r.rev \in Nat /\ y.again \in BOOLEAN
    BY <1>5, EditorFields DEF Results
  <2> HIDE DEF same
  <2>4. c6 \in Editors
    <3>1. c1 \in Editors
      BY <1>5, EditorSets DEF Optional
    <3>2. c2 \in Editors
      BY <3>1, <1>1, EditorSets
    <3>3. c3 \in Editors
      BY <3>2, <2>3, EditorSets
    <3>4. c4 \in Editors
      BY <3>3, <2>3, EditorSets
    <3>5. c5 \in Editors
      BY <3>4, EditorSets DEF Statuses
    <3> QED BY <3>5, <2>3, EditorSets
  <2>5. /\ c.sent = Nothing /\ c.answer = Nothing /\ c.idem = i
        /\ c.draft = r.id /\ c.rev = r.rev /\ c.saved = q.text /\ c.server = x.server /\ c.seen = x.seen
    BY <1>5, <1>6 DEF Editors, SameBasis
  <2> HIDE DEF c, c6
  <2>6. Basis(c)
    BY <1>8, <2>5 DEF Basis, EditorOK, q
  <2>7. EditorOK(c, asked)
    BY <2>5, <2>6, <1>3 DEF EditorOK, Waits, Heard
  <2> QED BY <1>8, <2>1, <2>2, <2>4, <2>5, <2>7 DEF Uncertain
<1>9. CASE Uncertain(r.kind)
  <2> DEFINE p == [text |-> q.text]
             c == [[y EXCEPT !.pending = p] EXCEPT !.status = "retrying", !.idle = TRUE]
             c1 == [y EXCEPT !.pending = p]
             c2 == [c1 EXCEPT !.status = "retrying"]
             c3 == [c2 EXCEPT !.idle = TRUE]
  <2>1. Concluded(x, r) = c
    BY <1>9, <1>4 DEF Concluded, Uncertain, RetryLater, q
  <2>2. c = c3
    BY <1>5 DEF Editors
  <2>3. p \in Optional([text : Texts])
    BY <1>1 DEF Optional
  <2> HIDE DEF p
  <2>4. c3 \in Editors
    <3>1. c1 \in Editors
      BY <1>5, <2>3, EditorSets
    <3>2. c2 \in Editors
      BY <3>1, EditorSets DEF Statuses
    <3> QED BY <3>2, EditorSets
  <2>5. /\ c.sent = Nothing /\ c.answer = Nothing /\ c.idem = i /\ SameBasis(y, c)
        /\ c.status = "retrying"
    BY <1>5, <1>6 DEF Editors, SameBasis
  <2> HIDE DEF c, c3
  <2>6. Basis(c) /\ c.draft = x.draft
    BY <1>7, <1>6, <2>5 DEF Basis, SameBasis
  <2>7. EditorOK(c, asked)
    BY <2>5, <2>6, <1>3 DEF EditorOK, Waits, Heard
  <2> QED BY <1>9, <2>1, <2>2, <2>4, <2>5, <2>6, <2>7 DEF Uncertain
<1>10. CASE r.kind # "ok" /\ ~Uncertain(r.kind)
  <2> DEFINE c == [y EXCEPT !.pending = Nothing, !.status = "stopped", !.why = r.kind]
             c1 == [y EXCEPT !.pending = Nothing]
             c2 == [c1 EXCEPT !.status = "stopped"]
             c3 == [c2 EXCEPT !.why = r.kind]
  <2>1. Concluded(x, r) = c
    BY <1>10, <1>4 DEF Concluded
  <2>2. c = c3
    BY <1>5 DEF Editors
  <2>3. r.kind \in Kinds
    BY DEF Results
  <2>4. c3 \in Editors
    <3>1. c1 \in Editors
      BY <1>5, EditorSets DEF Optional
    <3>2. c2 \in Editors
      BY <3>1, EditorSets DEF Statuses
    <3> QED BY <3>2, <2>3, EditorSets
  <2>5. /\ c.sent = Nothing /\ c.answer = Nothing /\ c.idem = i /\ SameBasis(y, c)
    BY <1>5, <1>6 DEF Editors, SameBasis
  <2> HIDE DEF c, c3
  <2>6. Basis(c) /\ c.draft = x.draft
    BY <1>7, <1>6, <2>5 DEF Basis, SameBasis
  <2>7. EditorOK(c, asked)
    BY <2>5, <2>6, <1>3 DEF EditorOK, Waits, Heard
  <2> QED BY <1>10, <2>1, <2>2, <2>4, <2>5, <2>6, <2>7
<1> QED BY <1>8, <1>9, <1>10

(* What the server, or a timeout, answers is an answer.                    *)
LEMMA ResultIs ==
  ASSUME NEW kind \in Kinds, NEW id \in Nat, NEW rev \in Nat
  PROVE  /\ Result(kind, id, rev) \in Results
         /\ Result(kind, id, rev).kind = kind
         /\ Result(kind, id, rev).id = id /\ Result(kind, id, rev).rev = rev
  BY DEF Result, Results

-----------------------------------------------------------------------------
(* One lemma per action of a tab.                                          *)

(* What a step's lemma starts from.                                        *)
LEMMA StepFacts ==
  ASSUME DraftInv
  PROVE  /\ rows \in Seq(Rows) /\ \A n \in 1..Len(rows) : RowOK(rows[n]) /\ rows[n].revision \in Nat
         /\ Len(rows) \in Nat
         /\ tab \in [Tabs -> Editors] /\ keys \in Nat
         /\ document \in Nat
         /\ net \subseteq [tab : Tabs, live : BOOLEAN, sent : Sents]
         /\ typed \in 0..MaxTyped /\ lost \in 0..MaxLost
         /\ MaxTyped \in Nat /\ MaxLost \in Nat
         /\ \A n \in 1..Len(rows) : \A v \in 1..rows[n].revision : TextAt(n, v) \in Texts
         /\ \A asked : Agreed(asked) => asked \in [1..keys -> Requests]
<1>1. ASSUME NEW n \in 1..Len(rows), NEW v \in 1..rows[n].revision
      PROVE  TextAt(n, v) \in Texts
  <2>1. rows[n].texts \in Seq(Texts) /\ v \in 1..Len(rows[n].texts)
    BY DEF DraftInv, RowsOK, RowOK, Rows
  <2> QED BY <2>1 DEF TextAt
<1>2. rows \in Seq(Rows) /\ \A n \in 1..Len(rows) : RowOK(rows[n])
  BY DEF DraftInv, RowsOK
<1>3. \A n \in 1..Len(rows) : rows[n].revision \in Nat
  BY <1>2 DEF RowOK, Rows
<1> QED BY <1>1, <1>2, <1>3, AutosaveAssumption DEF DraftInv, TypeOK, Agreed

LEMMA TypeKeeps ==
  ASSUME DraftInv, NEW t \in Tabs, NEW v \in Texts, Type(t, v)
  PROVE  DraftInv'
<1> PICK asked : Agreed(asked)
  BY DEF DraftInv
<1> DEFINE x == tab[t]
           y == [x EXCEPT !.values = v]
           busy == x.status \in {"saving", "retrying"}
<1>1. x \in Editors /\ Kept(asked, t, x)
  BY StepFacts, StaysKept DEF Kept
<1>2. y \in Editors /\ SameBasis(x, y) /\ SameTalk(x, y)
  <2>1. y \in Editors
    BY <1>1, EditorSets
  <2> QED BY <1>1, <2>1 DEF Editors, SameBasis, SameTalk
<1>3. y.status = x.status
  BY <1>1 DEF Editors
<1> HIDE DEF x, y, busy
<1>4. \A z \in Editors : SameBasis(y, z) /\ SameTalk(y, z) => SameBasis(x, z) /\ SameTalk(x, z)
  BY <1>2 DEF SameBasis, SameTalk
<1>5. /\ Typed(x, v) \in Editors
      /\ SameBasis(y, Typed(x, v)) /\ SameTalk(y, Typed(x, v))
  <2>1. CASE Blocked(x)
    BY <2>1, <1>2 DEF Typed, y, SameBasis, SameTalk
  <2>2. CASE ~Blocked(x) /\ x.saved = v /\ x.pending = Nothing
    <3> DEFINE s == IF busy THEN y.status ELSE Shown(x)
               c == [y EXCEPT !.idle = FALSE, !.max = "off", !.status = s]
    <3>1. Typed(x, v) = c
      BY <2>2 DEF Typed, y, busy
    <3>2. s \in Statuses
      BY <1>2, EditorFields DEF Shown, Statuses
    <3> HIDE DEF s
    <3>3. c \in Editors /\ SameBasis(y, c) /\ SameTalk(y, c)
      BY <1>2, <3>2 DEF Editors, SameBasis, SameTalk
    <3> QED BY <3>1, <3>3
  <2>3. CASE ~Blocked(x) /\ ~(x.saved = v /\ x.pending = Nothing)
    <3> DEFINE s == IF busy THEN y.status ELSE "dirty"
               b == [y EXCEPT !.status = s]
               m == IF b.max = "off" THEN "armed" ELSE b.max
               c == [b EXCEPT !.idle = TRUE, !.max = m]
    <3>1. Typed(x, v) = Scheduled(b)
      BY <2>3 DEF Typed, y, busy
    <3>2. s \in Statuses
      BY <1>2, EditorFields DEF Statuses
    <3> HIDE DEF s
    <3>3. b \in Editors /\ SameBasis(y, b) /\ SameTalk(y, b)
      BY <1>2, <3>2 DEF Editors, SameBasis, SameTalk
    <3> HIDE DEF b
    <3>4. m \in {"off", "armed", "stale"}
      BY <3>3, EditorFields
    <3>5. Scheduled(b) = b \/ Scheduled(b) = c
      BY DEF Scheduled
    <3> HIDE DEF m
    <3>6. c \in Editors /\ SameBasis(b, c) /\ SameTalk(b, c)
      BY <3>3, <3>4 DEF Editors, SameBasis, SameTalk
    <3> QED BY <3>1, <3>3, <3>5, <3>6 DEF SameBasis, SameTalk
  <2> QED BY <2>1, <2>2, <2>3
<1>6. Fits(asked, t, Typed(x, v))
  BY <1>1, <1>4, <1>5, KeptMoves, KeptFits
<1>7. /\ Become(t, Typed(x, v)) /\ UNCHANGED Server
      /\ typed' \in 0..MaxTyped /\ lost' \in 0..MaxLost
  BY StepFacts DEF Type, x
<1> QED BY <1>6, <1>7, BecomeKeeps

LEMMA TimerKeeps ==
  ASSUME DraftInv, NEW t \in Tabs, IdleFires(t) \/ MaxFires(t)
  PROVE  DraftInv'
<1> PICK asked : Agreed(asked)
  BY DEF DraftInv
<1> DEFINE x == tab[t]
<1>1. x \in Editors /\ Kept(asked, t, x)
  BY StepFacts, StaysKept DEF Kept
<1>2. PICK y : /\ y \in {[x EXCEPT !.idle = FALSE], [x EXCEPT !.max = "stale"]}
               /\ Become(t, Saving(y)) /\ UNCHANGED Server
               /\ typed' = typed /\ lost' = lost
  BY DEF IdleFires, MaxFires
<1>3. y \in Editors /\ SameBasis(x, y) /\ SameTalk(x, y)
  BY <1>1, <1>2 DEF Editors, SameBasis, SameTalk
<1>4. Fits(asked, t, Saving(y))
  BY <1>1, <1>3, KeptMoves, SavingFits, StepFacts
<1> QED BY <1>2, <1>4, BecomeKeeps, StepFacts

LEMMA ReceiveKeeps ==
  ASSUME DraftInv, NEW t \in Tabs, Receive(t)
  PROVE  DraftInv'
<1> PICK asked : Agreed(asked)
  BY DEF DraftInv
<1> DEFINE x == tab[t]
           c == Concluded(x, x.answer)
<1>1. /\ x \in Editors /\ EditorOK(x, asked) /\ x.sent # Nothing
      /\ x.answer # Nothing /\ x.answer \in Results
  BY StepFacts, EditorFields DEF Receive, InFlight, Agreed
<1>2. c \in Editors /\ EditorOK(c, asked) /\ c.sent = Nothing /\ c.answer = Nothing
  BY <1>1, ConcludedOK DEF EditorOK, Heard
<1> HIDE DEF c
<1>3. Kept(asked, t, c)
  BY <1>1, <1>2 DEF Kept, Follows
<1>4. Fits(asked, t, Looped(c))
  <2> DEFINE y == [c EXCEPT !.again = FALSE]
  <2>1. y \in Editors /\ SameBasis(c, y) /\ SameTalk(c, y)
    BY <1>2 DEF Editors, SameBasis, SameTalk
  <2>2. Looped(c) = c \/ Looped(c) = SaveOnce(y)
    BY DEF Looped
  <2> HIDE DEF y
  <2>3. Kept(asked, t, y) /\ y.sent = Nothing
    BY <1>2, <1>3, <2>1, KeptMoves DEF SameTalk
  <2> QED BY <1>3, <2>2, <2>3, SaveOnceFits, KeptFits, StepFacts
<1>5. /\ Become(t, Looped(c)) /\ UNCHANGED Server
      /\ typed' \in 0..MaxTyped /\ lost' \in 0..MaxLost
  BY StepFacts DEF Receive, c
<1> QED BY <1>4, <1>5, BecomeKeeps

LEMMA RereadKeeps ==
  ASSUME DraftInv, NEW t \in Tabs, Reread(t)
  PROVE  DraftInv'
<1> PICK asked : Agreed(asked)
  BY DEF DraftInv
<1> DEFINE x == tab[t]
           c == Concluded(x, x.answer)
           found == IF x.answer.kind = "draft_revision" THEN {x.draft} ELSE ActiveRows
<1>1. /\ x \in Editors /\ EditorOK(x, asked) /\ x.sent # Nothing
      /\ x.answer # Nothing /\ x.answer \in Results
  BY StepFacts, EditorFields DEF Reread, InFlight, Agreed
<1>2. c \in Editors /\ EditorOK(c, asked) /\ c.sent = Nothing /\ c.answer = Nothing
  BY <1>1, ConcludedOK DEF EditorOK, Heard
<1>3. PICK n \in IF found = {} THEN {0} ELSE found :
        tab' = [tab EXCEPT ![t] = [c EXCEPT !.status = "conflict", !.server = n,
                                            !.seen = IF n = 0 THEN 0 ELSE rows[n].revision]]
  BY DEF Reread
<1>4. n = 0 \/ n \in 1..Len(rows)
  BY <1>1, <1>3 DEF ActiveRows, EditorOK, Basis, Holds
<1> HIDE DEF c, found
<1> DEFINE r == IF n = 0 THEN 0 ELSE rows[n].revision
           z == [c EXCEPT !.status = "conflict", !.server = n, !.seen = r]
<1>5. n \in Nat /\ r \in Nat /\ (n # 0 => r \in 1..rows[n].revision)
  BY <1>4, StepFacts DEF RowOK
<1>6. tab' = [tab EXCEPT ![t] = z]
  BY <1>3
<1> HIDE DEF r
<1>7. /\ z \in Editors /\ SameTalk(c, z) /\ z.server = n /\ z.seen = r
      /\ z.draft = c.draft /\ z.rev = c.rev /\ z.saved = c.saved
  <2> DEFINE c1 == [c EXCEPT !.status = "conflict"]
             c2 == [c1 EXCEPT !.server = n]
             c3 == [c2 EXCEPT !.seen = r]
  <2>1. z = c3
    BY <1>2 DEF Editors
  <2>2. c1 \in Editors
    BY <1>2, EditorSets DEF Statuses
  <2>3. c2 \in Editors
    BY <2>2, <1>5, EditorSets
  <2>4. c3 \in Editors
    BY <2>3, <1>5, EditorSets
  <2> QED BY <1>2, <2>1, <2>4 DEF Editors, SameTalk
<1> HIDE DEF z
<1>8. Fits(asked, t, z)
  BY <1>1, <1>2, <1>4, <1>5, <1>7 DEF Fits, EditorOK, Basis, Waits, Heard, SameTalk, Follows
<1>9. /\ Become(t, z) /\ UNCHANGED Server
      /\ typed' \in 0..MaxTyped /\ lost' \in 0..MaxLost
  BY <1>2, <1>6, <1>7, StepFacts DEF Become, Reread, SameTalk
<1> QED BY <1>8, <1>9, BecomeKeeps

LEMMA TakeServerKeeps ==
  ASSUME DraftInv, NEW t \in Tabs, TakeServer(t)
  PROVE  DraftInv'
<1> PICK asked : Agreed(asked)
  BY DEF DraftInv
<1> DEFINE x == tab[t]
           text == TextAt(x.server, x.seen)
           c == [x EXCEPT !.values = text, !.saved = text, !.draft = x.server,
                          !.rev = x.seen, !.status = "saved"]
<1>1. x \in Editors /\ Kept(asked, t, x) /\ x.server # 0
  BY StepFacts, StaysKept DEF Kept, TakeServer
<1>2. /\ x.server \in 1..Len(rows) /\ x.seen \in 1..rows[x.server].revision
      /\ text \in Texts /\ x.server \in Nat /\ x.seen \in Nat
  BY <1>1, StepFacts, EditorFields DEF Kept, EditorOK, Basis
<1>3. Become(t, c) /\ UNCHANGED Server /\ typed' \in 0..MaxTyped /\ lost' \in 0..MaxLost
  BY StepFacts DEF TakeServer
<1>4. Holds(x.server, x.seen, text)
  BY <1>2 DEF Holds
<1> HIDE DEF x, text
<1>5. /\ c \in Editors /\ SameTalk(x, c) /\ c.server = x.server /\ c.seen = x.seen
      /\ c.draft = x.server /\ c.rev = x.seen /\ c.saved = text
  <2> DEFINE c1 == [x EXCEPT !.values = text]
             c2 == [c1 EXCEPT !.saved = text]
             c3 == [c2 EXCEPT !.draft = x.server]
             c4 == [c3 EXCEPT !.rev = x.seen]
             c5 == [c4 EXCEPT !.status = "saved"]
  <2>1. c = c5
    BY <1>1 DEF Editors
  <2>2. c2 \in Editors
    BY <1>1, <1>2, EditorSets
  <2>3. c4 \in Editors
    BY <2>2, <1>2, EditorSets
  <2>4. c5 \in Editors
    BY <2>3, EditorSets DEF Statuses
  <2> QED BY <1>1, <2>1, <2>4 DEF Editors, SameTalk
<1> HIDE DEF c
<1>6. Kept(asked, t, c)
  BY <1>1, <1>2, <1>4, <1>5 DEF Kept, EditorOK, Basis, Waits, Heard, SameTalk, Follows
<1> QED BY <1>3, <1>6, KeptFits, BecomeKeeps

LEMMA KeepMineKeeps ==
  ASSUME DraftInv, NEW t \in Tabs, KeepMine(t)
  PROVE  DraftInv'
<1> PICK asked : Agreed(asked)
  BY DEF DraftInv
<1> DEFINE x == tab[t]
           text == TextAt(x.server, x.seen)
           c == [x EXCEPT !.saved = text, !.draft = x.server, !.rev = x.seen, !.status = "dirty"]
<1>1. x \in Editors /\ Kept(asked, t, x) /\ x.server # 0
  BY StepFacts, StaysKept DEF Kept, KeepMine
<1>2. /\ x.server \in 1..Len(rows) /\ x.seen \in 1..rows[x.server].revision
      /\ text \in Texts /\ x.server \in Nat /\ x.seen \in Nat
  BY <1>1, StepFacts, EditorFields DEF Kept, EditorOK, Basis
<1>3. Become(t, Saving(c)) /\ UNCHANGED Server /\ typed' \in 0..MaxTyped /\ lost' \in 0..MaxLost
  BY StepFacts DEF KeepMine
<1>4. Holds(x.server, x.seen, text)
  BY <1>2 DEF Holds
<1> HIDE DEF x, text
<1>5. /\ c \in Editors /\ SameTalk(x, c) /\ c.server = x.server /\ c.seen = x.seen
      /\ c.draft = x.server /\ c.rev = x.seen /\ c.saved = text
  <2> DEFINE c1 == [x EXCEPT !.saved = text]
             c2 == [c1 EXCEPT !.draft = x.server]
             c3 == [c2 EXCEPT !.rev = x.seen]
             c4 == [c3 EXCEPT !.status = "dirty"]
  <2>1. c = c4
    BY <1>1 DEF Editors
  <2>2. c2 \in Editors
    BY <1>1, <1>2, EditorSets
  <2>3. c4 \in Editors
    BY <2>2, <1>2, EditorSets DEF Statuses
  <2> QED BY <1>1, <2>1, <2>3 DEF Editors, SameTalk
<1> HIDE DEF c
<1>6. Kept(asked, t, c)
  BY <1>1, <1>2, <1>4, <1>5 DEF Kept, EditorOK, Basis, Waits, Heard, SameTalk, Follows
<1> QED BY <1>3, <1>6, SavingFits, BecomeKeeps, StepFacts

LEMMA ResumeKeeps ==
  ASSUME DraftInv, NEW t \in Tabs, Resume(t)
  PROVE  DraftInv'
<1> PICK asked : Agreed(asked)
  BY DEF DraftInv
<1> DEFINE x == tab[t]
           closed == x.why = "draft_closed"
           d == IF closed THEN 0 ELSE x.draft
           r == IF closed THEN 0 ELSE x.rev
           b == IF x.why = "document_version" THEN document ELSE x.base
           c == [x EXCEPT !.status = "dirty", !.draft = d, !.rev = r, !.base = b]
<1>1. x \in Editors /\ Kept(asked, t, x)
  BY StepFacts, StaysKept DEF Kept
<1>2. Become(t, Saving(c)) /\ UNCHANGED Server /\ typed' \in 0..MaxTyped /\ lost' \in 0..MaxLost
  BY StepFacts DEF Resume
<1>3. /\ d \in Nat /\ r \in Nat /\ b \in Nat
      /\ d = 0 \/ (d = x.draft /\ r = x.rev)
  BY <1>1, StepFacts, EditorFields
<1> HIDE DEF x, d, r, b
<1>4. /\ c \in Editors /\ SameTalk(x, c) /\ c.server = x.server /\ c.seen = x.seen
      /\ c.draft = d /\ c.rev = r /\ c.saved = x.saved
  <2> DEFINE c1 == [x EXCEPT !.status = "dirty"]
             c2 == [c1 EXCEPT !.draft = d]
             c3 == [c2 EXCEPT !.rev = r]
             c4 == [c3 EXCEPT !.base = b]
  <2>1. c = c4
    BY <1>1 DEF Editors
  <2>2. c2 \in Editors
    BY <1>1, <1>3, EditorSets DEF Statuses
  <2>3. c4 \in Editors
    BY <2>2, <1>3, EditorSets
  <2> QED BY <1>1, <2>1, <2>3 DEF Editors, SameTalk
<1> HIDE DEF c
<1>5. Kept(asked, t, c)
  BY <1>1, <1>3, <1>4 DEF Kept, EditorOK, Basis, Waits, Heard, SameTalk, Follows
<1> QED BY <1>2, <1>5, SavingFits, BecomeKeeps, StepFacts

LEMMA GiveUpKeeps ==
  ASSUME DraftInv, NEW t \in Tabs, GiveUp(t)
  PROVE  DraftInv'
<1> PICK asked : Agreed(asked)
  BY DEF DraftInv
<1> DEFINE x == tab[t]
           r == Result("unknown", 0, 0)
           c == Concluded(x, r)
           mine == { m \in net : m.tab = t /\ m.live }
           late == { [m EXCEPT !.live = FALSE] : m \in mine }
<1>1. x \in Editors /\ EditorOK(x, asked) /\ x.sent # Nothing
  BY StepFacts, EditorFields DEF GiveUp, InFlight, Agreed
<1>2. r \in Results /\ r.kind = "unknown"
  <2>1. "unknown" \in Kinds
    BY DEF Kinds
  <2> QED BY <2>1, ResultIs
<1> HIDE DEF r
<1>3. /\ c \in Editors /\ EditorOK(c, asked) /\ c.sent = Nothing /\ c.answer = Nothing
      /\ c.status = "retrying"
  BY <1>1, <1>2, ConcludedOK DEF Uncertain
<1>4. Looped(c) = c
  BY <1>3 DEF Looped
<1>5. /\ tab' = [tab EXCEPT ![t] = c] /\ net' = (net \ mine) \cup late
      /\ rows' = rows /\ receipts' = receipts /\ document' = document
      /\ keys' = keys /\ typed' = typed /\ lost' = lost + 1 /\ lost < MaxLost
  BY <1>4 DEF GiveUp, Server, r
<1> HIDE DEF c
<1>6. tab' \in [Tabs -> Editors] /\ tab'[t] = c /\ \A u \in Tabs : u # t => tab'[u] = tab[u]
  BY <1>3, <1>5, StepFacts
<1>7. \A m \in net' : /\ m \in [tab : Tabs, live : BOOLEAN, sent : Sents]
                      /\ Sound(m.sent) /\ Asks(asked, m.sent.key, m.sent.request)
                      /\ m.live => m \in net /\ m.tab # t
  <2> TAKE m \in net'
  <2>1. CASE m \in net \ mine
    BY <2>1, StepFacts DEF Agreed, MessageOK
  <2>2. CASE m \in late
    <3>1. PICK o \in mine : m = [o EXCEPT !.live = FALSE]
      BY <2>2
    <3>2. o \in [tab : Tabs, live : BOOLEAN, sent : Sents]
      BY StepFacts
    <3>3. /\ m \in [tab : Tabs, live : BOOLEAN, sent : Sents]
          /\ m.sent = o.sent /\ m.live = FALSE
      BY <3>1, <3>2
    <3> QED BY <3>3 DEF Agreed, MessageOK
  <2> QED BY <1>5, <2>1, <2>2
<1>8. TypeOK'
  <2>1. net' \subseteq [tab : Tabs, live : BOOLEAN, sent : Sents]
    BY <1>7
  <2> QED BY <1>5, <1>6, <2>1, StepFacts DEF DraftInv, TypeOK
<1>9. RowsOK'
  BY <1>5 DEF DraftInv, RowsOK
<1>10. \A id, rev, text : Holds(id, rev, text)' <=> Holds(id, rev, text)
  BY <1>5 DEF Holds, TextAt
<1>11. \A m \in net' : MessageOK(m, asked)'
  <2> TAKE m \in net'
  <2>1. Sound(m.sent)' /\ Asks(asked, m.sent.key, m.sent.request)'
    BY <1>5, <1>7, <1>10 DEF Sound, Asks
  <2>2. m.live => m.tab \in Tabs /\ MessageOK(m, asked) /\ tab'[m.tab] = tab[m.tab]
    BY <1>6, <1>7 DEF Agreed
  <2> QED BY <2>1, <2>2 DEF MessageOK
<1>12. \A u \in Tabs : EditorOK(tab'[u], asked)
  BY <1>3, <1>6 DEF Agreed
<1>13. \A u \in Tabs : EditorOK(tab[u], asked)'
  BY <1>5, <1>10, <1>12 DEF EditorOK, Basis, Waits, Heard, Sound, Asks
<1>14. \A k \in DOMAIN receipts : ReceiptOK(k, asked)'
  BY <1>5, <1>10 DEF Agreed, ReceiptOK
<1> QED BY <1>5, <1>8, <1>9, <1>11, <1>13, <1>14 DEF DraftInv, Agreed

-----------------------------------------------------------------------------
(* One lemma per action of the server.                                     *)

(* The next revision, written by who knew the last.                        *)
LEMMA WrittenOK ==
  ASSUME NEW r, RowOK(r), NEW text \in Texts, NEW knew, knew = r.texts[r.revision]
  PROVE  LET w == Written(r, text, knew, r.revision + 1) IN
         /\ RowOK(w) /\ w.revision = r.revision + 1 /\ w.state = r.state
         /\ w.texts[w.revision] = text
         /\ \A v \in 1..r.revision : w.texts[v] = r.texts[v]
<1> DEFINE ts == Append(r.texts, text)
           ks == Append(r.knew, knew)
           n == r.revision + 1
           w == [r EXCEPT !.revision = n, !.texts = ts, !.knew = ks]
<1>1. /\ r \in Rows /\ r.revision \in Nat /\ r.revision >= 1
      /\ r.texts \in Seq(Texts) /\ r.knew \in Seq(Texts) /\ knew \in Texts
      /\ Len(r.texts) = r.revision /\ Len(r.knew) = r.revision
      /\ \A v \in 2..r.revision : r.knew[v] = r.texts[v - 1]
  BY DEF RowOK, Rows
<1>2. /\ ts \in Seq(Texts) /\ Len(ts) = n /\ ts[n] = text
      /\ \A v \in 1..r.revision : ts[v] = r.texts[v]
  BY <1>1
<1>3. /\ ks \in Seq(Texts) /\ Len(ks) = n /\ ks[n] = knew
      /\ \A v \in 1..r.revision : ks[v] = r.knew[v]
  BY <1>1
<1> HIDE DEF ts, ks
<1>4. /\ w \in Rows /\ w.revision = n /\ w.texts = ts /\ w.knew = ks /\ w.state = r.state
  <2> DEFINE w1 == [r EXCEPT !.revision = n]
             w2 == [w1 EXCEPT !.texts = ts]
             w3 == [w2 EXCEPT !.knew = ks]
  <2>1. n \in Nat
    BY <1>1
  <2> HIDE DEF n
  <2>2. w = w3
    BY <1>1 DEF Rows
  <2>3. w1 \in Rows /\ w1.revision = n /\ w1.state = r.state
    BY <1>1, <2>1 DEF Rows
  <2> HIDE DEF w1
  <2>4. w2 \in Rows /\ w2.revision = n /\ w2.state = r.state /\ w2.texts = ts
    BY <1>2, <2>3 DEF Rows
  <2> HIDE DEF w2
  <2>5. w3 \in Rows /\ w3.revision = n /\ w3.state = r.state /\ w3.texts = ts /\ w3.knew = ks
    BY <1>3, <2>4 DEF Rows
  <2> QED BY <2>2, <2>5
<1>5. w = Written(r, text, knew, r.revision + 1)
  BY DEF Written, ts, ks
<1> HIDE DEF w
<1>6. \A v \in 2..n : ks[v] = ts[v - 1]
  <2> TAKE v \in 2..n
  <2>1. CASE v = n
    <3>1. r.revision \in 1..r.revision /\ v - 1 = r.revision
      BY <2>1, <1>1
    <3> QED BY <2>1, <3>1, <1>2, <1>3
  <2>2. CASE v # n
    <3>1. v \in 2..r.revision /\ v \in 1..r.revision /\ v - 1 \in 1..r.revision
      BY <2>2, <1>1
    <3> QED BY <3>1, <1>1, <1>2, <1>3
  <2> QED BY <2>1, <2>2
<1>7. RowOK(w)
  BY <1>1, <1>2, <1>3, <1>4, <1>6 DEF RowOK
<1> QED BY <1>2, <1>4, <1>5, <1>7

(* Rows are never removed and a revision's text stays.                     *)
RowsGrow ==
  /\ Len(rows') >= Len(rows)
  /\ \A n \in 1..Len(rows) :
       /\ rows'[n].revision >= rows[n].revision
       /\ \A v \in 1..rows[n].revision : rows'[n].texts[v] = rows[n].texts[v]

LEMMA HoldsOn ==
  ASSUME DraftInv, RowsOK', RowsGrow
  PROVE  /\ \A id, rev, text : Holds(id, rev, text) => Holds(id, rev, text)'
         /\ \A s : Sound(s) => Sound(s)'
         /\ \A x : Basis(x) => Basis(x)'
         /\ \A x : Waits(x) => Waits(x)'
         /\ \A x : Heard(x) => Heard(x)'
         /\ \A x, asked : keys' = keys /\ EditorOK(x, asked) => EditorOK(x, asked)'
<1>1. Len(rows) \in Nat /\ Len(rows') \in Nat /\ Len(rows') >= Len(rows)
  BY StepFacts DEF RowsOK, RowsGrow
<1>2. \A n \in 1..Len(rows) : /\ n \in 1..Len(rows')
                              /\ rows[n].revision \in Nat /\ rows'[n].revision \in Nat
                              /\ rows'[n].revision >= rows[n].revision
  <2> TAKE n \in 1..Len(rows)
  <2>1. n \in 1..Len(rows')
    BY <1>1
  <2>2. rows[n].revision \in Nat
    BY StepFacts
  <2>3. RowOK(rows'[n])
    BY <2>1 DEF RowsOK, RowOK
  <2>4. rows'[n].revision \in Nat
    BY <2>3 DEF RowOK, Rows
  <2> QED BY <2>1, <2>2, <2>4 DEF RowsGrow
<1>3. \A id, rev, text : Holds(id, rev, text) => Holds(id, rev, text)'
  BY <1>2 DEF Holds, TextAt, RowsGrow
<1>4. \A s : Sound(s) => Sound(s)'
  BY <1>3 DEF Sound
<1>5. \A x : Basis(x) => Basis(x)'
  BY <1>2, <1>3 DEF Basis
<1>6. \A x : Waits(x) => Waits(x)'
  BY <1>4 DEF Waits
<1>7. \A x : Heard(x) => Heard(x)'
  BY <1>3 DEF Heard
<1>8. \A x, asked : keys' = keys /\ EditorOK(x, asked) => EditorOK(x, asked)'
  BY <1>5, <1>6, <1>7 DEF EditorOK, Asks
<1> QED BY <1>3, <1>4, <1>5, <1>6, <1>7, <1>8

LEMMA CloseDraftKeeps ==
  ASSUME DraftInv, NEW n \in 1..Len(rows), CloseDraft(n)
  PROVE  DraftInv'
<1> PICK asked : Agreed(asked)
  BY DEF DraftInv
<1> DEFINE row == rows[n]
           kept == TextAt(n, row.revision)
           w == Written(row, kept, kept, row.revision + 1)
           c == [w EXCEPT !.state = "closed"]
<1>1. /\ rows' = [rows EXCEPT ![n] = c]
      /\ UNCHANGED << receipts, document, net, tab, keys, typed, lost >>
  BY DEF CloseDraft
<1>2. RowOK(row) /\ kept \in Texts /\ kept = row.texts[row.revision]
  BY StepFacts DEF TextAt, RowOK
<1>3. /\ RowOK(w) /\ w.revision = row.revision + 1
      /\ \A v \in 1..row.revision : w.texts[v] = row.texts[v]
  BY <1>2, WrittenOK
<1> HIDE DEF w, kept
<1>4. /\ RowOK(c) /\ c.revision = row.revision + 1
      /\ \A v \in 1..row.revision : c.texts[v] = row.texts[v]
  BY <1>3 DEF RowOK, Rows
<1> HIDE DEF c
<1>5. /\ rows' \in Seq(Rows) /\ Len(rows') = Len(rows) /\ rows'[n] = c
      /\ \A k \in 1..Len(rows) : k # n => rows'[k] = rows[k]
  BY <1>1, <1>4, StepFacts DEF RowOK
<1>6. RowsOK'
  <2>1. \A k \in 1..Len(rows) : RowOK(rows'[k])
    <3> TAKE k \in 1..Len(rows)
    <3> QED BY <1>4, <1>5, StepFacts
  <2>2. \A k \in 1..Len(rows') : RowOK(rows'[k])
    BY <1>5, <2>1
  <2> QED BY <1>5, <2>2 DEF RowsOK, RowOK
<1>7. RowsGrow
  <2>1. row.revision \in Nat /\ c.revision >= row.revision
    BY <1>4, StepFacts
  <2> QED BY <1>4, <1>5, <2>1, StepFacts DEF RowsGrow
<1>8. TypeOK'
  BY <1>1, <1>5 DEF DraftInv, TypeOK
<1>9. \A m \in net : MessageOK(m, asked)'
  BY <1>1, <1>6, <1>7, HoldsOn DEF Agreed, MessageOK, Asks
<1>10. \A k \in DOMAIN receipts : ReceiptOK(k, asked)'
  BY <1>1, <1>6, <1>7, HoldsOn DEF Agreed, ReceiptOK
<1>11. \A t \in Tabs : EditorOK(tab[t], asked)'
  <2> TAKE t \in Tabs
  <2>1. Basis(tab[t])' /\ Waits(tab[t])' /\ Heard(tab[t])'
    BY <1>1, <1>6, <1>7, HoldsOn DEF Agreed, EditorOK
  <2> QED BY <2>1, <1>1 DEF Agreed, EditorOK, Asks
<1>12. Agreed(asked)'
  BY <1>1, <1>9, <1>10, <1>11 DEF Agreed
<1> QED BY <1>6, <1>8, <1>12 DEF DraftInv

(* A request leaves the net and, if its tab still waits, the tab is        *)
(* answered; what is recorded for its key is what it is answered.          *)
LEMMA AnsweredKeeps ==
  ASSUME DraftInv, NEW m \in net, NEW asked, Agreed(asked), NEW r \in Results,
         RowsOK', RowsGrow, r.kind = "ok" => Holds(r.id, r.rev, m.sent.request.text)',
         net' = net \ {m},
         tab' = IF m.live THEN [tab EXCEPT ![m.tab].answer = r] ELSE tab,
         \A k \in DOMAIN receipts' :
           \/ k \in DOMAIN receipts /\ receipts'[k] = receipts[k]
           \/ k = m.sent.key /\ receipts'[k] = r /\ r.kind = "ok",
         keys' = keys, document' = document, typed' = typed, lost' \in 0..MaxLost
  PROVE  DraftInv'
<1>1. /\ m \in [tab : Tabs, live : BOOLEAN, sent : Sents] /\ m.tab \in Tabs
      /\ Asks(asked, m.sent.key, m.sent.request)
      /\ m.live => tab[m.tab].sent = m.sent /\ tab[m.tab].answer = Nothing
      /\ m.sent # Nothing /\ m.sent \in Sents
  BY StepFacts, NothingIsNone DEF Agreed, MessageOK
<1> DEFINE x == tab[m.tab]
           z == [x EXCEPT !.answer = r]
<1>2. x \in Editors
  BY <1>1, StepFacts
<1>3. z \in Editors /\ z.answer = r /\ z.sent = x.sent /\ z.idem = x.idem /\ SameBasis(x, z)
  <2>1. z \in Editors
    BY <1>2, EditorSets DEF Optional
  <2> QED BY <1>2, <2>1 DEF Editors, SameBasis
<1>4. m.live => tab' = [tab EXCEPT ![m.tab] = z]
  OBVIOUS
<1> HIDE DEF z
<1>5. /\ tab' \in [Tabs -> Editors]
      /\ m.live => tab'[m.tab] = z
      /\ \A t \in Tabs : ~(m.live /\ t = m.tab) => tab'[t] = tab[t]
  BY <1>1, <1>3, <1>4, StepFacts
<1>6. TypeOK'
  <2>1. \A k \in DOMAIN receipts' : receipts'[k] \in Results
    BY DEF DraftInv, TypeOK
  <2>2. net' \subseteq [tab : Tabs, live : BOOLEAN, sent : Sents]
    BY StepFacts
  <2>3. rows' \in Seq(Rows)
    BY DEF RowsOK
  <2> QED BY <2>1, <2>2, <2>3, <1>5 DEF DraftInv, TypeOK
<1>7. \A o \in net' : MessageOK(o, asked)'
  <2> TAKE o \in net'
  <2>1. /\ o \in net /\ o # m /\ MessageOK(o, asked) /\ o \in [tab : Tabs, live : BOOLEAN, sent : Sents]
    BY StepFacts DEF Agreed
  <2>2. ~(o.live /\ m.live /\ o.tab = m.tab)
    <3> SUFFICES ASSUME o.live, m.live, o.tab = m.tab PROVE FALSE
      OBVIOUS
    <3>1. o.sent = m.sent
      BY <1>1, <2>1 DEF MessageOK
    <3>2. o.live = TRUE /\ m.live = TRUE
      BY <1>1, <2>1
    <3>3. o = [tab |-> o.tab, live |-> o.live, sent |-> o.sent]
      BY <2>1
    <3>4. m = [tab |-> m.tab, live |-> m.live, sent |-> m.sent]
      BY <1>1
    <3> QED BY <2>1, <3>1, <3>2, <3>3, <3>4
  <2>3. o.live => tab'[o.tab] = tab[o.tab]
    BY <1>5, <2>1, <2>2
  <2>4. Sound(o.sent)' /\ Asks(asked, o.sent.key, o.sent.request)'
    BY <2>1, HoldsOn DEF MessageOK, Asks
  <2> QED BY <2>1, <2>3, <2>4 DEF MessageOK
<1>8. \A k \in DOMAIN receipts' : ReceiptOK(k, asked)'
  <2> TAKE k \in DOMAIN receipts'
  <2>1. CASE k \in DOMAIN receipts /\ receipts'[k] = receipts[k]
    BY <2>1, HoldsOn DEF Agreed, ReceiptOK
  <2>2. CASE k = m.sent.key /\ receipts'[k] = r /\ r.kind = "ok"
    BY <2>2, <1>1 DEF ReceiptOK, Asks
  <2> QED BY <2>1, <2>2
<1>9. \A t \in Tabs : EditorOK(tab[t], asked)'
  <2> TAKE t \in Tabs
  <2>1. EditorOK(tab[t], asked)
    BY DEF Agreed
  <2>2. Basis(tab[t])' /\ Waits(tab[t])' /\ Heard(tab[t])'
    <3>1. CASE m.live /\ t = m.tab
      <4>1. z.sent = m.sent
        BY <1>1, <1>3, <3>1
      <4>2. Basis(x) /\ Waits(x)
        BY <2>1, <3>1 DEF EditorOK
      <4>3. Basis(z) /\ Waits(z)
        BY <1>3, <4>2 DEF Basis, Waits, SameBasis
      <4>4. \A y : y = z => Basis(y)' /\ Waits(y)'
        BY <4>3, HoldsOn
      <4>5. \A y : y = z => Heard(y)'
        BY <1>1, <1>3, <4>1 DEF Heard
      <4>6. PICK y : y = z
        OBVIOUS
      <4>7. Basis(y)' /\ Waits(y)' /\ Heard(y)' /\ tab'[t] = y
        BY <1>5, <3>1, <4>4, <4>5, <4>6
      <4> QED BY <4>7 DEF Basis, Waits, Heard
    <3>2. CASE ~(m.live /\ t = m.tab)
      BY <1>5, <2>1, <3>2, HoldsOn DEF EditorOK
    <3> QED BY <3>1, <3>2
  <2>3. tab'[t].idem = tab[t].idem
    BY <1>3, <1>5
  <2> QED BY <2>1, <2>2, <2>3 DEF EditorOK, Asks
<1>10. Agreed(asked)'
  BY <1>7, <1>8, <1>9 DEF Agreed
<1> QED BY <1>6, <1>10 DEF DraftInv

LEMMA RefuseKeeps ==
  ASSUME DraftInv, NEW m \in net, Refuse(m)
  PROVE  DraftInv'
<1> PICK asked : Agreed(asked)
  BY DEF DraftInv
<1> DEFINE r == Result("refused", 0, 0)
<1>1. r \in Results /\ r.kind = "refused"
  <2>1. "refused" \in Kinds
    BY DEF Kinds
  <2> QED BY <2>1, ResultIs
<1>2. /\ rows' = rows /\ receipts' = receipts /\ document' = document /\ keys' = keys
      /\ typed' = typed /\ lost' \in 0..MaxLost /\ net' = net \ {m}
      /\ tab' = IF m.live THEN [tab EXCEPT ![m.tab].answer = r] ELSE tab
  BY StepFacts DEF Refuse, Server
<1> HIDE DEF r
<1>3. RowsOK' /\ RowsGrow
  BY <1>2, StepFacts DEF RowsOK, DraftInv, RowsGrow, RowOK
<1> QED BY <1>1, <1>2, <1>3, AnsweredKeeps

(* The server's answer to a request under a key it has no receipt for: what*)
(* was asked is the row's new revision, or nothing is written.             *)
LEMMA AppliedOK ==
  ASSUME DraftInv, NEW s \in Sents, Sound(s), NEW r, r = Answered(s.request)
  PROVE  /\ r \in Results
         /\ r.kind = "ok" /\ rows' = Applied(s.request, s.knew, r) =>
              RowsOK' /\ RowsGrow /\ Holds(r.id, r.rev, s.request.text)'
<1> DEFINE q == s.request
<1>1. q \in Requests /\ s.knew \in Texts /\ q.text \in Texts /\ q.op \in {"create", "save"}
      /\ q.id \in Nat /\ q.rev \in Nat
  BY DEF Sents, Requests
<1>2. Len(rows) \in Nat /\ rows \in Seq(Rows) /\ \A n \in 1..Len(rows) : RowOK(rows[n])
  BY StepFacts
<1>r. r = Answered(q)
  OBVIOUS
<1> HIDE DEF q
<1>3. CASE q.op = "create"
  <2>n. PICK n \in Nat : n = Len(rows) + 1
    BY <1>2
  <2> DEFINE one == << q.text >>
             row == [state |-> "active", revision |-> 1, texts |-> one, knew |-> one]
  <2>1. r \in Results /\ (r.kind = "ok" => r.id = n /\ r.rev = 1)
    <3>1. \A k \in {"active_draft_exists", "document_version"} : k \in Kinds /\ k # "ok"
      BY DEF Kinds
    <3>2. "ok" \in Kinds
      BY DEF Kinds
    <3>3. r \in {Result("active_draft_exists", 0, 0), Result("document_version", 0, 0), Result("ok", n, 1)}
      BY <1>3, <1>r, <2>n DEF Answered
    <3> QED BY <3>1, <3>2, <3>3, ResultIs
  <2>2. one \in Seq(Texts) /\ Len(one) = 1 /\ one[1] = q.text
    BY <1>1
  <2> HIDE DEF one
  <2>3. row \in Rows /\ row.revision = 1 /\ row.texts = one /\ row.knew = one
    BY <2>2 DEF Rows
  <2>4. Applied(q, s.knew, r) = Append(rows, row)
    BY <1>3 DEF Applied, one
  <2> HIDE DEF row
  <2>5. RowOK(row)
    BY <2>2, <2>3 DEF RowOK
  <2>6. ASSUME rows' = Append(rows, row)
        PROVE  RowsOK' /\ RowsGrow /\ Holds(n, 1, q.text)'
    <3>1. /\ rows' \in Seq(Rows) /\ Len(rows') = n /\ rows'[n] = row
          /\ \A k \in 1..Len(rows) : rows'[k] = rows[k]
      BY <2>6, <2>3, <2>n, <1>2
    <3>2. \A k \in 1..Len(rows') : RowOK(rows'[k])
      BY <3>1, <2>5, <2>n, <1>2
    <3>3. RowsOK'
      BY <3>1, <3>2 DEF RowsOK, RowOK
    <3>4. RowsGrow
      BY <3>1, <2>n, StepFacts DEF RowsGrow
    <3>5. Holds(n, 1, q.text)'
      BY <3>1, <2>2, <2>3, <2>n, <1>2 DEF Holds, TextAt
    <3> QED BY <3>3, <3>4, <3>5
  <2>7. r.kind = "ok" /\ rows' = Applied(q, s.knew, r) =>
          RowsOK' /\ RowsGrow /\ Holds(r.id, r.rev, q.text)'
    <3> SUFFICES ASSUME r.kind = "ok", rows' = Applied(q, s.knew, r)
                 PROVE  RowsOK' /\ RowsGrow /\ Holds(r.id, r.rev, q.text)'
      OBVIOUS
    <3>1. r.id = n /\ r.rev = 1
      BY <2>1
    <3>2. RowsOK' /\ RowsGrow /\ Holds(n, 1, q.text)'
      BY <2>4, <2>6
    <3> QED BY <3>1, <3>2 DEF Holds
  <2> QED BY <2>1, <2>7 DEF q
<1>4. CASE q.op = "save"
  <2> DEFINE row == rows[q.id]
             n == q.rev + 1
             w == Written(row, q.text, s.knew, n)
  <2>1. q.id \in 1..Len(rows) /\ q.rev \in 1..row.revision /\ row.texts[q.rev] = s.knew
    BY <1>4 DEF Sound, Holds, TextAt, q
  <2>2. RowOK(row)
    BY <1>2, <2>1
  <2>3. r \in Results /\ (r.kind = "ok" => r.id = q.id /\ r.rev = n /\ row.revision = q.rev)
    <3>1. "draft_closed" \in Kinds /\ "draft_revision" \in Kinds /\ "ok" \in Kinds
      BY DEF Kinds
    <3>2. \/ r = Result("draft_closed", 0, 0) \/ r = Result("draft_revision", 0, 0)
          \/ r = Result("ok", q.id, n) /\ row.revision = q.rev
      BY <1>4, <1>r DEF Answered
    <3> QED BY <1>1, <3>1, <3>2, ResultIs
  <2>4. r.kind = "ok" => Applied(q, s.knew, r) = [rows EXCEPT ![q.id] = w]
    BY <1>4, <2>3 DEF Applied
  <2>5. ASSUME rows' = [rows EXCEPT ![q.id] = w], row.revision = q.rev
        PROVE  RowsOK' /\ RowsGrow /\ Holds(q.id, n, q.text)'
    <3>1. /\ RowOK(w) /\ w.revision = n /\ w.texts[n] = q.text
          /\ \A v \in 1..row.revision : w.texts[v] = row.texts[v]
      <4>1. LET u == Written(row, q.text, s.knew, row.revision + 1) IN
            /\ RowOK(u) /\ u.revision = row.revision + 1 /\ u.texts[u.revision] = q.text
            /\ \A v \in 1..row.revision : u.texts[v] = row.texts[v]
        BY <1>1, <2>1, <2>2, <2>5, WrittenOK
      <4> QED BY <2>5, <4>1
    <3> HIDE DEF w
    <3>2. /\ rows' \in Seq(Rows) /\ Len(rows') = Len(rows) /\ rows'[q.id] = w
          /\ \A k \in 1..Len(rows) : k # q.id => rows'[k] = rows[k]
      BY <2>1, <2>5, <3>1, <1>2 DEF RowOK
    <3>3. \A k \in 1..Len(rows) : RowOK(rows'[k])
      BY <1>2, <3>1, <3>2
    <3>4. RowsOK'
      <4>1. \A k \in 1..Len(rows') : RowOK(rows'[k])
        BY <3>2, <3>3
      <4> QED BY <3>2, <4>1 DEF RowsOK, RowOK
    <3>5. RowsGrow
      <4>1. row.revision \in Nat /\ w.revision >= row.revision
        BY <1>1, <2>5, <3>1
      <4>2. \A k \in 1..Len(rows) : rows[k].revision \in Nat
        BY StepFacts
      <4>3. ASSUME NEW k \in 1..Len(rows)
            PROVE  /\ rows'[k].revision >= rows[k].revision
                   /\ \A v \in 1..rows[k].revision : rows'[k].texts[v] = rows[k].texts[v]
        <5>1. CASE k = q.id
          BY <3>1, <3>2, <4>1, <5>1
        <5>2. CASE k # q.id
          BY <3>2, <4>2, <5>2
        <5> QED BY <5>1, <5>2
      <4> QED BY <1>2, <3>2, <4>3 DEF RowsGrow
    <3>6. Holds(q.id, n, q.text)'
      <4>1. q.id \in 1..Len(rows') /\ n \in 1..w.revision
        BY <2>1, <3>1, <3>2, <1>1
      <4> QED BY <3>1, <3>2, <4>1 DEF Holds, TextAt
    <3> QED BY <3>4, <3>5, <3>6
  <2>6. r.kind = "ok" /\ rows' = Applied(q, s.knew, r) =>
          RowsOK' /\ RowsGrow /\ Holds(r.id, r.rev, q.text)'
    <3> SUFFICES ASSUME r.kind = "ok", rows' = Applied(q, s.knew, r)
                 PROVE  RowsOK' /\ RowsGrow /\ Holds(r.id, r.rev, q.text)'
      OBVIOUS
    <3>1. r.id = q.id /\ r.rev = n /\ row.revision = q.rev
      BY <2>3
    <3>2. RowsOK' /\ RowsGrow /\ Holds(q.id, n, q.text)'
      BY <2>4, <2>5, <3>1
    <3> QED BY <3>1, <3>2
  <2> QED BY <2>3, <2>6 DEF q
<1> QED BY <1>1, <1>3, <1>4

LEMMA DeliverKeeps ==
  ASSUME DraftInv, NEW m \in net, Deliver(m)
  PROVE  DraftInv'
<1> PICK asked : Agreed(asked)
  BY DEF DraftInv
<1> DEFINE key == m.sent.key
           q == m.sent.request
<1>1. /\ m.sent \in Sents /\ Sound(m.sent) /\ Asks(asked, key, q)
  BY StepFacts DEF Agreed, MessageOK
<1>2. PICK r : r = IF Recorded(key) THEN receipts[key] ELSE Answered(q)
  OBVIOUS
<1>3. /\ net' = net \ {m}
      /\ tab' = IF m.live THEN [tab EXCEPT ![m.tab].answer = r] ELSE tab
      /\ keys' = keys /\ document' = document /\ typed' = typed /\ lost' \in 0..MaxLost
  BY <1>2, StepFacts DEF Deliver
<1>4. CASE ~Recorded(key) /\ r.kind = "ok"
  <2>1. rows' = Applied(q, m.sent.knew, r)
    BY <1>2, <1>4 DEF Deliver
  <2>2. receipts' = [k \in DOMAIN receipts \cup {key} |-> IF k = key THEN r ELSE receipts[k]]
    BY <1>2, <1>4 DEF Deliver
  <2>3. r = Answered(m.sent.request)
    BY <1>2, <1>4
  <2>4. r \in Results /\ RowsOK' /\ RowsGrow /\ Holds(r.id, r.rev, m.sent.request.text)'
    BY <1>1, <1>4, <2>1, <2>3, AppliedOK
  <2>5. \A k \in DOMAIN receipts' :
          \/ k \in DOMAIN receipts /\ receipts'[k] = receipts[k]
          \/ k = m.sent.key /\ receipts'[k] = r /\ r.kind = "ok"
    BY <1>4, <2>2
  <2> QED BY <1>3, <2>4, <2>5, AnsweredKeeps
<1>5. CASE ~(~Recorded(key) /\ r.kind = "ok")
  <2>1. rows' = rows /\ receipts' = receipts
    BY <1>2, <1>5 DEF Deliver
  <2>2. RowsOK' /\ RowsGrow
    BY <2>1, StepFacts DEF RowsOK, DraftInv, RowsGrow, RowOK
  <2>3. r \in Results /\ (r.kind = "ok" => Holds(r.id, r.rev, m.sent.request.text)')
    <3>1. CASE Recorded(key)
      <4>1. r = receipts[key] /\ key \in DOMAIN receipts
        BY <1>2, <3>1 DEF Recorded
      <4>2. r \in Results
        BY <4>1 DEF DraftInv, TypeOK
      <4>3. Holds(r.id, r.rev, m.sent.request.text)
        BY <1>1, <4>1 DEF Agreed, ReceiptOK, Asks
      <4> QED BY <2>2, <4>2, <4>3, HoldsOn
    <3>2. CASE ~Recorded(key)
      <4>1. r = Answered(m.sent.request) /\ r.kind # "ok"
        BY <1>2, <1>5, <3>2
      <4> QED BY <1>1, <4>1, AppliedOK
    <3> QED BY <3>1, <3>2
  <2> QED BY <1>3, <2>1, <2>2, <2>3, AnsweredKeeps
<1> QED BY <1>4, <1>5

(* A step of the document alone, or of nothing here.                       *)
LEMMA RestKeeps ==
  ASSUME DraftInv, UNCHANGED << rows, receipts, net, tab, keys, typed, lost >>, document' \in {1, 2}
  PROVE  DraftInv'
<1>1. /\ rows' = rows /\ receipts' = receipts /\ net' = net /\ tab' = tab
      /\ keys' = keys /\ typed' = typed /\ lost' = lost
  OBVIOUS
<1> PICK asked : Agreed(asked)
  BY DEF DraftInv
<1>2. TypeOK' /\ RowsOK'
  BY <1>1 DEF DraftInv, TypeOK, RowsOK
<1>3. RowsOK' /\ RowsGrow
  BY <1>1, <1>2, StepFacts DEF RowsGrow, RowOK
<1>4. \A m \in net : MessageOK(m, asked)'
  BY <1>1, <1>3, HoldsOn DEF Agreed, MessageOK, Asks
<1>5. \A k \in DOMAIN receipts : ReceiptOK(k, asked)'
  BY <1>1, <1>3, HoldsOn DEF Agreed, ReceiptOK
<1>6. \A t \in Tabs : EditorOK(tab[t], asked)'
  <2> TAKE t \in Tabs
  <2>1. Basis(tab[t])' /\ Waits(tab[t])' /\ Heard(tab[t])'
    BY <1>1, <1>3, HoldsOn DEF Agreed, EditorOK
  <2> QED BY <2>1, <1>1 DEF Agreed, EditorOK, Asks
<1>7. Agreed(asked)'
  BY <1>1, <1>4, <1>5, <1>6 DEF Agreed
<1> QED BY <1>2, <1>7 DEF DraftInv

-----------------------------------------------------------------------------
(* The composition.                                                        *)

LEMMA DraftInit ==
  ASSUME Init
  PROVE  DraftInv
<1>1. Fresh \in Editors
  <2>1. Initial \in Texts
    BY AutosaveAssumption
  <2> QED BY <2>1 DEF Fresh, Editors, Optional, Statuses
<1>2. /\ Fresh.draft = 0 /\ Fresh.server = 0 /\ Fresh.sent = Nothing
      /\ Fresh.answer = Nothing /\ Fresh.idem = Nothing
  BY DEF Fresh
<1>3. \A t \in Tabs : tab[t] = Fresh
  BY DEF Init
<1>4. rows \in Seq(Rows) /\ Len(rows) = 0
  BY DEF Init
<1>5. TypeOK
  <2>1. MaxTyped \in Nat /\ MaxLost \in Nat
    BY AutosaveAssumption
  <2>2. tab \in [Tabs -> Editors]
    BY <1>1 DEF Init
  <2>3. DOMAIN receipts = {}
    BY DEF Init
  <2> QED BY <1>4, <2>1, <2>2, <2>3 DEF Init, TypeOK
<1>6. RowsOK
  BY <1>4 DEF RowsOK
<1> DEFINE none == [k \in 1..0 |-> CHOOSE q \in Requests : TRUE]
<1>7. none \in [1..keys -> Requests]
  <2>1. keys = 0 /\ 1..0 = {}
    BY DEF Init
  <2> QED BY <2>1
<1> HIDE DEF none
<1>8. \A t \in Tabs : EditorOK(tab[t], none)
  BY <1>2, <1>3 DEF EditorOK, Basis, Waits, Heard
<1>9. net = {} /\ DOMAIN receipts = {}
  BY DEF Init
<1>10. Agreed(none)
  BY <1>7, <1>8, <1>9 DEF Agreed
<1> QED BY <1>5, <1>6, <1>10 DEF DraftInv

LEMMA DraftNext ==
  ASSUME DraftInv, Next
  PROVE  DraftInv'
<1>1. ASSUME NEW t \in Tabs, TabStep(t) PROVE DraftInv'
  <2>1. ASSUME NEW v \in Texts, Type(t, v) PROVE DraftInv'
    BY <2>1, TypeKeeps
  <2>2. CASE IdleFires(t) \/ MaxFires(t)
    BY <2>2, TimerKeeps
  <2>3. CASE Receive(t)
    BY <2>3, ReceiveKeeps
  <2>4. CASE GiveUp(t)
    BY <2>4, GiveUpKeeps
  <2>5. CASE Reread(t)
    BY <2>5, RereadKeeps
  <2>6. CASE TakeServer(t)
    BY <2>6, TakeServerKeeps
  <2>7. CASE KeepMine(t)
    BY <2>7, KeepMineKeeps
  <2>8. CASE Resume(t)
    BY <2>8, ResumeKeeps
  <2> QED BY <1>1, <2>1, <2>2, <2>3, <2>4, <2>5, <2>6, <2>7, <2>8 DEF TabStep
<1>2. ASSUME NEW m \in net, Deliver(m) PROVE DraftInv'
  BY <1>2, DeliverKeeps
<1>3. ASSUME NEW m \in net, Refuse(m) PROVE DraftInv'
  BY <1>3, RefuseKeeps
<1>4. ASSUME NEW n \in 1..Len(rows), CloseDraft(n) PROVE DraftInv'
  BY <1>4, CloseDraftKeeps
<1>5. CASE MoveDocument
  BY <1>5, RestKeeps DEF MoveDocument
<1> QED BY <1>1, <1>2, <1>3, <1>4, <1>5 DEF Next, ServerStep

(* Whatever else goes on, the drafts keep their invariant.                 *)
LEMMA DraftInvariant == AllSpec => []DraftInv
<1>1. AllInit => DraftInv
  BY DraftInit DEF AllInit
<1>2. DraftInv /\ [AllNext]_<< part, vars, chatVars >> => DraftInv'
  <2> SUFFICES ASSUME DraftInv, AllNext \/ UNCHANGED vars PROVE DraftInv'
    BY DEF vars
  <2>1. CASE Next
    BY <2>1, DraftNext
  <2>2. CASE UNCHANGED vars
    BY <2>2, RestKeeps DEF vars, DraftInv, TypeOK
  <2> QED BY <2>1, <2>2 DEF AllNext
<1> QED BY <1>1, <1>2, PTL DEF AllSpec

(* "A change by another tab or device is never silently overwritten"       *)
(* (useServerDraft.ts:7): however many tabs edit, whatever is lost, late or*)
(* repeated, whoever wrote a revision of a draft knew the text it replaced.*)
THEOREM NothingIsOverwrittenUnseen == AllSpec => []NoSilentOverwrite
<1>1. DraftInv => NoSilentOverwrite
  <2> SUFFICES ASSUME DraftInv, NEW n \in 1..Len(rows), NEW v \in 2..Len(rows[n].texts)
               PROVE  rows[n].knew[v] = rows[n].texts[v - 1]
    BY DEF NoSilentOverwrite
  <2>1. RowOK(rows[n])
    BY StepFacts
  <2> QED BY <2>1 DEF RowOK
<1> QED BY <1>1, DraftInvariant, PTL

-----------------------------------------------------------------------------
(* The composer.                                                           *)

Unasked == Chat!NoRequest

(* The request is the one its key was made for.                            *)
AsMade(r) == r.key \in 1..Len(made) /\ made[r.key] = r

Numbered ==
  /\ Len(made) <= MaxKeys /\ \A k \in 1..Len(made) : made[k].key = k
  /\ receipted \subseteq 1..Len(made)
  /\ \A r \in orphans : AsMade(r)
  /\ \A w \in waits : AsMade(w.request)
  /\ stored # Unasked => AsMade(stored)
  /\ screen.pending # Unasked => AsMade(screen.pending)
  /\ \A i \in 1..MaxScreens : known[i] \subseteq 1..Len(made)

(* A turn begins with each receipt, and each change is a version.          *)
Versioned ==
  session.version + (IF session.running THEN 1 ELSE 0) = 1 + 2 * Cardinality(receipted)

(* What an open composer sees; it knows what is stored.                    *)
ScreenOK ==
  screen.on =>
    /\ screen.id \in 1..MaxScreens /\ view \in Chat!Row
    /\ stored \in {Unasked, screen.pending}
    /\ screen.pending # Unasked => screen.pending.key \in known[screen.id]

(* A composer waits for one answer, to the only request it knows that is   *)
(* not settled.                                                            *)
WaitOK(w) ==
  /\ w.id <= screen.id
  /\ w.answer = "ok" => w.request.key \in receipted
  /\ screen.on /\ w.id = screen.id => screen.pending = w.request
  /\ \A k \in known[w.id] : k = w.request.key \/ k \in settled

WaitsOK ==
  /\ \A w \in waits : WaitOK(w)
  /\ \A w, v \in waits : w.id = v.id => w = v

(* What is not settled is stored, and pending on an open screen.           *)
UnsettledOK ==
  \A k \in 1..Len(made) :
    k \in settled \/ (stored.key = k /\ (screen.on => screen.pending.key = k))

Taken == \E k \in receipted : made[k].text = entered

(* What was entered last is taken, or still there.                         *)
EnteredOK ==
  \/ Taken
  \/ /\ entered = Chat!Restored
     /\ screen.on => screen.text = entered
     /\ draft = Chat!NoDraft => stored = Unasked

ComposerInv ==
  /\ Chat!TypeOK /\ ~twice /\ Numbered /\ Versioned /\ ScreenOK /\ WaitsOK /\ UnsettledOK /\ EnteredOK

(* No request has no key; a question is neither empty nor the absence of a *)
(* draft.                                                                  *)
LEMMA ComposerFacts ==
  /\ MaxKeys \in Nat /\ MaxScreens \in Nat /\ MaxEntered \in Nat /\ MaxFaults \in Nat
  /\ Chat!Empty \notin Questions /\ Chat!NoDraft \notin Questions /\ Chat!Empty # Chat!NoDraft
  /\ Unasked.key = 0 /\ Unasked.text = Chat!Empty
  /\ \A r \in Chat!Sendings : /\ r # Unasked /\ r.key \in 1..MaxKeys /\ r.key \in Nat /\ r.key # 0
                              /\ r.text \in Questions
<1>1. /\ MaxKeys \in Nat /\ MaxScreens \in Nat /\ MaxEntered \in Nat /\ MaxFaults \in Nat
      /\ Chat!Empty \notin Questions /\ Chat!NoDraft \notin Questions
  BY ComposerAssumption DEF Chat!ComposerAssumption
<1>e. Chat!Empty # Chat!NoDraft
  BY Zenon DEF Chat!Empty, Chat!NoDraft
<1>2. Unasked.key = 0 /\ Unasked.text = Chat!Empty
  BY DEF Unasked, Chat!NoRequest
<1>3. ASSUME NEW r \in Chat!Sendings
      PROVE  /\ r # Unasked /\ r.key \in 1..MaxKeys /\ r.key \in Nat /\ r.key # 0
             /\ r.text \in Questions
  <2>1. r.key \in 1..MaxKeys /\ r.text \in Questions
    BY DEF Chat!Sendings
  <2>2. r.key \in Nat /\ r.key # 0
    BY <1>1, <2>1
  <2> QED BY <1>2, <2>1, <2>2
<1> QED BY <1>1, <1>e, <1>2, <1>3

(* The parts of the invariant's types.                                     *)
LEMMA ComposerTypes ==
  ASSUME ComposerInv
  PROVE  /\ session \in Chat!Row /\ receipted \subseteq 1..MaxKeys /\ signedIn \in BOOLEAN
         /\ stored = Unasked \/ stored \in Chat!Sendings
         /\ draft \in Questions \cup {Chat!Empty, Chat!NoDraft}
         /\ screen \in Chat!Screens /\ screen.on \in BOOLEAN
         /\ screen.pending = Unasked \/ screen.pending \in Chat!Sendings
         /\ screen.id \in 0..MaxScreens /\ screen.text \in Questions \cup {Chat!Empty}
         /\ known \in [1..MaxScreens -> SUBSET (1..MaxKeys)]
         /\ view \in Chat!Row \cup {Chat!NoView} /\ loads \subseteq Chat!Loads /\ timer \in BOOLEAN
         /\ \A l \in loads : l.latest \in BOOLEAN /\ l.answer \in Chat!Row \cup {Chat!NoView}
         /\ twice \in BOOLEAN
         /\ waits \subseteq Chat!Waits
         /\ \A w \in waits : /\ w.request \in Chat!Sendings /\ w.id \in 1..MaxScreens
                             /\ w.answer \in Chat!Answers /\ w.retry \in BOOLEAN
         /\ orphans \subseteq Chat!Sendings
         /\ made \in Seq(Chat!Sendings) /\ Len(made) \in Nat /\ settled \subseteq 1..MaxKeys
         /\ entered \in Questions \cup {Chat!Empty} /\ edits \in 0..MaxEntered /\ faults \in 0..MaxFaults
         /\ Numbered
<1>1. Chat!TypeOK /\ Numbered
  BY DEF ComposerInv
<1>2. stored = Unasked \/ stored \in Chat!Sendings
  BY <1>1 DEF Chat!TypeOK, Chat!Pendings, Unasked
<1>3. /\ screen \in Chat!Screens /\ screen.on \in BOOLEAN
      /\ screen.pending = Unasked \/ screen.pending \in Chat!Sendings
      /\ screen.id \in 0..MaxScreens /\ screen.text \in Questions \cup {Chat!Empty}
  BY <1>1 DEF Chat!TypeOK, Chat!Pendings, Chat!Screens, Unasked
<1>4. waits \subseteq Chat!Waits
  BY <1>1 DEF Chat!TypeOK
<1>5. \A w \in waits : /\ w.request \in Chat!Sendings /\ w.id \in 1..MaxScreens
                       /\ w.answer \in Chat!Answers /\ w.retry \in BOOLEAN
  BY <1>4 DEF Chat!Waits
<1>6. made \in Seq(Chat!Sendings) /\ Len(made) \in Nat
  BY <1>1 DEF Chat!TypeOK
<1>7. \A l \in loads : l.latest \in BOOLEAN /\ l.answer \in Chat!Row \cup {Chat!NoView}
  BY <1>1 DEF Chat!TypeOK, Chat!Loads
<1> QED BY <1>1, <1>2, <1>3, <1>4, <1>5, <1>6, <1>7 DEF Chat!TypeOK

LEMMA ComposerInit ==
  ASSUME Chat!Init
  PROVE  ComposerInv
<1>1. /\ session = [version |-> 1, running |-> FALSE] /\ receipted = {} /\ signedIn = TRUE
      /\ stored = Unasked /\ draft = Chat!NoDraft /\ screen = Chat!NoScreen
      /\ known = [i \in 1..MaxScreens |-> {}]
      /\ view = Chat!NoView /\ loads = {} /\ timer = FALSE
      /\ waits = {} /\ orphans = {} /\ made = << >> /\ settled = {} /\ twice = FALSE
      /\ entered = Chat!Empty /\ edits = 0 /\ faults = 0
  BY DEF Chat!Init, Unasked
<1>2. /\ screen.on = FALSE /\ screen.id = 0 /\ screen.pending = Unasked /\ screen.text = Chat!Empty
  BY <1>1 DEF Chat!NoScreen, Unasked
<1>3. MaxKeys \in Nat /\ MaxScreens \in Nat /\ MaxEntered \in Nat /\ MaxFaults \in Nat
  BY ComposerFacts
<1>4. session \in Chat!Row /\ session.version = 1 /\ session.running = FALSE
  <2>1. 1 \in 1..(2 * MaxKeys + 1)
    BY <1>3
  <2> QED BY <1>1, <2>1 DEF Chat!Row
<1>5. screen \in Chat!Screens
  BY <1>1, <1>3 DEF Chat!NoScreen, Chat!Screens, Chat!Pendings
<1>6. Chat!TypeOK
  <2>1. known \in [1..MaxScreens -> SUBSET (1..MaxKeys)]
    BY <1>1
  <2>2. made \in Seq(Chat!Sendings)
    BY <1>1
  <2>3. 0 \in 0..MaxEntered /\ 0 \in 0..MaxFaults
    BY <1>3
  <2> QED BY <1>1, <1>4, <1>5, <2>1, <2>2, <2>3 DEF Chat!TypeOK, Chat!Pendings, Unasked
<1>7. Len(made) = 0 /\ 1..Len(made) = {}
  BY <1>1
<1>8. Numbered
  BY <1>1, <1>2, <1>3, <1>7 DEF Numbered
<1>9. ScreenOK /\ WaitsOK
  BY <1>1, <1>2 DEF ScreenOK, WaitsOK
<1>10. UnsettledOK
  BY <1>7 DEF UnsettledOK
<1>11. Versioned
  <2>1. Cardinality(receipted) = 0
    BY <1>1, FS_EmptySet
  <2> QED BY <1>4, <2>1 DEF Versioned
<1>12. EnteredOK
  BY <1>1, <1>2, ComposerFacts DEF EnteredOK, Chat!Restored, Unasked
<1> QED BY <1>1, <1>6, <1>8, <1>9, <1>10, <1>11, <1>12 DEF ComposerInv

-----------------------------------------------------------------------------
(* Reloads, the poll and the session: nothing of a request changes.        *)

ViewOnly ==
  UNCHANGED << session, receipted, stored, draft, screen, known, waits, orphans, made, settled,
               entered, twice, edits >>

LEMMA ViewOnlyKeeps ==
  ASSUME ComposerInv, ViewOnly, signedIn' \in BOOLEAN, timer' \in BOOLEAN, loads' \subseteq Chat!Loads,
         faults' \in 0..MaxFaults,
         view' = view \/ view' \in Chat!Row
  PROVE  ComposerInv'
<1>1. /\ session' = session /\ receipted' = receipted /\ stored' = stored /\ draft' = draft
      /\ screen' = screen /\ known' = known /\ waits' = waits /\ orphans' = orphans /\ made' = made
      /\ settled' = settled /\ entered' = entered /\ twice' = twice /\ edits' = edits
  BY DEF ViewOnly
<1>2. Chat!TypeOK'
  BY <1>1 DEF ComposerInv, Chat!TypeOK
<1>3. Numbered' /\ Versioned' /\ UnsettledOK'
  BY <1>1 DEF ComposerInv, Numbered, AsMade, Versioned, UnsettledOK
<1>4. ScreenOK'
  BY <1>1 DEF ComposerInv, ScreenOK
<1>5. WaitsOK'
  BY <1>1 DEF ComposerInv, WaitsOK, WaitOK
<1>6. EnteredOK'
  BY <1>1 DEF ComposerInv, EnteredOK, Taken, Chat!Restored
<1> QED BY <1>1, <1>2, <1>3, <1>4, <1>5, <1>6 DEF ComposerInv

(* Reloading again leaves the earlier answers to arrive for nothing.       *)
LEMMA ReloadingIs ==
  ASSUME loads \subseteq Chat!Loads
  PROVE  Chat!Reloading \subseteq Chat!Loads
<1>1. [latest |-> TRUE, answer |-> Chat!NoView] \in Chat!Loads
  BY DEF Chat!Loads
<1>2. \A l \in loads : [l EXCEPT !.latest = FALSE] \in Chat!Loads
  BY DEF Chat!Loads
<1> QED BY <1>1, <1>2 DEF Chat!Reloading

LEMMA LoadsKeep ==
  ASSUME ComposerInv,
         Chat!Poll \/ Chat!SessionExpires
           \/ \E l \in loads : Chat!LoadTaken(l) \/ Chat!LoadFails(l) \/ Chat!LoadArrives(l)
  PROVE  ComposerInv'
<1> USE DEF Chat!serverVars, Chat!tabVars, Chat!sendVars, Chat!viewVars
<1>1. CASE Chat!Poll
  <2>1. ViewOnly /\ signedIn' = signedIn /\ timer' = FALSE /\ faults' = faults /\ view' = view
        /\ loads' = Chat!Reloading
    BY <1>1 DEF Chat!Poll, ViewOnly
  <2> QED BY <2>1, ReloadingIs, ComposerTypes, ViewOnlyKeeps
<1>2. CASE Chat!SessionExpires
  <2>1. ViewOnly /\ signedIn' = FALSE /\ timer' = timer /\ faults' = faults /\ view' = view
        /\ loads' = loads
    BY <1>2 DEF Chat!SessionExpires, ViewOnly
  <2> QED BY <2>1, ComposerTypes, ViewOnlyKeeps
<1>3. ASSUME NEW l \in loads, Chat!LoadTaken(l) PROVE ComposerInv'
  <2>1. ViewOnly /\ signedIn' = signedIn /\ timer' = timer /\ faults' = faults /\ view' = view
        /\ loads' = (loads \ {l}) \cup {[l EXCEPT !.answer = session]}
    BY <1>3 DEF Chat!LoadTaken, ViewOnly
  <2>2. [l EXCEPT !.answer = session] \in Chat!Loads
    BY ComposerTypes DEF Chat!Loads
  <2> QED BY <2>1, <2>2, ComposerTypes, ViewOnlyKeeps
<1>4. ASSUME NEW l \in loads, Chat!LoadFails(l) PROVE ComposerInv'
  <2>1. ViewOnly /\ signedIn' = signedIn /\ view' = view
        /\ loads' = loads \ {l} /\ timer' = IF l.latest THEN view.running ELSE timer
    BY <1>4 DEF Chat!LoadFails, Chat!FailurePolls, ViewOnly
  <2>2. view.running \in BOOLEAN
    <3>1. CASE view \in Chat!Row
      BY <3>1 DEF Chat!Row
    <3>2. CASE view = Chat!NoView
      BY <3>2 DEF Chat!NoView
    <3> QED BY <3>1, <3>2, ComposerTypes
  <2>3. faults' \in 0..MaxFaults
    BY <1>4, ComposerTypes, ComposerFacts DEF Chat!LoadFails
  <2> QED BY <2>1, <2>2, <2>3, ComposerTypes, ViewOnlyKeeps
<1>5. ASSUME NEW l \in loads, Chat!LoadArrives(l) PROVE ComposerInv'
  <2>1. /\ ViewOnly /\ signedIn' = signedIn /\ faults' = faults /\ loads' = loads \ {l}
        /\ l.answer # Chat!NoView
        /\ \/ view' = view /\ timer' = timer
           \/ view' = l.answer /\ timer' = l.answer.running
    BY <1>5 DEF Chat!LoadArrives, ViewOnly
  <2>2. l.answer \in Chat!Row
    BY <2>1, ComposerTypes
  <2>3. l.answer.running \in BOOLEAN
    BY <2>2 DEF Chat!Row
  <2> QED BY <2>1, <2>2, <2>3, ComposerTypes, ViewOnlyKeeps
<1> QED BY <1>1, <1>2, <1>3, <1>4, <1>5

-----------------------------------------------------------------------------
(* The server.                                                             *)

(* How many receipts there can be.                                         *)
LEMMA ReceiptsCounted ==
  ASSUME NEW S, NEW n \in Nat, S \subseteq 1..n
  PROVE  Cardinality(S) \in Nat /\ Cardinality(S) <= n /\ IsFiniteSet(S)
<1>1. IsFiniteSet(1..n) /\ Cardinality(1..n) = n
  BY FS_Interval
<1> QED BY <1>1, FS_Subset, FS_CardinalityType

(* A request handled: taken, and the turn begins, or nothing.              *)
LEMMA HandlesOK ==
  ASSUME ComposerInv, NEW r \in Chat!Sendings, AsMade(r), NEW a, Chat!Handles(r, a)
  PROVE  /\ session' \in Chat!Row /\ receipted' \subseteq 1..Len(made) /\ receipted \subseteq receipted'
         /\ Versioned' /\ faults' \in 0..MaxFaults
         /\ a = "ok" => r.key \in receipted'
<1>1. CASE UNCHANGED << session, receipted >> /\ (a = "ok" => r.key \in receipted)
  <2>1. session' = session /\ receipted' = receipted
    BY <1>1
  <2>2. faults' \in 0..MaxFaults
    BY ComposerTypes, ComposerFacts DEF Chat!Handles
  <2>3. Versioned'
    BY <2>1 DEF ComposerInv, Versioned
  <2>4. receipted \subseteq 1..Len(made)
    BY ComposerTypes DEF Numbered
  <2> QED BY <1>1, <2>1, <2>2, <2>3, <2>4, ComposerTypes
<1>2. CASE ~(UNCHANGED << session, receipted >> /\ (a = "ok" => r.key \in receipted))
  <2>1. /\ r.key \notin receipted /\ faults' = faults /\ ~session.running
        /\ receipted' = receipted \cup {r.key}
        /\ session' = [version |-> session.version + 1, running |-> TRUE]
    BY <1>2 DEF Chat!Handles, AsMade
  <2>2. MaxKeys \in Nat /\ r.key \in 1..Len(made) /\ Len(made) \in Nat /\ Len(made) <= MaxKeys
    BY ComposerFacts, ComposerTypes DEF AsMade, Numbered
  <2>3. receipted \subseteq 1..Len(made)
    BY ComposerTypes DEF Numbered
  <2>4. Cardinality(receipted) \in Nat /\ IsFiniteSet(receipted)
    BY <2>2, <2>3, ReceiptsCounted
  <2>5. Cardinality(receipted') = Cardinality(receipted) + 1
    BY <2>1, <2>4, FS_AddElement
  <2>6. receipted' \subseteq 1..Len(made)
    BY <2>1, <2>2, <2>3
  <2>7. Cardinality(receipted') <= Len(made)
    BY <2>2, <2>6, ReceiptsCounted
  <2>8. session.version = 1 + 2 * Cardinality(receipted)
    <3>1. session.version \in Nat
      BY ComposerTypes, <2>2 DEF Chat!Row
    <3> QED BY <3>1, <2>1, <2>4 DEF ComposerInv, Versioned
  <2>9. session'.version = session.version + 1 /\ session'.running = TRUE
    BY <2>1
  <2>10. Versioned'
    BY <2>4, <2>5, <2>8, <2>9 DEF Versioned
  <2>11. session' \in Chat!Row
    <3>1. session.version + 1 \in 1..(2 * MaxKeys + 1)
      BY <2>2, <2>4, <2>5, <2>7, <2>8
    <3> QED BY <2>1, <3>1 DEF Chat!Row
  <2> QED BY <2>1, <2>6, <2>10, <2>11, ComposerTypes
<1> QED BY <1>1, <1>2

LEMMA TurnEndsKeeps ==
  ASSUME ComposerInv, Chat!TurnEnds
  PROVE  ComposerInv'
<1> USE DEF Chat!serverVars, Chat!tabVars, Chat!sendVars, Chat!viewVars
<1>1. /\ session.running /\ session' = [version |-> session.version + 1, running |-> FALSE]
      /\ receipted' = receipted /\ stored' = stored /\ draft' = draft
      /\ screen' = screen /\ known' = known /\ waits' = waits /\ orphans' = orphans /\ made' = made
      /\ settled' = settled /\ entered' = entered /\ twice' = twice /\ edits' = edits
      /\ view' = view /\ loads' = loads /\ timer' = timer /\ faults' = faults /\ signedIn' = signedIn
  BY DEF Chat!TurnEnds
<1>2. MaxKeys \in Nat /\ session.version \in Nat /\ session.version >= 1
  BY ComposerFacts, ComposerTypes DEF Chat!Row
<1>3. Cardinality(receipted) \in Nat /\ Cardinality(receipted) <= MaxKeys
  BY <1>2, ComposerTypes, ReceiptsCounted
<1>4. session.version + 1 = 1 + 2 * Cardinality(receipted)
  BY <1>1 DEF ComposerInv, Versioned
<1>5. Versioned'
  BY <1>1, <1>2, <1>3, <1>4 DEF Versioned
<1>6. session' \in Chat!Row
  <2>1. session.version + 1 \in 1..(2 * MaxKeys + 1)
    BY <1>2, <1>3, <1>4
  <2> QED BY <1>1, <2>1 DEF Chat!Row
<1>7. Chat!TypeOK'
  BY <1>1, <1>6 DEF ComposerInv, Chat!TypeOK
<1>8. Numbered' /\ UnsettledOK' /\ ScreenOK'
  BY <1>1 DEF ComposerInv, Numbered, AsMade, UnsettledOK, ScreenOK
<1>9. WaitsOK'
  BY <1>1 DEF ComposerInv, WaitsOK, WaitOK
<1>10. EnteredOK'
  BY <1>1 DEF ComposerInv, EnteredOK, Taken, Chat!Restored
<1> QED BY <1>1, <1>5, <1>7, <1>8, <1>9, <1>10 DEF ComposerInv

(* A wait whose answer is known now; and what nobody waits for any more.   *)
LEMMA WaitMoves ==
  ASSUME ComposerInv, NEW w \in waits, NEW a \in Chat!Answers,
         NEW u, u = [w EXCEPT !.answer = a], waits' = (waits \ {w}) \cup {u},
         receipted \subseteq receipted', a = "ok" => w.request.key \in receipted',
         screen' = screen, known' = known, settled' = settled
  PROVE  /\ u \in Chat!Waits /\ u.request = w.request /\ u.id = w.id
         /\ waits' \subseteq Chat!Waits /\ WaitsOK'
         /\ \A v \in waits' : \E o \in waits : v.request = o.request
<1>1. w \in Chat!Waits /\ waits \subseteq Chat!Waits
  BY ComposerTypes
<1>2. u \in Chat!Waits /\ u.request = w.request /\ u.id = w.id /\ u.answer = a
  BY <1>1 DEF Chat!Waits
<1>3. waits' \subseteq Chat!Waits
  BY <1>1, <1>2
<1>4. \A v \in waits : v # w => v.id # w.id
  BY DEF ComposerInv, WaitsOK
<1>5. \A v \in waits' : WaitOK(v)'
  <2> TAKE v \in waits'
  <2>1. CASE v \in waits
    <3>1. WaitOK(v)
      BY <2>1 DEF ComposerInv, WaitsOK
    <3> QED BY <3>1 DEF WaitOK
  <2>2. CASE v = u
    <3>1. WaitOK(w)
      BY DEF ComposerInv, WaitsOK
    <3> QED BY <1>2, <2>2, <3>1 DEF WaitOK
  <2> QED BY <2>1, <2>2
<1>6. \A v, o \in waits' : v.id = o.id => v = o
  BY <1>2, <1>4 DEF ComposerInv, WaitsOK
<1>7. \A v \in waits' : \E o \in waits : v.request = o.request
  BY <1>2
<1> QED BY <1>2, <1>3, <1>5, <1>6, <1>7 DEF WaitsOK

(* What the server does with a request, whoever waits for it.              *)
ServerSide ==
  UNCHANGED << signedIn, stored, draft, screen, known, view, loads, timer, made, settled, twice,
               entered, edits >>

LEMMA ServerSideKeeps ==
  ASSUME ComposerInv, ServerSide, session' \in Chat!Row, receipted' \subseteq 1..Len(made),
         receipted \subseteq receipted', Versioned', faults' \in 0..MaxFaults,
         waits' \subseteq Chat!Waits, WaitsOK',
         \A v \in waits' : \E o \in waits : v.request = o.request,
         \A r \in orphans' : r \in orphans \/ \E o \in waits : r = o.request
  PROVE  ComposerInv'
<1>1. /\ stored' = stored /\ draft' = draft /\ signedIn' = signedIn
      /\ screen' = screen /\ known' = known /\ made' = made
      /\ settled' = settled /\ entered' = entered /\ twice' = twice /\ edits' = edits
      /\ view' = view /\ loads' = loads /\ timer' = timer
  BY DEF ServerSide
<1>2. orphans' \subseteq Chat!Sendings
  BY ComposerTypes
<1>3. receipted' \subseteq 1..MaxKeys
  BY ComposerTypes, ComposerFacts DEF Numbered
<1>4. Chat!TypeOK'
  BY <1>1, <1>2, <1>3 DEF ComposerInv, Chat!TypeOK
<1>5. Numbered'
  <2>1. \A r \in orphans' : AsMade(r)
    BY DEF ComposerInv, Numbered
  <2>2. \A v \in waits' : AsMade(v.request)
    BY DEF ComposerInv, Numbered
  <2> QED BY <1>1, <2>1, <2>2 DEF ComposerInv, Numbered, AsMade
<1>6. UnsettledOK' /\ ScreenOK'
  BY <1>1 DEF ComposerInv, UnsettledOK, ScreenOK
<1>7. EnteredOK'
  BY <1>1 DEF ComposerInv, EnteredOK, Taken, Chat!Restored
<1> QED BY <1>1, <1>4, <1>5, <1>6, <1>7 DEF ComposerInv

LEMMA ServerKeeps ==
  ASSUME ComposerInv,
         \/ \E w \in waits : Chat!Taken(w) \/ Chat!AnswerLost(w)
         \/ \E r \in orphans : Chat!OrphanTaken(r)
  PROVE  ComposerInv'
<1> USE DEF Chat!serverVars, Chat!tabVars, Chat!sendVars, Chat!viewVars
<1>1. ASSUME NEW w \in waits, Chat!Taken(w) PROVE ComposerInv'
  <2>1. PICK a \in {"401", "503", "409", "ok"} :
          Chat!Handles(w.request, a) /\ waits' = (waits \ {w}) \cup {[w EXCEPT !.answer = a]}
    BY <1>1 DEF Chat!Taken
  <2>2. ServerSide /\ orphans' = orphans
    BY <1>1 DEF Chat!Taken, ServerSide
  <2>3. w.request \in Chat!Sendings /\ AsMade(w.request)
    BY ComposerTypes DEF Numbered
  <2>4. /\ session' \in Chat!Row /\ receipted' \subseteq 1..Len(made) /\ receipted \subseteq receipted'
        /\ Versioned' /\ faults' \in 0..MaxFaults /\ (a = "ok" => w.request.key \in receipted')
    BY <2>1, <2>3, HandlesOK
  <2>5. PICK u : u = [w EXCEPT !.answer = a]
    OBVIOUS
  <2>6. /\ waits' \subseteq Chat!Waits /\ WaitsOK'
        /\ \A v \in waits' : \E o \in waits : v.request = o.request
    <3>1. a \in Chat!Answers /\ waits' = (waits \ {w}) \cup {u}
      BY <2>1, <2>5 DEF Chat!Answers
    <3> QED BY <2>2, <2>4, <2>5, <3>1, WaitMoves DEF ServerSide
  <2> QED BY <2>2, <2>4, <2>6, ServerSideKeeps
<1>2. ASSUME NEW r \in orphans, Chat!OrphanTaken(r) PROVE ComposerInv'
  <2>1. PICK a \in {"401", "503", "409", "ok"} : Chat!Handles(r, a)
    BY <1>2 DEF Chat!OrphanTaken
  <2>2. ServerSide /\ orphans' = orphans \ {r} /\ waits' = waits
    BY <1>2 DEF Chat!OrphanTaken, ServerSide
  <2>3. r \in Chat!Sendings /\ AsMade(r)
    BY ComposerTypes DEF Numbered
  <2>4. /\ session' \in Chat!Row /\ receipted' \subseteq 1..Len(made) /\ receipted \subseteq receipted'
        /\ Versioned' /\ faults' \in 0..MaxFaults
    BY <2>1, <2>3, HandlesOK
  <2>5. screen' = screen /\ known' = known /\ settled' = settled
    BY <2>2 DEF ServerSide
  <2>6. WaitsOK'
    BY <2>2, <2>4, <2>5 DEF ComposerInv, WaitsOK, WaitOK
  <2>7. waits' \subseteq Chat!Waits
    BY <2>2, ComposerTypes
  <2> QED BY <2>2, <2>4, <2>6, <2>7, ServerSideKeeps
<1>3. ASSUME NEW w \in waits, Chat!AnswerLost(w) PROVE ComposerInv'
  <2>1. PICK u : u = [w EXCEPT !.answer = "lost"]
    OBVIOUS
  <2>2. /\ waits' = (waits \ {w}) \cup {u}
        /\ orphans' = IF w.answer = "waiting" THEN orphans \cup {w.request} ELSE orphans
        /\ faults < MaxFaults /\ faults' = faults + 1
    BY <1>3, <2>1 DEF Chat!AnswerLost
  <2>3. ServerSide /\ session' = session /\ receipted' = receipted
    BY <1>3 DEF Chat!AnswerLost, ServerSide
  <2>4. faults' \in 0..MaxFaults
    BY <2>2, ComposerTypes, ComposerFacts
  <2>5. session' \in Chat!Row /\ receipted' \subseteq 1..Len(made) /\ Versioned'
    BY <2>3, ComposerTypes DEF ComposerInv, Versioned, Numbered
  <2>6. /\ waits' \subseteq Chat!Waits /\ WaitsOK'
        /\ \A v \in waits' : \E o \in waits : v.request = o.request
    <3>1. "lost" \in Chat!Answers
      BY DEF Chat!Answers
    <3> QED BY <2>1, <2>2, <2>3, <3>1, WaitMoves DEF ServerSide
  <2>7. \A r \in orphans' : r \in orphans \/ \E o \in waits : r = o.request
    BY <2>2
  <2> QED BY <2>3, <2>4, <2>5, <2>6, <2>7, ServerSideKeeps
<1> QED BY <1>1, <1>2, <1>3

-----------------------------------------------------------------------------
(* Composers open and close.                                               *)

LEMMA OpenScreenKeeps ==
  ASSUME ComposerInv, Chat!OpenScreen
  PROVE  ComposerInv'
<1> USE DEF Chat!serverVars, Chat!tabVars, Chat!sendVars, Chat!viewVars
<1> DEFINE n == screen.id + 1
           text == Chat!Restored
           next == [on |-> TRUE, id |-> n, pending |-> stored, text |-> text]
           seen == IF stored = Unasked THEN {} ELSE {stored.key}
<1>1. /\ session' = session /\ receipted' = receipted /\ signedIn' = signedIn
      /\ stored' = stored /\ draft' = draft /\ waits' = waits /\ orphans' = orphans /\ made' = made
      /\ settled' = settled /\ entered' = entered /\ twice' = twice /\ edits' = edits /\ faults' = faults
      /\ view' = session /\ loads' = {} /\ timer' = session.running
      /\ screen' = next /\ known' = [known EXCEPT ![n] = seen]
      /\ ~screen.on /\ screen.id < MaxScreens
  BY DEF Chat!OpenScreen, Unasked
<1>2. n \in 1..MaxScreens /\ n \in 0..MaxScreens
  BY <1>1, ComposerTypes, ComposerFacts
<1>3. text \in Questions \cup {Chat!Empty}
  BY ComposerTypes, ComposerFacts DEF Chat!Restored
<1>4. seen \subseteq 1..Len(made) /\ seen \subseteq 1..MaxKeys
  BY ComposerTypes, ComposerFacts DEF Numbered, AsMade
<1> HIDE DEF n, text, seen
<1>5. screen'.on /\ screen'.id = n /\ screen'.pending = stored /\ screen'.text = text
  BY <1>1
<1>6. screen' \in Chat!Screens
  BY <1>1, <1>2, <1>3, ComposerTypes DEF Chat!Screens, Chat!Pendings, Unasked
<1>7. /\ known' \in [1..MaxScreens -> SUBSET (1..MaxKeys)] /\ known'[n] = seen
      /\ \A i \in 1..MaxScreens : i # n => known'[i] = known[i]
  BY <1>1, <1>2, <1>4, ComposerTypes
<1>8. Chat!TypeOK'
  <2>1. session.running \in BOOLEAN
    BY ComposerTypes DEF Chat!Row
  <2> QED BY <1>1, <1>6, <1>7, <2>1 DEF ComposerInv, Chat!TypeOK
<1>9. Numbered'
  <2>1. \A i \in 1..MaxScreens : known'[i] \subseteq 1..Len(made)
    BY <1>4, <1>7, ComposerTypes DEF Numbered
  <2> QED BY <1>1, <1>5, <2>1 DEF ComposerInv, Numbered, AsMade
<1>10. Versioned' /\ UnsettledOK'
  BY <1>1, <1>5 DEF ComposerInv, Versioned, UnsettledOK
<1>11. ScreenOK'
  <2>1. stored # Unasked => stored.key \in seen
    BY DEF seen
  <2> QED BY <1>1, <1>2, <1>5, <1>7, <2>1, ComposerTypes DEF ScreenOK
<1>12. WaitsOK'
  <2>1. \A w \in waits : WaitOK(w)'
    <3> TAKE w \in waits
    <3>1. WaitOK(w) /\ w.id \in 1..MaxScreens /\ screen.id \in 0..MaxScreens
      BY ComposerTypes DEF ComposerInv, WaitsOK
    <3>2. w.id <= n /\ w.id # n
      BY <3>1, ComposerFacts DEF WaitOK, n
    <3> QED BY <1>1, <1>5, <1>7, <3>1, <3>2 DEF WaitOK
  <2> QED BY <1>1, <2>1 DEF ComposerInv, WaitsOK
<1>13. EnteredOK'
  BY <1>1, <1>5 DEF ComposerInv, EnteredOK, Taken, Chat!Restored, text
<1> QED BY <1>1, <1>8, <1>9, <1>10, <1>11, <1>12, <1>13 DEF ComposerInv

(* No composer is open any more; what is stored stays.                     *)
LEMMA LeavingKeeps ==
  ASSUME ComposerInv, Chat!CloseScreen \/ Chat!PageLoads
  PROVE  ComposerInv'
<1> USE DEF Chat!serverVars, Chat!tabVars, Chat!sendVars, Chat!viewVars
<1> DEFINE left == { w.request : w \in { v \in waits : v.answer = "waiting" } }
<1>1. /\ session' = session /\ receipted' = receipted /\ signedIn' \in BOOLEAN
      /\ stored' = stored /\ draft' = draft /\ made' = made /\ known' = known
      /\ settled' = settled /\ entered' = entered /\ twice' = twice /\ edits' = edits /\ faults' = faults
      /\ view' = Chat!NoView /\ loads' = {} /\ timer' = FALSE
      /\ screen' = [screen EXCEPT !.on = FALSE, !.pending = Chat!NoRequest, !.text = Chat!Empty]
      /\ \/ waits' = waits /\ orphans' = orphans
         \/ waits' = {} /\ orphans' = orphans \cup left
  BY ComposerTypes DEF Chat!CloseScreen, Chat!PageLoads
<1>2. screen' \in Chat!Screens /\ ~screen'.on /\ screen'.id = screen.id /\ screen'.pending = Unasked
  BY <1>1, ComposerTypes DEF Chat!Screens, Chat!Pendings, Unasked
<1>3. waits' \subseteq waits /\ orphans' \subseteq orphans \cup left
  BY <1>1
<1>4. left \subseteq Chat!Sendings /\ \A r \in left : AsMade(r)
  BY ComposerTypes DEF Numbered
<1> HIDE DEF left
<1>5. Chat!TypeOK'
  BY <1>1, <1>2, <1>3, <1>4 DEF ComposerInv, Chat!TypeOK
<1>6. Numbered'
  BY <1>1, <1>2, <1>3, <1>4 DEF ComposerInv, Numbered, AsMade
<1>7. Versioned' /\ UnsettledOK' /\ ScreenOK'
  BY <1>1, <1>2 DEF ComposerInv, Versioned, UnsettledOK, ScreenOK
<1>8. WaitsOK'
  BY <1>1, <1>2, <1>3 DEF ComposerInv, WaitsOK, WaitOK
<1>9. EnteredOK'
  BY <1>1, <1>2 DEF ComposerInv, EnteredOK, Taken, Chat!Restored
<1> QED BY <1>1, <1>5, <1>6, <1>7, <1>8, <1>9 DEF ComposerInv

LEMMA LogoutKeeps ==
  ASSUME ComposerInv, Chat!Logout
  PROVE  ComposerInv'
<1> USE DEF Chat!serverVars, Chat!tabVars, Chat!sendVars, Chat!viewVars
<1>1. /\ session' = session /\ receipted' = receipted /\ signedIn' = FALSE
      /\ stored' = Unasked /\ draft' = Chat!NoDraft /\ made' = made /\ known' = known
      /\ settled' = DOMAIN made /\ entered' = Chat!Empty /\ twice' = twice /\ edits' = edits /\ faults' = faults
      /\ view' = Chat!NoView /\ loads' = {} /\ timer' = FALSE
      /\ screen' = [screen EXCEPT !.on = FALSE, !.pending = Chat!NoRequest, !.text = Chat!Empty]
      /\ waits' = waits /\ orphans' = orphans
  BY DEF Chat!Logout, Unasked
<1>2. screen' \in Chat!Screens /\ ~screen'.on /\ screen'.id = screen.id /\ screen'.pending = Unasked
  BY <1>1, ComposerTypes DEF Chat!Screens, Chat!Pendings, Unasked
<1>3. settled' = 1..Len(made) /\ Len(made) \in Nat /\ Len(made) <= MaxKeys /\ MaxKeys \in Nat
  BY <1>1, ComposerTypes, ComposerFacts DEF Numbered
<1>4. Chat!TypeOK'
  <2>1. settled' \subseteq 1..MaxKeys
    BY <1>3
  <2> QED BY <1>1, <1>2, <2>1 DEF ComposerInv, Chat!TypeOK, Chat!Pendings, Unasked
<1>5. Numbered'
  BY <1>1, <1>2 DEF ComposerInv, Numbered, AsMade
<1>6. Versioned' /\ UnsettledOK' /\ ScreenOK'
  BY <1>1, <1>2, <1>3 DEF ComposerInv, Versioned, UnsettledOK, ScreenOK
<1>7. WaitsOK'
  <2>1. \A w \in waits : known[w.id] \subseteq 1..Len(made)
    BY ComposerTypes DEF Numbered
  <2> QED BY <1>1, <1>2, <1>3, <2>1 DEF ComposerInv, WaitsOK, WaitOK
<1>8. EnteredOK'
  BY <1>1, <1>2, ComposerFacts DEF EnteredOK, Chat!Restored
<1> QED BY <1>1, <1>4, <1>5, <1>6, <1>7, <1>8 DEF ComposerInv

-----------------------------------------------------------------------------
(* Typing, sending and hearing.                                            *)

LEMMA EnterKeeps ==
  ASSUME ComposerInv, NEW x \in Questions \cup {Chat!Empty}, Chat!Enter(x)
  PROVE  ComposerInv'
<1> USE DEF Chat!serverVars, Chat!tabVars, Chat!sendVars, Chat!viewVars
<1>1. /\ session' = session /\ receipted' = receipted /\ signedIn' = signedIn
      /\ stored' = stored /\ made' = made /\ known' = known
      /\ settled' = settled /\ entered' = x /\ twice' = twice /\ faults' = faults
      /\ view' = view /\ loads' = loads /\ timer' = timer
      /\ screen' = [screen EXCEPT !.text = x] /\ screen.on
      /\ waits' = waits /\ orphans' = orphans
      /\ draft' = IF x = Chat!Empty /\ screen.pending = Unasked THEN Chat!NoDraft ELSE x
      /\ edits < MaxEntered /\ edits' = edits + 1
  BY DEF Chat!Enter, Chat!SaveDraft, Unasked
<1>2. /\ screen' \in Chat!Screens /\ screen'.on = screen.on /\ screen'.id = screen.id
      /\ screen'.pending = screen.pending /\ screen'.text = x
  BY <1>1, ComposerTypes DEF Chat!Screens
<1>3. Chat!TypeOK'
  <2>1. edits' \in 0..MaxEntered
    BY <1>1, ComposerTypes, ComposerFacts
  <2>2. draft' \in Questions \cup {Chat!Empty, Chat!NoDraft}
    BY <1>1
  <2> QED BY <1>1, <1>2, <2>1, <2>2 DEF ComposerInv, Chat!TypeOK
<1>4. Numbered' /\ Versioned' /\ UnsettledOK' /\ ScreenOK'
  BY <1>1, <1>2 DEF ComposerInv, Numbered, AsMade, Versioned, UnsettledOK, ScreenOK
<1>5. WaitsOK'
  BY <1>1, <1>2 DEF ComposerInv, WaitsOK, WaitOK
<1>6. EnteredOK'
  <2>1. CASE x = Chat!Empty /\ screen.pending = Unasked
    <3>1. stored = Unasked
      BY <1>1, <2>1 DEF ComposerInv, ScreenOK
    <3>2. draft' = Chat!NoDraft /\ Unasked.text = Chat!Empty
      BY <1>1, <2>1, ComposerFacts
    <3> QED BY <1>1, <1>2, <2>1, <3>1, <3>2 DEF EnteredOK, Chat!Restored
  <2>2. CASE ~(x = Chat!Empty /\ screen.pending = Unasked)
    <3>1. draft' = x
      BY <1>1, <2>2
    <3>2. x # Chat!NoDraft
      BY ComposerFacts
    <3> QED BY <1>1, <1>2, <3>1, <3>2 DEF EnteredOK, Chat!Restored
  <2> QED BY <2>1, <2>2
<1> QED BY <1>1, <1>3, <1>4, <1>5, <1>6 DEF ComposerInv

(* What is sent: the request pending, or one of a new key; every other key *)
(* is settled by then.                                                     *)
SendsOne(r) ==
  /\ r \in Chat!Sendings /\ r.text = screen.text
  /\ made' \in Seq(Chat!Sendings) /\ Len(made') \in Nat /\ Len(made') >= Len(made)
  /\ Len(made') <= MaxKeys
  /\ \A k \in 1..Len(made) : made'[k] = made[k]
  /\ \A k \in 1..Len(made') : made'[k].key = k
  /\ r.key \in 1..Len(made') /\ made'[r.key] = r
  /\ settled \subseteq settled' /\ settled' \subseteq 1..MaxKeys
  /\ \A k \in 1..Len(made') : k = r.key \/ k \in settled'
  /\ stored' = r /\ ~twice'

LEMMA SubmitSends ==
  ASSUME ComposerInv, NEW r, NEW retry \in BOOLEAN,
         screen.on, retry => screen.pending # Unasked /\ screen.pending.text = screen.text,
         ~retry => screen.pending = Unasked \/ screen.pending.text # screen.text,
         r = Chat!Request(retry), retry \/ Len(made) < MaxKeys, screen.text # Chat!Empty,
         stored' = Chat!Saved(r, known[screen.id]),
         made' = IF retry THEN made ELSE Append(made, r),
         settled' = IF retry \/ screen.pending = Unasked THEN settled
                    ELSE settled \cup {screen.pending.key},
         twice' = (twice \/ (~retry /\ \E k \in DOMAIN made : made[k].text = r.text /\ Chat!UnderWay(k)))
  PROVE  SendsOne(r)
<1>1. /\ made \in Seq(Chat!Sendings) /\ Len(made) \in Nat /\ Len(made) <= MaxKeys /\ MaxKeys \in Nat
      /\ \A k \in 1..Len(made) : made[k].key = k
  BY ComposerTypes, ComposerFacts DEF Numbered
<1>2. /\ stored \in {Unasked, screen.pending}
      /\ screen.pending # Unasked => screen.pending.key \in known[screen.id] /\ AsMade(screen.pending)
      /\ screen.pending = Unasked \/ screen.pending \in Chat!Sendings
  BY ComposerTypes DEF ComposerInv, ScreenOK, Numbered
<1>3. stored' = r
  <2>1. stored = Unasked \/ stored.key \in known[screen.id]
    BY <1>2
  <2> QED BY <2>1 DEF Chat!Saved, Unasked
<1>4. \A k \in 1..Len(made) : k \in settled \/ (screen.pending # Unasked /\ screen.pending.key = k)
  <2> TAKE k \in 1..Len(made)
  <2>1. k # 0
    OBVIOUS
  <2>2. k \in settled \/ screen.pending.key = k
    BY DEF ComposerInv, UnsettledOK
  <2> QED BY <2>1, <2>2, ComposerFacts
<1>5. CASE retry
  <2>1. r = screen.pending /\ made' = made /\ settled' = settled
    BY <1>5 DEF Chat!Request
  <2>2. r \in Chat!Sendings /\ AsMade(r) /\ r.text = screen.text
    BY <1>2, <1>5, <2>1
  <2>3. ~twice'
    BY <1>5 DEF ComposerInv
  <2>4. \A k \in 1..Len(made) : k = r.key \/ k \in settled'
    BY <1>4, <2>1
  <2> QED BY <1>1, <1>3, <2>1, <2>2, <2>3, <2>4, ComposerTypes DEF SendsOne, AsMade
<1>6. CASE ~retry
  <2>1. /\ r = [key |-> Len(made) + 1, text |-> screen.text, version |-> view.version]
        /\ made' = Append(made, r) /\ Len(made) < MaxKeys
    BY <1>6 DEF Chat!Request
  <2>2. view.version \in 1..(2 * MaxKeys + 1) /\ screen.text \in Questions
    BY ComposerTypes DEF ComposerInv, ScreenOK, Chat!Row
  <2>3. Len(made) + 1 \in 1..MaxKeys
    BY <1>1, <2>1
  <2>4. r \in Chat!Sendings /\ r.text = screen.text /\ r.key = Len(made) + 1
    BY <2>1, <2>2, <2>3 DEF Chat!Sendings
  <2>5. /\ made' \in Seq(Chat!Sendings) /\ Len(made') = Len(made) + 1 /\ made'[Len(made) + 1] = r
        /\ \A k \in 1..Len(made) : made'[k] = made[k]
    BY <1>1, <2>1, <2>4
  <2>6. settled \subseteq settled' /\ settled' \subseteq 1..MaxKeys
    BY <1>2, <1>6, ComposerTypes, ComposerFacts
  <2>7. \A k \in 1..Len(made) : k \in settled'
    BY <1>4, <1>6
  <2>8. \A k \in 1..Len(made') : k \in 1..Len(made) \/ k = Len(made) + 1
    BY <1>1, <2>5
  <2>9. ~twice'
    <3> SUFFICES ASSUME NEW k \in DOMAIN made, made[k].text = r.text, Chat!UnderWay(k)
                 PROVE  FALSE
      BY DEF ComposerInv
    <3>1. k \in 1..Len(made) /\ k \notin settled
      BY <1>1 DEF Chat!UnderWay
    <3>2. screen.pending # Unasked /\ screen.pending.key = k
      BY <1>4, <3>1
    <3>3. made[k] = screen.pending
      BY <1>2, <3>2 DEF AsMade
    <3> QED BY <1>6, <2>4, <3>2, <3>3
  <2> QED BY <1>1, <1>3, <2>3, <2>4, <2>5, <2>6, <2>7, <2>8, <2>9 DEF SendsOne
<1> QED BY <1>5, <1>6

LEMMA SubmitKeeps ==
  ASSUME ComposerInv, Chat!Submit
  PROVE  ComposerInv'
<1> USE DEF Chat!serverVars, Chat!tabVars, Chat!sendVars, Chat!viewVars
<1> DEFINE i == screen.id
<1>1. PICK retry \in BOOLEAN : retry = (screen.pending # Unasked /\ screen.pending.text = screen.text)
  OBVIOUS
<1>2. PICK r : r = Chat!Request(retry)
  OBVIOUS
<1>3. PICK n : n = [request |-> r, retry |-> retry, id |-> i, answer |-> "waiting"]
  OBVIOUS
<1>4. /\ session' = session /\ receipted' = receipted /\ signedIn' = signedIn
      /\ draft' = draft /\ view' = view /\ loads' = loads /\ timer' = timer
      /\ orphans' = orphans /\ entered' = entered /\ edits' = edits /\ faults' = faults
      /\ screen.on /\ screen.text # Chat!Empty /\ \A w \in waits : w.id # i
  BY DEF Chat!Submit
<1>5. /\ retry \/ Len(made) < MaxKeys
      /\ known' = [known EXCEPT ![i] = known[i] \cup {r.key}]
      /\ stored' = Chat!Saved(r, known[i])
      /\ screen' = [screen EXCEPT !.pending = r]
      /\ waits' = waits \cup {n}
      /\ made' = (IF retry THEN made ELSE Append(made, r))
      /\ settled' = (IF retry \/ screen.pending = Unasked THEN settled
                     ELSE settled \cup {screen.pending.key})
      /\ twice' = (twice \/ (~retry /\ \E k \in DOMAIN made : made[k].text = r.text /\ Chat!UnderWay(k)))
  BY <1>1, <1>2, <1>3 DEF Chat!Submit, Unasked
<1>6. SendsOne(r)
  BY <1>1, <1>2, <1>4, <1>5, SubmitSends
<1>7. i \in 1..MaxScreens
  BY <1>4 DEF ComposerInv, ScreenOK
<1>8. /\ r \in Chat!Sendings /\ r.key \in 1..MaxKeys /\ r # Unasked /\ r.key \in 1..Len(made')
      /\ r.text = screen.text
  BY <1>6, ComposerFacts DEF SendsOne
<1> HIDE DEF i
<1>9. /\ screen' \in Chat!Screens /\ screen'.on = screen.on /\ screen'.id = i
      /\ screen'.pending = r /\ screen'.text = screen.text
  BY <1>5, <1>8, ComposerTypes DEF Chat!Screens, Chat!Pendings, i
<1>10. /\ known' \in [1..MaxScreens -> SUBSET (1..MaxKeys)] /\ known'[i] = known[i] \cup {r.key}
       /\ \A j \in 1..MaxScreens : j # i => known'[j] = known[j]
  BY <1>5, <1>7, <1>8, ComposerTypes
<1>11. /\ n \in Chat!Waits /\ n.request = r /\ n.id = i /\ n.answer = "waiting"
  <2>1. "waiting" \in Chat!Answers
    BY DEF Chat!Answers
  <2> QED BY <1>3, <1>7, <1>8, <2>1 DEF Chat!Waits
<1>12. Chat!TypeOK'
  <2>1. made' \in Seq(Chat!Sendings) /\ settled' \subseteq 1..MaxKeys /\ stored' = r /\ twice' = FALSE
    BY <1>5, <1>6, ComposerTypes DEF SendsOne
  <2>2. waits' \subseteq Chat!Waits
    BY <1>5, <1>11, ComposerTypes
  <2> QED BY <1>4, <1>8, <1>9, <1>10, <2>1, <2>2 DEF ComposerInv, Chat!TypeOK, Chat!Pendings
<1>13. Len(made) \in Nat /\ \A k \in 1..Len(made) : k \in 1..Len(made')
  BY <1>6, ComposerTypes DEF SendsOne
<1>14. \A q : AsMade(q) => AsMade(q)'
  BY <1>6, <1>13 DEF SendsOne, AsMade
<1>15. AsMade(r)'
  BY <1>6 DEF SendsOne, AsMade
<1>16. Numbered'
  <2>1. receipted' \subseteq 1..Len(made')
    BY <1>4, <1>13, ComposerTypes DEF Numbered
  <2>2. \A q \in orphans' : AsMade(q)'
    BY <1>4, <1>14, ComposerTypes DEF Numbered
  <2>3. \A w \in waits' : AsMade(w.request)'
    BY <1>5, <1>11, <1>14, <1>15, ComposerTypes DEF Numbered
  <2>4. \A j \in 1..MaxScreens : known'[j] \subseteq 1..Len(made')
    BY <1>8, <1>10, <1>13, ComposerTypes DEF Numbered
  <2>5. stored' = r /\ Len(made') <= MaxKeys /\ \A k \in 1..Len(made') : made'[k].key = k
    BY <1>6 DEF SendsOne
  <2>6. AsMade(stored)' /\ AsMade(screen.pending)'
    BY <1>9, <1>15, <2>5 DEF AsMade
  <2> QED BY <2>1, <2>2, <2>3, <2>4, <2>5, <2>6 DEF Numbered
<1>17. Versioned'
  BY <1>4 DEF ComposerInv, Versioned
<1>18. ScreenOK'
  BY <1>4, <1>6, <1>7, <1>9, <1>10 DEF ComposerInv, ScreenOK, SendsOne
<1>19. \A k \in 1..Len(made') : k = r.key \/ k \in settled'
  BY <1>6 DEF SendsOne
<1>20. WaitsOK'
  <2>1. \A w \in waits : WaitOK(w)'
    <3> TAKE w \in waits
    <3>1. WaitOK(w) /\ w.id \in 1..MaxScreens /\ w.id # i
      BY <1>4, ComposerTypes DEF ComposerInv, WaitsOK
    <3>2. known'[w.id] = known[w.id] /\ settled \subseteq settled' /\ screen'.id = screen.id
      BY <1>6, <1>9, <1>10, <3>1 DEF SendsOne, i
    <3> QED BY <1>4, <1>9, <3>1, <3>2 DEF WaitOK
  <2>2. WaitOK(n)'
    <3>1. \A k \in known'[i] : k = r.key \/ k \in settled'
      <4>1. \A k \in known[i] : k \in 1..Len(made')
        BY <1>7, <1>13, ComposerTypes DEF Numbered
      <4> QED BY <1>10, <1>19, <4>1
    <3>2. i <= i
      BY <1>7
    <3> QED BY <1>9, <1>11, <3>1, <3>2 DEF WaitOK
  <2>3. \A w, v \in waits' : w.id = v.id => w = v
    BY <1>4, <1>5, <1>11 DEF ComposerInv, WaitsOK
  <2> QED BY <1>5, <2>1, <2>2, <2>3 DEF WaitsOK
<1>21. UnsettledOK'
  BY <1>6, <1>9, <1>19 DEF UnsettledOK, SendsOne
<1>22. EnteredOK'
  <2>1. CASE Taken
    <3>1. PICK k \in receipted : made[k].text = entered
      BY <2>1 DEF Taken
    <3>2. k \in 1..Len(made)
      BY ComposerTypes DEF Numbered
    <3>3. made'[k] = made[k]
      BY <1>6, <3>2 DEF SendsOne
    <3> QED BY <1>4, <3>1, <3>3 DEF EnteredOK, Taken
  <2>2. CASE ~Taken
    <3>1. /\ entered = Chat!Restored /\ screen.text = entered
          /\ draft = Chat!NoDraft => stored = Unasked
      BY <1>4, <2>2 DEF ComposerInv, EnteredOK
    <3>2. draft # Chat!NoDraft
      BY <1>4, <3>1, ComposerFacts DEF Chat!Restored
    <3> QED BY <1>4, <1>9, <3>1, <3>2 DEF EnteredOK, Chat!Restored
  <2> QED BY <2>1, <2>2
<1>23. ~twice'
  BY <1>6 DEF SendsOne
<1> QED BY <1>12, <1>16, <1>17, <1>18, <1>20, <1>21, <1>22, <1>23 DEF ComposerInv

(* An answer arrives: what it settles leaves the storage and the screen,   *)
(* and only a taken question empties the input.                            *)
LEMMA ArrivesKeeps ==
  ASSUME ComposerInv, NEW w \in waits, Chat!Arrives(w)
  PROVE  ComposerInv'
<1> USE DEF Chat!serverVars, Chat!tabVars, Chat!sendVars, Chat!viewVars
<1> DEFINE key == w.request.key
<1>1. PICK here \in BOOLEAN : here = (screen.on /\ w.id = screen.id)
  OBVIOUS
<1>2. PICK done \in BOOLEAN : done <=> Chat!Settles(w)
  OBVIOUS
<1>3. PICK p : p = IF done THEN Unasked ELSE screen.pending
  OBVIOUS
<1>4. PICK x : x = IF Chat!Empties(w) THEN Chat!Empty ELSE screen.text
  OBVIOUS
<1>5. /\ session' = session /\ receipted' = receipted /\ signedIn' = signedIn
      /\ known' = known /\ made' = made /\ orphans' = orphans
      /\ entered' = entered /\ twice' = twice /\ edits' = edits /\ faults' = faults
      /\ view' = view /\ timer' = timer /\ waits' = waits \ {w}
      /\ loads' = (IF here THEN Chat!Reloading ELSE loads)
  BY <1>1 DEF Chat!Arrives
<1>6. /\ stored' = (IF done /\ stored # Unasked /\ stored.key \in known[w.id] THEN Unasked ELSE stored)
      /\ draft' = (IF Chat!Empties(w) \/ Chat!DropsDraft(w) THEN Chat!NoDraft ELSE draft)
  BY <1>2 DEF Chat!Arrives, Chat!Removes, Unasked
<1>7. screen' = IF here THEN [screen EXCEPT !.pending = p, !.text = x] ELSE screen
  BY <1>1, <1>2, <1>3, <1>4 DEF Chat!Arrives, Unasked
<1>8. settled' = IF done THEN settled \cup {key} ELSE settled
  <2>1. w.answer \in {"ok", "409"} => w.answer # "lost"
    OBVIOUS
  <2>2. done <=> (w.answer \in {"ok", "409"} \/ (~w.retry /\ w.answer # "lost"))
    BY <1>2, <2>1 DEF Chat!Settles
  <2> QED BY <2>2 DEF Chat!Arrives
<1>9. /\ w.request \in Chat!Sendings /\ AsMade(w.request) /\ key \in 1..MaxKeys
      /\ w.request.text \in Questions /\ WaitOK(w) /\ w.id \in 1..MaxScreens
  BY ComposerTypes, ComposerFacts DEF Numbered, ComposerInv, WaitsOK
<1>10. here => screen.pending = w.request
  BY <1>1, <1>9 DEF WaitOK
<1>11. /\ screen' \in Chat!Screens /\ screen'.on = screen.on /\ screen'.id = screen.id
       /\ screen'.pending = IF here THEN p ELSE screen.pending
       /\ screen'.text = IF here THEN x ELSE screen.text
  <2>1. p \in Chat!Pendings /\ x \in Questions \cup {Chat!Empty}
    BY <1>3, <1>4, ComposerTypes DEF Chat!Pendings, Unasked
  <2>2. CASE here
    <3> DEFINE s1 == [screen EXCEPT !.pending = p]
               s2 == [s1 EXCEPT !.text = x]
    <3>1. s1 \in Chat!Screens /\ s1.on = screen.on /\ s1.id = screen.id /\ s1.pending = p
      BY <2>1, ComposerTypes DEF Chat!Screens
    <3>2. screen' = s2
      BY <1>7, <2>2, ComposerTypes DEF Chat!Screens
    <3> HIDE DEF s1
    <3> QED BY <2>1, <2>2, <3>1, <3>2 DEF Chat!Screens
  <2>3. CASE ~here
    BY <1>7, <2>3, ComposerTypes
  <2> QED BY <2>2, <2>3
<1>12. stored' = Unasked \/ stored' = stored
  BY <1>6
<1>13. Chat!TypeOK'
  <2>1. loads' \subseteq Chat!Loads
    BY <1>5, ReloadingIs, ComposerTypes
  <2>2. settled' \subseteq 1..MaxKeys
    BY <1>8, <1>9, ComposerTypes
  <2>3. stored' \in Chat!Pendings
    BY <1>12, ComposerTypes DEF Chat!Pendings, Unasked
  <2>4. draft' \in Questions \cup {Chat!Empty, Chat!NoDraft}
    BY <1>6, ComposerTypes
  <2> QED BY <1>5, <1>11, <2>1, <2>2, <2>3, <2>4 DEF ComposerInv, Chat!TypeOK
<1>14. Numbered'
  <2>1. screen'.pending = Unasked \/ screen'.pending = screen.pending
    BY <1>3, <1>11
  <2> QED BY <1>5, <1>12, <2>1 DEF ComposerInv, Numbered, AsMade
<1>15. Versioned'
  BY <1>5 DEF ComposerInv, Versioned
<1>16. ScreenOK'
  <2> SUFFICES ASSUME screen.on
               PROVE  stored' \in {Unasked, screen'.pending}
    BY <1>3, <1>5, <1>11 DEF ComposerInv, ScreenOK
  <2>1. /\ stored \in {Unasked, screen.pending}
        /\ screen.pending # Unasked => screen.pending.key \in known[screen.id]
    BY DEF ComposerInv, ScreenOK
  <2>2. CASE here /\ done
    BY <1>1, <1>6, <2>1, <2>2
  <2>3. CASE ~(here /\ done)
    BY <1>3, <1>11, <1>12, <2>1, <2>3
  <2> QED BY <2>2, <2>3
<1>17. WaitsOK'
  <2>1. ASSUME NEW v \in waits' PROVE WaitOK(v)'
    <3>1. v \in waits /\ WaitOK(v) /\ v.id # w.id
      BY <1>5, <2>1 DEF ComposerInv, WaitsOK
    <3>2. screen.on /\ v.id = screen.id => screen'.pending = screen.pending
      BY <1>1, <1>11, <3>1
    <3> QED BY <1>5, <1>8, <1>11, <3>1, <3>2 DEF WaitOK
  <2> QED BY <1>5, <2>1 DEF ComposerInv, WaitsOK
<1>18. UnsettledOK'
  <2> SUFFICES ASSUME NEW k \in 1..Len(made), k \notin settled'
               PROVE  stored'.key = k /\ (screen'.on => screen'.pending.key = k)
    BY <1>5 DEF UnsettledOK
  <2>1. k \notin settled /\ (done => k # key)
    BY <1>8
  <2>2. stored.key = k /\ (screen.on => screen.pending.key = k)
    BY <2>1 DEF ComposerInv, UnsettledOK
  <2>3. done => k \notin known[w.id]
    BY <1>9, <2>1 DEF WaitOK
  <2>4. stored' = stored
    BY <1>6, <2>2, <2>3
  <2>5. here => ~done
    BY <1>1, <1>10, <2>1, <2>2
  <2> QED BY <1>3, <1>11, <2>2, <2>4, <2>5
<1>19. EnteredOK'
  <2>1. CASE Taken
    BY <1>5, <2>1 DEF EnteredOK, Taken
  <2>2. CASE ~Taken
    <3>1. /\ entered = Chat!Restored /\ (screen.on => screen.text = entered)
          /\ draft = Chat!NoDraft => stored = Unasked
      BY <2>2 DEF ComposerInv, EnteredOK
    <3>2. w.answer = "ok" => w.request.text # entered
      <4>1. w.answer = "ok" => key \in receipted /\ made[key] = w.request
        BY <1>9 DEF WaitOK, AsMade
      <4> QED BY <2>2, <4>1 DEF Taken
    <3>3. ~Chat!Empties(w)
      BY <3>1, <3>2 DEF Chat!Empties
    <3>4. ~Chat!DropsDraft(w)
      BY <1>9, <3>1, <3>2, ComposerFacts DEF Chat!DropsDraft, Chat!Restored
    <3>5. draft' = draft /\ screen'.text = screen.text
      BY <1>4, <1>6, <1>11, <3>3, <3>4
    <3>6. draft = Chat!NoDraft => stored' = stored
      BY <1>12, <3>1
    <3> QED BY <1>5, <1>11, <3>1, <3>5, <3>6 DEF EnteredOK, Chat!Restored
  <2> QED BY <2>1, <2>2
<1> QED BY <1>5, <1>13, <1>14, <1>15, <1>16, <1>17, <1>18, <1>19 DEF ComposerInv

LEMMA ComposerNext ==
  ASSUME ComposerInv, Chat!Next
  PROVE  ComposerInv'
<1>1. CASE Chat!OpenScreen
  BY <1>1, OpenScreenKeeps
<1>2. CASE Chat!CloseScreen \/ Chat!PageLoads
  BY <1>2, LeavingKeeps
<1>3. CASE Chat!SessionExpires \/ Chat!Poll
  BY <1>3, LoadsKeep
<1>4. CASE Chat!Logout
  BY <1>4, LogoutKeeps
<1>5. CASE \E x \in Questions \cup {Chat!Empty} : Chat!Enter(x)
  BY <1>5, EnterKeeps
<1>6. CASE Chat!Submit
  BY <1>6, SubmitKeeps
<1>7. CASE \E w \in waits : Chat!Taken(w) \/ Chat!AnswerLost(w) \/ Chat!Arrives(w)
  BY <1>7, ServerKeeps, ArrivesKeeps
<1>8. CASE \E r \in orphans : Chat!OrphanTaken(r)
  BY <1>8, ServerKeeps
<1>9. CASE Chat!TurnEnds
  BY <1>9, TurnEndsKeeps
<1>10. CASE \E l \in loads : Chat!LoadTaken(l) \/ Chat!LoadFails(l) \/ Chat!LoadArrives(l)
  BY <1>10, LoadsKeep
<1> QED BY <1>1, <1>2, <1>3, <1>4, <1>5, <1>6, <1>7, <1>8, <1>9, <1>10 DEF Chat!Next

(* Whatever else goes on, the composer keeps its invariant.                *)
LEMMA ComposerInvariant == AllSpec => []ComposerInv
<1>1. AllInit => ComposerInv
  BY ComposerInit DEF AllInit
<1>2. ComposerInv /\ [AllNext]_<< part, vars, chatVars >> => ComposerInv'
  <2> SUFFICES ASSUME ComposerInv, AllNext \/ UNCHANGED chatVars PROVE ComposerInv'
    BY DEF chatVars
  <2>1. CASE Chat!Next
    BY <2>1, ComposerNext
  <2>2. CASE UNCHANGED chatVars
    <3>1. ViewOnly /\ signedIn' = signedIn /\ timer' = timer /\ loads' = loads /\ faults' = faults
          /\ view' = view
      BY <2>2 DEF chatVars, ViewOnly
    <3> QED BY <3>1, ComposerTypes, ViewOnlyKeeps
  <2> QED BY <2>1, <2>2 DEF AllNext
<1> QED BY <1>1, <1>2, PTL DEF AllSpec

(* The drafts and the composer are what their types say.                   *)
THEOREM BrowserIsTyped == AllSpec => []AllTypeOK
<1>1. DraftInv /\ ComposerInv => AllTypeOK
  BY DEF DraftInv, ComposerInv, AllTypeOK
<1> QED BY <1>1, DraftInvariant, ComposerInvariant, PTL

(* However a composer is closed, opened again, loaded anew or logged out,  *)
(* and whatever answers are lost or late: a question whose outcome nobody  *)
(* knows is never asked again under a new key, and what was entered last is*)
(* on the screen, or comes back to it, unless it was taken.                *)
THEOREM QuestionsAreKept == AllSpec => []QuestionIsKept
<1>1. ComposerInv => Chat!NoQuestionTwice
  BY DEF ComposerInv, Chat!NoQuestionTwice, Numbered, AsMade, Unasked
<1>2. ComposerInv => Chat!InputSurvives
  BY DEF ComposerInv, EnteredOK, Taken, Chat!InputSurvives
<1> QED BY <1>1, <1>2, ComposerInvariant, PTL DEF QuestionIsKept

-----------------------------------------------------------------------------
(* One editor that is refused nothing.  Where the rows are before its      *)
(* request is applied, and after.                                          *)
Position(x) ==
  IF x.draft = 0 THEN x.rev = 0 /\ Len(rows) = 0
  ELSE x.draft = 1 /\ Len(rows) = 1 /\ rows[1].revision = x.rev

Advanced(x) ==
  /\ Len(rows) = 1 /\ rows[1].revision = x.rev + 1
  /\ receipts[x.idem.key] = Result("ok", 1, x.rev + 1)

(* What it shows is true, and the key it keeps is that of the one request  *)
(* it may repeat: of its draft, at the revision it holds, with the text    *)
(* that is pending.                                                        *)
Repeats(x) ==
  /\ x.idem.request.op = IF x.draft = 0 THEN "create" ELSE "save"
  /\ x.idem.request.id = x.draft /\ x.idem.request.rev = x.rev /\ x.idem.request.base = 1
  /\ x.pending # Nothing => x.pending.text = x.idem.request.text
  /\ x.sent = Nothing => x.pending # Nothing

ScreenTrue(x) ==
  /\ x.status \in {"saved", "clean"} => x.values = x.saved
  /\ x.draft = 0 => x.saved = Initial

WordOf(x) ==
  /\ x.base = 1 /\ x.status \notin {"stopped", "conflict"} /\ ScreenTrue(x)
  /\ x.idem = Nothing => x.pending = Nothing /\ Position(x)
  /\ x.idem # Nothing => Repeats(x) /\ IF Recorded(x.idem.key) THEN Advanced(x) ELSE Position(x)
  /\ x.answer # Nothing => Recorded(x.idem.key) /\ x.answer = receipts[x.idem.key]

(* No request is under way but those of that key and of keys answered.     *)
Late(x, N) ==
  \A m \in N : Recorded(m.sent.key) \/ (x.idem # Nothing /\ m.sent.key = x.idem.key)

WordInv ==
  /\ document = 1 /\ \A n \in 1..Len(rows) : rows[n].state = "active"
  /\ \A t \in Tabs : WordOf(tab[t]) /\ Late(tab[t], net)

(* What the steps of an editor go through.                                 *)
WordFits(x) ==
  /\ x \in Editors /\ WordOf(x) /\ Late(x, net)
  /\ x.sent # Nothing => x.idem # Nothing /\ x.sent.key = x.idem.key
  /\ x.answer # Nothing => x.sent # Nothing

LEMMA WordFacts ==
  ASSUME DraftInv, WordInv, NEW t \in Tabs
  PROVE  /\ WordFits(tab[t]) /\ keys \in Nat
         /\ \A k \in DOMAIN receipts : k \in 1..keys
         /\ \A m \in net : m.live => tab[t].sent # Nothing \/ m.tab # t
<1> PICK asked : Agreed(asked)
  BY DEF DraftInv
<1>1. tab[t] \in Editors /\ WordOf(tab[t]) /\ Late(tab[t], net) /\ keys \in Nat
  BY StepFacts DEF WordInv
<1>2. EditorOK(tab[t], asked) /\ \A k \in DOMAIN receipts : k \in 1..keys
  BY DEF Agreed, ReceiptOK
<1>3. \A m \in net : m.live => tab[t].sent # Nothing \/ m.tab # t
  <2> TAKE m \in net
  <2> HAVE m.live
  <2>1. tab[m.tab].sent = m.sent /\ m.sent \in Sents
    BY StepFacts DEF Agreed, MessageOK
  <2> QED BY <2>1, NothingIsNone
<1> QED BY <1>1, <1>2, <1>3 DEF WordFits, EditorOK, Waits, Heard

(* Typing and timers change neither the request nor what it is about.      *)
SameWord(x, y) ==
  /\ SameTalk(x, y)
  /\ y.draft = x.draft /\ y.rev = x.rev /\ y.saved = x.saved /\ y.base = x.base /\ y.pending = x.pending

LEMMA WordMoves ==
  ASSUME NEW x, WordFits(x), NEW y \in Editors, SameWord(x, y),
         y.status \notin {"stopped", "conflict"},
         y.status \in {"saved", "clean"} => y.values = y.saved
  PROVE  WordFits(y)
<1>1. ScreenTrue(y)
  BY DEF WordFits, WordOf, ScreenTrue, SameWord
<1>2. Position(x) <=> Position(y)
  BY DEF Position, SameWord
<1>3. Advanced(x) <=> Advanced(y)
  BY DEF Advanced, SameWord, SameTalk
<1>4. Repeats(x) <=> Repeats(y)
  BY DEF Repeats, SameWord, SameTalk
<1>5. Late(y, net)
  BY DEF Late, WordFits, SameWord, SameTalk
<1>6. WordOf(y)
  BY <1>1, <1>2, <1>3, <1>4 DEF WordOf, WordFits, SameWord, SameTalk
<1> QED BY <1>5, <1>6 DEF WordFits, SameWord, SameTalk

(* A new tab state, installed.                                             *)
LEMMA BecomeWord ==
  ASSUME WordInv, NEW t, Tabs = {t}, NEW z, WordFits(z), Become(t, z), UNCHANGED Server, tab \in [Tabs -> Editors]
  PROVE  WordInv'
<1>1. rows' = rows /\ receipts' = receipts /\ document' = document
  BY DEF Server
<1>2. tab'[t] = z
  BY DEF Become
<1>3. WordOf(tab[t])'
  BY <1>1, <1>2 DEF WordFits, WordOf, Repeats, ScreenTrue, Position, Advanced, Recorded
<1>4. Late(tab[t], net)'
  <2>1. \A m \in net' : m \in net \/ (m.sent = z.sent /\ z.sent # Nothing)
    BY DEF Become
  <2> QED BY <1>1, <1>2, <2>1 DEF WordFits, Late, Recorded
<1> QED BY <1>1, <1>3, <1>4 DEF WordInv

(* A save sends the pending request again under its key, or what was typed *)
(* under a new one.                                                        *)
LEMMA SaveOnceWord ==
  ASSUME NEW x, WordFits(x), x.sent = Nothing, keys \in Nat, \A k \in DOMAIN receipts : k \in 1..keys
  PROVE  WordFits(SaveOnce(x))
<1> DEFINE q == Attempt(x)
           k == KeyFor(x, q)
           s == [request |-> q, key |-> k, knew |-> x.saved]
           i == IF x.idem # Nothing /\ x.idem.request = q /\ x.idem.key = k THEN x.idem
                ELSE [request |-> q, key |-> k, unconfirmed |-> FALSE]
           y == SaveOnce(x)
<1>1. x \in Editors /\ WordOf(x) /\ Late(x, net) /\ x.answer = Nothing
  BY DEF WordFits
<1>2. CASE x.pending = Nothing /\ x.values = x.saved
  <2>1. y = [x EXCEPT !.status = Shown(x)]
    BY <1>2 DEF SaveOnce
  <2>2. y \in Editors
    BY <1>1, <2>1, EditorSets DEF Shown, Statuses
  <2>3. SameWord(x, y) /\ y.status = Shown(x) /\ y.values = x.values
    BY <1>1, <2>1 DEF Editors, SameWord, SameTalk
  <2>4. y.status \in {"saved", "clean"} /\ y.values = y.saved
    BY <1>2, <2>3 DEF Shown, SameWord
  <2> HIDE DEF y
  <2>5. y.status \notin {"stopped", "conflict"}
    BY <2>4
  <2> QED BY <2>2, <2>3, <2>4, <2>5, WordMoves DEF y
<1>3. CASE ~(x.pending = Nothing /\ x.values = x.saved)
  <2>1. /\ x.base = 1 /\ x.draft \in Nat /\ x.rev \in Nat /\ x.saved \in Texts
        /\ x.idem = Nothing \/ x.idem \in Idems
    BY <1>1, EditorFields DEF WordOf
  <2>2. Body(x) \in Texts
    BY <1>1, EditorFields, NothingIsNone DEF Body
  <2>3. /\ q \in Requests /\ q.op = (IF x.draft = 0 THEN "create" ELSE "save") /\ q.id = x.draft
        /\ q.rev = x.rev /\ q.base = 1 /\ q.text = Body(x)
    BY <2>1, <2>2 DEF Attempt, Requests
  <2>4. x.idem # Nothing => x.idem.request = q
    <3> HAVE x.idem # Nothing
    <3>1. Repeats(x) /\ x.pending # Nothing /\ x.idem.request \in Requests
      BY <1>1, <2>1 DEF WordOf, Repeats, Idems
    <3>2. x.idem.request.text = Body(x)
      BY <3>1 DEF Repeats, Body
    <3> QED BY <2>3, <3>1, <3>2 DEF Repeats, Requests
  <2>5. k = IF x.idem # Nothing THEN x.idem.key ELSE keys + 1
    BY <2>4 DEF KeyFor
  <2>6. k \in Nat
    BY <2>1, <2>5 DEF Idems
  <2>7. y = [x EXCEPT !.status = "saving", !.sent = s, !.idem = i]
    BY <1>3 DEF SaveOnce
  <2> HIDE DEF q, k
  <2>8. s \in Sents /\ s # Nothing /\ s.key = k
    BY <2>1, <2>3, <2>6, NothingIsNone DEF Sents
  <2>9. i \in Idems /\ i # Nothing /\ i.key = k /\ i.request = q
    <3>1. CASE x.idem # Nothing
      BY <2>1, <2>4, <2>5, <3>1
    <3>2. CASE x.idem = Nothing
      <4>1. i = [request |-> q, key |-> k, unconfirmed |-> FALSE]
        BY <3>2
      <4>2. [request |-> q, key |-> k, unconfirmed |-> FALSE] \in Idems
        BY <2>3, <2>6 DEF Idems
      <4>3. i \in Idems /\ i.key = k /\ i.request = q
        BY <4>1, <4>2
      <4> QED BY <4>3, NothingIsNone
    <3> QED BY <3>1, <3>2
  <2> HIDE DEF s, i
  <2>10. /\ y.status = "saving" /\ y.sent = s /\ y.idem = i /\ y.answer = x.answer /\ y.base = x.base
         /\ y.draft = x.draft /\ y.rev = x.rev /\ y.saved = x.saved /\ y.pending = x.pending
    BY <1>1, <2>7 DEF Editors
  <2>11. y \in Editors
    <3> DEFINE y1 == [x EXCEPT !.status = "saving"]
               y2 == [y1 EXCEPT !.sent = s]
    <3>1. y = [y2 EXCEPT !.idem = i]
      BY <1>1, <2>7 DEF Editors
    <3>2. y1 \in Editors
      BY <1>1, EditorSets DEF Statuses
    <3> HIDE DEF y1
    <3>3. y2 \in Editors
      BY <3>2, <2>8, EditorSets DEF Optional
    <3> HIDE DEF y2
    <3> QED BY <3>1, <3>3, <2>9, EditorSets DEF Optional
  <2> HIDE DEF y
  <2>12. Repeats(y)
    <3>1. y.pending # Nothing => y.pending.text = q.text
      BY <2>3, <2>10 DEF Body
    <3> QED BY <2>3, <2>8, <2>9, <2>10, <3>1 DEF Repeats
  <2>13. IF Recorded(y.idem.key) THEN Advanced(y) ELSE Position(y)
    <3>1. CASE x.idem # Nothing
      <4>1. y.idem.key = x.idem.key
        BY <2>5, <2>9, <2>10, <3>1
      <4> QED BY <1>1, <2>10, <3>1, <4>1 DEF WordOf, Advanced, Position
    <3>2. CASE x.idem = Nothing
      <4>1. ~Recorded(y.idem.key)
        BY <2>5, <2>9, <2>10, <3>2 DEF Recorded
      <4>2. Position(y)
        BY <1>1, <2>10, <3>2 DEF WordOf, Position
      <4> QED BY <4>1, <4>2
    <3> QED BY <3>1, <3>2
  <2>14. WordOf(y)
    BY <1>1, <2>9, <2>10, <2>12, <2>13 DEF WordOf, ScreenTrue
  <2>15. Late(y, net)
    BY <1>1, <2>5, <2>9, <2>10 DEF Late
  <2>16. y.sent # Nothing /\ y.idem # Nothing /\ y.sent.key = y.idem.key /\ y.answer = Nothing
    BY <1>1, <2>8, <2>9, <2>10
  <2> QED BY <2>11, <2>14, <2>15, <2>16 DEF WordFits, y
<1> QED BY <1>2, <1>3

LEMMA SavingWord ==
  ASSUME NEW x, WordFits(x), keys \in Nat, \A k \in DOMAIN receipts : k \in 1..keys
  PROVE  WordFits(Saving(x))
<1>1. x \in Editors /\ WordOf(x)
  BY DEF WordFits
<1>2. x.status \notin {"stopped", "conflict"} /\ (x.status \in {"saved", "clean"} => x.values = x.saved) /\ ~Blocked(x)
  BY <1>1 DEF WordOf, ScreenTrue, Blocked
<1>3. CASE InFlight(x)
  <2> DEFINE y == [x EXCEPT !.again = TRUE]
  <2>1. Saving(x) = y
    BY <1>2, <1>3 DEF Saving
  <2>2. y \in Editors
    BY <1>1, EditorSets
  <2>3. SameWord(x, y) /\ y.status = x.status /\ y.values = x.values
    BY <1>1 DEF Editors, SameWord, SameTalk
  <2> HIDE DEF y
  <2> QED BY <1>2, <2>1, <2>2, <2>3, WordMoves DEF SameWord
<1>4. CASE ~InFlight(x)
  <2> DEFINE y == [x EXCEPT !.idle = FALSE, !.max = "off", !.again = FALSE]
  <2>1. Saving(x) = SaveOnce(y)
    BY <1>2, <1>4 DEF Saving
  <2>2. y \in Editors /\ SameWord(x, y) /\ y.status = x.status /\ y.values = x.values
    BY <1>1 DEF Editors, SameWord, SameTalk
  <2> HIDE DEF y
  <2>3. WordFits(y) /\ y.sent = Nothing
    BY <1>2, <1>4, <2>2, WordMoves DEF SameWord, SameTalk, InFlight
  <2> QED BY <2>1, <2>3, SaveOnceWord
<1> QED BY <1>3, <1>4

LEMMA TypeWord ==
  ASSUME DraftInv, WordInv, NEW t, Tabs = {t}, NEW v \in Texts, Type(t, v)
  PROVE  WordInv'
<1> DEFINE x == tab[t]
           y == Typed(x, v)
<1>1. WordFits(x) /\ x \in Editors
  BY WordFacts DEF WordFits
<1>2. x.status \notin {"stopped", "conflict"} /\ ~Blocked(x)
  BY <1>1 DEF WordFits, WordOf, Blocked
<1> HIDE DEF x
<1>3. WordFits(y)
  <2>1. CASE x.saved = v /\ x.pending = Nothing
    <3> DEFINE s == IF x.status \in {"saving", "retrying"} THEN x.status ELSE Shown(x)
    <3>1. y = [x EXCEPT !.values = v, !.idle = FALSE, !.max = "off", !.status = s]
      BY <1>1, <1>2, <2>1 DEF Typed, Editors
    <3>2. s \in Statuses /\ s \notin {"stopped", "conflict"}
      BY DEF Shown, Statuses
    <3> HIDE DEF s
    <3>3. y \in Editors /\ SameWord(x, y) /\ y.status = s /\ y.values = v
      BY <1>1, <3>1, <3>2 DEF Editors, SameWord, SameTalk
    <3>4. y.values = y.saved /\ y.status \notin {"stopped", "conflict"}
      BY <2>1, <3>2, <3>3 DEF SameWord
    <3> HIDE DEF y
    <3>5. WordFits(y)
      BY <1>1, <3>3, <3>4, WordMoves
    <3> QED BY <3>5 DEF y
  <2>2. CASE ~(x.saved = v /\ x.pending = Nothing)
    <3> DEFINE s == IF x.status \in {"saving", "retrying"} THEN x.status ELSE "dirty"
               y1 == [x EXCEPT !.values = v, !.status = s]
               m == IF y1.max = "off" THEN "armed" ELSE y1.max
               y2 == [y1 EXCEPT !.idle = TRUE, !.max = m]
    <3>1. y = Scheduled(y1)
      BY <1>1, <1>2, <2>2 DEF Typed, Editors
    <3>2. s \in Statuses /\ s \notin {"stopped", "conflict", "saved", "clean"}
      BY DEF Statuses
    <3> HIDE DEF s
    <3>3. y1 \in Editors /\ SameWord(x, y1) /\ y1.status = s
      BY <1>1, <3>2 DEF Editors, SameWord, SameTalk
    <3>4. y = y1 \/ y = y2
      BY <3>1 DEF Scheduled
    <3>5. m \in {"off", "armed", "stale"}
      BY <3>3, EditorFields
    <3> HIDE DEF y1, m
    <3>6. y2 \in Editors /\ SameWord(y1, y2) /\ y2.status = s
      BY <3>3, <3>5 DEF Editors, SameWord, SameTalk
    <3>7. SameWord(x, y2)
      BY <3>3, <3>6 DEF SameWord, SameTalk
    <3> HIDE DEF y, y2
    <3>8. y \in Editors /\ SameWord(x, y) /\ y.status = s
      BY <3>3, <3>4, <3>6, <3>7
    <3>9. WordFits(y)
      BY <1>1, <3>2, <3>8, WordMoves
    <3> QED BY <3>9 DEF y
  <2> QED BY <2>1, <2>2
<1>4. Become(t, y) /\ UNCHANGED Server /\ tab \in [Tabs -> Editors]
  BY StepFacts DEF Type, x
<1> HIDE DEF y
<1> QED BY <1>3, <1>4, BecomeWord

LEMMA TimerWord ==
  ASSUME DraftInv, WordInv, NEW t, Tabs = {t}, IdleFires(t) \/ MaxFires(t)
  PROVE  WordInv'
<1> DEFINE x == tab[t]
<1>1. WordFits(x) /\ x \in Editors /\ keys \in Nat /\ \A k \in DOMAIN receipts : k \in 1..keys
  BY WordFacts DEF WordFits
<1>2. x.status \notin {"stopped", "conflict"} /\ (x.status \in {"saved", "clean"} => x.values = x.saved)
  BY <1>1 DEF WordFits, WordOf, ScreenTrue
<1>3. PICK y : /\ y \in {[x EXCEPT !.idle = FALSE], [x EXCEPT !.max = "stale"]}
               /\ Become(t, Saving(y)) /\ UNCHANGED Server
  BY DEF IdleFires, MaxFires
<1>4. y \in Editors /\ SameWord(x, y) /\ y.status = x.status /\ y.values = x.values
  BY <1>1, <1>3 DEF Editors, SameWord, SameTalk
<1>5. WordFits(y)
  BY <1>1, <1>2, <1>4, WordMoves DEF SameWord
<1>6. WordFits(Saving(y))
  BY <1>1, <1>5, SavingWord
<1> QED BY <1>3, <1>6, BecomeWord, StepFacts

(* What arrives is the answer to the kept key, and it is that the text is  *)
(* the next revision.                                                      *)
LEMMA ReceiveWord ==
  ASSUME DraftInv, WordInv, NEW t, Tabs = {t}, Receive(t)
  PROVE  WordInv'
<1> PICK asked : Agreed(asked)
  BY DEF DraftInv
<1> DEFINE x == tab[t]
           q == x.sent.request
           r == x.answer
           c == Concluded(x, r)
<1>1. WordFits(x) /\ x \in Editors /\ keys \in Nat /\ \A k \in DOMAIN receipts : k \in 1..keys
  BY WordFacts DEF WordFits
<1>2. x.sent # Nothing /\ r # Nothing /\ r \in Results
  BY <1>1, EditorFields DEF Receive, InFlight
<1>3. /\ x.idem # Nothing /\ Recorded(x.idem.key) /\ Advanced(x) /\ r = Result("ok", 1, x.rev + 1)
      /\ Late(x, net) /\ x.base = 1
  BY <1>1, <1>2 DEF WordFits, WordOf, Advanced
<1>4. r.kind = "ok" /\ r.id = 1 /\ r.rev = x.rev + 1
  BY <1>3 DEF Result
<1>5. c \in Editors /\ c.sent = Nothing /\ c.answer = Nothing
  <2>1. EditorOK(x, asked)
    BY DEF Agreed
  <2>2. Holds(r.id, r.rev, x.sent.request.text)
    BY <1>2, <1>4, <2>1 DEF EditorOK, Heard
  <2> HIDE DEF x, r
  <2> QED BY <1>1, <1>2, <2>1, <2>2, ConcludedOK
<1>6. Settled(x, "ok") = Nothing
  BY DEF Settled, Uncertain
<1>7. c = [[x EXCEPT !.sent = Nothing, !.answer = Nothing, !.idem = Nothing] EXCEPT
             !.pending = Nothing, !.saved = q.text, !.draft = 1, !.rev = x.rev + 1,
             !.status = IF q.text = x.values THEN "saved" ELSE "saving",
             !.again = IF q.text = x.values THEN @ ELSE TRUE]
  BY <1>4, <1>6 DEF Concluded, Landed
<1>8. /\ c.idem = Nothing /\ c.pending = Nothing /\ c.draft = 1 /\ c.rev = x.rev + 1 /\ c.saved = q.text
      /\ c.base = x.base /\ c.values = x.values
      /\ c.status = IF q.text = x.values THEN "saved" ELSE "saving"
  BY <1>1, <1>7 DEF Editors
<1> HIDE DEF c, q
<1>9. WordFits(c)
  <2>1. Late(c, net)
    BY <1>3 DEF Late
  <2>2. Position(c)
    BY <1>3, <1>8 DEF Position, Advanced
  <2>3. ScreenTrue(c) /\ c.status \notin {"stopped", "conflict"}
    BY <1>8 DEF ScreenTrue
  <2>4. WordOf(c)
    BY <1>3, <1>5, <1>8, <2>2, <2>3 DEF WordOf
  <2> QED BY <1>5, <2>1, <2>4 DEF WordFits
<1>10. WordFits(Looped(c))
  <2> DEFINE y == [c EXCEPT !.again = FALSE]
  <2>1. y \in Editors /\ SameWord(c, y) /\ y.status = c.status /\ y.values = c.values
    BY <1>5 DEF Editors, SameWord, SameTalk
  <2>2. Looped(c) = c \/ Looped(c) = SaveOnce(y)
    BY DEF Looped
  <2> HIDE DEF y
  <2>3. WordFits(y) /\ y.sent = Nothing
    BY <1>5, <1>9, <2>1, WordMoves DEF WordFits, WordOf, ScreenTrue, SameWord, SameTalk
  <2> QED BY <1>1, <1>9, <2>2, <2>3, SaveOnceWord
<1>11. Become(t, Looped(c)) /\ UNCHANGED Server /\ tab \in [Tabs -> Editors]
  BY StepFacts DEF Receive, c
<1> QED BY <1>10, <1>11, BecomeWord

(* What is given up waiting for stays pending, under the key it had.       *)
LEMMA GiveUpWord ==
  ASSUME DraftInv, WordInv, NEW t, Tabs = {t}, GiveUp(t)
  PROVE  WordInv'
<1> PICK asked : Agreed(asked)
  BY DEF DraftInv
<1> DEFINE x == tab[t]
           q == x.sent.request
           r == Result("unknown", 0, 0)
           c == Concluded(x, r)
           mine == { m \in net : m.tab = t /\ m.live }
           late == { [m EXCEPT !.live = FALSE] : m \in mine }
<1>1. WordFits(x) /\ x \in Editors /\ x.sent # Nothing
  BY WordFacts DEF WordFits, GiveUp, InFlight
<1>2. x.sent \in Sents /\ x.idem \in Idems /\ x.idem.request = q
  BY <1>1, EditorFields DEF WordFits, Agreed, EditorOK, Waits
<1>3. Settled(x, "unknown") = [x.idem EXCEPT !.unconfirmed = TRUE]
  BY DEF Settled, Uncertain
<1>4. PICK i : i = [x.idem EXCEPT !.unconfirmed = TRUE]
  OBVIOUS
<1>5. i \in Idems /\ i # Nothing /\ i.key = x.idem.key /\ i.request = q
  BY <1>2, <1>4, NothingIsNone DEF Idems
<1>6. c = [[x EXCEPT !.sent = Nothing, !.answer = Nothing, !.idem = i] EXCEPT
             !.pending = [text |-> q.text], !.status = "retrying", !.idle = TRUE]
  <2>1. r.kind = "unknown"
    BY DEF Result
  <2> QED BY <1>1, <1>3, <1>4, <2>1 DEF Concluded, Uncertain, RetryLater, Editors
<1>7. /\ c.sent = Nothing /\ c.answer = Nothing /\ c.idem = i /\ c.pending = [text |-> q.text]
      /\ c.status = "retrying" /\ c.draft = x.draft /\ c.rev = x.rev /\ c.saved = x.saved /\ c.base = x.base
  BY <1>1, <1>6 DEF Editors
<1> HIDE DEF c, q
<1>8. WordOf(c)
  <2>1. Repeats(c)
    <3>1. Repeats(x)
      BY <1>1, <1>2, NothingIsNone DEF WordFits, WordOf
    <3>2. c.pending.text = q.text /\ c.pending # Nothing
      <4>1. q.text \in Texts
        BY <1>2 DEF Sents, Requests, Idems
      <4>2. [text |-> q.text] \in [text : Texts]
        BY <4>1
      <4> QED BY <1>7, <4>2, NothingIsNone
    <3>3. c.idem.request = x.idem.request
      BY <1>2, <1>5, <1>7
    <3> QED BY <1>2, <1>7, <3>1, <3>2, <3>3 DEF Repeats
  <2>2. IF Recorded(c.idem.key) THEN Advanced(c) ELSE Position(c)
    BY <1>1, <1>5, <1>7 DEF WordFits, WordOf, Advanced, Position
  <2> QED BY <1>1, <1>5, <1>7, <2>1, <2>2 DEF WordFits, WordOf, ScreenTrue
<1>9. Looped(c) = c
  BY <1>7 DEF Looped
<1>10. /\ tab' = [tab EXCEPT ![t] = c] /\ net' = (net \ mine) \cup late
       /\ rows' = rows /\ receipts' = receipts /\ document' = document
  BY <1>9 DEF GiveUp, Server, c
<1>11. tab'[t] = c
  BY <1>10, StepFacts
<1>12. WordOf(tab[t])'
  BY <1>8, <1>10, <1>11 DEF WordOf, Repeats, ScreenTrue, Position, Advanced, Recorded
<1>13. Late(tab[t], net)'
  <2>1. \A m \in net' : \E o \in net : m.sent = o.sent
    <3> TAKE m \in net'
    <3>1. CASE m \in net
      BY <3>1
    <3>2. CASE m \in late
      <4>1. PICK o \in mine : m = [o EXCEPT !.live = FALSE]
        BY <3>2
      <4>2. o \in net /\ o \in [tab : Tabs, live : BOOLEAN, sent : Sents]
        BY StepFacts
      <4> QED BY <4>1, <4>2
    <3> QED BY <1>10, <3>1, <3>2
  <2>2. \A o \in net : Recorded(o.sent.key) \/ o.sent.key = c.idem.key
    BY <1>1, <1>5, <1>7 DEF WordFits, Late
  <2> QED BY <1>5, <1>7, <1>10, <1>11, <2>1, <2>2 DEF Late, Recorded
<1> QED BY <1>10, <1>12, <1>13 DEF WordInv

(* A request that arrives is of a key answered, or the one the editor may  *)
(* repeat, and then it is applied: nobody else has moved the rows.         *)
LEMMA DeliverWord ==
  ASSUME DraftInv, WordInv, NEW t, Tabs = {t}, NEW m \in net, Deliver(m)
  PROVE  WordInv'
<1> PICK asked : Agreed(asked)
  BY DEF DraftInv
<1> DEFINE x == tab[t]
           key == m.sent.key
           q == m.sent.request
<1>1. WordFits(x) /\ x \in Editors /\ WordOf(x) /\ Late(x, net)
  BY WordFacts DEF WordFits
<1>2. m.sent \in Sents /\ q \in Requests /\ m.tab = t
  BY StepFacts DEF Sents
<1>3. PICK r : r = IF Recorded(key) THEN receipts[key] ELSE Answered(q)
  OBVIOUS
<1>4. /\ net' = net \ {m} /\ document' = document
      /\ tab' = IF m.live THEN [tab EXCEPT ![t].answer = r] ELSE tab
  BY <1>2, <1>3 DEF Deliver
<1>5. m.live => x.sent = m.sent /\ x.sent # Nothing /\ x.idem # Nothing /\ key = x.idem.key
  BY <1>1, <1>2, NothingIsNone DEF Agreed, MessageOK, WordFits
<1>6. PICK y : y = tab'[t]
  OBVIOUS
<1>7. /\ y.idem = x.idem /\ y.sent = x.sent /\ y.pending = x.pending /\ y.draft = x.draft /\ y.rev = x.rev
      /\ y.saved = x.saved /\ y.base = x.base /\ y.status = x.status /\ y.values = x.values
      /\ y.answer = IF m.live THEN r ELSE x.answer
  <2>1. y = IF m.live THEN [x EXCEPT !.answer = r] ELSE x
    BY <1>4, <1>6, StepFacts
  <2> QED BY <1>1, <2>1 DEF Editors
<1>8. x.idem = Nothing => Recorded(key)
  BY <1>1 DEF Late
<1>9. x.idem # Nothing => Recorded(key) \/ key = x.idem.key
  BY <1>1 DEF Late
<1>10. ScreenTrue(y) /\ (y.idem # Nothing => Repeats(y)) /\ y.base = 1 /\ y.status \notin {"stopped", "conflict"}
  BY <1>1, <1>7 DEF WordOf, ScreenTrue, Repeats
<1>11. CASE Recorded(key)
  <2>1. rows' = rows /\ receipts' = receipts /\ r = receipts[key]
    BY <1>3, <1>11 DEF Deliver
  <2>2. y.answer # Nothing => Recorded(y.idem.key) /\ y.answer = receipts[y.idem.key]
    BY <1>1, <1>5, <1>7, <1>11, <2>1 DEF WordOf
  <2>3. WordOf(y)
    BY <1>1, <1>7, <1>10, <2>2 DEF WordOf, Position, Advanced
  <2>4. WordOf(tab[t])'
    BY <1>6, <2>1, <2>3 DEF WordOf, Repeats, ScreenTrue, Position, Advanced, Recorded
  <2>5. Late(tab[t], net)'
    BY <1>1, <1>4, <1>6, <1>7, <2>1 DEF Late, Recorded
  <2> QED BY <1>4, <2>1, <2>4, <2>5 DEF WordInv
<1>12. CASE ~Recorded(key)
  <2>1. x.idem # Nothing /\ key = x.idem.key /\ x.idem \in Idems
    BY <1>1, <1>8, <1>9, <1>12, EditorFields
  <2>2. q = x.idem.request
    BY <2>1 DEF Agreed, MessageOK, EditorOK, Asks
  <2>3. Position(x) /\ Repeats(x) /\ x.answer = Nothing
    BY <1>1, <1>12, <2>1 DEF WordOf
  <2>4. r = Answered(q)
    BY <1>3, <1>12
  <2>5. document = 1 /\ \A n \in 1..Len(rows) : rows[n].state = "active"
    BY DEF WordInv
  <2>6. x.draft \in Nat /\ x.rev \in Nat /\ Len(rows) \in Nat
    BY <1>1, EditorFields, StepFacts
  <2>7. /\ r = Result("ok", 1, x.rev + 1)
        /\ Len(rows') = 1 /\ rows'[1].revision = x.rev + 1 /\ rows'[1].state = "active"
    <3>1. r.kind = "ok" => rows' = Applied(q, m.sent.knew, r)
      BY <1>3, <1>12 DEF Deliver
    <3>2. CASE x.draft = 0
      <4>1. q.op = "create" /\ q.base = 1 /\ Len(rows) = 0 /\ x.rev = 0
        BY <2>2, <2>3, <3>2 DEF Repeats, Position
      <4>2. ActiveRows = {}
        BY <4>1 DEF ActiveRows
      <4>3. r = Result("ok", 1, 1) /\ r.kind = "ok"
        BY <2>4, <2>5, <4>1, <4>2 DEF Answered, Result
      <4>4. rows' = Append(rows, [state |-> "active", revision |-> 1, texts |-> << q.text >>, knew |-> << q.text >>])
        BY <3>1, <4>1, <4>3 DEF Applied
      <4>5. PICK w : w = [state |-> "active", revision |-> 1, texts |-> << q.text >>, knew |-> << q.text >>]
        OBVIOUS
      <4>6. rows \in Seq(Rows)
        BY StepFacts
      <4>7. w.revision = 1 /\ w.state = "active" /\ rows' = Append(rows, w)
        BY <4>4, <4>5
      <4>8. Len(rows') = 1 /\ rows'[1] = w
        BY <4>1, <4>6, <4>7
      <4> QED BY <4>1, <4>3, <4>7, <4>8
    <3>3. CASE x.draft # 0
      <4>1. q.op = "save" /\ q.id = 1 /\ q.rev = x.rev /\ Len(rows) = 1 /\ rows[1].revision = x.rev /\ rows[1].state = "active"
        <5>1. Len(rows) = 1 /\ rows[1].revision = x.rev /\ x.draft = 1
          BY <2>3, <3>3 DEF Position
        <5>2. q.op = "save" /\ q.id = 1 /\ q.rev = x.rev
          BY <2>2, <2>3, <5>1 DEF Repeats
        <5> QED BY <2>5, <5>1, <5>2
      <4>2. r = Result("ok", 1, x.rev + 1) /\ r.kind = "ok" /\ r.rev = x.rev + 1
        BY <2>4, <4>1 DEF Answered, Result
      <4>3. rows' = [rows EXCEPT ![1] = Written(rows[1], q.text, m.sent.knew, x.rev + 1)]
        BY <3>1, <4>1, <4>2 DEF Applied
      <4>4. rows[1] \in Rows /\ rows \in Seq(Rows)
        BY <4>1, StepFacts DEF RowOK
      <4>5. Written(rows[1], q.text, m.sent.knew, x.rev + 1).revision = x.rev + 1
            /\ Written(rows[1], q.text, m.sent.knew, x.rev + 1).state = "active"
        BY <4>1, <4>4 DEF Written, Rows
      <4>6. PICK w : w = Written(rows[1], q.text, m.sent.knew, x.rev + 1)
        OBVIOUS
      <4>7. rows' = [rows EXCEPT ![1] = w] /\ w.revision = x.rev + 1 /\ w.state = "active"
        BY <4>3, <4>5, <4>6
      <4>8. Len(rows') = 1 /\ rows'[1] = w
        BY <4>1, <4>4, <4>7
      <4> QED BY <4>2, <4>7, <4>8
    <3> QED BY <3>2, <3>3
  <2>8. receipts' = [k \in DOMAIN receipts \cup {key} |-> IF k = key THEN r ELSE receipts[k]]
    BY <1>3, <1>12, <2>7 DEF Deliver, Result
  <2>9. y.idem # Nothing /\ y.idem.key = key /\ key \in DOMAIN receipts' /\ receipts'[key] = r
    BY <1>7, <2>1, <2>8
  <2>10. Advanced(y)'
    BY <1>7, <2>7, <2>9, <1>6 DEF Advanced
  <2>11. y.answer # Nothing => y.answer = r
    BY <1>7, <2>3
  <2>12. WordOf(tab[t])'
    BY <1>6, <1>10, <2>9, <2>10, <2>11 DEF WordOf, ScreenTrue, Repeats, Recorded, Advanced
  <2>13. Late(tab[t], net)'
    <3>1. \A k : Recorded(k) => Recorded(k)'
      BY <2>8 DEF Recorded
    <3> QED BY <1>1, <1>4, <1>6, <1>7, <3>1 DEF Late
  <2> QED BY <1>4, <2>5, <2>7, <2>12, <2>13 DEF WordInv
<1> QED BY <1>11, <1>12

(* There is nothing to choose, and nobody refuses, closes or moves.        *)
LEMMA WordNext ==
  ASSUME DraftInv, WordInv, NEW t, Tabs = {t}, Faults = {}, Next
  PROVE  WordInv'
<1>1. WordFits(tab[t])
  BY WordFacts
<1>2. tab[t].status \notin {"stopped", "conflict"}
  BY <1>1 DEF WordFits, WordOf
<1>3. ~Reread(t)
  <2>1. ASSUME tab[t].answer # Nothing PROVE tab[t].answer.kind = "ok"
    BY <1>1, <2>1 DEF WordFits, WordOf, Advanced, Result
  <2> QED BY <2>1 DEF Reread, Rereads
<1>4. ~TakeServer(t) /\ ~KeepMine(t) /\ ~Resume(t)
  BY <1>2 DEF TakeServer, KeepMine, Resume
<1>5. ASSUME ServerStep PROVE \E m \in net : Deliver(m)
  BY <1>5 DEF ServerStep, Refuse, CloseDraft, MoveDocument
<1>6. CASE TabStep(t)
  BY <1>3, <1>4, <1>6, TypeWord, TimerWord, ReceiveWord, GiveUpWord DEF TabStep
<1>7. ASSUME NEW m \in net, Deliver(m) PROVE WordInv'
  BY <1>7, DeliverWord
<1> QED BY <1>5, <1>6, <1>7 DEF Next

LEMMA WordInit ==
  ASSUME Init
  PROVE  WordInv
<1>1. \A t \in Tabs : tab[t] = Fresh
  BY DEF Init
<1>2. document = 1 /\ Len(rows) = 0 /\ net = {}
  BY DEF Init
<1>3. WordOf(Fresh)
  BY <1>2 DEF WordOf, Fresh, ScreenTrue, Position
<1> QED BY <1>1, <1>2, <1>3 DEF WordInv, Late

(* "Saved" and "same as the server" are true, and an editor makes one draft*)
(* and no conflict with itself, whatever it types, is lost or arrives late *)
(* (useServerDraft.ts:6-7): of one tab that is refused nothing, as in      *)
(* MCLiveness.                                                             *)
THEOREM EditorsKeepTheirWord ==
  ASSUME NEW t, Tabs = {t}, Faults = {}
  PROVE  Spec => []EditorKeepsItsWord
<1>1. Init => DraftInv /\ WordInv
  BY DraftInit, WordInit
<1>2. DraftInv /\ WordInv /\ [Next]_vars => (DraftInv /\ WordInv)'
  <2> SUFFICES ASSUME DraftInv, WordInv, Next \/ UNCHANGED vars PROVE DraftInv' /\ WordInv'
    OBVIOUS
  <2>1. CASE Next
    BY <2>1, DraftNext, WordNext
  <2>2. CASE UNCHANGED vars
    <3>1. DraftInv'
      BY <2>2, RestKeeps DEF vars, DraftInv, TypeOK
    <3>2. WordInv'
      BY <2>2 DEF vars, WordInv, WordOf, Late, Repeats, ScreenTrue, Position, Advanced, Recorded
    <3> QED BY <3>1, <3>2
  <2> QED BY <2>1, <2>2
<1>3. DraftInv /\ WordInv => EditorKeepsItsWord
  <2> SUFFICES ASSUME DraftInv, WordInv PROVE EditorKeepsItsWord
    OBVIOUS
  <2> PICK asked : Agreed(asked)
    BY DEF DraftInv
  <2>1. WordOf(tab[t]) /\ Basis(tab[t])
    BY DEF WordInv, Agreed, EditorOK
  <2>2. SavedIsOnServer
    BY <2>1 DEF SavedIsOnServer, WordOf, ScreenTrue, Basis, Holds
  <2>3. Len(rows) <= 1
    <3>1. Position(tab[t]) \/ Advanced(tab[t])
      BY <2>1 DEF WordOf
    <3>2. Len(rows) = 0 \/ Len(rows) = 1
      BY <3>1 DEF Position, Advanced
    <3> QED BY <3>2
  <2>4. OneDraftPerEditor
    BY <2>3, FS_Singleton DEF OneDraftPerEditor
  <2>5. NoConflictWithOneself
    BY <2>1 DEF NoConflictWithOneself, WordOf
  <2> QED BY <2>2, <2>4, <2>5 DEF EditorKeepsItsWord
<1> QED BY <1>1, <1>2, <1>3, PTL DEF Spec
=============================================================================
