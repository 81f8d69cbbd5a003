--------------------------- MODULE DraftAutosave ----------------------------
(***************************************************************************)
(* Autosaving a document's draft from several tabs                         *)
(* (src/lib/research/useServerDraft.ts with the keys of idempotency.ts and *)
(* the choices DocumentEditor.tsx offers) against the draft rows of the    *)
(* server (app/writing.py) behind its receipts (Store.mutate).             *)
(*                                                                         *)
(* A tab is a JavaScript loop: what runs between two awaits is one step.   *)
(* A request that timed out may still be delivered, an answer may be lost, *)
(* and one refused before its key was looked at says nothing of the last   *)
(* attempt.                                                                *)
(***************************************************************************)
EXTENDS Naturals, Sequences, FiniteSets

CONSTANTS Tabs,
          Texts,      \* what may be typed; Initial is what the editor opens with
          Initial,
          Existing,   \* editing a document that exists, or a new one
          Faults,     \* which of AllFaults may happen
          MaxTyped,   \* bound: edits, all tabs together
          MaxLost     \* bound: requests refused, or given up waiting for

AllFaults == { "refused",   \* session, Origin, CSRF or policy refuses before the key
               "closed",    \* the draft is discarded or committed elsewhere
               "moved" }    \* the document gets another version

ASSUME AutosaveAssumption ==
  /\ Initial \in Texts
  /\ Existing \in BOOLEAN
  /\ Faults \subseteq AllFaults
  /\ MaxTyped \in Nat /\ MaxLost \in Nat

VARIABLES
  rows,      \* research.document_drafts, in the order they were created
  receipts,  \* research.idempotency: what each key was answered
  document,  \* version of the document, when Existing
  net,       \* requests on their way to the server
  tab,       \* each editor
  keys,      \* Idempotency-Keys made so far
  typed,     \* edits so far
  lost       \* requests refused or given up on so far

vars == << rows, receipts, document, net, tab, keys, typed, lost >>

-----------------------------------------------------------------------------
Nothing == [ kind |-> "none" ]

(* result of a mutation: [kind, id, rev]; kind is "ok" or the reason.      *)
Result(kind, id, rev) == [ kind |-> kind, id |-> id, rev |-> rev ]

(* A tab.  draft, rev: the server draft it holds; saved: the text it knows *)
(* to be there; pending: text of a request whose outcome it does not know; *)
(* idem: the key kept for one fingerprint; sent: the request it waits for; *)
(* answer: what came back.  max: the longest-wait timer, "stale" once it   *)
(* fired without being cleared; idle stands for the other two timers.      *)
Fresh == [ values |-> Initial, saved |-> Initial, draft |-> 0, rev |-> 0, base |-> 1,
           pending |-> Nothing, status |-> "clean", why |-> "none", server |-> 0, seen |-> 0,
           idem |-> Nothing, sent |-> Nothing, answer |-> Nothing,
           again |-> FALSE, idle |-> FALSE, max |-> "off" ]

Statuses == { "clean", "dirty", "saving", "saved", "retrying", "stopped", "conflict" }

Init ==
  /\ rows = << >>
  /\ receipts = << >>
  /\ document = 1
  /\ net = {}
  /\ tab = [t \in Tabs |-> Fresh]
  /\ keys = 0 /\ typed = 0 /\ lost = 0

Blocked(x)  == x.status \in {"stopped", "conflict"}
InFlight(x) == x.sent # Nothing
Unsaved(x)  == x.values # x.saved \/ x.pending # Nothing
TextAt(id, rev) == rows[id].texts[rev]

-----------------------------------------------------------------------------
(* Mutant: every attempt gets a key of its own.                            *)
FreshKey(x, request) == keys + 1

(* keyFor and settle of useIdempotencyKey.                                 *)
KeyFor(x, request) ==
  IF x.idem # Nothing /\ x.idem.request = request THEN x.idem.key ELSE keys + 1

Uncertain(kind) == kind = "unknown"

Settled(x, kind) ==
  LET done == IF x.idem.unconfirmed THEN kind \notin {"unknown", "refused"}
              ELSE ~Uncertain(kind) IN
  IF done THEN Nothing ELSE [x.idem EXCEPT !.unconfirmed = TRUE]

(* Mutant: what was typed last goes first.                                 *)
LatestBody(x) == x.values

(* Mutant: the pending request itself is sent for its text.                *)
BodyRequest(x) == IF x.pending # Nothing THEN x.pending ELSE x.values

(* saveOnce up to its request: what is pending goes first; nothing is sent *)
(* when the server has the text already.                                   *)
Body(x) == IF x.pending # Nothing THEN x.pending.text ELSE x.values

Shown(x) == IF x.draft = 0 THEN "clean" ELSE "saved"

Attempt(x) ==
  [ op |-> IF x.draft = 0 THEN "create" ELSE "save", id |-> x.draft, rev |-> x.rev,
    base |-> x.base, text |-> Body(x) ]

SaveOnce(x) ==
  IF x.pending = Nothing /\ x.values = x.saved
  THEN [x EXCEPT !.status = Shown(x)]
  ELSE LET q == Attempt(x)
           k == KeyFor(x, q) IN
       [x EXCEPT !.status = "saving",
                 !.sent = [request |-> q, key |-> k, knew |-> x.saved],
                 !.idem = IF x.idem # Nothing /\ x.idem.request = q /\ x.idem.key = k THEN x.idem
                          ELSE [request |-> q, key |-> k, unconfirmed |-> FALSE]]

(* save: clear the timers and begin, or remember to go round again.        *)
Saving(x) ==
  IF Blocked(x) THEN x
  ELSE IF InFlight(x) THEN [x EXCEPT !.again = TRUE]
  ELSE SaveOnce([x EXCEPT !.idle = FALSE, !.max = "off", !.again = FALSE])

(* Install a tab's new state and put its new request, if any, on the net.  *)
Become(t, x) ==
  /\ tab' = [tab EXCEPT ![t] = x]
  /\ IF x.sent # Nothing /\ tab[t].sent # x.sent
     THEN /\ net' = net \cup {[tab |-> t, live |-> TRUE, sent |-> x.sent]}
          /\ keys' = IF x.sent.key > keys THEN x.sent.key ELSE keys
     ELSE UNCHANGED << net, keys >>

Server == << rows, receipts, document >>

-----------------------------------------------------------------------------
(* setValues and schedule.                                                 *)
Scheduled(x) ==
  IF Blocked(x) \/ x.status = "retrying" THEN x
  ELSE [x EXCEPT !.idle = TRUE, !.max = IF @ = "off" THEN "armed" ELSE @]

Typed(x, v) ==
  LET y == [x EXCEPT !.values = v]
      busy == x.status \in {"saving", "retrying"} IN
  IF Blocked(x) THEN y
  ELSE IF x.saved = v /\ x.pending = Nothing
  THEN [y EXCEPT !.idle = FALSE, !.max = "off", !.status = IF busy THEN @ ELSE Shown(x)]
  ELSE Scheduled([y EXCEPT !.status = IF busy THEN @ ELSE "dirty"])

Type(t, v) ==
  /\ typed < MaxTyped /\ tab[t].values # v
  /\ typed' = typed + 1
  /\ Become(t, Typed(tab[t], v))
  /\ UNCHANGED << Server, lost >>

(* A timer fires.  Only save clears it, and not while a request is out.    *)
IdleFires(t) ==
  /\ tab[t].idle
  /\ Become(t, Saving([tab[t] EXCEPT !.idle = FALSE]))
  /\ UNCHANGED << Server, typed, lost >>

MaxFires(t) ==
  /\ tab[t].max = "armed"
  /\ Become(t, Saving([tab[t] EXCEPT !.max = "stale"]))
  /\ UNCHANGED << Server, typed, lost >>

-----------------------------------------------------------------------------
(* The server: Store.mutate around create_draft and change_draft.          *)
ActiveRows == { n \in 1..Len(rows) : rows[n].state = "active" }

(* Mutant: change_draft does not compare the revision.                     *)
AnsweredUnchecked(q) ==
  IF q.op = "create"
  THEN IF Existing /\ ActiveRows # {} THEN Result("active_draft_exists", 0, 0)
       ELSE Result("ok", Len(rows) + 1, 1)
  ELSE IF rows[q.id].state # "active" THEN Result("draft_closed", 0, 0)
       ELSE Result("ok", q.id, rows[q.id].revision + 1)

Answered(q) ==
  IF q.op = "create"
  THEN IF Existing /\ ActiveRows # {} THEN Result("active_draft_exists", 0, 0)
       ELSE IF Existing /\ q.base # document THEN Result("document_version", 0, 0)
       ELSE Result("ok", Len(rows) + 1, 1)
  ELSE IF rows[q.id].state # "active" THEN Result("draft_closed", 0, 0)
       ELSE IF rows[q.id].revision # q.rev THEN Result("draft_revision", 0, 0)
       ELSE Result("ok", q.id, q.rev + 1)

(* A row with its next revision.                                           *)
Written(row, text, knew, rev) ==
  [row EXCEPT !.revision = rev, !.texts = Append(row.texts, text), !.knew = Append(row.knew, knew)]

Applied(q, knew, r) ==
  IF q.op = "create"
  THEN Append(rows, [state |-> "active", revision |-> 1, texts |-> << q.text >>, knew |-> << q.text >>])
  ELSE [rows EXCEPT ![q.id] = Written(rows[q.id], q.text, knew, r.rev)]

(* A key that has a receipt is answered from it; a new one is applied and  *)
(* recorded in one transaction; a conflict records nothing.                *)
Recorded(key) == key \in DOMAIN receipts

Deliver(m) ==
  LET key == m.sent.key
      q == m.sent.request
      r == IF Recorded(key) THEN receipts[key] ELSE Answered(q) IN
  /\ net' = net \ {m}
  /\ IF ~Recorded(key) /\ r.kind = "ok"
     THEN /\ rows' = Applied(q, m.sent.knew, r)
          /\ receipts' = [k \in DOMAIN receipts \cup {key} |-> IF k = key THEN r ELSE receipts[k]]
     ELSE UNCHANGED << rows, receipts >>
  /\ tab' = IF m.live THEN [tab EXCEPT ![m.tab].answer = r] ELSE tab
  /\ UNCHANGED << document, keys, typed, lost >>

Refuse(m) ==
  /\ "refused" \in Faults /\ lost < MaxLost
  /\ lost' = lost + 1
  /\ net' = net \ {m}
  /\ tab' = IF m.live THEN [tab EXCEPT ![m.tab].answer = Result("refused", 0, 0)] ELSE tab
  /\ UNCHANGED << Server, keys, typed >>

(* Another device or an accepted proposal closes the draft; the document   *)
(* gets another version.                                                   *)
CloseDraft(n) ==
  /\ "closed" \in Faults /\ n \in ActiveRows
  /\ LET kept == TextAt(n, rows[n].revision)
     IN rows' = [rows EXCEPT ![n] = [Written(rows[n], kept, kept, rows[n].revision + 1) EXCEPT !.state = "closed"]]
  /\ UNCHANGED << receipts, document, net, tab, keys, typed, lost >>

MoveDocument ==
  /\ "moved" \in Faults /\ Existing /\ document = 1
  /\ document' = 2
  /\ UNCHANGED << rows, receipts, net, tab, keys, typed, lost >>

-----------------------------------------------------------------------------
(* saveOnce after its request, and the loop around it.  A conflict waits   *)
(* for the server's draft to be read again.                                *)
(* Mutant: the latest text counts as saved.                                *)
LandedLatest(x, q) == x.values

Landed(x, q) == q.text

(* Mutant: an uncertain request is not tried again by itself.              *)
RetryNever(x) == [x EXCEPT !.status = "retrying"]

RetryLater(x) == [x EXCEPT !.status = "retrying", !.idle = TRUE]

Rereads == { "draft_revision", "active_draft_exists" }

Concluded(x, r) ==
  LET q == x.sent.request
      y == [x EXCEPT !.sent = Nothing, !.answer = Nothing, !.idem = Settled(x, r.kind)] IN
  IF r.kind = "ok"
  THEN [y EXCEPT !.pending = Nothing, !.saved = Landed(x, q), !.draft = r.id, !.rev = r.rev,
                 !.status = IF q.text = x.values THEN "saved" ELSE "saving",
                 !.again = IF q.text = x.values THEN @ ELSE TRUE]
  ELSE IF Uncertain(r.kind)
  THEN RetryLater([y EXCEPT !.pending = [text |-> q.text]])
  ELSE [y EXCEPT !.pending = Nothing, !.status = "stopped", !.why = r.kind]

Looped(x) ==
  IF x.again /\ ~Blocked(x) /\ x.status # "retrying"
  THEN SaveOnce([x EXCEPT !.again = FALSE]) ELSE x

Receive(t) ==
  LET x == tab[t] IN
  /\ InFlight(x) /\ x.answer # Nothing /\ x.answer.kind \notin Rereads
  /\ Become(t, Looped(Concluded(x, x.answer)))
  /\ UNCHANGED << Server, typed, lost >>

(* Timeout, a lost answer, a 5xx: the outcome is unknown and the request   *)
(* may still arrive.                                                       *)
GiveUp(t) ==
  LET x == tab[t]
      y == Looped(Concluded(x, Result("unknown", 0, 0)))
      mine == { m \in net : m.tab = t /\ m.live } IN
  /\ InFlight(x) /\ lost < MaxLost
  /\ x.answer = Nothing \/ x.answer.kind \notin Rereads
  /\ lost' = lost + 1
  /\ tab' = [tab EXCEPT ![t] = y]
  /\ net' = (net \ mine) \cup { [m EXCEPT !.live = FALSE] : m \in mine }
  /\ UNCHANGED << Server, keys, typed >>

(* adapter.reread: the draft the tab holds, or the document's active one;  *)
(* 0 when it cannot be read.                                               *)
Reread(t) ==
  LET x == tab[t]
      kind == x.answer.kind
      found == IF kind = "draft_revision" THEN {x.draft} ELSE ActiveRows IN
  /\ InFlight(x) /\ x.answer # Nothing /\ kind \in Rereads
  /\ \E n \in IF found = {} THEN {0} ELSE found :
       tab' = [tab EXCEPT ![t] =
         [Concluded(x, x.answer) EXCEPT !.status = "conflict", !.server = n,
                                        !.seen = IF n = 0 THEN 0 ELSE rows[n].revision]]
  /\ UNCHANGED << Server, net, keys, typed, lost >>

-----------------------------------------------------------------------------
(* What the person may choose.                                             *)
TakeServer(t) ==
  LET x == tab[t] IN
  /\ x.status = "conflict" /\ x.server # 0
  /\ Become(t, [x EXCEPT !.values = TextAt(x.server, x.seen), !.saved = TextAt(x.server, x.seen),
                         !.draft = x.server, !.rev = x.seen, !.status = "saved"])
  /\ UNCHANGED << Server, typed, lost >>

KeepMine(t) ==
  LET x == tab[t] IN
  /\ x.status = "conflict" /\ x.server # 0
  /\ Become(t, Saving([x EXCEPT !.saved = TextAt(x.server, x.seen), !.draft = x.server,
                                !.rev = x.seen, !.status = "dirty"]))
  /\ UNCHANGED << Server, typed, lost >>

(* "Try again", "continue with a new draft", "load the latest document".   *)
Resume(t) ==
  LET x == tab[t] IN
  /\ x.status = "stopped"
  /\ Become(t, Saving(
       [x EXCEPT !.status = "dirty",
                 !.draft = IF x.why = "draft_closed" THEN 0 ELSE @,
                 !.rev = IF x.why = "draft_closed" THEN 0 ELSE @,
                 !.base = IF x.why = "document_version" THEN document ELSE @]))
  /\ UNCHANGED << Server, typed, lost >>

-----------------------------------------------------------------------------
TabStep(t) ==
  \/ \E v \in Texts : Type(t, v)
  \/ IdleFires(t) \/ MaxFires(t)
  \/ Receive(t) \/ GiveUp(t) \/ Reread(t)
  \/ TakeServer(t) \/ KeepMine(t) \/ Resume(t)

ServerStep ==
  \/ \E m \in net : Deliver(m) \/ Refuse(m)
  \/ \E n \in 1..Len(rows) : CloseDraft(n)
  \/ MoveDocument

Next == ServerStep \/ \E t \in Tabs : TabStep(t)

Spec == Init /\ [][Next]_vars

(* Timers fire, requests arrive and answers are read; nobody has to type,  *)
(* and nobody has to choose.                                               *)
Fairness ==
  /\ \A t \in Tabs : WF_vars(IdleFires(t)) /\ WF_vars(Receive(t)) /\ WF_vars(Reread(t))
  /\ WF_vars(\E m \in net : Deliver(m))

FairSpec == Spec /\ Fairness

-----------------------------------------------------------------------------
Optional(S) == S \cup {Nothing}
Kinds    == { "ok", "active_draft_exists", "document_version", "draft_closed", "draft_revision",
              "refused", "unknown" }
Requests == [ op : {"create", "save"}, id : Nat, rev : Nat, base : Nat, text : Texts ]
Sents    == [ request : Requests, key : Nat, knew : Texts ]
Results  == [ kind : Kinds, id : Nat, rev : Nat ]
Rows     == [ state : {"active", "closed"}, revision : Nat, texts : Seq(Texts), knew : Seq(Texts) ]
Editors  == [ values : Texts, saved : Texts, draft : Nat, rev : Nat, base : Nat,
              pending : Optional([text : Texts]), status : Statuses, why : Kinds \cup {"none"},
              server : Nat, seen : Nat,
              idem : Optional([request : Requests, key : Nat, unconfirmed : BOOLEAN]),
              sent : Optional(Sents), answer : Optional(Results), again : BOOLEAN,
              idle : BOOLEAN, max : {"off", "armed", "stale"} ]

TypeOK ==
  /\ rows \in Seq(Rows)
  /\ \A k \in DOMAIN receipts : receipts[k] \in Results
  /\ document \in {1, 2}
  /\ net \subseteq [tab : Tabs, live : BOOLEAN, sent : Sents]
  /\ tab \in [Tabs -> Editors]
  /\ keys \in Nat /\ typed \in 0..MaxTyped /\ lost \in 0..MaxLost

(* "A change by another tab or device is never silently overwritten"       *)
(* (useServerDraft.ts:7): whoever wrote a revision knew the text it        *)
(* replaced, whether it came from an answer, a replayed receipt or a       *)
(* re-read after a conflict.                                               *)
NoSilentOverwrite ==
  \A n \in 1..Len(rows) : \A v \in 2..Len(rows[n].texts) :
    rows[n].knew[v] = rows[n].texts[v - 1]

(* A tab that says "saved" or "same as the server" shows the text of the   *)
(* draft revision it holds, or what the editor opened with                 *)
(* (useServerDraft.ts:42 "the same as the server or the original").        *)
SavedIsOnServer ==
  \A t \in Tabs : LET x == tab[t] IN
    x.status \in {"saved", "clean"} =>
      x.values = IF x.draft = 0 THEN Initial ELSE TextAt(x.draft, x.rev)

(* "An uncertain request is first repeated with the same text and key      *)
(* (against duplicate drafts and conflicts with oneself)"                  *)
(* (useServerDraft.ts:6): an editor makes one draft, whatever was lost or  *)
(* delivered late.                                                         *)
OneDraftPerEditor ==
  Len(rows) <= Cardinality(Tabs)

NoConflictWithOneself ==
  Cardinality(Tabs) = 1 => \A t \in Tabs : tab[t].status # "conflict"

(* What an editor says of what was typed in it is true.                    *)
EditorKeepsItsWord ==
  SavedIsOnServer /\ OneDraftPerEditor /\ NoConflictWithOneself

(* What is typed reaches the server or the person is told: unsaved text    *)
(* does not stay behind a screen that claims nothing is wrong.             *)
TypedTextLands ==
  \A t \in Tabs : Unsaved(tab[t]) ~> (~Unsaved(tab[t]) \/ Blocked(tab[t]))
=============================================================================
