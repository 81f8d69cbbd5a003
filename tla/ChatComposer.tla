---------------------------- MODULE ChatComposer ----------------------------
(***************************************************************************)
(* Sending a question from the chat panel (Composer and SessionView of     *)
(* components/research/session/SessionView.tsx) with the request whose     *)
(* outcome is not known kept in the tab's sessionStorage                   *)
(* (lib/research/pendingSend.ts, pendingStore.ts, chatState.ts), against   *)
(* POST /sessions/{id}/messages behind its receipts.                       *)
(*                                                                         *)
(* A composer that was closed goes on waiting for its answer, and the next *)
(* one starts from what is stored.  A page that is loaded anew waits for   *)
(* nothing; what it had sent may still be delivered.                       *)
(***************************************************************************)
EXTENDS Naturals, FiniteSets, Sequences, SequencesExt

CONSTANTS Texts,       \* questions
          MaxKeys,     \* bound: requests made, repetitions not counted
          MaxScreens,  \* bound: composers opened
          MaxTyped,    \* bound: edits
          MaxFaults    \* bound: answers that never arrive, requests refused for policy

(* An input with nothing in it; no draft in storage.                       *)
Empty == ""

NoDraft == "no draft"

ComposerAssumption ==
  /\ {MaxKeys, MaxScreens, MaxTyped, MaxFaults} \subseteq Nat
  /\ Texts \cap {Empty, NoDraft} = {}

VARIABLES
  session,   \* the server's row: [version, running]
  receipts,  \* keys the server has answered "ok"
  signedIn,  \* whether the browser's session is valid
  stored,    \* the request kept in sessionStorage, or NoRequest
  draft,     \* the draft kept there, or NoDraft
  screen,    \* composer: [on, id, pending, text]
  known,     \* per composer, the keys its guard knows
  view,      \* the row as last loaded, or NoView
  loads,     \* reloads under way: [latest, answer]
  timer,     \* whether the next reload is scheduled
  waits,     \* answers waited for: [request, retry, id, answer]
  orphans,   \* requests nobody waits for any more that may be delivered
  made,      \* requests so far, in order; a request's key is its place
  settled,   \* keys of which an answer arrived that settles them, or that are given up
  typed,     \* the last text the person entered
  twice,     \* whether a new key was made for a question already under way
  edits, faults

serverVars == << session, receipts, signedIn >>
tabVars    == << stored, draft, screen, known >>
viewVars   == << view, loads, timer >>
sendVars   == << waits, orphans, made, settled, twice >>
vars == << serverVars, tabVars, viewVars, sendVars, typed, edits, faults >>

-----------------------------------------------------------------------------
NoRequest == [ key |-> 0, text |-> Empty, version |-> 0 ]
NoView == [ version |-> 0, running |-> FALSE ]
NoScreen == [ on |-> FALSE, id |-> 0, pending |-> NoRequest, text |-> Empty ]

Row == [ version : 1..(2 * MaxKeys + 1), running : BOOLEAN ]
Sendings == [ key : 1..MaxKeys, text : Texts, version : 1..(2 * MaxKeys + 1) ]
Pendings == Sendings \cup {NoRequest}
Screens == [ on : BOOLEAN, id : 0..MaxScreens, pending : Pendings, text : Texts \cup {Empty} ]
Answers == { "waiting", "lost", "401", "503", "409", "ok" }
Waits == [ request : Sendings, retry : BOOLEAN, id : 1..MaxScreens, answer : Answers ]
Loads == [ latest : BOOLEAN, answer : Row \cup {NoView} ]

TypeOK ==
  /\ session \in Row /\ receipts \subseteq 1..MaxKeys /\ signedIn \in BOOLEAN
  /\ stored \in Pendings /\ draft \in Texts \cup {Empty, NoDraft} /\ screen \in Screens
  /\ known \in [1..MaxScreens -> SUBSET (1..MaxKeys)]
  /\ view \in Row \cup {NoView} /\ loads \subseteq Loads /\ timer \in BOOLEAN
  /\ waits \subseteq Waits /\ orphans \subseteq Sendings
  /\ made \in Seq(Sendings) /\ settled \subseteq 1..MaxKeys /\ twice \in BOOLEAN
  /\ typed \in Texts \cup {Empty} /\ edits \in 0..MaxTyped /\ faults \in 0..MaxFaults

Init ==
  /\ session = [ version |-> 1, running |-> FALSE ] /\ receipts = {} /\ signedIn = TRUE
  /\ stored = NoRequest /\ draft = NoDraft /\ screen = NoScreen
  /\ known = [ i \in 1..MaxScreens |-> {} ]
  /\ view = NoView /\ loads = {} /\ timer = FALSE
  /\ waits = {} /\ orphans = {} /\ made = << >> /\ settled = {} /\ twice = FALSE
  /\ typed = Empty /\ edits = 0 /\ faults = 0

-----------------------------------------------------------------------------
(* useLoad: only the answer to the last reload counts, and an uncertain    *)
(* failure keeps what was shown.                                           *)
Reloading == { [l EXCEPT !.latest = FALSE] : l \in loads } \cup { [ latest |-> TRUE, answer |-> NoView ] }

(* Opening the panel on the conversation: its row is loaded, and a         *)
(* composer starts with the draft, or without one with the question of     *)
(* which no answer is known.                                               *)
Restored == IF draft # NoDraft THEN draft ELSE stored.text

OpenScreen ==
  /\ signedIn /\ ~screen.on /\ screen.id < MaxScreens
  /\ screen' = [ on |-> TRUE, id |-> screen.id + 1, pending |-> stored, text |-> Restored ]
  /\ known' = [known EXCEPT ![screen.id + 1] = IF stored = NoRequest THEN {} ELSE {stored.key}]
  /\ view' = session /\ loads' = {} /\ timer' = session.running
  /\ UNCHANGED << serverVars, stored, draft, sendVars, typed, edits, faults >>

(* The panel goes to another conversation or another account.              *)
CloseScreen ==
  /\ screen.on /\ screen' = [screen EXCEPT !.on = FALSE, !.pending = NoRequest, !.text = Empty]
  /\ view' = NoView /\ loads' = {} /\ timer' = FALSE
  /\ UNCHANGED << serverVars, stored, draft, known, sendVars, typed, edits, faults >>

(* The page is loaded anew, to log in again among other reasons.           *)
PageLoads ==
  /\ screen.on \/ waits # {} \/ ~signedIn
  /\ signedIn' = TRUE
  /\ screen' = [screen EXCEPT !.on = FALSE, !.pending = NoRequest, !.text = Empty]
  /\ view' = NoView /\ loads' = {} /\ timer' = FALSE
  /\ orphans' = orphans \cup { w.request : w \in { v \in waits : v.answer = "waiting" } } /\ waits' = {}
  /\ UNCHANGED << session, receipts, stored, draft, known, made, settled, twice, typed, edits, faults >>

SessionExpires ==
  /\ signedIn /\ signedIn' = FALSE
  /\ UNCHANGED << session, receipts, tabVars, viewVars, sendVars, typed, edits, faults >>

(* An explicit logout clears the storage: what was asked is given up.      *)
Logout ==
  /\ signedIn /\ signedIn' = FALSE
  /\ stored' = NoRequest /\ draft' = NoDraft /\ typed' = Empty
  /\ screen' = [screen EXCEPT !.on = FALSE, !.pending = NoRequest, !.text = Empty]
  /\ view' = NoView /\ loads' = {} /\ timer' = FALSE
  /\ settled' = DOMAIN made
  /\ UNCHANGED << session, receipts, known, waits, orphans, made, twice, edits, faults >>

-----------------------------------------------------------------------------
(* saveDraft: an emptied input is kept only over a pending request.        *)
SaveDraft(x) == draft' = IF x = Empty /\ screen.pending = NoRequest THEN NoDraft ELSE x

(* Typing, or fetching the pending question back.                          *)
Enter(x) ==
  /\ screen.on /\ screen.text # x /\ edits < MaxTyped
  /\ x = screen.pending.text \/ ~view.running
  /\ screen' = [screen EXCEPT !.text = x] /\ SaveDraft(x) /\ typed' = x
  /\ edits' = edits + 1
  /\ UNCHANGED << serverVars, stored, known, viewVars, sendVars, faults >>

(* Mutant: a repetition is sent for the version shown now.                 *)
UpdatedRequest(retry) ==
  IF retry THEN [screen.pending EXCEPT !.version = view.version]
  ELSE [ key |-> Len(made) + 1, text |-> screen.text, version |-> view.version ]

(* The same question as the one pending is the same request, as it was.    *)
Request(retry) ==
  IF retry THEN screen.pending
  ELSE [ key |-> Len(made) + 1, text |-> screen.text, version |-> view.version ]

(* writeRequest: not over a request this composer does not know.           *)
Saved(r, ks) == IF stored = NoRequest \/ stored.key \in ks \cup {r.key} THEN r ELSE stored

(* The keys whose question may still be answered, or was.                  *)
UnderWay(k) == k \notin settled /\ (k \in receipts \/ \E r \in orphans \cup { w.request : w \in waits } : r.key = k)

(* Sending: the request is stored first.  Whether the environment or the   *)
(* page let it be sent is left open.  A new question gives up the one      *)
(* pending, as the notice above the input says.                            *)
Submit ==
  /\ screen.on /\ screen.text # Empty /\ \A w \in waits : w.id # screen.id
  /\ ~view.running
  /\ LET retry == screen.pending # NoRequest /\ screen.pending.text = screen.text
         r == Request(retry)
     IN /\ retry \/ Len(made) < MaxKeys
        /\ known' = [known EXCEPT ![screen.id] = @ \cup {r.key}]
        /\ stored' = Saved(r, known[screen.id])
        /\ screen' = [screen EXCEPT !.pending = r]
        /\ waits' = waits \cup { [ request |-> r, retry |-> retry, id |-> screen.id, answer |-> "waiting" ] }
        /\ made' = (IF retry THEN made ELSE Append(made, r))
        /\ settled' = (IF retry \/ screen.pending = NoRequest THEN settled ELSE settled \cup {screen.pending.key})
        /\ twice' = (twice \/ (~retry /\ \E k \in DOMAIN made : made[k].text = r.text /\ UnderWay(k)))
  /\ UNCHANGED << serverVars, draft, viewVars, orphans, typed, edits, faults >>

-----------------------------------------------------------------------------
(* The server: login, Origin, CSRF and policy come before the key; a key   *)
(* it has answered is answered again; the version decides about a new one. *)
Handles(r, answer) ==
  \/ ~signedIn /\ answer = "401" /\ UNCHANGED << session, receipts, faults >>
  \/ signedIn /\ faults < MaxFaults /\ faults' = faults + 1 /\ answer = "503" /\ UNCHANGED << session, receipts >>
  \/ /\ signedIn /\ r.key \in receipts
     /\ answer = (IF made[r.key] = r THEN "ok" ELSE "409") /\ UNCHANGED << session, receipts, faults >>
  \/ /\ signedIn /\ r.key \notin receipts /\ UNCHANGED faults
     /\ IF session.running \/ session.version # r.version
        THEN answer = "409" /\ UNCHANGED << session, receipts >>
        ELSE /\ answer = "ok" /\ receipts' = receipts \cup {r.key}
             /\ session' = [ version |-> session.version + 1, running |-> TRUE ]

Taken(w) ==
  /\ w \in waits /\ w.answer = "waiting"
  /\ \E a \in {"401", "503", "409", "ok"} :
       Handles(w.request, a) /\ waits' = (waits \ {w}) \cup { [w EXCEPT !.answer = a] }
  /\ UNCHANGED << signedIn, tabVars, viewVars, orphans, made, settled, twice, typed, edits >>

OrphanTaken(r) ==
  /\ r \in orphans /\ orphans' = orphans \ {r}
  /\ \E a \in {"401", "503", "409", "ok"} : Handles(r, a)
  /\ UNCHANGED << signedIn, tabVars, viewVars, waits, made, settled, twice, typed, edits >>

TurnEnds ==
  /\ session.running /\ session' = [ version |-> session.version + 1, running |-> FALSE ]
  /\ UNCHANGED << receipts, signedIn, tabVars, viewVars, sendVars, typed, edits, faults >>

(* The answer is lost, or the wait is given up first.                      *)
AnswerLost(w) ==
  /\ w \in waits /\ w.answer # "lost" /\ faults < MaxFaults
  /\ faults' = faults + 1
  /\ waits' = (waits \ {w}) \cup { [w EXCEPT !.answer = "lost"] }
  /\ orphans' = (IF w.answer = "waiting" THEN orphans \cup {w.request} ELSE orphans)
  /\ UNCHANGED << serverVars, tabVars, viewVars, made, settled, twice, typed, edits >>

-----------------------------------------------------------------------------
(* Mutant: any definite answer to a repetition settles the request.        *)
AnyDefinite(w) == w.answer # "lost"

(* A first attempt is settled by any definite answer; a repetition only by *)
(* one the server gave about its key.                                      *)
Settles(w) == IF w.retry THEN w.answer \in {"ok", "409"} ELSE w.answer # "lost"

(* Mutant: success empties the input.                                      *)
EmptiesAlways(w) == w.answer = "ok" /\ screen.on /\ w.id = screen.id

(* Success empties an input that still is what was sent.                   *)
Empties(w) == w.answer = "ok" /\ screen.on /\ w.id = screen.id /\ screen.text = w.request.text

(* Mutant: a composer that was closed clears whatever draft there is.      *)
DropsAnyDraft(w) == w.answer = "ok" /\ ~(screen.on /\ w.id = screen.id)

(* A composer that was closed clears the draft only of what it sent.       *)
DropsDraft(w) == w.answer = "ok" /\ ~(screen.on /\ w.id = screen.id) /\ draft = w.request.text

(* removeRequest: only a request this composer knows.                      *)
Removes(w) == stored.key \in known[w.id]

(* submit, resumed.  The row is asked for again either way.                *)
Arrives(w) ==
  LET here == screen.on /\ w.id = screen.id
  IN /\ w \in waits /\ w.answer # "waiting"
     /\ waits' = waits \ {w}
     /\ stored' = (IF Settles(w) /\ stored # NoRequest /\ Removes(w) THEN NoRequest ELSE stored)
     /\ draft' = (IF Empties(w) \/ DropsDraft(w) THEN NoDraft ELSE draft)
     /\ screen' = (IF ~here THEN screen
                   ELSE [screen EXCEPT !.pending = IF Settles(w) THEN NoRequest ELSE @,
                                       !.text = IF Empties(w) THEN Empty ELSE @])
     /\ settled' = (IF w.answer \in {"ok", "409"} \/ (~w.retry /\ w.answer # "lost")
                    THEN settled \cup {w.request.key} ELSE settled)
     /\ loads' = (IF here THEN Reloading ELSE loads)
     /\ UNCHANGED << serverVars, known, view, timer, orphans, made, twice, typed, edits, faults >>

-----------------------------------------------------------------------------
LoadTaken(l) ==
  /\ l \in loads /\ l.answer = NoView
  /\ loads' = (loads \ {l}) \cup { [l EXCEPT !.answer = session] }
  /\ UNCHANGED << serverVars, tabVars, view, timer, sendVars, typed, edits, faults >>

(* Mutant: a reload that fails leaves the poll as it is.                   *)
SilentFailure == FALSE

(* Either way something changed and the effect schedules the next reload.  *)
FailurePolls == view.running

LoadFails(l) ==
  /\ l \in loads /\ faults < MaxFaults /\ faults' = faults + 1
  /\ loads' = loads \ {l}
  /\ timer' = (IF l.latest THEN FailurePolls ELSE timer)
  /\ UNCHANGED << serverVars, tabVars, view, sendVars, typed, edits >>

(* useLoad: only the answer of the last reload is shown.                   *)
LastReload(l) == l.latest

LoadArrives(l) ==
  /\ l \in loads /\ l.answer # NoView
  /\ loads' = loads \ {l}
  /\ IF LastReload(l) THEN view' = l.answer /\ timer' = l.answer.running ELSE UNCHANGED << view, timer >>
  /\ UNCHANGED << serverVars, tabVars, sendVars, typed, edits, faults >>

Poll ==
  /\ timer /\ timer' = FALSE /\ loads' = Reloading
  /\ UNCHANGED << serverVars, tabVars, view, sendVars, typed, edits, faults >>

Next ==
  \/ OpenScreen \/ CloseScreen \/ PageLoads \/ SessionExpires \/ Logout
  \/ \E x \in Texts \cup {Empty} : Enter(x)
  \/ Submit
  \/ \E w \in waits : Taken(w) \/ AnswerLost(w) \/ Arrives(w)
  \/ \E r \in orphans : OrphanTaken(r)
  \/ TurnEnds
  \/ \E l \in loads : LoadTaken(l) \/ LoadFails(l) \/ LoadArrives(l)
  \/ Poll

(* The turn ends, reloads are answered and the timer fires.                *)
Fairness ==
  /\ WF_vars(TurnEnds) /\ WF_vars(Poll)
  /\ WF_vars(\E l \in loads : LoadTaken(l)) /\ WF_vars(\E l \in loads : LoadArrives(l))

Spec == Init /\ [][Next]_vars /\ Fairness

-----------------------------------------------------------------------------
(* A question whose outcome nobody knows is never asked again under a new  *)
(* key ("a resend of the same intent makes no new model turn",             *)
(* pendingSend.ts:2), and a key is always sent with the same body.  A      *)
(* refusal of the first attempt counts as its outcome, as it does in the   *)
(* code, though the repetition by a composer opened since may yet be taken.*)
NoQuestionTwice ==
  /\ ~twice
  /\ \A r \in orphans \cup { w.request : w \in waits } \cup ({stored} \ {NoRequest}) : made[r.key] = r

(* What the person entered last is on the screen, or will be when it is    *)
(* opened again, unless the server has taken it.                           *)
InputSurvives ==
  \/ \E k \in receipts : made[k].text = typed
  \/ typed = IF screen.on THEN screen.text ELSE Restored

(* A conversation seen running is seen to end, while it is open.           *)
EndIsSeen == view.running ~> (~view.running \/ ~screen.on)
=============================================================================
