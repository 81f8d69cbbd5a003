---------------------------- MODULE AccessWindow ----------------------------
(***************************************************************************)
(* A runner that an operator supplies by hand with access tokens for a     *)
(* window of a few dispatches (runner/access.py, ops/access_snapshot.py,   *)
(* runner/access_supply.py, and Native in runner/app.py): windows, their   *)
(* deadline and budget, supply again, blocks, refusals and restarts.  The  *)
(* token lives in memory only; the ledger survives.                        *)
(*                                                                         *)
(* Time is in units of 60 s.  A token is the time it expires at.           *)
(***************************************************************************)
EXTENDS Naturals, FiniteSets

CONSTANTS Requests,    \* request ids that are submitted
          Budget,      \* admissions of a window: 3
          Length,      \* how long a window lasts: 15
          MaxWindow,   \* bound: windows
          MaxTime      \* bound: the clock

WindowAssumption == Budget \in Nat /\ Length \in Nat /\ MaxWindow \in Nat \ {0} /\ MaxTime \in Nat \ {0}

VARIABLES
  now,       \* the clock
  ledger,    \* access-ledger.json
  memory,    \* AccessAuth.snapshot: the token, 0 for none
  proc,      \* the native process serves
  reason,    \* Native.blocked_reason
  reserved,  \* requests in broker.json
  turn,      \* the request being admitted or run, and its step
  sent,      \* history: request -> how often it was dispatched
  opened     \* history: window -> when it was first supplied, 0 for never

vars == << now, ledger, memory, proc, reason, reserved, turn, sent, opened >>

Windows == 1..MaxWindow
Tokens  == 0..(MaxTime + 2)
Blocks  == {"none", "auth_revoked", "auth_expired", "policy_refused", "model_unavailable"}
NoTurn  == [ request |-> "none", step |-> "none" ]

Envelopes == [ window : Windows, new : BOOLEAN, token : Tokens \ {0} ]

TypeOK ==
  /\ now \in 1..MaxTime
  /\ ledger \in [ made : BOOLEAN, window : 0..MaxWindow, windows : SUBSET Windows, started : 0..MaxTime,
                  deadline : Tokens, blocked : Blocks, model : BOOLEAN, charged : [Requests -> 0..MaxWindow] ]
  /\ memory \in Tokens /\ proc \in BOOLEAN /\ reason \in Blocks
  /\ reserved \subseteq Requests /\ sent \in [Requests -> 0..2] /\ opened \in [Windows -> 0..MaxTime]
  /\ turn = NoTurn \/ turn \in [ request : Requests, step : {"consumed", "reserved", "sent"} ]
  /\ proc => memory # 0 /\ ledger.made

Init ==
  /\ now = 1
  /\ ledger = [ made |-> FALSE, window |-> 0, windows |-> {}, started |-> 0, deadline |-> 0,
                blocked |-> "none", model |-> FALSE, charged |-> [r \in Requests |-> 0] ]
  /\ memory = 0 /\ proc = FALSE /\ reason = "none" /\ reserved = {} /\ turn = NoTurn
  /\ sent = [r \in Requests |-> 0] /\ opened = [w \in Windows |-> 0]

Tick ==
  /\ now < MaxTime /\ now' = now + 1
  /\ UNCHANGED << ledger, memory, proc, reason, reserved, turn, sent, opened >>

-----------------------------------------------------------------------------
(* The supply: install.                                                    *)

(* Mutant: a window may be opened again.                                   *)
OpenableAgain(e) == e.new \/ (ledger.made /\ e.window = ledger.window)

(* "No replay can reset a consumed window": a new window is a new one, and *)
(* a supply again is for the current one.                                  *)
Openable(e) ==
  IF e.new THEN e.window \notin ledger.windows ELSE ledger.made /\ e.window = ledger.window

(* Mutant: a supply again starts the window again.                         *)
StartedAnew(e) == now

Started(e) == IF e.new THEN now ELSE ledger.started

Smaller(a, b) == IF a < b THEN a ELSE b

(* Mutant: the token's life alone is the deadline.                         *)
DeadlineOfToken(e) == e.token - 1

Deadline(e) == Smaller(e.token - 1, Started(e) + Length)

(* Why an envelope is refused: claims() asks for 120 s of life, and a      *)
(* blocked model is not supplied.                                          *)
Refusal(e) ==
  CASE e.token <= now + 2  -> "auth_expired"
    [] ~Openable(e)        -> "policy_refused"
    [] Deadline(e) <= now  -> "auth_expired"
    [] ledger.model        -> "model_unavailable"
    [] OTHER               -> "none"

Installable(e) == Refusal(e) = "none"

(* The ledger is written before the token is taken into memory.            *)
Install(e, why) ==
  /\ ledger' = [ledger EXCEPT !.made = TRUE, !.window = e.window, !.windows = @ \cup {e.window},
                  !.started = Started(e), !.deadline = Deadline(e), !.blocked = why]
  /\ memory' = e.token /\ reason' = why
  /\ opened' = IF opened[e.window] = 0 THEN [opened EXCEPT ![e.window] = now] ELSE opened

(* The first supply starts the native process, which may fail to.          *)
SupplyStarts(e) ==
  /\ ~proc /\ Installable(e) /\ Install(e, "none") /\ proc' \in BOOLEAN
  /\ UNCHANGED << now, reserved, turn, sent >>

Block(why) == reason' = why /\ ledger' = [ledger EXCEPT !.blocked = why]

(* resupply, between turns: the login may refuse the token; an envelope    *)
(* that is refused blocks the runner until one is accepted.                *)
SupplyAgain(e) ==
  /\ proc /\ turn = NoTurn
  /\ \/ Installable(e) /\ \E why \in {"none", "auth_revoked"} : Install(e, why)
     \/ ~Installable(e) /\ Block(Refusal(e)) /\ UNCHANGED << memory, opened >>
  /\ UNCHANGED << now, proc, reserved, turn, sent >>

-----------------------------------------------------------------------------
(* A turn: availability, consume, the reservation, and receive's checks.   *)

Serving == memory # 0 /\ now < ledger.deadline /\ ledger.blocked = "none" /\ ~ledger.model

Spent(w) == Cardinality({ r \in Requests : ledger.charged[r] = w })

(* Mutant: a request counts only while its reservation is there.           *)
UsedIfReserved(r) == r \in reserved

Used(r) == ledger.charged[r] # 0

(* "Ambiguous prior reservation never auto-replays."                       *)
Consume(r) ==
  /\ proc /\ turn = NoTurn /\ r \notin reserved /\ reason = "none" /\ Serving
  /\ Spent(ledger.window) < Budget /\ ~Used(r)
  /\ ledger' = [ledger EXCEPT !.charged[r] = ledger.window]
  /\ turn' = [ request |-> r, step |-> "consumed" ]
  /\ UNCHANGED << now, memory, proc, reason, reserved, sent, opened >>

Reserve ==
  /\ turn.step = "consumed"
  /\ \/ reserved' = reserved \cup {turn.request} /\ turn' = [turn EXCEPT !.step = "reserved"]
     \/ UNCHANGED reserved /\ turn' = NoTurn
  /\ UNCHANGED << now, ledger, memory, proc, reason, sent, opened >>

(* The thread's answer is received under the same check as every message.  *)
Dispatch ==
  /\ turn.step = "reserved" /\ Serving
  /\ turn' = [turn EXCEPT !.step = "sent"]
  /\ sent' = [sent EXCEPT ![turn.request] = IF @ = 2 THEN 2 ELSE @ + 1]
  /\ UNCHANGED << now, ledger, memory, proc, reason, reserved, opened >>

(* Past the deadline the next message fails the turn and blocks.           *)
Expires ==
  /\ turn.step \in {"reserved", "sent"} /\ now >= ledger.deadline
  /\ turn' = NoTurn /\ Block("auth_expired")
  /\ UNCHANGED << now, memory, proc, reserved, sent, opened >>

(* A turn ends; or the provider answers 401, which only a supply ends; or  *)
(* another model serves it, which no supply ends.                          *)
Ends ==
  /\ turn.step \in {"reserved", "sent"} /\ turn' = NoTurn
  /\ \/ UNCHANGED << ledger, reason >>
     \/ Block("auth_revoked")
     \/ reason' = "model_unavailable" /\ ledger' = [ledger EXCEPT !.model = TRUE]
  /\ UNCHANGED << now, memory, proc, reserved, sent, opened >>

-----------------------------------------------------------------------------
(* The runner stops or dies, or its native process does: the token is      *)
(* gone, the ledger is not.                                                *)
Stop ==
  /\ proc /\ proc' = FALSE /\ memory' = 0 /\ reason' = "none" /\ turn' = NoTurn
  /\ UNCHANGED << now, ledger, reserved, sent, opened >>

(* An older native home is put back.                                       *)
RestoreHome ==
  /\ ~proc /\ \E kept \in SUBSET reserved : reserved' = kept
  /\ UNCHANGED << now, ledger, memory, proc, reason, turn, sent, opened >>

Next ==
  \/ Tick
  \/ \E e \in Envelopes : SupplyStarts(e) \/ SupplyAgain(e)
  \/ (\E r \in Requests : Consume(r)) \/ Reserve \/ Dispatch \/ Expires \/ Ends
  \/ Stop \/ RestoreHome

Spec == Init /\ [][Next]_vars

-----------------------------------------------------------------------------
(* "Each window has 3 admissions in all, failures and unknowns included",  *)
(* and old requests stay known through new windows (ACCESS-WEB-TEST.md:33):*)
(* none is dispatched twice, without its charge, or beyond a budget.       *)
WindowSpentOnce ==
  /\ \A r \in Requests : sent[r] <= 1 /\ (sent[r] = 1 => ledger.charged[r] # 0)
  /\ \A w \in Windows : Spent(w) <= Budget

(* "A supply again in the same window neither extends its 15 minutes nor   *)
(* resets its limit" (ACCESS-WEB-TEST.md:31): whatever is admitted or      *)
(* dispatched falls into the first 15 minutes of its window and the life   *)
(* of the token in memory.                                                 *)
AdmittedInTime ==
  [][ \A r \in Requests :
        (ledger'.charged[r] # ledger.charged[r] \/ sent'[r] # sent[r]) =>
          now < opened[ledger'.charged[r]] + Length /\ now + 1 < memory ]_vars
=============================================================================
