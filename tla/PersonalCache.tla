--------------------------- MODULE PersonalCache ---------------------------
(***************************************************************************)
(* One trial of a person's managed login (runner/auth.py, used by Native   *)
(* in runner/app.py): a grant of Budget dispatches, a ledger outside the   *)
(* native home, the login's only copy, which the native process rotates    *)
(* in its own cache and a clean close exports again, and the cleanup that  *)
(* an operator may run beside it.                                          *)
(*                                                                         *)
(* The process may die between any two writes, the provider may have       *)
(* rotated a token that the cache does not hold yet, and an old native     *)
(* home may be restored.                                                   *)
(***************************************************************************)
EXTENDS Naturals, FiniteSets

CONSTANTS Requests,   \* request ids that are submitted
          Budget,     \* maxDispatches: 3
          MaxToken    \* bound: rotations of the login

CacheAssumption == Budget \in Nat /\ MaxToken \in Nat \ {0}

VARIABLES
  grant,     \* grant.json: whether it is revoked, and whether it is expired
  ledger,    \* ledger.json: whether it exists, its requests, nativeActive
  exported,  \* the login in control/auth.json, 0 for none
  cache,     \* the login in the native home's auth.json
  latest,    \* the login that the provider accepts
  rotating,  \* the provider has rotated and the cache is not written yet
  proc,      \* the runner: "down", or the step of its start or close it is at
  clean,     \* the close it is at is a proved one
  reserved,  \* requests in broker.json
  turn,      \* the request being admitted or run, and its step
  sweep,     \* cleanup: the step it is at
  sent,      \* history: how often a request was dispatched
  cleaned    \* history: a cleanup has passed

vars == << grant, ledger, exported, cache, latest, rotating, proc, clean, reserved, turn, sweep, sent, cleaned >>
runner == << latest, rotating, proc, clean, reserved, turn, sent >>

Logins == 0..MaxToken
NoTurn == [ request |-> "none", step |-> "none" ]

TypeOK ==
  /\ grant \in [ revoked : BOOLEAN, expired : BOOLEAN ]
  /\ ledger \in [ made : BOOLEAN, requests : SUBSET Requests, active : BOOLEAN ]
  /\ {exported, cache} \subseteq Logins /\ latest \in 1..MaxToken /\ {rotating, clean, cleaned} \subseteq BOOLEAN
  /\ proc \in {"down", "copied", "up", "ended", "exported", "closed"}
  /\ reserved \subseteq Requests /\ sweep \in {"none", "revoked", "locked", "half"}
  /\ turn = NoTurn \/ turn \in [ request : Requests, step : {"checked", "consumed", "reserved", "sent"} ]
  /\ sent \in [Requests -> 0..2]
  /\ turn # NoTurn => proc = "up"

Init ==
  /\ grant = [ revoked |-> FALSE, expired |-> FALSE ]
  /\ ledger = [ made |-> FALSE, requests |-> {}, active |-> FALSE ]
  /\ exported = 1 /\ cache = 0 /\ latest = 1 /\ rotating = FALSE
  /\ proc = "down" /\ clean = FALSE /\ reserved = {} /\ turn = NoTurn
  /\ sweep = "none" /\ sent = [r \in Requests |-> 0] /\ cleaned = FALSE

(* grant(): a revoked or expired grant refuses, as state() does with it.   *)
Granted == ~grant.revoked /\ ~grant.expired

-----------------------------------------------------------------------------
(* Start: attach, under the lease.                                         *)

(* Mutant: nobody else's lease is looked at.                               *)
LeaseIgnored == TRUE

LeaseFree == proc = "down" /\ sweep \notin {"locked", "half"}

(* A new ledger is not made for a home that has a history.                 *)
Attach ==
  /\ proc = "down" /\ LeaseFree /\ Granted /\ ~ledger.active /\ exported # 0
  /\ ledger.made \/ reserved = {}
  /\ ledger' = [ledger EXCEPT !.made = TRUE]
  /\ cache' = exported /\ proc' = "copied"
  /\ UNCHANGED << grant, exported, latest, rotating, clean, reserved, turn, sweep, sent, cleaned >>

(* nativeActive is recorded, or its write fails and the lease is released. *)
Activate ==
  /\ proc = "copied"
  /\ \/ ledger' = [ledger EXCEPT !.active = TRUE] /\ proc' = "up"
     \/ UNCHANGED ledger /\ proc' = "down"
  /\ UNCHANGED << grant, exported, cache, latest, rotating, clean, reserved, turn, sweep, sent, cleaned >>

(* The native process rotates its login.                                   *)
Rotate ==
  /\ proc = "up"
  /\ \/ ~rotating /\ latest < MaxToken /\ latest' = latest + 1 /\ rotating' = TRUE /\ UNCHANGED cache
     \/ rotating /\ cache' = latest /\ rotating' = FALSE /\ UNCHANGED latest
  /\ UNCHANGED << grant, ledger, exported, proc, clean, reserved, turn, sweep, sent, cleaned >>

-----------------------------------------------------------------------------
(* A turn: accept.                                                         *)

(* A request with a reservation was answered before; availability() and    *)
(* consume() check the grant and the budget.                               *)
Check(r) ==
  /\ proc = "up" /\ turn = NoTurn /\ r \notin reserved
  /\ Granted /\ Cardinality(ledger.requests) < Budget
  /\ turn' = [ request |-> r, step |-> "checked" ]
  /\ UNCHANGED << grant, ledger, exported, cache, latest, rotating, proc, clean, reserved, sweep, sent, cleaned >>

(* Mutant: a request that the native home does not know is new.            *)
ChargedIfReserved(r) == r \in reserved

Charged(r) == r \in ledger.requests

(* The ledger is written; "ledger survived but native reservation did not: *)
(* ambiguous, no replay".                                                  *)
Consume ==
  /\ turn.step = "checked"
  /\ IF Charged(turn.request) THEN turn' = NoTurn /\ UNCHANGED ledger
     ELSE /\ ledger' = [ledger EXCEPT !.requests = @ \cup {turn.request}]
          /\ turn' = [turn EXCEPT !.step = "consumed"]
  /\ UNCHANGED << grant, exported, cache, latest, rotating, proc, clean, reserved, sweep, sent, cleaned >>

(* The durable reservation, or its failure.                                *)
Reserve ==
  /\ turn.step = "consumed"
  /\ \/ reserved' = reserved \cup {turn.request} /\ turn' = [turn EXCEPT !.step = "reserved"]
     \/ UNCHANGED reserved /\ turn' = NoTurn
  /\ UNCHANGED << grant, ledger, exported, cache, latest, rotating, proc, clean, sweep, sent, cleaned >>

Dispatch ==
  /\ turn.step = "reserved" /\ turn' = [turn EXCEPT !.step = "sent"]
  /\ sent' = [sent EXCEPT ![turn.request] = IF @ = 2 THEN 2 ELSE @ + 1]
  /\ UNCHANGED << grant, ledger, exported, cache, latest, rotating, proc, clean, reserved, sweep, cleaned >>

TurnEnds ==
  /\ turn.step \in {"reserved", "sent"} /\ turn' = NoTurn
  /\ UNCHANGED << grant, ledger, exported, cache, latest, rotating, proc, clean, reserved, sweep, sent, cleaned >>

-----------------------------------------------------------------------------
(* The end of the process: Native.close, then close(clean).                *)

(* Mutant: any end of the native process is a clean one.                   *)
ProvedAny == TRUE

(* "A planned idle EOF that exits 0 without timeout/forced termination and *)
(* with no active/ambiguous worker"; such a process has written what it    *)
(* rotated.                                                                *)
Proved == turn = NoTurn /\ ~rotating

End ==
  /\ proc = "up" /\ proc' = "ended" /\ turn' = NoTurn /\ rotating' = FALSE
  /\ \E planned \in BOOLEAN : clean' = (planned /\ Proved)
  /\ UNCHANGED << grant, ledger, exported, cache, latest, reserved, sweep, sent, cleaned >>

(* Mutant: the login that was rotated is not written back.                 *)
ExportedBefore == exported

(* The login as the native process left it.                                *)
Exported == cache

(* The login is exported before the tombstone is cleared.                  *)
Export ==
  /\ proc = "ended" /\ clean /\ Granted
  /\ proc' = "exported" /\ exported' = Exported
  /\ UNCHANGED << grant, ledger, cache, latest, rotating, clean, reserved, turn, sweep, sent, cleaned >>

Clear ==
  /\ proc = "exported" /\ proc' = "closed" /\ ledger' = [ledger EXCEPT !.active = FALSE]
  /\ UNCHANGED << grant, exported, cache, latest, rotating, clean, reserved, turn, sweep, sent, cleaned >>

(* Whatever failed before, the copy is removed and the lease released.     *)
Leave ==
  /\ proc \in {"ended", "exported", "closed"} /\ proc' = "down" /\ cache' = 0
  /\ UNCHANGED << grant, ledger, exported, latest, rotating, clean, reserved, turn, sweep, sent, cleaned >>

Crash ==
  /\ proc # "down" /\ proc' = "down" /\ turn' = NoTurn /\ rotating' = FALSE
  /\ UNCHANGED << grant, ledger, exported, cache, latest, clean, reserved, sweep, sent, cleaned >>

(* An older native home is put back.                                       *)
RestoreHome ==
  /\ proc = "down" /\ \E kept \in SUBSET reserved : reserved' = kept
  /\ UNCHANGED << grant, ledger, exported, cache, latest, rotating, proc, clean, turn, sweep, sent, cleaned >>

-----------------------------------------------------------------------------
(* The grant expires; the operator revokes it and cleans up.               *)
Expire ==
  /\ grant' = [grant EXCEPT !.expired = TRUE] /\ ~grant.expired
  /\ UNCHANGED << ledger, exported, cache, sweep, cleaned, runner >>

(* The grant is revoked first, whoever holds the lease.                    *)
Revoke ==
  /\ sweep = "none" /\ sweep' = "revoked" /\ grant' = [grant EXCEPT !.revoked = TRUE]
  /\ UNCHANGED << ledger, exported, cache, cleaned, runner >>

SweepLocks ==
  /\ sweep = "revoked" /\ sweep' = IF LeaseFree THEN "locked" ELSE "none"
  /\ UNCHANGED << grant, ledger, exported, cache, cleaned, runner >>

Sweep ==
  /\ \/ sweep = "locked" /\ sweep' = "half" /\ exported' = 0 /\ UNCHANGED << cache, cleaned >>
     \/ sweep = "half" /\ sweep' = "none" /\ cache' = 0 /\ cleaned' = TRUE /\ UNCHANGED exported
  /\ UNCHANGED << grant, ledger, runner >>

SweepDies ==
  /\ sweep # "none" /\ sweep' = "none"
  /\ UNCHANGED << grant, ledger, exported, cache, cleaned, runner >>

Next ==
  \/ Attach \/ Activate \/ Rotate
  \/ (\E r \in Requests : Check(r)) \/ Consume \/ Reserve \/ Dispatch \/ TurnEnds
  \/ End \/ Export \/ Clear \/ Leave \/ Crash \/ RestoreHome
  \/ Expire \/ Revoke \/ SweepLocks \/ Sweep \/ SweepDies

Spec == Init /\ [][Next]_vars

-----------------------------------------------------------------------------
(* "Failed thread/resume/model attempts, ambiguous reservation failure and *)
(* turns after process restart all consume the same 3-slot budget ...      *)
(* Restoring an old native home cannot roll back the external ledger"      *)
(* (PERSONAL-CODEX-TEST.md:59): no request is dispatched twice, or without *)
(* a receipt, or beyond the budget.                                        *)
SpentOnce ==
  /\ \A r \in Requests : sent[r] <= 1 /\ (sent[r] = 1 => r \in ledger.requests)
  /\ Cardinality(ledger.requests) <= Budget

(* "Crash/restore cannot silently reactivate old cache" (auth.py:136): a   *)
(* native process that runs holds the login that the provider accepts.     *)
CacheIsCurrent == proc \in {"copied", "up"} /\ ~rotating => cache = latest

(* After a cleanup has passed there is no copy of the login any more, and  *)
(* no close or start brings one back.                                      *)
CleanedStaysClean == cleaned => exported = 0 /\ cache = 0
=============================================================================
