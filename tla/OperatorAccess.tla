--------------------------- MODULE OperatorAccess ---------------------------
(***************************************************************************)
(* A runner that is supplied with the operator's access token by the       *)
(* codex-broker (CODEX_AUTH_MODE=access-service): the durable service      *)
(* ledger (runner/service_access.py), the pull thread that renews the      *)
(* token (runner/broker_client.py), the 401 path of a running turn and the *)
(* reservation of turns (runner/app.py), and the broker that answers       *)
(* (broker/credentials.py, seen here as one step; BrokerCredentials opens  *)
(* it).  The process may die at any step; only the ledger and the turn     *)
(* mapping survive.  Answers travel: a pull may be applied long after the  *)
(* broker gave it.                                                         *)
(*                                                                         *)
(* A token is a number, in the order the provider issued them.  Its life   *)
(* is "fresh" (at least the broker's margin left), "near" (less) or "dead" *)
(* (past the ledger's deadline).                                           *)
(***************************************************************************)
EXTENDS Naturals, FiniteSets

CONSTANTS Requests,   \* request ids the API submits to this runner
          MaxToken    \* bound: tokens the provider issues

ASSUME OperatorAssumption == MaxToken \in Nat \ {0}

VARIABLES life,       \* token -> "unissued", "fresh", "near" or "dead"
          denied,     \* tokens the provider answers 401 to
          served,     \* the token in the broker's auth.json
          ledger,     \* service-access.sqlite3
          mapping,    \* broker.json: request -> state of its reservation
          native,     \* the app-server process: "none", "up" or "dead"
          memory,     \* AccessAuth.snapshot, 0 when there is none
          reason,     \* Native.blocked_reason
          turn,       \* the turn in flight and where it is
          pull,       \* BrokerPull: where it is, and the token it carries
          sent        \* history: how often a request reached the provider

vars == <<life, denied, served, ledger, mapping, native, memory, reason, turn, pull, sent>>
provider == <<life, denied, served>>

Tokens == 1..MaxToken
AuthReasons == {"auth_revoked", "auth_expired"}
(* The reasons install() never clears. *)
Sticky == {"policy_refused", "provider_rate_limited", "model_unavailable"}
Reasons == AuthReasons \cup Sticky \cup {"unavailable", "none"}
Idle == [request |-> "none", step |-> "none"]
Asleep == [step |-> "idle", token |-> 0]

TypeOK ==
  /\ life \in [Tokens -> {"unissued", "fresh", "near", "dead"}]
  /\ denied \subseteq Tokens /\ served \in Tokens
  /\ ledger \in [snapshot: 0..MaxToken, blocked: Reasons, model: BOOLEAN,
                 seen: SUBSET Tokens, rejected: SUBSET Tokens, receipts: SUBSET Requests]
  /\ mapping \in [Requests -> {"none", "running", "idle", "failed"}]
  /\ native \in {"none", "up", "dead"} /\ memory \in 0..MaxToken /\ reason \in Reasons
  /\ turn \in [request: Requests \cup {"none"},
               step: {"none", "consumed", "reserved", "sent", "refresh"}]
  /\ pull \in [step: {"idle", "asked", "answered", "starting", "login"}, token: 0..MaxToken]
  /\ sent \in [Requests -> 0..2]

Init ==
  /\ life = [t \in Tokens |-> IF t = 1 THEN "fresh" ELSE "unissued"]
  /\ denied = {} /\ served = 1
  /\ ledger = [snapshot |-> 0, blocked |-> "none", model |-> FALSE,
               seen |-> {}, rejected |-> {}, receipts |-> {}]
  /\ mapping = [q \in Requests |-> "none"]
  /\ native = "none" /\ memory = 0 /\ reason = "none"
  /\ turn = Idle /\ pull = Asleep /\ sent = [q \in Requests |-> 0]

-----------------------------------------------------------------------------
(* Mutant: a credential the provider refused is accepted again. *)
RefusalForgetsRejected(led, t) ==
  IF life[t] = "dead" THEN "auth_expired"
  ELSE IF led.model THEN "model_unavailable"
  ELSE IF led.blocked \in Sticky THEN led.blocked
  ELSE IF t # led.snapshot /\ t \in led.seen THEN "policy_refused"
  ELSE "none"

(* Mutant: a retired credential may come back. *)
RefusalForgetsRetired(led, t) ==
  IF life[t] = "dead" THEN "auth_expired"
  ELSE IF led.model THEN "model_unavailable"
  ELSE IF led.blocked \in Sticky THEN led.blocked
  ELSE IF t \in led.rejected THEN "auth_revoked"
  ELSE "none"

(* Mutant: any blocked ledger stays blocked. *)
RefusalStays(led, t) ==
  IF life[t] = "dead" THEN "auth_expired"
  ELSE IF led.blocked # "none" THEN led.blocked
  ELSE IF t # led.snapshot /\ t \in led.seen THEN "policy_refused"
  ELSE "none"

(* ServiceAccessAuth.install: why it refuses an envelope, or "none".  The  *)
(* snapshot id is a function of Pod and token, so the check of a repeated  *)
(* id is the check of a repeated token.                                    *)
Refusal(led, t) ==
  IF life[t] = "dead" THEN "auth_expired"
  ELSE IF led.model THEN "model_unavailable"
  ELSE IF led.blocked \in Sticky THEN led.blocked
  ELSE IF t \in led.rejected THEN "auth_revoked"
  ELSE IF t # led.snapshot /\ t \in led.seen THEN "policy_refused"
  ELSE "none"

(* The ledger after a successful install. *)
Installed(led, t) ==
  [led EXCEPT !.snapshot = t, !.blocked = "none", !.seen = @ \cup {t}]

(* ServiceAccessAuth.block: an authorization failure also rejects the      *)
(* ledger's current token for good.                                        *)
Blocked(led, why) ==
  [led EXCEPT !.blocked = why,
              !.rejected = IF why \in AuthReasons THEN @ \cup {led.snapshot} ELSE @]

(* ServiceAccessAuth._check: the reason the ledger gives against work.     *)
Checked ==
  IF memory = 0 THEN "not_configured"
  ELSE IF memory # ledger.snapshot THEN "policy_refused"
  ELSE IF life[memory] = "dead" THEN "auth_expired"
  ELSE IF ledger.model THEN "model_unavailable"
  ELSE ledger.blocked

-----------------------------------------------------------------------------
(* The provider and the broker. *)
Issued == {t \in Tokens : life[t] # "unissued"}
NewToken == Cardinality(Issued) + 1
CanIssue == NewToken \in Tokens

(* A token ages past the broker's margin, then past its deadline. *)
Age(t) ==
  /\ life[t] \in {"fresh", "near"}
  /\ life' = [life EXCEPT ![t] = IF @ = "fresh" THEN "near" ELSE "dead"]
  /\ UNCHANGED <<denied, served, ledger, mapping, native, memory, reason, turn, pull, sent>>

(* The provider stops honouring a token before its expiry. *)
Deny(t) ==
  /\ t \in Issued \ denied /\ denied' = denied \cup {t}
  /\ UNCHANGED <<life, served, ledger, mapping, native, memory, reason, turn, pull, sent>>

(* The app-server in the broker renews on its own, or the operator logs in *)
(* again, or another runner's 401 forces a refresh.                        *)
Rotate ==
  /\ CanIssue
  /\ life' = [life EXCEPT ![NewToken] = "fresh"] /\ served' = NewToken
  /\ UNCHANGED <<denied, ledger, mapping, native, memory, reason, turn, pull, sent>>

(* Credentials.access: the token returned for a request, renewing first    *)
(* what is near its expiry or, when forced, what the runner was refused    *)
(* (at most one forced refresh a minute: a forced request may get the      *)
(* current token).  Failures of the broker are the callers' own steps.     *)
Answer(t, force) ==
  \/ /\ life[served] = "fresh" /\ t = served /\ UNCHANGED <<life, served>>
  \/ /\ force \/ life[served] # "fresh"
     /\ CanIssue /\ t = NewToken
     /\ life' = [life EXCEPT ![t] = "fresh"] /\ served' = t

-----------------------------------------------------------------------------
(* BrokerPull: fetch, apply, sleep; every failure is retried. *)
PullAsk ==
  /\ pull.step = "idle" /\ pull' = [step |-> "asked", token |-> 0]
  /\ UNCHANGED <<provider, ledger, mapping, native, memory, reason, turn, sent>>

PullAnswered ==
  /\ pull.step = "asked"
  /\ \E t \in Tokens : Answer(t, FALSE) /\ pull' = [step |-> "answered", token |-> t]
  /\ UNCHANGED <<denied, ledger, mapping, native, memory, reason, turn, sent>>

PullFails ==
  /\ pull.step = "asked" /\ pull' = Asleep
  /\ UNCHANGED <<provider, ledger, mapping, native, memory, reason, turn, sent>>

(* apply_locked before the app-server exists: install, then start it.      *)
(* A refusal is only remembered in the process (auth_failure).             *)
ApplyFirst ==
  /\ pull.step = "answered" /\ native = "none"
  /\ IF Refusal(ledger, pull.token) = "none"
     THEN /\ ledger' = Installed(ledger, pull.token) /\ memory' = pull.token
          /\ pull' = [pull EXCEPT !.step = "starting"]
     ELSE /\ pull' = Asleep /\ UNCHANGED <<ledger, memory>>
  /\ UNCHANGED <<provider, mapping, native, reason, turn, sent>>

(* Native.__init__: reservations a dead process left running are failed,   *)
(* never replayed.                                                         *)
StartNative ==
  /\ pull.step = "starting" /\ Checked = "none"
  /\ native' = "up" /\ reason' = "none" /\ pull' = Asleep
  /\ mapping' = [q \in Requests |-> IF mapping[q] = "running" THEN "failed" ELSE mapping[q]]
  /\ UNCHANGED <<provider, ledger, memory, turn, sent>>

(* Any failure of the start closes the auth again. *)
StartFails ==
  /\ pull.step = "starting" /\ memory' = 0 /\ pull' = Asleep
  /\ UNCHANGED <<provider, ledger, mapping, native, reason, turn, sent>>

(* Native.resupply with a turn or a history read in flight: refused before *)
(* anything is touched.                                                    *)
ApplyBusy ==
  /\ pull.step = "answered" /\ native # "none" /\ pull' = Asleep
  /\ UNCHANGED <<provider, ledger, mapping, native, memory, reason, turn, sent>>

(* Native.resupply: a refusal latches the reason in the process and in the *)
(* ledger; an install is followed by the login of the app-server.          *)
Resupply ==
  /\ pull.step = "answered" /\ native # "none" /\ turn = Idle
  /\ LET why == IF native = "dead" THEN "unavailable" ELSE Refusal(ledger, pull.token)
     IN IF why = "none"
        THEN /\ ledger' = Installed(ledger, pull.token) /\ memory' = pull.token
             /\ reason' = "none" /\ pull' = [pull EXCEPT !.step = "login"]
        ELSE /\ ledger' = Blocked(ledger, why) /\ reason' = why /\ pull' = Asleep
             /\ UNCHANGED memory
  /\ UNCHANGED <<provider, mapping, native, turn, sent>>

(* login_access: the app-server takes the token, or refuses it. *)
Login ==
  /\ pull.step = "login" /\ pull' = Asleep
  /\ \/ /\ native = "up" /\ Checked = "none" /\ UNCHANGED <<ledger, reason>>
     \/ \E why \in AuthReasons \cup {"unavailable", "provider_rate_limited"} :
          ledger' = Blocked(ledger, why) /\ reason' = why
  /\ UNCHANGED <<provider, mapping, native, memory, turn, sent>>

-----------------------------------------------------------------------------
Locked == pull.step \in {"starting", "login"}

(* Mutant: the receipt is counted in memory only. *)
ConsumeInMemory(q) ==
  /\ turn = Idle /\ ~Locked /\ mapping[q] = "none"
  /\ native = "up" /\ reason = "none" /\ Checked = "none"
  /\ q \notin ledger.receipts
  /\ turn' = [request |-> q, step |-> "consumed"]
  /\ UNCHANGED <<provider, ledger, mapping, native, memory, reason, pull, sent>>

(* Native.accept: a request without a reservation is admitted when nothing *)
(* blocks the runner, and its receipt is consumed first.  A receipt        *)
(* without a reservation is ambiguous: refused, never replayed.            *)
Consume(q) ==
  /\ turn = Idle /\ ~Locked /\ mapping[q] = "none"
  /\ native = "up" /\ reason = "none" /\ Checked = "none"
  /\ q \notin ledger.receipts
  /\ ledger' = [ledger EXCEPT !.receipts = @ \cup {q}]
  /\ turn' = [request |-> q, step |-> "consumed"]
  /\ UNCHANGED <<provider, mapping, native, memory, reason, pull, sent>>

(* "Durable reservation before any potentially paid turn." *)
Reserve ==
  /\ turn.step = "consumed"
  /\ mapping' = [mapping EXCEPT ![turn.request] = "running"]
  /\ turn' = [turn EXCEPT !.step = "reserved"]
  /\ UNCHANGED <<provider, ledger, native, memory, reason, pull, sent>>

(* Mutant: the session keeps the runner. *)
ReserveFailsBusy ==
  /\ turn.step = "consumed" /\ turn' = [turn EXCEPT !.step = "failed"]
  /\ UNCHANGED <<provider, ledger, mapping, native, memory, reason, pull, sent>>

(* The reservation could not be saved: the turn is refused, its receipt    *)
(* stays.                                                                  *)
ReserveFails ==
  /\ turn.step = "consumed" /\ turn' = Idle
  /\ UNCHANGED <<provider, ledger, mapping, native, memory, reason, pull, sent>>

(* The turn ends: its reservation takes the state s. *)
Ends(s) ==
  /\ turn' = Idle
  /\ mapping' = [mapping EXCEPT ![turn.request] = s]

(* run_turn: every RPC checks the ledger first; turn/start reaches the     *)
(* provider.                                                               *)
Send ==
  /\ turn.step = "reserved" /\ native = "up" /\ Checked = "none"
  /\ sent' = [sent EXCEPT ![turn.request] = @ + 1]
  /\ turn' = [turn EXCEPT !.step = "sent"]
  /\ UNCHANGED <<provider, ledger, mapping, native, memory, reason, pull>>

TurnCompletes ==
  /\ turn.step = "sent" /\ native = "up" /\ Checked = "none" /\ memory \notin denied
  /\ Ends("idle")
  /\ UNCHANGED <<provider, ledger, native, memory, reason, pull, sent>>

(* A failed turn.  The provider's limit and a model that was not the one   *)
(* asked for also block the runner.                                        *)
TurnFails ==
  /\ turn.step \in {"reserved", "sent"} /\ Ends("failed")
  /\ \/ UNCHANGED <<ledger, reason>>
     \/ /\ turn.step = "sent" /\ Checked = "none"
        /\ ledger' = Blocked(ledger, "provider_rate_limited") /\ reason' = "provider_rate_limited"
     \/ /\ turn.step = "sent" /\ Checked = "none"
        /\ ledger' = [ledger EXCEPT !.model = TRUE] /\ reason' = "model_unavailable"
  /\ UNCHANGED <<provider, native, memory, pull, sent>>

(* The token's deadline passes under the turn: receive() refuses, run_turn *)
(* blocks the ledger.                                                      *)
TurnExpires ==
  /\ turn.step \in {"reserved", "sent"} /\ Checked = "auth_expired"
  /\ Ends("failed")
  /\ ledger' = Blocked(ledger, "auth_expired") /\ reason' = "auth_expired"
  /\ UNCHANGED <<provider, native, memory, pull, sent>>

(* The provider answers 401 and the app-server asks for another token. *)
Unauthorized ==
  /\ turn.step = "sent" /\ native = "up" /\ Checked = "none" /\ memory \in denied
  /\ turn' = [turn EXCEPT !.step = "refresh"]
  /\ UNCHANGED <<provider, ledger, mapping, native, memory, reason, pull, sent>>

(* Mutant: the ledger learns the token, the process keeps the old one. *)
RefreshedLedgerOnly ==
  /\ turn.step = "refresh"
  /\ \E t \in Tokens :
       /\ Answer(t, TRUE) /\ t # memory
       /\ Refusal(ledger, t) = "none" /\ ledger' = Installed(ledger, t)
  /\ turn' = [turn EXCEPT !.step = "sent"]
  /\ UNCHANGED <<denied, mapping, native, memory, reason, pull, sent>>

(* The broker's answer to the 401 is another token and is installed. *)
Refreshed ==
  /\ turn.step = "refresh"
  /\ \E t \in Tokens :
       /\ Answer(t, TRUE) /\ t # memory
       /\ Refusal(ledger, t) = "none" /\ ledger' = Installed(ledger, t) /\ memory' = t
  /\ turn' = [turn EXCEPT !.step = "sent"]
  /\ UNCHANGED <<denied, mapping, native, reason, pull, sent>>

(* No answer, the refused token again, or one the ledger refuses: the      *)
(* runner is blocked and the turn fails.                                   *)
NotRefreshed ==
  /\ turn.step = "refresh"
  /\ \/ UNCHANGED provider
     \/ \E t \in Tokens : Answer(t, TRUE) /\ t = memory /\ UNCHANGED denied
  /\ Ends("failed")
  /\ ledger' = Blocked(ledger, "auth_revoked") /\ reason' = "auth_revoked"
  /\ UNCHANGED <<native, memory, pull, sent>>

(* The app-server process exits; the turn it ran fails with it. *)
NativeExits ==
  /\ native = "up" /\ native' = "dead"
  /\ IF turn.step \in {"sent", "refresh"} THEN Ends("failed") ELSE UNCHANGED <<turn, mapping>>
  /\ UNCHANGED <<provider, ledger, memory, reason, pull, sent>>

(* The runner process dies and a new one starts with nothing in memory. *)
Crash ==
  /\ native # "none" \/ pull # Asleep
  /\ native' = "none" /\ memory' = 0 /\ reason' = "none" /\ turn' = Idle /\ pull' = Asleep
  /\ UNCHANGED <<provider, ledger, mapping, sent>>

Supply == PullAsk \/ PullAnswered \/ ApplyFirst \/ StartNative \/ Resupply
Work == \/ \E q \in Requests : Consume(q)
        \/ Reserve \/ ReserveFails \/ Send \/ TurnCompletes \/ TurnFails \/ TurnExpires
        \/ Unauthorized \/ Refreshed \/ NotRefreshed
Next == \/ \E t \in Tokens : Age(t) \/ Deny(t)
        \/ Rotate \/ Supply \/ PullFails \/ StartFails \/ ApplyBusy \/ Login
        \/ Work \/ NativeExits \/ Crash

Spec == Init /\ [][Next]_vars

(* The pull thread runs for ever and most of its calls succeed; a turn     *)
(* ends; the served token ages, so that the broker renews it.              *)
Fairness ==
  /\ WF_vars(PullAsk) /\ SF_vars(PullAnswered) /\ SF_vars(Resupply) /\ WF_vars(Login)
  /\ WF_vars(Work)
  /\ WF_vars(CanIssue /\ \E t \in Tokens : t = served /\ Age(t))
LiveSpec == Spec /\ Fairness

-----------------------------------------------------------------------------
(* A request reaches the provider at most once, whatever dies between its  *)
(* receipt, its reservation and its turn, and never without its receipt:   *)
(* "Duplicate request IDs are checked atomically with reservation and      *)
(* never dispatch again" (runner/README.md:46).                            *)
SentOnceWithReceipt ==
  \A q \in Requests : sent[q] <= 1 /\ (sent[q] = 1 => q \in ledger.receipts)

(* No turn is sent with a token an authorization failure has rejected: a   *)
(* blocked runner serves again only with a different credential.           *)
RejectedNeverServes ==
  [][ turn.step = "reserved" /\ turn'.step = "sent" => memory \notin ledger.rejected ]_vars

(* Late answers do not turn the ledger back: a token this runner has left  *)
(* is never installed again ("Old snapshot cannot roll back the current    *)
(* source", config_tests/test_service_access.py).                          *)
NeverRollsBack ==
  [][ ledger'.snapshot # ledger.snapshot => ledger'.snapshot \notin ledger.seen ]_vars

(* The token the process works with is the ledger's: a turn never runs on  *)
(* a credential the durable history does not know.                         *)
WorksWithLedger ==
  turn.step \in {"sent", "refresh"} => memory = ledger.snapshot /\ memory \in ledger.seen

(* A runner blocked by an authorization failure works again, or is blocked *)
(* for a reason only an operator can release, once the broker serves other *)
(* tokens: the pull needs no help.  (A dead app-server ends the            *)
(* obligation, and so does the bound on tokens when the last one is no     *)
(* longer of use.)                                                         *)
Exhausted == ~CanIssue /\ (life[served] # "fresh" \/ served \in ledger.rejected)
AuthBlockRecovers ==
  ledger.blocked \in AuthReasons
    ~> (ledger.blocked = "none" \/ ledger.blocked \in Sticky \/ ledger.model
        \/ native # "up" \/ Exhausted)

=============================================================================
