---------------------------- MODULE AccessProofs ----------------------------
(***************************************************************************)
(* A runner's credentials, for any number of requests, callers, tokens,    *)
(* logins and windows: theorems about MCAccess.                            *)
(*                                                                         *)
(* Each part has an inductive invariant of its own (RunnerInv, BrokerInv,  *)
(* CacheInv, WindowInv): what a request or a login that is under way still *)
(* holds.  The parts are then put together as the composition does.        *)
(***************************************************************************)
EXTENDS MCAccess, Sequences, FiniteSetTheorems, TLAPS

-----------------------------------------------------------------------------
(* The runner and its ledger.                                              *)

LedgerRows == [snapshot : 0..MaxToken, blocked : Reasons, model : BOOLEAN,
               seen : SUBSET Tokens, rejected : SUBSET Tokens, receipts : SUBSET Requests]
TurnRows   == [request : Requests \cup {"none"}, step : {"none", "consumed", "reserved", "sent", "refresh"}]
PullRows   == [step : {"idle", "asked", "answered", "starting", "login"}, token : 0..MaxToken]

ProviderTyped ==
  /\ life \in [Tokens -> {"unissued", "fresh", "near", "dead"}]
  /\ denied \subseteq Tokens /\ served \in Tokens

(* The token that is held was seen; unless the ledger is blocked, it was   *)
(* not rejected.                                                           *)
Coherent(led) ==
  /\ led.snapshot # 0 => led.snapshot \in led.seen
  /\ led.blocked = "none" => led.snapshot \notin led.rejected

LedgerKnown == ledger \in LedgerRows /\ Coherent(ledger) /\ (native # "none" => ledger.snapshot # 0)

ProcessTyped ==
  /\ mapping \in [Requests -> {"none", "running", "idle", "failed"}]
  /\ native \in {"none", "up", "dead"} /\ memory \in 0..MaxToken /\ reason \in Reasons

(* A pull that starts the app-server finds none, one that logs in does.    *)
PullKnown ==
  /\ pull \in PullRows
  /\ pull.step = "starting" => native = "none"
  /\ pull.step = "login" => native # "none"
  /\ pull.step \in {"answered", "starting", "login"} => pull.token \in Tokens

(* A turn in flight has its receipt, was not sent before, and was sent on  *)
(* the token that the ledger holds.                                        *)
TurnKnown ==
  /\ turn \in TurnRows
  /\ turn.step = "none" => turn = Idle
  /\ turn.step # "none" => turn.request \in Requests /\ native # "none" /\ turn.request \in ledger.receipts
  /\ turn.step \in {"consumed", "reserved"} => sent[turn.request] = 0
  /\ turn.step \in {"sent", "refresh"} => memory = ledger.snapshot /\ memory \in ledger.seen

SentKnown == sent \in [Requests -> 0..1] /\ \A q \in Requests : sent[q] = 1 => q \in ledger.receipts

RunnerInv == ProviderTyped /\ LedgerKnown /\ ProcessTyped /\ PullKnown /\ TurnKnown /\ SentKnown

LEMMA RunnerConstants == MaxToken \in Nat /\ MaxToken > 0 /\ 1 \in Tokens /\ 0 \notin Tokens /\ Tokens \subseteq 0..MaxToken
  BY OperatorAssumption DEF Tokens

LEMMA RunnerStart == Init => RunnerInv
<1> SUFFICES ASSUME Init PROVE RunnerInv
  OBVIOUS
<1>1. ProviderTyped /\ ProcessTyped
  BY RunnerConstants DEF Init, ProviderTyped, ProcessTyped, Reasons
<1>2. LedgerKnown
  BY RunnerConstants DEF Init, LedgerKnown, LedgerRows, Coherent, Reasons
<1>3. PullKnown /\ TurnKnown /\ SentKnown
  BY RunnerConstants DEF Init, PullKnown, PullRows, TurnKnown, TurnRows, SentKnown, Idle, Asleep
<1> QED BY <1>1, <1>2, <1>3 DEF RunnerInv

(* What the ledger becomes, and which reason a refusal has.                *)
LEMMA InstalledLedger ==
  ASSUME RunnerInv, NEW t \in Tokens, Refusal(ledger, t) = "none"
  PROVE  LET led == Installed(ledger, t) IN
         /\ led \in LedgerRows /\ Coherent(led) /\ led.snapshot = t /\ led.seen = ledger.seen \cup {t}
         /\ led.rejected = ledger.rejected /\ led.receipts = ledger.receipts
         /\ t = ledger.snapshot \/ t \notin ledger.seen
<1> DEFINE led == Installed(ledger, t)
<1>1. t \notin ledger.rejected /\ (t = ledger.snapshot \/ t \notin ledger.seen)
  BY DEF Refusal, Sticky
<1>2. ledger \in LedgerRows /\ t \in 0..MaxToken /\ ledger.seen \cup {t} \subseteq Tokens
  BY RunnerConstants DEF RunnerInv, LedgerKnown, LedgerRows
<1>3. led \in LedgerRows
  BY <1>2 DEF Installed, LedgerRows, Reasons
<1>4. /\ led.snapshot = t /\ led.seen = ledger.seen \cup {t} /\ led.blocked = "none"
      /\ led.rejected = ledger.rejected /\ led.receipts = ledger.receipts
  BY <1>2, <1>3 DEF Installed, LedgerRows
<1> QED BY <1>1, <1>3, <1>4 DEF Coherent

LEMMA BlockedLedger ==
  ASSUME RunnerInv, ledger.snapshot # 0, NEW why \in Reasons \ {"none"}
  PROVE  LET led == Blocked(ledger, why) IN
         /\ led \in LedgerRows /\ Coherent(led) /\ led.snapshot = ledger.snapshot /\ led.seen = ledger.seen
         /\ led.receipts = ledger.receipts
<1> DEFINE led == Blocked(ledger, why)
<1>1. ledger \in LedgerRows /\ ledger.snapshot \in Tokens /\ Coherent(ledger)
  BY RunnerConstants DEF RunnerInv, LedgerKnown, LedgerRows, Tokens
<1>2. led \in LedgerRows
  BY <1>1 DEF Blocked, LedgerRows
<1>3. led.snapshot = ledger.snapshot /\ led.seen = ledger.seen /\ led.blocked = why /\ led.receipts = ledger.receipts
  BY <1>1, <1>2 DEF Blocked, LedgerRows
<1> QED BY <1>1, <1>2, <1>3 DEF Coherent

LEMMA RefusalIsReason == RunnerInv => \A t : Refusal(ledger, t) \in Reasons
  BY DEF RunnerInv, LedgerKnown, LedgerRows, Refusal, Reasons, AuthReasons, Sticky

(* Work is taken only on the token that the ledger holds and that is not   *)
(* rejected.                                                               *)
LEMMA CheckedFirst ==
  ASSUME RunnerInv, Checked = "none"
  PROVE  memory = ledger.snapshot /\ memory # 0 /\ memory \in ledger.seen /\ memory \notin ledger.rejected
  BY DEF Checked, RunnerInv, LedgerKnown, Coherent

LEMMA AnswerTyped ==
  ASSUME ProviderTyped, NEW t \in Tokens, NEW force, Answer(t, force), UNCHANGED denied
  PROVE  ProviderTyped'
  BY DEF ProviderTyped, Answer

(* Steps of the provider and of the pull thread before it applies.         *)
LEMMA ProviderKeeps ==
  ASSUME RunnerInv, ProviderTyped', PullKnown', UNCHANGED << ledger, mapping, native, memory, reason, turn, sent >>
  PROVE  RunnerInv'
  BY DEF RunnerInv, LedgerKnown, ProcessTyped, TurnKnown, SentKnown

LEMMA ProviderStep ==
  ASSUME RunnerInv,
         (\E t \in Tokens : Age(t) \/ Deny(t)) \/ Rotate \/ PullAsk \/ PullAnswered \/ PullFails \/ ApplyBusy
  PROVE  RunnerInv'
<1>1. ASSUME NEW t \in Tokens, Age(t) \/ Deny(t) PROVE RunnerInv'
  <2>1. ProviderTyped' /\ PullKnown'
    BY <1>1 DEF Age, Deny, RunnerInv, ProviderTyped, PullKnown
  <2> QED BY <1>1, <2>1, ProviderKeeps DEF Age, Deny
<1>2. CASE Rotate
  <2>1. ProviderTyped' /\ PullKnown'
    BY <1>2 DEF Rotate, CanIssue, RunnerInv, ProviderTyped, PullKnown
  <2> QED BY <1>2, <2>1, ProviderKeeps DEF Rotate
<1>3. CASE PullAsk \/ PullFails \/ ApplyBusy
  <2>1. ProviderTyped'
    BY <1>3 DEF PullAsk, PullFails, ApplyBusy, provider, RunnerInv, ProviderTyped
  <2>2. pull' = [step |-> "asked", token |-> 0] \/ pull' = Asleep
    BY <1>3 DEF PullAsk, PullFails, ApplyBusy
  <2>3. pull' \in PullRows /\ pull'.step \in {"asked", "idle"}
    BY <2>2, RunnerConstants DEF Asleep, PullRows
  <2>4. PullKnown'
    BY <2>3 DEF PullKnown
  <2> QED BY <1>3, <2>1, <2>4, ProviderKeeps DEF PullAsk, PullFails, ApplyBusy
<1>4. CASE PullAnswered
  <2>1. PICK t \in Tokens : Answer(t, FALSE) /\ pull' = [step |-> "answered", token |-> t]
    BY <1>4 DEF PullAnswered
  <2>2. UNCHANGED << denied, ledger, mapping, native, memory, reason, turn, sent >>
    BY <1>4 DEF PullAnswered
  <2>3. ProviderTyped'
    BY <2>1, <2>2, AnswerTyped DEF RunnerInv
  <2>4. PullKnown'
    BY <2>1, <2>2, RunnerConstants DEF PullKnown, PullRows
  <2> QED BY <2>2, <2>3, <2>4, ProviderKeeps
<1> QED BY <1>1, <1>2, <1>3, <1>4

(* The pull applies its token before the app-server exists, and starts it. *)
LEMMA FirstSupplyStep ==
  ASSUME RunnerInv, ApplyFirst \/ StartNative \/ StartFails
  PROVE  RunnerInv' /\ (ledger'.snapshot # ledger.snapshot => ledger'.snapshot \notin ledger.seen)
<1> USE DEF provider
<1>1. pull \in PullRows /\ turn \in TurnRows /\ memory \in 0..MaxToken /\ ledger \in LedgerRows
  BY DEF RunnerInv, PullKnown, TurnKnown, ProcessTyped, LedgerKnown
<1>2. ProviderTyped' /\ UNCHANGED << life, denied, served, turn, sent >>
  BY DEF ApplyFirst, StartNative, StartFails, RunnerInv, ProviderTyped
<1>3. native = "none" /\ turn.step = "none" /\ turn = Idle
  <2>1. native = "none"
    BY DEF ApplyFirst, StartNative, StartFails, RunnerInv, PullKnown
  <2> QED BY <2>1 DEF RunnerInv, TurnKnown
<1>4. ASSUME ledger'.receipts = ledger.receipts PROVE SentKnown'
  BY <1>2, <1>4 DEF RunnerInv, SentKnown
<1>5. TurnKnown'
  BY <1>1, <1>2, <1>3 DEF TurnKnown, Idle
<1>6. CASE ApplyFirst /\ Refusal(ledger, pull.token) = "none"
  <2>1. pull.token \in Tokens
    BY <1>6 DEF ApplyFirst, RunnerInv, PullKnown
  <2>2. ledger' = Installed(ledger, pull.token) /\ memory' = pull.token /\ pull' = [pull EXCEPT !.step = "starting"]
        /\ UNCHANGED << mapping, native, reason >>
    BY <1>6 DEF ApplyFirst
  <2>3. /\ ledger' \in LedgerRows /\ Coherent(ledger') /\ ledger'.receipts = ledger.receipts
        /\ ledger'.snapshot = pull.token
        /\ pull.token = ledger.snapshot \/ pull.token \notin ledger.seen
    BY <1>6, <2>1, <2>2, InstalledLedger
  <2>4. LedgerKnown' /\ ProcessTyped'
    BY <1>3, <2>1, <2>2, <2>3, RunnerConstants DEF LedgerKnown, Coherent, ProcessTyped, RunnerInv
  <2>5. pull' \in PullRows /\ pull'.step = "starting" /\ pull'.token = pull.token
    BY <1>1, <2>2 DEF PullRows
  <2>6. PullKnown'
    BY <1>3, <2>1, <2>2, <2>5 DEF PullKnown
  <2> QED BY <1>2, <1>4, <1>5, <2>3, <2>4, <2>6 DEF RunnerInv
<1>7. CASE (ApplyFirst /\ Refusal(ledger, pull.token) # "none") \/ StartNative \/ StartFails
  <2>1. UNCHANGED ledger /\ pull' = Asleep
    BY <1>7 DEF ApplyFirst, StartNative, StartFails
  <2>2. PullKnown'
    BY <2>1, RunnerConstants DEF PullKnown, PullRows, Asleep
  <2>3. LedgerKnown'
    <3>1. CASE StartNative
      <4>1. ledger.snapshot # 0
        BY <3>1, CheckedFirst DEF StartNative
      <4> QED BY <2>1, <4>1 DEF RunnerInv, LedgerKnown, Coherent
    <3>2. CASE UNCHANGED native
      BY <2>1, <3>2 DEF RunnerInv, LedgerKnown, Coherent
    <3> QED BY <1>7, <3>1, <3>2 DEF ApplyFirst, StartFails
  <2>4. ProcessTyped'
    <3>1. mapping' \in [Requests -> {"none", "running", "idle", "failed"}]
      BY <1>7 DEF ApplyFirst, StartNative, StartFails, RunnerInv, ProcessTyped
    <3>2. native' \in {"none", "up", "dead"} /\ memory' \in 0..MaxToken /\ reason' \in Reasons
      BY <1>7, RunnerConstants DEF ApplyFirst, StartNative, StartFails, RunnerInv, ProcessTyped, Reasons
    <3> QED BY <3>1, <3>2 DEF ProcessTyped
  <2> QED BY <1>2, <1>4, <1>5, <2>1, <2>2, <2>3, <2>4 DEF RunnerInv
<1> QED BY <1>6, <1>7

(* The pull applies its token to an app-server, and logs in.               *)
LEMMA LaterSupplyStep ==
  ASSUME RunnerInv, Resupply \/ Login
  PROVE  RunnerInv' /\ (ledger'.snapshot # ledger.snapshot => ledger'.snapshot \notin ledger.seen)
<1> USE DEF provider
<1>1. pull \in PullRows /\ turn \in TurnRows /\ memory \in 0..MaxToken /\ ledger \in LedgerRows
  BY DEF RunnerInv, PullKnown, TurnKnown, ProcessTyped, LedgerKnown
<1>2. ProviderTyped' /\ UNCHANGED << mapping, native, turn, sent >>
  BY DEF Resupply, Login, RunnerInv, ProviderTyped
<1>3. native # "none" /\ ledger.snapshot # 0 /\ (pull.step = "answered" => pull.token \in Tokens)
  BY DEF Resupply, Login, RunnerInv, PullKnown, LedgerKnown
<1>4. ASSUME ledger'.receipts = ledger.receipts PROVE SentKnown'
  BY <1>2, <1>4 DEF RunnerInv, SentKnown
<1>5. ASSUME NEW why \in Reasons \ {"none"}, ledger' = Blocked(ledger, why), reason' = why, pull' = Asleep, UNCHANGED memory
      PROVE  RunnerInv' /\ ledger'.snapshot = ledger.snapshot
  <2>1. /\ ledger' \in LedgerRows /\ Coherent(ledger') /\ ledger'.snapshot = ledger.snapshot
        /\ ledger'.seen = ledger.seen /\ ledger'.receipts = ledger.receipts
    BY <1>3, <1>5, BlockedLedger
  <2>2. LedgerKnown' /\ ProcessTyped'
    BY <1>2, <1>3, <1>5, <2>1 DEF LedgerKnown, Coherent, ProcessTyped, RunnerInv
  <2>3. PullKnown'
    BY <1>5, RunnerConstants DEF PullKnown, PullRows, Asleep
  <2>4. TurnKnown'
    BY <1>2, <1>5, <2>1 DEF RunnerInv, TurnKnown
  <2> QED BY <1>2, <1>4, <2>1, <2>2, <2>3, <2>4 DEF RunnerInv
<1>6. CASE Login
  <2>1. CASE UNCHANGED << ledger, reason >>
    <3>1. PullKnown' /\ UNCHANGED << ledger, reason, memory >>
      BY <1>6, <2>1, RunnerConstants DEF Login, PullKnown, PullRows, Asleep
    <3> QED BY <1>2, <3>1 DEF RunnerInv, LedgerKnown, Coherent, ProcessTyped, TurnKnown, SentKnown
  <2>2. CASE \E why \in AuthReasons \cup {"unavailable", "provider_rate_limited"} :
               ledger' = Blocked(ledger, why) /\ reason' = why
    BY <1>5, <1>6, <2>2 DEF Login, Reasons, Sticky, AuthReasons
  <2> QED BY <1>6, <2>1, <2>2 DEF Login
<1>7. CASE Resupply
  <2> DEFINE why == IF native = "dead" THEN "unavailable" ELSE Refusal(ledger, pull.token)
  <2>1. why \in Reasons
    BY RefusalIsReason DEF Reasons
  <2>2. CASE why # "none"
    <3>1. ledger' = Blocked(ledger, why) /\ reason' = why /\ pull' = Asleep /\ UNCHANGED memory
      BY <1>7, <2>2 DEF Resupply
    <3> HIDE DEF why
    <3> QED BY <1>5, <2>1, <2>2, <3>1
  <2>3. CASE why = "none"
    <3>1. pull.token \in Tokens /\ Refusal(ledger, pull.token) = "none" /\ turn = Idle
      BY <1>3, <1>7, <2>3 DEF Resupply
    <3>2. ledger' = Installed(ledger, pull.token) /\ memory' = pull.token
          /\ reason' = "none" /\ pull' = [pull EXCEPT !.step = "login"]
      BY <1>7, <2>3 DEF Resupply
    <3>3. /\ ledger' \in LedgerRows /\ Coherent(ledger') /\ ledger'.receipts = ledger.receipts
          /\ ledger'.snapshot = pull.token
          /\ pull.token = ledger.snapshot \/ pull.token \notin ledger.seen
      BY <3>1, <3>2, InstalledLedger
    <3>4. LedgerKnown' /\ ProcessTyped'
      BY <1>2, <3>1, <3>2, <3>3, RunnerConstants DEF LedgerKnown, Coherent, ProcessTyped, RunnerInv, Reasons
    <3>5. pull' \in PullRows /\ pull'.step = "login" /\ pull'.token = pull.token
      BY <1>1, <3>2 DEF PullRows
    <3>6. PullKnown'
      BY <1>2, <1>3, <3>1, <3>5 DEF PullKnown
    <3>7. TurnKnown'
      BY <1>1, <1>2, <3>1 DEF TurnKnown, Idle
    <3> QED BY <1>2, <1>4, <3>3, <3>4, <3>6, <3>7 DEF RunnerInv
  <2> QED BY <2>2, <2>3
<1> QED BY <1>6, <1>7

(* A turn is admitted: its receipt, and its reservation.                   *)
LEMMA AdmissionStep ==
  ASSUME RunnerInv, (\E q \in Requests : Consume(q)) \/ Reserve \/ ReserveFails
  PROVE  RunnerInv' /\ ledger'.snapshot = ledger.snapshot
<1> USE DEF provider
<1>1. turn \in TurnRows /\ ledger \in LedgerRows /\ sent \in [Requests -> 0..1]
  BY DEF RunnerInv, TurnKnown, LedgerKnown, SentKnown
<1>2. ProviderTyped' /\ UNCHANGED << native, memory, reason, pull, sent >>
  BY DEF Consume, Reserve, ReserveFails, RunnerInv, ProviderTyped
<1>3. PullKnown'
  BY <1>2 DEF RunnerInv, PullKnown
<1>4. ASSUME NEW q \in Requests, Consume(q)
      PROVE  RunnerInv' /\ ledger'.snapshot = ledger.snapshot
  <2>1. ledger' = [ledger EXCEPT !.receipts = @ \cup {q}] /\ turn' = [request |-> q, step |-> "consumed"]
        /\ UNCHANGED mapping /\ native = "up" /\ q \notin ledger.receipts
    BY <1>4 DEF Consume
  <2>2. ledger' \in LedgerRows
    BY <1>1, <2>1 DEF LedgerRows
  <2>3. /\ ledger'.snapshot = ledger.snapshot /\ ledger'.seen = ledger.seen /\ ledger'.blocked = ledger.blocked
        /\ ledger'.rejected = ledger.rejected /\ ledger'.receipts = ledger.receipts \cup {q}
    BY <1>1, <2>1 DEF LedgerRows
  <2>4. LedgerKnown' /\ ProcessTyped'
    BY <1>2, <2>1, <2>2, <2>3 DEF RunnerInv, LedgerKnown, Coherent, ProcessTyped
  <2>5. SentKnown' /\ sent[q] = 0
    BY <1>2, <2>1, <2>3 DEF RunnerInv, SentKnown
  <2>6. turn' \in TurnRows /\ turn'.step = "consumed" /\ turn'.request = q
    BY <2>1 DEF TurnRows
  <2>7. TurnKnown'
    BY <1>2, <2>1, <2>3, <2>5, <2>6 DEF TurnKnown
  <2> QED BY <1>2, <1>3, <2>3, <2>4, <2>5, <2>7 DEF RunnerInv
<1>5. CASE Reserve \/ ReserveFails
  <2>1. UNCHANGED ledger /\ turn.step = "consumed"
    BY <1>5 DEF Reserve, ReserveFails
  <2>2. turn.request \in Requests
    BY <2>1 DEF RunnerInv, TurnKnown
  <2>3. ProcessTyped'
    BY <1>2, <1>5, <2>2 DEF Reserve, ReserveFails, RunnerInv, ProcessTyped
  <2>4. LedgerKnown' /\ SentKnown'
    BY <1>2, <2>1 DEF RunnerInv, LedgerKnown, Coherent, SentKnown
  <2>5. TurnKnown'
    <3>1. CASE Reserve
      <4>1. turn' = [turn EXCEPT !.step = "reserved"]
        BY <3>1 DEF Reserve
      <4>2. turn' \in TurnRows /\ turn'.step = "reserved" /\ turn'.request = turn.request
        BY <1>1, <4>1 DEF TurnRows
      <4> QED BY <1>2, <2>1, <4>2 DEF RunnerInv, TurnKnown
    <3>2. CASE ReserveFails
      <4>1. turn' = Idle /\ turn' \in TurnRows /\ turn'.step = "none"
        BY <3>2 DEF ReserveFails, Idle, TurnRows
      <4> QED BY <4>1 DEF TurnKnown
    <3> QED BY <1>5, <3>1, <3>2
  <2> QED BY <1>2, <1>3, <2>1, <2>3, <2>4, <2>5 DEF RunnerInv
<1> QED BY <1>4, <1>5

(* A turn that ends leaves nothing in flight, whatever it left in the      *)
(* ledger.                                                                 *)
LEMMA TurnGone ==
  ASSUME RunnerInv, ProviderTyped', UNCHANGED << memory, pull, sent >>, native' = native,
         turn.step # "none", NEW s \in {"idle", "failed"}, Ends(s),
         \/ UNCHANGED << ledger, reason >>
         \/ \E why \in Reasons \ {"none"} : ledger' = Blocked(ledger, why) /\ reason' = why
         \/ ledger' = [ledger EXCEPT !.model = TRUE] /\ reason' = "model_unavailable"
  PROVE  RunnerInv' /\ ledger'.snapshot = ledger.snapshot
<1>1. native # "none" /\ ledger.snapshot # 0 /\ turn.request \in Requests /\ ledger \in LedgerRows
  BY DEF RunnerInv, TurnKnown, LedgerKnown
<1>2. /\ ledger' \in LedgerRows /\ Coherent(ledger') /\ ledger'.snapshot = ledger.snapshot
      /\ ledger'.receipts = ledger.receipts /\ reason' \in Reasons
  <2>1. CASE UNCHANGED << ledger, reason >>
    BY <2>1 DEF RunnerInv, LedgerKnown, ProcessTyped
  <2>2. CASE \E why \in Reasons \ {"none"} : ledger' = Blocked(ledger, why) /\ reason' = why
    BY <1>1, <2>2, BlockedLedger
  <2>3. CASE ledger' = [ledger EXCEPT !.model = TRUE] /\ reason' = "model_unavailable"
    <3>1. ledger' \in LedgerRows
      BY <1>1, <2>3 DEF LedgerRows
    <3>2. /\ ledger'.snapshot = ledger.snapshot /\ ledger'.seen = ledger.seen /\ ledger'.blocked = ledger.blocked
          /\ ledger'.rejected = ledger.rejected /\ ledger'.receipts = ledger.receipts
      BY <1>1, <2>3 DEF LedgerRows
    <3> QED BY <2>3, <3>1, <3>2 DEF RunnerInv, LedgerKnown, Coherent, Reasons, Sticky
  <2> QED BY <2>1, <2>2, <2>3
<1>3. LedgerKnown' /\ SentKnown' /\ PullKnown'
  BY <1>1, <1>2 DEF RunnerInv, LedgerKnown, SentKnown, PullKnown, Coherent
<1>4. ProcessTyped'
  BY <1>1, <1>2 DEF Ends, RunnerInv, ProcessTyped
<1>5. turn' = Idle /\ turn' \in TurnRows /\ turn'.step = "none"
  BY DEF Ends, Idle, TurnRows
<1>6. TurnKnown'
  BY <1>5 DEF TurnKnown
<1> QED BY <1>2, <1>3, <1>4, <1>6 DEF RunnerInv

LEMMA TurnEndStep ==
  ASSUME RunnerInv, TurnCompletes \/ TurnFails \/ TurnExpires \/ NotRefreshed
  PROVE  RunnerInv' /\ ledger'.snapshot = ledger.snapshot
<1> USE DEF provider
<1>1. ProviderTyped'
  <2>1. CASE UNCHANGED provider
    BY <2>1 DEF RunnerInv, ProviderTyped
  <2>2. CASE \E t \in Tokens : Answer(t, TRUE) /\ t = memory /\ UNCHANGED denied
    BY <2>2, AnswerTyped DEF RunnerInv
  <2> QED BY <2>1, <2>2 DEF TurnCompletes, TurnFails, TurnExpires, NotRefreshed
<1>2. UNCHANGED << memory, pull, sent >> /\ native' = native /\ turn.step # "none"
  BY DEF TurnCompletes, TurnFails, TurnExpires, NotRefreshed
<1>3. Ends("idle") \/ Ends("failed")
  BY DEF TurnCompletes, TurnFails, TurnExpires, NotRefreshed
<1>4. \/ UNCHANGED << ledger, reason >>
      \/ \E why \in Reasons \ {"none"} : ledger' = Blocked(ledger, why) /\ reason' = why
      \/ ledger' = [ledger EXCEPT !.model = TRUE] /\ reason' = "model_unavailable"
  <2>1. {"provider_rate_limited", "auth_expired", "auth_revoked"} \subseteq Reasons \ {"none"}
    BY DEF Reasons, AuthReasons, Sticky
  <2>2. \/ UNCHANGED << ledger, reason >>
        \/ \E why \in {"provider_rate_limited", "auth_expired", "auth_revoked"} :
             ledger' = Blocked(ledger, why) /\ reason' = why
        \/ ledger' = [ledger EXCEPT !.model = TRUE] /\ reason' = "model_unavailable"
    BY DEF TurnCompletes, TurnFails, TurnExpires, NotRefreshed
  <2> QED BY <2>1, <2>2
<1>5. CASE Ends("idle")
  BY <1>1, <1>2, <1>4, <1>5, TurnGone
<1>6. CASE Ends("failed")
  BY <1>1, <1>2, <1>4, <1>6, TurnGone
<1> QED BY <1>3, <1>5, <1>6

(* A turn reaches the provider, is refused there, and goes on with another *)
(* token.                                                                  *)
LEMMA TurnRunsStep ==
  ASSUME RunnerInv, Send \/ Unauthorized \/ Refreshed
  PROVE  RunnerInv' /\ (ledger'.snapshot # ledger.snapshot => ledger'.snapshot \notin ledger.seen)
<1> USE DEF provider
<1>1. turn \in TurnRows /\ turn.step # "none" /\ turn.request \in Requests /\ turn.request \in ledger.receipts
      /\ ledger \in LedgerRows /\ native # "none"
  BY DEF RunnerInv, TurnKnown, LedgerKnown, Send, Unauthorized, Refreshed
<1>2. PullKnown'
  BY DEF Send, Unauthorized, Refreshed, RunnerInv, PullKnown
<1>3. CASE Send
  <2>1. memory = ledger.snapshot /\ memory \in ledger.seen
    BY <1>3, CheckedFirst DEF Send
  <2>2. ProviderTyped' /\ ProcessTyped' /\ LedgerKnown'
    BY <1>3 DEF Send, RunnerInv, ProviderTyped, ProcessTyped, LedgerKnown, Coherent
  <2>3. sent[turn.request] = 0
    BY <1>3 DEF Send, RunnerInv, TurnKnown
  <2>4. SentKnown'
    BY <1>1, <1>3, <2>3 DEF Send, RunnerInv, SentKnown
  <2>5. turn' \in TurnRows /\ turn'.step = "sent" /\ turn'.request = turn.request
    BY <1>1, <1>3 DEF Send, TurnRows
  <2>6. TurnKnown'
    BY <1>1, <1>3, <2>1, <2>5 DEF Send, TurnKnown
  <2> QED BY <1>2, <1>3, <2>2, <2>4, <2>6 DEF Send, RunnerInv
<1>4. CASE Unauthorized
  <2>1. ProviderTyped' /\ ProcessTyped' /\ LedgerKnown' /\ SentKnown'
    BY <1>4 DEF Unauthorized, RunnerInv, ProviderTyped, ProcessTyped, LedgerKnown, Coherent, SentKnown
  <2>2. turn' \in TurnRows /\ turn'.step = "refresh" /\ turn'.request = turn.request
    BY <1>1, <1>4 DEF Unauthorized, TurnRows
  <2>3. TurnKnown'
    BY <1>1, <1>4, <2>2 DEF Unauthorized, RunnerInv, TurnKnown
  <2> QED BY <1>2, <1>4, <2>1, <2>3 DEF Unauthorized, RunnerInv
<1>5. CASE Refreshed
  <2>1. PICK t \in Tokens :
          Answer(t, TRUE) /\ Refusal(ledger, t) = "none" /\ ledger' = Installed(ledger, t) /\ memory' = t
    BY <1>5 DEF Refreshed
  <2>2. UNCHANGED << denied, mapping, native, reason, pull, sent >> /\ turn' = [turn EXCEPT !.step = "sent"]
    BY <1>5 DEF Refreshed
  <2>3. /\ ledger' \in LedgerRows /\ Coherent(ledger') /\ ledger'.snapshot = t /\ ledger'.seen = ledger.seen \cup {t}
        /\ ledger'.receipts = ledger.receipts
        /\ t = ledger.snapshot \/ t \notin ledger.seen
    BY <2>1, InstalledLedger
  <2>4. ProviderTyped'
    BY <2>1, <2>2, AnswerTyped DEF RunnerInv
  <2>5. ProcessTyped' /\ LedgerKnown' /\ SentKnown'
    BY <2>1, <2>2, <2>3, RunnerConstants DEF RunnerInv, ProcessTyped, LedgerKnown, Coherent, SentKnown
  <2>6. turn' \in TurnRows /\ turn'.step = "sent" /\ turn'.request = turn.request
    BY <1>1, <2>2 DEF TurnRows
  <2>7. TurnKnown'
    BY <1>1, <2>1, <2>2, <2>3, <2>6 DEF TurnKnown
  <2> QED BY <1>2, <2>3, <2>4, <2>5, <2>7 DEF RunnerInv
<1> QED BY <1>3, <1>4, <1>5

(* The app-server or the whole runner dies.                                *)
LEMMA DeathStep ==
  ASSUME RunnerInv, NativeExits \/ Crash
  PROVE  RunnerInv' /\ ledger'.snapshot = ledger.snapshot
<1> USE DEF provider
<1>1. ProviderTyped' /\ UNCHANGED << ledger, sent >>
  BY DEF NativeExits, Crash, RunnerInv, ProviderTyped
<1>2. LedgerKnown' /\ SentKnown'
  BY <1>1 DEF NativeExits, Crash, RunnerInv, LedgerKnown, Coherent, SentKnown
<1>3. Idle \in TurnRows /\ Idle.step = "none" /\ Asleep \in PullRows /\ Asleep.step = "idle"
  BY RunnerConstants DEF Idle, Asleep, TurnRows, PullRows
<1>4. CASE NativeExits
  <2>1. turn.step # "none" => turn.request \in Requests
    BY DEF RunnerInv, TurnKnown
  <2>2. ProcessTyped'
    BY <1>4, <2>1 DEF NativeExits, Ends, RunnerInv, ProcessTyped
  <2>3. TurnKnown'
    BY <1>1, <1>3, <1>4 DEF NativeExits, Ends, RunnerInv, TurnKnown
  <2>4. PullKnown'
    BY <1>4 DEF NativeExits, RunnerInv, PullKnown
  <2> QED BY <1>1, <1>2, <2>2, <2>3, <2>4 DEF RunnerInv
<1>5. CASE Crash
  <2>1. ProcessTyped'
    BY <1>5, RunnerConstants DEF Crash, RunnerInv, ProcessTyped, Reasons
  <2>2. TurnKnown' /\ PullKnown'
    BY <1>3, <1>5 DEF Crash, TurnKnown, PullKnown
  <2> QED BY <1>1, <1>2, <2>1, <2>2 DEF RunnerInv
<1> QED BY <1>4, <1>5

(* A step of the runner: what it keeps, and what it never takes back.      *)
LEMMA RunnerStep ==
  ASSUME RunnerInv, Next
  PROVE  RunnerInv' /\ (ledger'.snapshot # ledger.snapshot => ledger'.snapshot \notin ledger.seen)
<1>1. CASE (\E t \in Tokens : Age(t) \/ Deny(t)) \/ Rotate \/ PullAsk \/ PullAnswered \/ PullFails \/ ApplyBusy
  <2>1. ledger' = ledger
    BY <1>1 DEF Age, Deny, Rotate, PullAsk, PullAnswered, PullFails, ApplyBusy
  <2> QED BY <1>1, <2>1, ProviderStep
<1>2. CASE ApplyFirst \/ StartNative \/ StartFails
  BY <1>2, FirstSupplyStep
<1>3. CASE Resupply \/ Login
  BY <1>3, LaterSupplyStep
<1>4. CASE (\E q \in Requests : Consume(q)) \/ Reserve \/ ReserveFails
  BY <1>4, AdmissionStep
<1>5. CASE TurnCompletes \/ TurnFails \/ TurnExpires \/ NotRefreshed
  BY <1>5, TurnEndStep
<1>6. CASE Send \/ Unauthorized \/ Refreshed
  BY <1>6, TurnRunsStep
<1>7. CASE NativeExits \/ Crash
  BY <1>7, DeathStep
<1> QED BY <1>1, <1>2, <1>3, <1>4, <1>5, <1>6, <1>7 DEF Next, Supply, Work

LEMMA RejectedStep ==
  ASSUME RunnerInv, Next, turn.step = "reserved", turn'.step = "sent"
  PROVE  memory \notin ledger.rejected
<1>1. turn \in TurnRows /\ Idle.step = "none"
  BY DEF RunnerInv, TurnKnown, Idle
<1>2. CASE Send
  BY <1>2, CheckedFirst DEF Send
<1>3. CASE \/ (\E t \in Tokens : Age(t) \/ Deny(t)) \/ Rotate \/ Supply \/ PullFails \/ StartFails \/ ApplyBusy
           \/ Login \/ (\E q \in Requests : Consume(q)) \/ ReserveFails
  BY <1>1, <1>3 DEF Age, Deny, Rotate, Supply, PullAsk, PullAnswered, ApplyFirst, StartNative, Resupply, PullFails,
       StartFails, ApplyBusy, Login, Consume, ReserveFails
<1>4. CASE TurnCompletes \/ TurnFails \/ TurnExpires \/ NotRefreshed \/ NativeExits \/ Crash
  BY <1>1, <1>4 DEF TurnCompletes, TurnFails, TurnExpires, NotRefreshed, NativeExits, Crash, Ends
<1>5. CASE Reserve \/ Unauthorized \/ Refreshed
  BY <1>1, <1>5 DEF Reserve, Unauthorized, Refreshed
<1> QED BY <1>2, <1>3, <1>4, <1>5 DEF Next, Work

(* What the runs check of the runner follows.                              *)
LEMMA RunnerShown == RunnerInv => TypeOK /\ SentOnceWithReceipt /\ WorksWithLedger
<1>1. RunnerInv => TypeOK
  BY DEF RunnerInv, ProviderTyped, LedgerKnown, ProcessTyped, PullKnown, TurnKnown, SentKnown, TypeOK,
       LedgerRows, TurnRows, PullRows
<1>2. RunnerInv => SentOnceWithReceipt /\ WorksWithLedger
  BY DEF RunnerInv, SentKnown, TurnKnown, SentOnceWithReceipt, WorksWithLedger
<1> QED BY <1>1, <1>2

-----------------------------------------------------------------------------
(* The broker.                                                             *)

FileNames == 1..MaxFile
Held      == {"read", "ready", "driven", "rewritten"}
CallRows  == [step : {"waiting", "read", "ready", "driven", "rewritten", "answered", "failed"},
              force : BOOLEAN, current : 0..MaxFile, before : 0..MaxFile, answer : 0..MaxFile]
EventRows == [ok : BOOLEAN, before : 0..MaxFile, after : 0..MaxFile, foreign : {"nobody", "server", "operator"}]

(* There is at most one app-server, and at most one forced refresh was     *)
(* driven since the minute began.                                          *)
BrokerTyped ==
  /\ file \in 0..MaxFile /\ written \in 0..MaxFile /\ server \in 0..MaxFile /\ file <= written
  /\ age \in [FileNames -> {"fresh", "near", "dead"}]
  /\ servers = {} \/ \E f \in FileNames : servers = {f}
  /\ forced \in BOOLEAN /\ drives \in {0, 1} /\ (~forced => drives = 0)
  /\ foreign \in {"nobody", "server", "operator"}

CallFits(x) ==
  /\ x.step = "waiting" => x.current = 0 /\ x.before = 0
  /\ x.step = "answered" /\ x.force /\ x.current # 0 /\ x.before # 0 => x.answer # x.current

(* Who is past the first read holds the lock.                              *)
CallsKnown ==
  /\ call \in [Callers -> CallRows] /\ lock \in Callers \cup {"none"}
  /\ \A c \in Callers : CallFits(call[c]) /\ (call[c].step \in Held <=> lock = c)

(* The file is no older than the one the holder read first, and neither is *)
(* the login of the app-server that it drives; a forced refresh that is    *)
(* not counted yet is the first of its minute.                             *)
HolderFits ==
  \A c \in Callers : lock = c =>
    /\ call[c].current <= written /\ (file = 0 \/ file >= call[c].current)
    /\ call[c].step = "read" /\ call[c].force => ~forced
    /\ call[c].step \in {"ready", "driven"} => server >= call[c].current

Driven(c) == lock = c /\ call[c].step \in {"driven", "rewritten"}

(* Nobody else having written, the last event ends where the next begins.  *)
EventsChain ==
  /\ events \in Seq(EventRows)
  /\ \A i \in 1..(Len(events) - 1) :
       events[i].after = events[i+1].before \/ events[i+1].foreign # "nobody"
  /\ Len(events) > 0 /\ foreign = "nobody" =>
       /\ \A c \in Callers : Driven(c) => call[c].before = events[Len(events)].after
       /\ (\A c \in Callers : ~Driven(c)) => file = events[Len(events)].after

BrokerInv == BrokerTyped /\ CallsKnown /\ HolderFits /\ EventsChain

LEMMA BrokerConstants == MaxFile \in Nat /\ MaxFile > 0 /\ "none" \notin Callers
  BY PartsAssumption DEF Broker!BrokerAssumption, Broker!NoOne

LEMMA BrokerStart == Broker!Init => BrokerInv
<1> SUFFICES ASSUME Broker!Init PROVE BrokerInv
  OBVIOUS
<1>1. BrokerTyped
  <2>1. file = 0 /\ written = 0 /\ server = 0 /\ servers = {} /\ forced = FALSE /\ drives = 0 /\ foreign = "nobody"
    BY DEF Broker!Init
  <2>2. age \in [FileNames -> {"fresh", "near", "dead"}]
    BY DEF Broker!Init, Broker!Files, FileNames
  <2>3. 0 \in 0..MaxFile /\ file <= written
    BY <2>1, BrokerConstants
  <2> QED BY <2>1, <2>2, <2>3 DEF BrokerTyped
<1>2. ASSUME NEW x \in {[Broker!Waiting EXCEPT !.force = f] : f \in BOOLEAN}
      PROVE  x \in CallRows /\ x.step = "waiting" /\ x.current = 0 /\ x.before = 0
  BY <1>2, BrokerConstants DEF Broker!Waiting, CallRows
<1>3. call \in [Callers -> {[Broker!Waiting EXCEPT !.force = f] : f \in BOOLEAN}] /\ lock = "none" /\ events = << >>
  BY DEF Broker!Init, Broker!NoOne
<1>4. call \in [Callers -> CallRows] /\ \A c \in Callers : call[c].step = "waiting" /\ call[c].current = 0 /\ call[c].before = 0
  BY <1>2, <1>3
<1>5. CallsKnown /\ HolderFits
  BY <1>3, <1>4, BrokerConstants DEF CallsKnown, CallFits, HolderFits, Held
<1>6. EventsChain
  BY <1>3 DEF EventsChain
<1> QED BY <1>1, <1>5, <1>6 DEF BrokerInv

(* A request moves, with the lock that it takes, keeps or leaves.          *)
LEMMA CallMoves ==
  ASSUME CallsKnown, NEW c \in Callers, NEW x \in CallRows, call' = [call EXCEPT ![c] = x], CallFits(x),
         lock \in {c, "none"}, lock' \in {c, "none"}, x.step \in Held <=> lock' = c
  PROVE  CallsKnown' /\ call'[c] = x /\ \A d \in Callers \ {c} : call'[d] = call[d] /\ lock # d /\ lock' # d
<1>1. call' \in [Callers -> CallRows] /\ call'[c] = x /\ \A d \in Callers \ {c} : call'[d] = call[d]
  BY DEF CallsKnown
<1>2. \A d \in Callers \ {c} : lock # d /\ lock' # d
  BY BrokerConstants
<1>3. \A d \in Callers : CallFits(call'[d]) /\ (call'[d].step \in Held <=> lock' = d)
  BY <1>1, <1>2 DEF CallsKnown
<1>4. lock' \in Callers \cup {"none"}
  OBVIOUS
<1> QED BY <1>1, <1>2, <1>3, <1>4 DEF CallsKnown, CallFits

(* The operator, the provider and the app-server beside any request.       *)
LEMMA OutsideStep ==
  ASSUME BrokerInv, Broker!DeviceLogin \/ Broker!Logout \/ Broker!RenewsItself \/ Broker!Age \/ Broker!MinutePasses
                    \/ Broker!ServerDies
  PROVE  BrokerInv' /\ call' = call
<1> USE DEF Broker!request
<1>1. UNCHANGED << lock, call, events, server >>
  BY DEF Broker!DeviceLogin, Broker!Logout, Broker!RenewsItself, Broker!Age, Broker!MinutePasses, Broker!ServerDies
<1>2. written' \in 0..MaxFile /\ file' \in 0..MaxFile /\ file' <= written' /\ written <= written'
      /\ file' \in {file, 0, written + 1} /\ (file' = written + 1 => written' = written + 1)
  <2>1. file \in 0..MaxFile /\ written \in 0..MaxFile /\ file <= written /\ MaxFile \in Nat
    BY BrokerConstants DEF BrokerInv, BrokerTyped
  <2>2. \/ written' = written /\ file' = file
        \/ written' = written /\ file' = 0
        \/ written < MaxFile /\ written' = written + 1 /\ file' = written + 1
    BY DEF Broker!DeviceLogin, Broker!Logout, Broker!RenewsItself, Broker!Age, Broker!MinutePasses, Broker!ServerDies
  <2> QED BY <2>1, <2>2
<1>3. foreign' \in {"nobody", "server", "operator"} /\ (foreign' = "nobody" => foreign = "nobody" /\ file' = file)
  BY DEF Broker!DeviceLogin, Broker!Logout, Broker!RenewsItself, Broker!Age, Broker!MinutePasses, Broker!ServerDies,
     BrokerInv, BrokerTyped
<1>4. (forced' = forced /\ drives' = drives) \/ (forced' = FALSE /\ drives' = 0)
  BY DEF Broker!DeviceLogin, Broker!Logout, Broker!RenewsItself, Broker!Age, Broker!MinutePasses, Broker!ServerDies
<1>5. servers' \in {servers, {}}
  BY DEF Broker!DeviceLogin, Broker!Logout, Broker!RenewsItself, Broker!Age, Broker!MinutePasses, Broker!ServerDies
<1>6. age' \in [FileNames -> {"fresh", "near", "dead"}]
  BY DEF Broker!DeviceLogin, Broker!Logout, Broker!RenewsItself, Broker!Age, Broker!MinutePasses, Broker!ServerDies,
     BrokerInv, BrokerTyped, FileNames
<1>7. BrokerTyped'
  BY <1>1, <1>2, <1>3, <1>4, <1>5, <1>6 DEF BrokerInv, BrokerTyped
<1>8. CallsKnown'
  BY <1>1 DEF BrokerInv, CallsKnown, CallFits
<1>9. HolderFits'
  <2> SUFFICES ASSUME NEW c \in Callers, lock' = c
               PROVE  /\ call'[c].current <= written' /\ (file' = 0 \/ file' >= call'[c].current)
                      /\ call'[c].step = "read" /\ call'[c].force => ~forced'
                      /\ call'[c].step \in {"ready", "driven"} => server' >= call'[c].current
    BY DEF HolderFits
  <2>1. call'[c] = call[c] /\ server' = server /\ lock = c /\ call[c].current \in 0..MaxFile
    BY <1>1 DEF BrokerInv, CallsKnown, CallRows
  <2>2. /\ call[c].current <= written /\ (file = 0 \/ file >= call[c].current)
        /\ call[c].step = "read" /\ call[c].force => ~forced
        /\ call[c].step \in {"ready", "driven"} => server >= call[c].current
    BY <2>1 DEF BrokerInv, HolderFits
  <2>3. call[c].current <= written' /\ (file' = 0 \/ file' >= call[c].current)
    BY <1>2, <2>1, <2>2 DEF BrokerInv, BrokerTyped
  <2> QED BY <1>4, <2>1, <2>2, <2>3
<1>10. EventsChain'
  BY <1>1, <1>3 DEF BrokerInv, EventsChain, Driven
<1> QED BY <1>1, <1>7, <1>8, <1>9, <1>10 DEF BrokerInv

LEMMA ChainStays ==
  ASSUME EventsChain, UNCHANGED << events, foreign, file >>,
         \A c \in Callers : Driven(c)' <=> Driven(c), \A c \in Callers : Driven(c) => call'[c].before = call[c].before
  PROVE  EventsChain'
  BY DEF EventsChain

(* A request ends, and releases the lock.                                  *)
LEMMA EndsMoves ==
  ASSUME BrokerInv, NEW c \in Callers, lock \in {c, "none"}, NEW s \in {"answered", "failed"}, NEW f \in 0..MaxFile,
         Broker!Ends(c, s, f),
         s = "answered" /\ call[c].force /\ call[c].current # 0 /\ call[c].before # 0 => f # call[c].current
  PROVE  /\ CallsKnown' /\ HolderFits' /\ lock' = "none"
         /\ \A d \in Callers : ~Driven(d)'
<1> DEFINE x == [[call[c] EXCEPT !.step = s] EXCEPT !.answer = f]
<1>1. call[c] \in CallRows /\ CallFits(call[c])
  BY DEF BrokerInv, CallsKnown
<1>2. x \in CallRows
  BY <1>1 DEF CallRows
<1>3. x.step = s /\ x.answer = f /\ x.force = call[c].force /\ x.current = call[c].current /\ x.before = call[c].before
  BY <1>1 DEF CallRows
<1>4. call' = [call EXCEPT ![c] = x] /\ lock' = "none"
  BY <1>1 DEF Broker!Ends, Broker!NoOne, BrokerInv, CallsKnown
<1>5. x.step \notin Held /\ lock' # c
  BY <1>3, <1>4, BrokerConstants DEF Held
<1>6. CallFits(x)
  BY <1>3 DEF CallFits
<1> HIDE DEF x
<1>7. CallsKnown'
  BY <1>2, <1>4, <1>5, <1>6, CallMoves DEF BrokerInv
<1>8. \A d \in Callers : lock' # d
  BY <1>4, BrokerConstants
<1> QED BY <1>4, <1>7, <1>8 DEF HolderFits, Driven

LEMMA EnterStep ==
  ASSUME BrokerInv, NEW c \in Callers, Broker!Enter(c)
  PROVE  BrokerInv'
<1>1. lock = "none" /\ call[c].step = "waiting" /\ call[c] \in CallRows /\ CallFits(call[c])
      /\ UNCHANGED << file, written, age, servers, server, forced, events, foreign, drives >>
  BY DEF Broker!Enter, Broker!NoOne, BrokerInv, CallsKnown
<1>2. BrokerTyped' /\ call[c].current = 0 /\ call[c].before = 0 /\ file \in 0..MaxFile /\ file <= written
  BY <1>1 DEF BrokerInv, BrokerTyped, CallFits
<1>3. \A d \in Callers : ~Driven(d)
  BY <1>1, BrokerConstants DEF Driven
<1>4. ASSUME NEW s \in {"answered", "failed"}, NEW f \in 0..MaxFile, Broker!Ends(c, s, f)
      PROVE  BrokerInv'
  <2>1. CallsKnown' /\ HolderFits' /\ \A d \in Callers : ~Driven(d)'
    BY <1>1, <1>2, <1>4, EndsMoves
  <2>2. EventsChain'
    BY <1>1, <1>3, <2>1, ChainStays DEF BrokerInv
  <2> QED BY <1>2, <2>1, <2>2 DEF BrokerInv
<1>5. ASSUME NEW g \in BOOLEAN, NEW n \in {0, file}, g => ~forced, lock' = c,
             call' = [call EXCEPT ![c].step = "read", ![c].force = g, ![c].current = n]
      PROVE  BrokerInv'
  <2> DEFINE x == [[[call[c] EXCEPT !.step = "read"] EXCEPT !.force = g] EXCEPT !.current = n]
  <2>1. x \in CallRows
    BY <1>1, <1>2, BrokerConstants DEF CallRows
  <2>2. x.step = "read" /\ x.force = g /\ x.current = n /\ x.before = 0
    BY <1>1, <1>2 DEF CallRows
  <2>3. call' = [call EXCEPT ![c] = x]
    BY <1>1, <1>5 DEF BrokerInv, CallsKnown
  <2>4. CallFits(x) /\ x.step \in Held
    BY <2>2 DEF CallFits, Held
  <2> HIDE DEF x
  <2>5. CallsKnown' /\ call'[c] = x /\ \A d \in Callers \ {c} : lock' # d
    BY <1>1, <1>5, <2>1, <2>3, <2>4, CallMoves DEF BrokerInv
  <2>6. x.current <= written /\ (file = 0 \/ file >= x.current)
    BY <1>2, <2>2, BrokerConstants DEF BrokerInv, BrokerTyped
  <2>7. HolderFits'
    BY <1>1, <1>5, <2>2, <2>5, <2>6 DEF HolderFits
  <2>8. \A d \in Callers : ~Driven(d)'
    BY <1>5, <2>2, <2>5 DEF Driven
  <2>9. EventsChain'
    BY <1>1, <1>3, <2>8, ChainStays DEF BrokerInv
  <2> QED BY <1>2, <2>5, <2>7, <2>9 DEF BrokerInv
<1>6. \/ Broker!Ends(c, "failed", 0) \/ Broker!Ends(c, "answered", file)
      \/ \E g \in BOOLEAN, n \in {0, file} :
           /\ (g => ~forced) /\ lock' = c
           /\ call' = [call EXCEPT ![c].step = "read", ![c].force = g, ![c].current = n]
  <2> DEFINE g == call[c].force /\ ~forced
             n == IF age[file] = "dead" THEN 0 ELSE file
  <2>1. g \in BOOLEAN /\ n \in {0, file} /\ (g => ~forced)
    OBVIOUS
  <2>2. \/ Broker!Ends(c, "failed", 0) \/ Broker!Ends(c, "answered", file)
        \/ lock' = c /\ call' = [call EXCEPT ![c].step = "read", ![c].force = g, ![c].current = n]
    BY DEF Broker!Enter
  <2> HIDE DEF g, n
  <2> QED BY <2>1, <2>2
<1>7. CASE Broker!Ends(c, "failed", 0) \/ Broker!Ends(c, "answered", file)
  <2>1. 0 \in 0..MaxFile /\ file \in 0..MaxFile
    BY <1>2, BrokerConstants
  <2> QED BY <1>4, <1>7, <2>1
<1>8. CASE \E g \in BOOLEAN, n \in {0, file} :
             /\ (g => ~forced) /\ lock' = c
             /\ call' = [call EXCEPT ![c].step = "read", ![c].force = g, ![c].current = n]
  <2>1. PICK g \in BOOLEAN, n \in {0, file} :
          /\ (g => ~forced) /\ lock' = c
          /\ call' = [call EXCEPT ![c].step = "read", ![c].force = g, ![c].current = n]
    BY <1>8
  <2> QED BY <1>5, <2>1
<1> QED BY <1>6, <1>7, <1>8

(* The request goes on, with an app-server that loaded the file.           *)
LEMMA ReadyMoves ==
  ASSUME BrokerInv, NEW c \in Callers, lock = c, call[c].step = "read", file # 0, Broker!Ready(c),
         UNCHANGED << file, written, age, events, foreign >>, server' = file,
         servers' = {} \/ \E f \in FileNames : servers' = {f}
  PROVE  BrokerInv'
<1> DEFINE x == [call[c] EXCEPT !.step = "ready"]
<1>1. call[c] \in CallRows /\ CallFits(call[c])
  BY DEF BrokerInv, CallsKnown
<1>2. x \in CallRows
  BY <1>1 DEF CallRows
<1>3. x.step = "ready" /\ x.force = call[c].force /\ x.current = call[c].current /\ x.before = call[c].before
  BY <1>1 DEF CallRows
<1>4. call' = [call EXCEPT ![c] = x] /\ lock' = c
  BY <1>1 DEF Broker!Ready, BrokerInv, CallsKnown
<1>5. CallFits(x) /\ x.step \in Held
  BY <1>3 DEF CallFits, Held
<1> HIDE DEF x
<1>6. CallsKnown' /\ call'[c] = x /\ \A d \in Callers \ {c} : lock # d /\ lock' # d
  BY <1>2, <1>4, <1>5, CallMoves DEF BrokerInv
<1>7. /\ call[c].current <= written /\ file >= call[c].current
      /\ call[c].force => ~forced
  BY DEF BrokerInv, HolderFits
<1>8. HolderFits'
  BY <1>3, <1>4, <1>6, <1>7 DEF HolderFits
<1>9. BrokerTyped'
  <2>1. forced' = (forced \/ call[c].force) /\ drives' = drives + (IF call[c].force THEN 1 ELSE 0)
    BY DEF Broker!Ready
  <2>2. call[c].force \in BOOLEAN
    BY <1>1 DEF CallRows
  <2>3. forced' \in BOOLEAN /\ drives' \in {0, 1} /\ (~forced' => drives' = 0)
    BY <1>7, <2>1, <2>2 DEF BrokerInv, BrokerTyped
  <2> QED BY <2>3 DEF BrokerInv, BrokerTyped
<1>10. \A d \in Callers : ~Driven(d) /\ ~Driven(d)'
  BY <1>3, <1>4, <1>6 DEF Driven
<1>11. EventsChain'
  BY <1>10, ChainStays DEF BrokerInv
<1> QED BY <1>6, <1>8, <1>9, <1>11 DEF BrokerInv

LEMMA EnsureStep ==
  ASSUME BrokerInv, NEW c \in Callers, Broker!EnsureServer(c)
  PROVE  BrokerInv'
<1>1. lock = c /\ call[c].step = "read" /\ UNCHANGED << file, written, age, events, foreign >>
  BY DEF Broker!EnsureServer
<1>2. \A d \in Callers : ~Driven(d)
  BY <1>1 DEF Driven
<1>3. ASSUME Broker!GivesUp(c), server' \in 0..MaxFile, servers' = {} \/ \E f \in FileNames : servers' = {f}
      PROVE  BrokerInv'
  <2>1. Broker!Ends(c, "failed", 0) /\ UNCHANGED << forced, drives >> /\ 0 \in 0..MaxFile
    BY <1>3, BrokerConstants DEF Broker!GivesUp
  <2>2. CallsKnown' /\ HolderFits' /\ \A d \in Callers : ~Driven(d)'
    BY <1>1, <2>1, EndsMoves
  <2>3. EventsChain'
    BY <1>1, <1>2, <2>2, ChainStays DEF BrokerInv
  <2>4. BrokerTyped'
    BY <1>1, <1>3, <2>1 DEF BrokerInv, BrokerTyped
  <2> QED BY <2>2, <2>3, <2>4 DEF BrokerInv
<1>4. server \in 0..MaxFile /\ file \in 0..MaxFile /\ (servers = {} \/ \E f \in FileNames : servers = {f})
  BY DEF BrokerInv, BrokerTyped
<1>5. CASE Broker!GivesUp(c) /\ UNCHANGED << servers, server >>
  BY <1>3, <1>4, <1>5
<1>6. CASE file # 0 /\ Broker!Loaded /\ Broker!Ready(c) /\ UNCHANGED << servers, server >>
  BY <1>1, <1>4, <1>6, ReadyMoves DEF Broker!Loaded
<1>7. CASE file # 0 /\ Broker!Restarted(c)
  <2>1. file \in FileNames
    BY <1>4, <1>7, BrokerConstants DEF FileNames
  <2>2. CASE servers' = {file} /\ server' = file /\ Broker!Ready(c)
    BY <1>1, <1>7, <2>1, <2>2, ReadyMoves
  <2>3. CASE servers' = {} /\ server' = 0 /\ Broker!GivesUp(c)
    BY <1>3, <2>3, BrokerConstants
  <2> QED BY <1>7, <2>2, <2>3 DEF Broker!Restarted
<1> QED BY <1>5, <1>6, <1>7 DEF Broker!EnsureServer

(* The refresh is asked of the app-server, which may rewrite the file.     *)
LEMMA DriveStep ==
  ASSUME BrokerInv, NEW c \in Callers, Broker!Drive(c)
  PROVE  BrokerInv'
<1> DEFINE x == [[call[c] EXCEPT !.step = "driven"] EXCEPT !.before = file]
<1>1. lock = c /\ lock' = c /\ call[c].step = "ready" /\ call[c] \in CallRows /\ CallFits(call[c])
      /\ UNCHANGED << file, written, age, servers, server, forced, lock, events, foreign, drives >>
  BY DEF Broker!Drive, BrokerInv, CallsKnown
<1>2. BrokerTyped' /\ file \in 0..MaxFile
  BY <1>1 DEF BrokerInv, BrokerTyped
<1>3. x \in CallRows
  BY <1>1, <1>2 DEF CallRows
<1>4. x.step = "driven" /\ x.force = call[c].force /\ x.current = call[c].current /\ x.before = file
  BY <1>1 DEF CallRows
<1>5. call' = [call EXCEPT ![c] = x]
  BY <1>1 DEF Broker!Drive, BrokerInv, CallsKnown
<1>6. CallFits(x) /\ x.step \in Held
  BY <1>4 DEF CallFits, Held
<1> HIDE DEF x
<1>7. CallsKnown' /\ call'[c] = x /\ \A d \in Callers \ {c} : call'[d] = call[d] /\ lock # d /\ lock' # d
  BY <1>1, <1>3, <1>5, <1>6, CallMoves DEF BrokerInv
<1>8. HolderFits'
  BY <1>1, <1>4, <1>7 DEF BrokerInv, HolderFits
<1>9. (\A d \in Callers : ~Driven(d)) /\ \A d \in Callers : Driven(d)' => d = c
  BY <1>1, <1>7 DEF Driven
<1>10. Driven(c)' /\ call'[c].before = file
  BY <1>1, <1>4, <1>7 DEF Driven
<1>11. EventsChain'
  BY <1>1, <1>9, <1>10 DEF BrokerInv, EventsChain
<1> QED BY <1>2, <1>7, <1>8, <1>11 DEF BrokerInv

LEMMA RewritesStep ==
  ASSUME BrokerInv, Broker!Rewrites
  PROVE  BrokerInv'
<1> DEFINE c == lock
           x == [call[c] EXCEPT !.step = "rewritten"]
<1>1. c \in Callers /\ lock' = c /\ call[c].step = "driven" /\ written < MaxFile
      /\ written' = written + 1 /\ file' = written + 1 /\ call' = [call EXCEPT ![c].step = "rewritten"]
      /\ UNCHANGED << age, servers, server, foreign, forced, lock, events, drives >>
  BY DEF Broker!Rewrites, Broker!NoOne, BrokerInv, CallsKnown
<1>2. call[c] \in CallRows /\ CallFits(call[c])
  BY <1>1 DEF BrokerInv, CallsKnown
<1>3. x \in CallRows
  BY <1>2 DEF CallRows
<1>4. x.step = "rewritten" /\ x.force = call[c].force /\ x.current = call[c].current /\ x.before = call[c].before
  BY <1>2 DEF CallRows
<1>5. call' = [call EXCEPT ![c] = x]
  BY <1>1, <1>2 DEF BrokerInv, CallsKnown
<1>6. CallFits(x) /\ x.step \in Held
  BY <1>4 DEF CallFits, Held
<1> HIDE DEF x
<1>7. CallsKnown' /\ call'[c] = x /\ \A d \in Callers \ {c} : call'[d] = call[d] /\ lock # d /\ lock' # d
  BY <1>1, <1>3, <1>5, <1>6, CallMoves DEF BrokerInv
<1>8. written \in 0..MaxFile /\ written' \in 0..MaxFile /\ file' \in 0..MaxFile /\ file' <= written'
  BY <1>1, BrokerConstants DEF BrokerInv, BrokerTyped
<1>9. BrokerTyped'
  BY <1>1, <1>8 DEF BrokerInv, BrokerTyped
<1>10. HolderFits'
  <2>1. call[c].current <= written /\ call[c].current \in 0..MaxFile
    BY <1>1, <1>2 DEF BrokerInv, HolderFits, CallRows
  <2>2. x.current <= written' /\ file' >= x.current
    BY <1>1, <1>4, <1>8, <2>1, BrokerConstants
  <2> QED BY <1>1, <1>4, <1>7, <2>2 DEF HolderFits
<1>11. Driven(c) /\ Driven(c)' /\ call'[c].before = call[c].before
       /\ \A d \in Callers \ {c} : ~Driven(d) /\ ~Driven(d)'
  BY <1>1, <1>4, <1>7 DEF Driven
<1>12. EventsChain'
  BY <1>1, <1>11 DEF BrokerInv, EventsChain
<1> QED BY <1>7, <1>9, <1>10, <1>12 DEF BrokerInv

(* The event is appended where the chain has got to.                       *)
LEMMA RecordChains ==
  ASSUME BrokerInv, NEW c \in Callers, Driven(c), NEW ok \in BOOLEAN, Broker!Record(ok, c), file' = file,
         \A d \in Callers : ~Driven(d)'
  PROVE  EventsChain' /\ foreign' = "nobody"
<1> DEFINE e == [ok |-> ok, before |-> call[c].before, after |-> file, foreign |-> foreign]
           n == Len(events)
<1>1. events' = Append(events, e) /\ foreign' = "nobody"
  BY DEF Broker!Record
<1>2. e \in EventRows /\ e.before = call[c].before /\ e.after = file /\ e.foreign = foreign
  <2>1. call[c].before \in 0..MaxFile /\ file \in 0..MaxFile /\ foreign \in {"nobody", "server", "operator"}
    BY DEF BrokerInv, CallsKnown, CallRows, BrokerTyped
  <2> QED BY <2>1 DEF EventRows
<1> HIDE DEF e
<1>3. events \in Seq(EventRows) /\ n \in Nat
  BY DEF BrokerInv, EventsChain
<1>4. /\ events' \in Seq(EventRows) /\ Len(events') = n + 1 /\ events'[n + 1] = e
      /\ \A i \in 1..n : events'[i] = events[i]
  BY <1>1, <1>2, <1>3
<1>5. ASSUME NEW i \in 1..(Len(events') - 1)
      PROVE  events'[i].after = events'[i + 1].before \/ events'[i + 1].foreign # "nobody"
  <2>1. CASE i < n
    <3>1. i \in 1..(n - 1) /\ i + 1 \in 1..n
      BY <1>3, <1>4, <2>1
    <3> QED BY <1>4, <3>1 DEF BrokerInv, EventsChain
  <2>2. CASE i = n
    <3>1. n > 0 /\ i + 1 = n + 1 /\ i \in 1..n
      BY <1>3, <1>4, <2>2
    <3>2. foreign = "nobody" => call[c].before = events[n].after
      BY <3>1 DEF BrokerInv, EventsChain
    <3> QED BY <1>2, <1>4, <2>2, <3>1, <3>2
  <2> QED BY <1>3, <1>4, <2>1, <2>2
<1>6. file' = events'[Len(events')].after
  BY <1>2, <1>4
<1> QED BY <1>1, <1>4, <1>5, <1>6 DEF EventsChain

LEMMA VerifyStep ==
  ASSUME BrokerInv, NEW c \in Callers, Broker!Verify(c)
  PROVE  BrokerInv'
<1>1. lock = c /\ Driven(c) /\ UNCHANGED << file, written, age, servers, forced, drives >>
  BY DEF Broker!Verify, Driven
<1>2. file \in 0..MaxFile /\ 0 \in 0..MaxFile /\ server \in 0..MaxFile
  BY BrokerConstants DEF BrokerInv, BrokerTyped
<1>3. server' \in 0..MaxFile
  BY <1>2 DEF Broker!Verify
<1>4. \E ok \in BOOLEAN, s \in {"answered", "failed"}, f \in 0..MaxFile :
         /\ Broker!Record(ok, c) /\ Broker!Ends(c, s, f)
         /\ s = "answered" => ~(call[c].force /\ call[c].current = f)
  <2>1. CASE Broker!Record(FALSE, c) /\ Broker!Ends(c, "failed", 0)
    BY <1>2, <2>1
  <2>2. CASE ~(call[c].force /\ call[c].current = file) /\ Broker!Record(TRUE, c) /\ Broker!Ends(c, "answered", file)
    BY <1>2, <2>2
  <2> QED BY <2>1, <2>2 DEF Broker!Verify
<1>5. PICK ok \in BOOLEAN, s \in {"answered", "failed"}, f \in 0..MaxFile :
         /\ Broker!Record(ok, c) /\ Broker!Ends(c, s, f)
         /\ s = "answered" => ~(call[c].force /\ call[c].current = f)
  BY <1>4
<1>6. CallsKnown' /\ HolderFits' /\ \A d \in Callers : ~Driven(d)'
  BY <1>1, <1>5, EndsMoves
<1>7. EventsChain' /\ foreign' = "nobody"
  BY <1>1, <1>5, <1>6, RecordChains
<1>8. BrokerTyped'
  BY <1>1, <1>3, <1>7 DEF BrokerInv, BrokerTyped
<1> QED BY <1>6, <1>7, <1>8 DEF BrokerInv

LEMMA BrokerRests == BrokerInv /\ UNCHANGED brokerVars => BrokerInv'
  BY DEF BrokerInv, BrokerTyped, CallsKnown, CallFits, HolderFits, EventsChain, Driven, brokerVars

LEMMA BrokerStep ==
  ASSUME BrokerInv, Broker!Next \/ Broker!Done
  PROVE  BrokerInv'
<1>1. CASE Broker!DeviceLogin \/ Broker!Logout \/ Broker!RenewsItself \/ Broker!Age \/ Broker!MinutePasses
           \/ Broker!ServerDies
  BY <1>1, OutsideStep
<1>2. CASE Broker!Rewrites
  BY <1>2, RewritesStep
<1>3. ASSUME NEW c \in Callers, Broker!Serve(c) PROVE BrokerInv'
  BY <1>3, EnterStep, EnsureStep, DriveStep, VerifyStep DEF Broker!Serve
<1>4. CASE Broker!Done
  BY <1>4, BrokerRests DEF Broker!Done, Broker!vars, brokerVars
<1> QED BY <1>1, <1>2, <1>3, <1>4 DEF Broker!Next

(* What the runs check of the broker follows.                              *)
LEMMA BrokerShown ==
  ASSUME BrokerInv
  PROVE  /\ Broker!TypeOK /\ Broker!OneForcedRefreshAMinute /\ Broker!OneManagedWriter
         /\ Broker!RefusedTokenNotReturned /\ Broker!ChainBreaksOnlyByOthers
<1>1. servers \subseteq FileNames
  BY DEF BrokerInv, BrokerTyped
<1>2. Broker!TypeOK
  <2>1. drives \in Nat
    BY DEF BrokerInv, BrokerTyped
  <2>2. events \in Seq(EventRows) /\ call \in [Callers -> CallRows] /\ lock \in Callers \cup {"none"}
    BY DEF BrokerInv, EventsChain, CallsKnown
  <2> QED BY <1>1, <2>1, <2>2 DEF BrokerInv, BrokerTyped, Broker!TypeOK, Broker!Files, Broker!Others, Broker!NoOne,
           FileNames, CallRows, EventRows
<1>3. Broker!OneManagedWriter
  <2>1. Cardinality(servers) <= 1
    <3>1. CASE servers = {}
      BY <3>1, FS_EmptySet
    <3>2. CASE \E f \in FileNames : servers = {f}
      BY <3>2, FS_Singleton
    <3> QED BY <3>1, <3>2 DEF BrokerInv, BrokerTyped
  <2> QED BY <2>1 DEF Broker!OneManagedWriter, Broker!Cardinality, Cardinality
<1>4. Broker!OneForcedRefreshAMinute
  BY DEF BrokerInv, BrokerTyped, Broker!OneForcedRefreshAMinute
<1>5. Broker!RefusedTokenNotReturned
  BY DEF BrokerInv, CallsKnown, CallFits, Broker!RefusedTokenNotReturned
<1>6. Broker!ChainBreaksOnlyByOthers
  BY DEF BrokerInv, EventsChain, Broker!ChainBreaksOnlyByOthers
<1> QED BY <1>2, <1>3, <1>4, <1>5, <1>6

-----------------------------------------------------------------------------
(* A person's login in its cache.                                          *)

GrantRows == [revoked : BOOLEAN, expired : BOOLEAN]
TrialRows == [made : BOOLEAN, requests : SUBSET Submitted, active : BOOLEAN]
TaskRows  == [request : Submitted, step : {"checked", "consumed", "reserved", "sent"}]
NoTask    == [request |-> "none", step |-> "none"]

CacheTyped ==
  /\ grant \in GrantRows /\ trial \in TrialRows
  /\ exported \in 0..MaxLogin /\ cache \in 0..MaxLogin /\ latest \in 1..MaxLogin
  /\ rotating \in BOOLEAN /\ clean \in BOOLEAN /\ cleaned \in BOOLEAN
  /\ proc \in {"down", "copied", "up", "ended", "exported", "closed"}
  /\ reserved \subseteq Submitted /\ sweep \in {"none", "revoked", "locked", "half"}

(* The login that no running process holds is the exported one, and it is  *)
(* the latest; a cleanup and a process never meet.                         *)
LoginRight ==
  /\ proc \in {"up", "ended", "exported"} => trial.active
  /\ ~trial.active => exported \in {0, latest}
  /\ proc = "exported" => exported = latest
  /\ proc = "ended" /\ clean => cache = latest
  /\ rotating => proc = "up"
  /\ proc \in {"copied", "up"} /\ ~rotating => cache = latest
  /\ proc # "down" => sweep \notin {"locked", "half"}
  /\ sweep = "half" => exported = 0
  /\ cleaned => proc = "down" /\ exported = 0 /\ cache = 0

(* A request under way has been charged, once, within the budget.          *)
TaskRight ==
  /\ task = NoTask \/ (task \in TaskRows /\ proc = "up")
  /\ task.step = "checked" => Cardinality(trial.requests) < Grant
  /\ task.step \in {"consumed", "reserved"} => spent[task.request] = 0 /\ task.request \in trial.requests

ChargesRight ==
  /\ spent \in [Submitted -> 0..1] /\ \A r \in Submitted : spent[r] = 1 => r \in trial.requests
  /\ IsFiniteSet(trial.requests) /\ Cardinality(trial.requests) <= Grant

CacheInv == CacheTyped /\ LoginRight /\ TaskRight /\ ChargesRight

LEMMA CacheConstants == Grant \in Nat /\ MaxLogin \in Nat /\ MaxLogin > 0
  BY PartsAssumption DEF Cache!CacheAssumption

LEMMA CacheCount == \A S : Cache!Cardinality(S) = Cardinality(S)
  BY DEF Cache!Cardinality, Cardinality

LEMMA CacheStart == Cache!Init => CacheInv
<1> SUFFICES ASSUME Cache!Init PROVE CacheInv
  OBVIOUS
<1>1. CacheTyped
  <2>1. grant \in GrantRows /\ trial \in TrialRows
    BY DEF Cache!Init, GrantRows, TrialRows
  <2>2. exported \in 0..MaxLogin /\ cache \in 0..MaxLogin /\ latest \in 1..MaxLogin
    BY CacheConstants DEF Cache!Init
  <2>3. rotating = FALSE /\ clean = FALSE /\ cleaned = FALSE /\ proc = "down" /\ reserved = {} /\ sweep = "none"
    BY DEF Cache!Init
  <2> QED BY <2>1, <2>2, <2>3 DEF CacheTyped
<1>2. LoginRight
  BY DEF Cache!Init, LoginRight
<1>3. TaskRight
  BY DEF Cache!Init, Cache!NoTurn, TaskRight, NoTask
<1>4. ChargesRight
  BY CacheConstants, FS_EmptySet DEF Cache!Init, ChargesRight
<1> QED BY <1>1, <1>2, <1>3, <1>4 DEF CacheInv

(* The charges are not touched, and the turn goes on or is gone.           *)
LEMMA ChargesStay ==
  ASSUME CacheInv, spent' = spent, trial'.requests = trial.requests, task' = NoTask \/ (task' = task /\ proc' = proc)
  PROVE  TaskRight' /\ ChargesRight'
<1>1. ChargesRight'
  BY DEF CacheInv, ChargesRight
<1>2. NoTask.step = "none"
  BY DEF NoTask
<1>3. TaskRight'
  BY <1>2 DEF CacheInv, TaskRight
<1> QED BY <1>1, <1>3

LEMMA NoTaskUnlessUp == CacheInv /\ proc # "up" => task = NoTask
  BY DEF CacheInv, TaskRight

LEMMA ProcessStep ==
  ASSUME CacheInv, Cache!Attach \/ Cache!Activate \/ Cache!Rotate
  PROVE  CacheInv'
<1>1. trial \in TrialRows
  BY DEF CacheInv, CacheTyped
<1>2. CASE Cache!Attach
  <2>1. trial' = [trial EXCEPT !.made = TRUE] /\ cache' = exported /\ proc' = "copied" /\ ~trial.active /\ exported # 0
        /\ sweep \notin {"locked", "half"} /\ proc = "down"
        /\ UNCHANGED << grant, exported, latest, rotating, clean, reserved, task, sweep, spent, cleaned >>
    BY <1>2 DEF Cache!Attach, Cache!LeaseFree
  <2>2. trial' \in TrialRows /\ trial'.active = trial.active /\ trial'.requests = trial.requests
    BY <1>1, <2>1 DEF TrialRows
  <2>3. CacheTyped'
    BY <2>1, <2>2 DEF CacheInv, CacheTyped
  <2>4. LoginRight'
    BY <2>1, <2>2 DEF CacheInv, LoginRight
  <2>5. TaskRight' /\ ChargesRight'
    BY <2>1, <2>2, NoTaskUnlessUp, ChargesStay
  <2> QED BY <2>3, <2>4, <2>5 DEF CacheInv
<1>3. CASE Cache!Activate
  <2>1. /\ proc = "copied" /\ proc' \in {"up", "down"} /\ (proc' = "up" => trial' = [trial EXCEPT !.active = TRUE])
        /\ proc' = "down" => trial' = trial
        /\ UNCHANGED << grant, exported, cache, latest, rotating, clean, reserved, task, sweep, spent, cleaned >>
    BY <1>3 DEF Cache!Activate
  <2>2. trial' \in TrialRows /\ trial'.requests = trial.requests /\ (proc' = "up" => trial'.active)
        /\ (proc' = "down" => trial'.active = trial.active)
    BY <1>1, <2>1 DEF TrialRows
  <2>3. CacheTyped'
    BY <2>1, <2>2 DEF CacheInv, CacheTyped
  <2>4. LoginRight'
    BY <2>1, <2>2 DEF CacheInv, LoginRight
  <2>5. TaskRight' /\ ChargesRight'
    BY <2>1, <2>2, NoTaskUnlessUp, ChargesStay
  <2> QED BY <2>3, <2>4, <2>5 DEF CacheInv
<1>4. CASE Cache!Rotate
  <2>1. /\ proc = "up"
        /\ \/ ~rotating /\ latest < MaxLogin /\ latest' = latest + 1 /\ rotating' = TRUE /\ UNCHANGED cache
           \/ rotating /\ cache' = latest /\ rotating' = FALSE /\ UNCHANGED latest
        /\ UNCHANGED << grant, trial, exported, proc, clean, reserved, task, sweep, spent, cleaned >>
    BY <1>4 DEF Cache!Rotate
  <2>2. CacheTyped'
    <3>1. latest' \in 1..MaxLogin /\ cache' \in 0..MaxLogin
      BY <2>1, CacheConstants DEF CacheInv, CacheTyped
    <3>2. rotating' \in BOOLEAN
      BY <2>1
    <3> QED BY <2>1, <3>1, <3>2 DEF CacheInv, CacheTyped
  <2>3. LoginRight'
    BY <2>1 DEF CacheInv, LoginRight, CacheTyped
  <2>4. TaskRight' /\ ChargesRight'
    BY <2>1, ChargesStay
  <2> QED BY <2>2, <2>3, <2>4 DEF CacheInv
<1> QED BY <1>2, <1>3, <1>4

LEMMA CloseStep ==
  ASSUME CacheInv,
         Cache!End \/ Cache!Export \/ Cache!Clear \/ Cache!Leave \/ Cache!Crash \/ Cache!RestoreHome
  PROVE  CacheInv'
<1>1. trial \in TrialRows
  BY DEF CacheInv, CacheTyped
<1>2. CASE Cache!End
  <2>1. /\ proc = "up" /\ proc' = "ended" /\ task' = NoTask /\ rotating' = FALSE
        /\ clean' \in BOOLEAN /\ (clean' => ~rotating)
        /\ UNCHANGED << grant, trial, exported, cache, latest, reserved, sweep, spent, cleaned >>
    BY <1>2 DEF Cache!End, Cache!Proved, Cache!NoTurn, NoTask
  <2>2. CacheTyped' /\ LoginRight'
    BY <2>1 DEF CacheInv, CacheTyped, LoginRight
  <2>3. TaskRight' /\ ChargesRight'
    BY <2>1, ChargesStay
  <2> QED BY <2>2, <2>3 DEF CacheInv
<1>3. CASE Cache!Export
  <2>1. /\ proc = "ended" /\ clean /\ proc' = "exported" /\ exported' = cache
        /\ UNCHANGED << grant, trial, cache, latest, rotating, clean, reserved, task, sweep, spent, cleaned >>
    BY <1>3 DEF Cache!Export, Cache!Exported
  <2>2. CacheTyped'
    BY <2>1 DEF CacheInv, CacheTyped
  <2>3. LoginRight'
    BY <2>1 DEF CacheInv, LoginRight
  <2>4. TaskRight' /\ ChargesRight'
    BY <2>1, NoTaskUnlessUp, ChargesStay
  <2> QED BY <2>2, <2>3, <2>4 DEF CacheInv
<1>4. CASE Cache!Clear
  <2>1. /\ proc = "exported" /\ proc' = "closed" /\ trial' = [trial EXCEPT !.active = FALSE]
        /\ UNCHANGED << grant, exported, cache, latest, rotating, clean, reserved, task, sweep, spent, cleaned >>
    BY <1>4 DEF Cache!Clear
  <2>2. trial' \in TrialRows /\ trial'.requests = trial.requests
    BY <1>1, <2>1 DEF TrialRows
  <2>3. CacheTyped'
    BY <2>1, <2>2 DEF CacheInv, CacheTyped
  <2>4. LoginRight'
    BY <2>1, <2>2 DEF CacheInv, LoginRight
  <2>5. TaskRight' /\ ChargesRight'
    BY <2>1, <2>2, NoTaskUnlessUp, ChargesStay
  <2> QED BY <2>3, <2>4, <2>5 DEF CacheInv
<1>5. CASE Cache!Leave
  <2>1. /\ proc \in {"ended", "exported", "closed"} /\ proc' = "down" /\ cache' = 0
        /\ UNCHANGED << grant, trial, exported, latest, rotating, clean, reserved, task, sweep, spent, cleaned >>
    BY <1>5 DEF Cache!Leave
  <2>2. CacheTyped'
    BY <2>1, CacheConstants DEF CacheInv, CacheTyped
  <2>3. LoginRight'
    BY <2>1 DEF CacheInv, LoginRight
  <2>4. TaskRight' /\ ChargesRight'
    BY <2>1, NoTaskUnlessUp, ChargesStay
  <2> QED BY <2>2, <2>3, <2>4 DEF CacheInv
<1>6. CASE Cache!Crash
  <2>1. /\ proc # "down" /\ proc' = "down" /\ task' = NoTask /\ rotating' = FALSE
        /\ UNCHANGED << grant, trial, exported, cache, latest, clean, reserved, sweep, spent, cleaned >>
    BY <1>6 DEF Cache!Crash, Cache!NoTurn, NoTask
  <2>2. CacheTyped' /\ LoginRight'
    BY <2>1 DEF CacheInv, CacheTyped, LoginRight
  <2>3. TaskRight' /\ ChargesRight'
    BY <2>1, ChargesStay
  <2> QED BY <2>2, <2>3 DEF CacheInv
<1>7. CASE Cache!RestoreHome
  <2>1. /\ reserved' \subseteq reserved
        /\ UNCHANGED << grant, trial, exported, cache, latest, rotating, proc, clean, task, sweep, spent, cleaned >>
    BY <1>7 DEF Cache!RestoreHome
  <2>2. CacheTyped' /\ LoginRight'
    BY <2>1 DEF CacheInv, CacheTyped, LoginRight
  <2>3. TaskRight' /\ ChargesRight'
    BY <2>1, ChargesStay
  <2> QED BY <2>2, <2>3 DEF CacheInv
<1> QED BY <1>2, <1>3, <1>4, <1>5, <1>6, <1>7

LEMMA SweepStep ==
  ASSUME CacheInv, Cache!Expire \/ Cache!Revoke \/ Cache!SweepLocks \/ Cache!Sweep \/ Cache!SweepDies
  PROVE  CacheInv'
<1> USE DEF Cache!runner
<1>1. UNCHANGED << trial, latest, rotating, proc, clean, reserved, task, spent >>
  BY DEF Cache!Expire, Cache!Revoke, Cache!SweepLocks, Cache!Sweep, Cache!SweepDies
<1>2. TaskRight' /\ ChargesRight'
  BY <1>1, ChargesStay
<1>3. grant' \in GrantRows
  <2>1. grant \in GrantRows
    BY DEF CacheInv, CacheTyped
  <2>2. grant' = grant \/ grant' = [grant EXCEPT !.expired = TRUE] \/ grant' = [grant EXCEPT !.revoked = TRUE]
    BY DEF Cache!Expire, Cache!Revoke, Cache!SweepLocks, Cache!Sweep, Cache!SweepDies
  <2> QED BY <2>1, <2>2 DEF GrantRows
<1>4. CASE Cache!Expire \/ Cache!Revoke \/ Cache!SweepLocks \/ Cache!SweepDies
  <2>1. /\ UNCHANGED << exported, cache, cleaned >> /\ sweep' \in {sweep, "none", "revoked", "locked"}
        /\ sweep' = "locked" /\ sweep # "locked" => proc = "down"
    BY <1>4 DEF Cache!Expire, Cache!Revoke, Cache!SweepLocks, Cache!SweepDies, Cache!LeaseFree
  <2>2. CacheTyped'
    BY <1>1, <1>3, <2>1 DEF CacheInv, CacheTyped
  <2>3. LoginRight'
    BY <1>1, <2>1 DEF CacheInv, LoginRight
  <2> QED BY <1>2, <2>2, <2>3 DEF CacheInv
<1>5. CASE Cache!Sweep
  <2>1. \/ sweep = "locked" /\ sweep' = "half" /\ exported' = 0 /\ UNCHANGED << cache, cleaned >>
        \/ sweep = "half" /\ sweep' = "none" /\ cache' = 0 /\ cleaned' = TRUE /\ UNCHANGED exported
    BY <1>5 DEF Cache!Sweep
  <2>2. exported' \in 0..MaxLogin /\ cache' \in 0..MaxLogin /\ cleaned' \in BOOLEAN
    <3>1. exported \in 0..MaxLogin /\ cache \in 0..MaxLogin /\ cleaned \in BOOLEAN /\ 0 \in 0..MaxLogin
      BY CacheConstants DEF CacheInv, CacheTyped
    <3>2. cleaned' = cleaned \/ cleaned' = TRUE
      BY <2>1
    <3> QED BY <2>1, <3>1, <3>2
  <2>3. CacheTyped'
    BY <1>1, <1>3, <2>1, <2>2 DEF CacheInv, CacheTyped
  <2>4. LoginRight'
    BY <1>1, <2>1 DEF CacheInv, LoginRight
  <2> QED BY <1>2, <2>3, <2>4 DEF CacheInv
<1> QED BY <1>4, <1>5

(* A turn on the person's login.                                           *)
LEMMA TaskStep ==
  ASSUME CacheInv,
         (\E r \in Submitted : Cache!Check(r)) \/ Cache!Consume \/ Cache!Reserve \/ Cache!Dispatch \/ Cache!TurnEnds
  PROVE  CacheInv'
<1>1. trial \in TrialRows /\ NoTask.step = "none" /\ (task.step # "none" => task \in TaskRows /\ proc = "up")
  BY DEF CacheInv, CacheTyped, TaskRight, NoTask
<1>2. UNCHANGED << grant, exported, cache, latest, rotating, proc, clean, sweep, cleaned >>
  BY DEF Cache!Check, Cache!Consume, Cache!Reserve, Cache!Dispatch, Cache!TurnEnds
<1>3. ASSUME trial' \in TrialRows, trial'.active = trial.active, reserved' \subseteq Submitted
      PROVE  CacheTyped' /\ LoginRight'
  BY <1>2, <1>3 DEF CacheInv, CacheTyped, LoginRight
<1>4. ASSUME NEW r \in Submitted, Cache!Check(r) PROVE CacheInv'
  <2>1. /\ proc = "up" /\ Cardinality(trial.requests) < Grant /\ task' = [request |-> r, step |-> "checked"]
        /\ UNCHANGED << trial, reserved, spent >>
    BY <1>4, CacheCount DEF Cache!Check
  <2>2. CacheTyped' /\ LoginRight'
    BY <1>1, <1>3, <2>1 DEF CacheInv, CacheTyped
  <2>3. task' \in TaskRows /\ task'.step = "checked"
    BY <2>1 DEF TaskRows
  <2>4. TaskRight' /\ ChargesRight'
    BY <1>2, <2>1, <2>3 DEF CacheInv, TaskRight, ChargesRight
  <2> QED BY <2>2, <2>4 DEF CacheInv
<1>5. CASE Cache!Consume
  <2>1. task.step = "checked" /\ UNCHANGED << reserved, spent >> /\ task \in TaskRows /\ proc = "up" /\ task.request \in Submitted
    BY <1>1, <1>5 DEF Cache!Consume, TaskRows
  <2>2. CASE Cache!Charged(task.request)
    <3>1. task' = NoTask /\ UNCHANGED trial
      BY <1>5, <2>2 DEF Cache!Consume, Cache!NoTurn, NoTask
    <3>2. CacheTyped' /\ LoginRight'
      BY <1>1, <1>3, <2>1, <3>1 DEF CacheInv, CacheTyped
    <3>3. TaskRight' /\ ChargesRight'
      BY <2>1, <3>1, ChargesStay
    <3> QED BY <3>2, <3>3 DEF CacheInv
  <2>3. CASE ~Cache!Charged(task.request)
    <3>1. /\ trial' = [trial EXCEPT !.requests = @ \cup {task.request}] /\ task' = [task EXCEPT !.step = "consumed"]
          /\ task.request \notin trial.requests
      BY <1>5, <2>3 DEF Cache!Consume, Cache!Charged
    <3>2. trial' \in TrialRows /\ trial'.active = trial.active /\ trial'.requests = trial.requests \cup {task.request}
      BY <1>1, <2>1, <3>1 DEF TrialRows
    <3>3. CacheTyped' /\ LoginRight'
      BY <1>3, <2>1, <3>2 DEF CacheInv, CacheTyped
    <3>4. task' \in TaskRows /\ task'.step = "consumed" /\ task'.request = task.request
      BY <2>1, <3>1 DEF TaskRows
    <3>5. spent[task.request] = 0
      BY <2>1, <3>1 DEF CacheInv, ChargesRight
    <3>6. TaskRight'
      BY <1>2, <2>1, <3>2, <3>4, <3>5 DEF TaskRight
    <3>7. IsFiniteSet(trial'.requests) /\ Cardinality(trial'.requests) <= Grant
      <4>1. IsFiniteSet(trial.requests) /\ Cardinality(trial.requests) < Grant
        BY <2>1 DEF CacheInv, TaskRight, ChargesRight
      <4>2. IsFiniteSet(trial'.requests) /\ Cardinality(trial'.requests) = Cardinality(trial.requests) + 1
            /\ Cardinality(trial.requests) \in Nat
        BY <3>1, <3>2, <4>1, FS_AddElement, FS_CardinalityType
      <4> QED BY <4>1, <4>2, CacheConstants
    <3>8. ChargesRight'
      BY <2>1, <3>2, <3>7 DEF CacheInv, ChargesRight
    <3> QED BY <3>3, <3>6, <3>8 DEF CacheInv
  <2> QED BY <2>2, <2>3
<1>6. CASE Cache!Reserve
  <2>1. task.step = "consumed" /\ UNCHANGED << trial, spent >> /\ task \in TaskRows /\ proc = "up" /\ task.request \in Submitted
    BY <1>1, <1>6 DEF Cache!Reserve, TaskRows
  <2>2. reserved' \subseteq Submitted
    BY <1>6, <2>1 DEF Cache!Reserve, CacheInv, CacheTyped
  <2>3. CacheTyped' /\ LoginRight'
    BY <1>1, <1>3, <2>1, <2>2
  <2>4. CASE task' = NoTask
    BY <2>1, <2>3, <2>4, ChargesStay DEF CacheInv
  <2>5. CASE task' = [task EXCEPT !.step = "reserved"]
    <3>1. task' \in TaskRows /\ task'.step = "reserved" /\ task'.request = task.request
      BY <2>1, <2>5 DEF TaskRows
    <3>2. TaskRight' /\ ChargesRight'
      BY <1>2, <2>1, <3>1 DEF CacheInv, TaskRight, ChargesRight
    <3> QED BY <2>3, <3>2 DEF CacheInv
  <2> QED BY <1>6, <2>4, <2>5 DEF Cache!Reserve, Cache!NoTurn, NoTask
<1>7. CASE Cache!Dispatch
  <2>1. /\ task.step = "reserved" /\ UNCHANGED << trial, reserved >> /\ task \in TaskRows /\ proc = "up" /\ task.request \in Submitted
        /\ task' = [task EXCEPT !.step = "sent"]
        /\ spent' = [spent EXCEPT ![task.request] = IF @ = 2 THEN 2 ELSE @ + 1]
    BY <1>1, <1>7 DEF Cache!Dispatch, TaskRows
  <2>2. CacheTyped' /\ LoginRight'
    BY <1>1, <1>3, <2>1 DEF CacheInv, CacheTyped
  <2>3. spent[task.request] = 0 /\ task.request \in trial.requests /\ spent \in [Submitted -> 0..1]
    BY <2>1 DEF CacheInv, TaskRight, ChargesRight
  <2>4. spent' = [spent EXCEPT ![task.request] = 1]
    BY <2>1, <2>3
  <2>5. ChargesRight'
    BY <2>1, <2>3, <2>4 DEF CacheInv, ChargesRight
  <2>6. task' \in TaskRows /\ task'.step = "sent"
    BY <2>1 DEF TaskRows
  <2>7. TaskRight'
    BY <1>2, <2>1, <2>6 DEF TaskRight
  <2> QED BY <2>2, <2>5, <2>7 DEF CacheInv
<1>8. CASE Cache!TurnEnds
  <2>1. task' = NoTask /\ UNCHANGED << trial, reserved, spent >>
    BY <1>8 DEF Cache!TurnEnds, Cache!NoTurn, NoTask
  <2>2. CacheTyped' /\ LoginRight'
    BY <1>1, <1>3, <2>1 DEF CacheInv, CacheTyped
  <2>3. TaskRight' /\ ChargesRight'
    BY <2>1, ChargesStay
  <2> QED BY <2>2, <2>3 DEF CacheInv
<1> QED BY <1>4, <1>5, <1>6, <1>7, <1>8

LEMMA CacheRests == CacheInv /\ UNCHANGED cacheVars => CacheInv'
  BY DEF CacheInv, CacheTyped, LoginRight, TaskRight, ChargesRight, cacheVars

LEMMA CacheStep == CacheInv /\ Cache!Next => CacheInv'
  BY ProcessStep, CloseStep, SweepStep, TaskStep DEF Cache!Next

(* What the runs check of the cache follows.                               *)
LEMMA CacheShown == CacheInv => Cache!TypeOK /\ Cache!SpentOnce /\ Cache!CacheIsCurrent /\ Cache!CleanedStaysClean
<1> SUFFICES ASSUME CacheInv
             PROVE  Cache!TypeOK /\ Cache!SpentOnce /\ Cache!CacheIsCurrent /\ Cache!CleanedStaysClean
  OBVIOUS
<1>1. Cache!TypeOK
  <2>1. spent \in [Submitted -> 0..2]
    BY DEF CacheInv, ChargesRight
  <2>2. {exported, cache} \subseteq Cache!Logins /\ {rotating, clean, cleaned} \subseteq BOOLEAN
    BY DEF CacheInv, CacheTyped, Cache!Logins
  <2>3. task = Cache!NoTurn \/ task \in TaskRows
    BY DEF CacheInv, TaskRight, Cache!NoTurn, NoTask
  <2>4. task # Cache!NoTurn => proc = "up"
    BY DEF CacheInv, TaskRight, Cache!NoTurn, NoTask
  <2> QED BY <2>1, <2>2, <2>3, <2>4 DEF CacheInv, CacheTyped, GrantRows, TrialRows, TaskRows, Cache!TypeOK
<1>2. Cache!SpentOnce
  BY CacheCount DEF CacheInv, ChargesRight, Cache!SpentOnce
<1>3. Cache!CacheIsCurrent /\ Cache!CleanedStaysClean
  BY DEF CacheInv, LoginRight, Cache!CacheIsCurrent, Cache!CleanedStaysClean
<1> QED BY <1>1, <1>2, <1>3

-----------------------------------------------------------------------------
(* A window that is supplied by hand.                                      *)

WindowNames == 1..MaxWindow
Instants    == 0..(MaxTime + 2)
WindowBlocks == {"none", "auth_revoked", "auth_expired", "policy_refused", "model_unavailable"}
BookRows == [made : BOOLEAN, window : 0..MaxWindow, windows : SUBSET WindowNames, started : 0..MaxTime,
             deadline : Instants, blocked : WindowBlocks, model : BOOLEAN, charged : [Requests -> 0..MaxWindow]]
JobRows  == [request : Requests, step : {"consumed", "reserved", "sent"}]
NoJob    == [request |-> "none", step |-> "none"]
ChargedTo(w) == {r \in Requests : book.charged[r] = w}

WindowTyped ==
  /\ now \in 1..MaxTime /\ book \in BookRows /\ token \in Instants /\ serves \in BOOLEAN /\ refused \in WindowBlocks
  /\ kept \subseteq Requests /\ opened \in [WindowNames -> 0..MaxTime]
  /\ serves => token # 0 /\ book.made

(* The deadline lies in the first Length of the window and in the life of  *)
(* the token, however often the window was supplied.                       *)
WindowRight ==
  /\ \A w \in WindowNames : opened[w] # 0 <=> w \in book.windows
  /\ book.made => book.window \in book.windows /\ book.started = opened[book.window]
                  /\ book.deadline <= book.started + Length
  /\ token # 0 => book.deadline < token

JobRight ==
  /\ job = NoJob \/ (job \in JobRows /\ serves /\ book.charged[job.request] = book.window)
  /\ job.step \in {"consumed", "reserved"} => done[job.request] = 0

DoneRight ==
  /\ done \in [Requests -> 0..1] /\ \A r \in Requests : done[r] = 1 => book.charged[r] # 0
  /\ \A w \in WindowNames : IsFiniteSet(ChargedTo(w)) /\ Cardinality(ChargedTo(w)) <= Budget

WindowInv == WindowTyped /\ WindowRight /\ JobRight /\ DoneRight

LEMMA WindowConstants ==
  Budget \in Nat /\ Length \in Nat /\ MaxWindow \in Nat /\ MaxWindow > 0 /\ MaxTime \in Nat /\ MaxTime > 0
  BY PartsAssumption DEF Window!WindowAssumption

LEMMA WindowCount == \A S : Window!Cardinality(S) = Cardinality(S)
  BY DEF Window!Cardinality, Cardinality

LEMMA WindowStart == Window!Init => WindowInv
<1> SUFFICES ASSUME Window!Init PROVE WindowInv
  OBVIOUS
<1>1. book = [ made |-> FALSE, window |-> 0, windows |-> {}, started |-> 0, deadline |-> 0,
               blocked |-> "none", model |-> FALSE, charged |-> [r \in Requests |-> 0] ]
  BY DEF Window!Init
<1>2. 0 \in 0..MaxWindow /\ 0 \in 0..MaxTime /\ 0 \in Instants /\ 1 \in 1..MaxTime
  BY WindowConstants DEF Instants
<1>3. book \in BookRows
  BY <1>1, <1>2 DEF BookRows, WindowBlocks
<1>4. now = 1 /\ token = 0 /\ serves = FALSE /\ refused = "none" /\ kept = {} /\ job = NoJob
      /\ done = [r \in Requests |-> 0] /\ opened = [w \in WindowNames |-> 0]
  BY DEF Window!Init, Window!Windows, Window!NoTurn, NoJob, WindowNames
<1>5. WindowTyped
  BY <1>2, <1>3, <1>4 DEF WindowTyped, WindowBlocks
<1>6. WindowRight
  BY <1>1, <1>4 DEF WindowRight
<1>7. JobRight
  BY <1>4 DEF JobRight, NoJob
<1>8. DoneRight
  <2>1. \A w \in WindowNames : ChargedTo(w) = {}
    BY <1>1, WindowConstants DEF ChargedTo, WindowNames
  <2>2. \A w \in WindowNames : IsFiniteSet(ChargedTo(w)) /\ Cardinality(ChargedTo(w)) <= Budget
    BY <2>1, FS_EmptySet, WindowConstants
  <2>3. done \in [Requests -> 0..1] /\ \A r \in Requests : done[r] = 0
    BY <1>4
  <2> QED BY <2>2, <2>3 DEF DoneRight
<1> QED BY <1>5, <1>6, <1>7, <1>8 DEF WindowInv

(* What a window is charged with stays, and so does a turn or it is gone.  *)
LEMMA ChargedStays ==
  ASSUME WindowInv, done' = done, book'.charged = book.charged,
         job' = NoJob \/ (job' = job /\ serves' = serves /\ book'.window = book.window)
  PROVE  JobRight' /\ DoneRight'
<1>1. \A w : ChargedTo(w)' = ChargedTo(w)
  BY DEF ChargedTo
<1>2. DoneRight'
  BY <1>1 DEF WindowInv, DoneRight
<1>3. NoJob.step = "none"
  BY DEF NoJob
<1>4. JobRight'
  BY <1>3 DEF WindowInv, JobRight
<1> QED BY <1>2, <1>4

(* The ledger that an accepted envelope leaves.                            *)
LEMMA InstallMoves ==
  ASSUME WindowInv, NEW e \in Window!Envelopes, Window!Installable(e), NEW why \in {"none", "auth_revoked"},
         Window!Install(e, why), job = NoJob, job' = job, now' = now, kept' = kept, done' = done, serves' \in BOOLEAN
  PROVE  WindowInv'
<1> DEFINE start == Window!Started(e)
           limit == Window!Deadline(e)
<1>1. e.window \in WindowNames /\ e.new \in BOOLEAN /\ e.token \in Instants /\ e.token # 0 /\ e.token \in Nat
  BY WindowConstants DEF Window!Envelopes, Window!Windows, Window!Tokens, WindowNames, Instants
<1>2. book \in BookRows /\ book.started \in 0..MaxTime /\ now \in 1..MaxTime /\ book.windows \subseteq WindowNames
      /\ opened \in [WindowNames -> 0..MaxTime]
  BY DEF WindowInv, WindowTyped, BookRows
<1>3. Window!Openable(e)
  BY DEF Window!Installable, Window!Refusal
<1>4. start \in 0..MaxTime /\ start # 0 /\ (e.new => start = now) /\ (~e.new => start = book.started /\ start = opened[e.window])
  <2>1. e.new => start = now
    BY DEF Window!Started
  <2>2. ~e.new => start = book.started /\ book.made /\ e.window = book.window
    BY <1>3 DEF Window!Started, Window!Openable
  <2>3. ~e.new => start = opened[e.window] /\ opened[e.window] # 0
    BY <1>1, <2>2 DEF WindowInv, WindowRight
  <2> QED BY <1>1, <1>2, <2>1, <2>2, <2>3, WindowConstants
<1> HIDE DEF start
<1>5. limit \in Instants /\ limit <= start + Length /\ limit < e.token
  <2>1. limit = IF e.token - 1 < start + Length THEN e.token - 1 ELSE start + Length
    BY DEF Window!Deadline, Window!Smaller, start
  <2>2. e.token \in Nat /\ e.token # 0 /\ e.token <= MaxTime + 2 /\ start \in Nat /\ Length \in Nat /\ MaxTime \in Nat
    BY <1>1, <1>4, WindowConstants DEF Instants
  <2> HIDE DEF limit
  <2> QED BY <2>1, <2>2 DEF Instants
<1>6. /\ book' = [book EXCEPT !.made = TRUE, !.window = e.window, !.windows = @ \cup {e.window},
                    !.started = start, !.deadline = limit, !.blocked = why]
      /\ token' = e.token /\ refused' = why
      /\ opened' = IF opened[e.window] = 0 THEN [opened EXCEPT ![e.window] = now] ELSE opened
  BY DEF Window!Install, start
<1> HIDE DEF limit
<1>7. book' \in BookRows
  <2>1. book.windows \cup {e.window} \in SUBSET WindowNames /\ e.window \in 0..MaxWindow /\ why \in WindowBlocks
    BY <1>1, <1>2, WindowConstants DEF WindowNames, WindowBlocks
  <2> QED BY <1>2, <1>4, <1>5, <1>6, <2>1 DEF BookRows
<1>8. /\ book'.made /\ book'.window = e.window /\ book'.windows = book.windows \cup {e.window}
      /\ book'.started = start /\ book'.deadline = limit /\ book'.charged = book.charged
  BY <1>2, <1>6 DEF BookRows
<1>9. opened' \in [WindowNames -> 0..MaxTime] /\ opened'[e.window] = start
      /\ \A w \in WindowNames \ {e.window} : opened'[w] = opened[w]
  <2>1. CASE e.new
    <3>1. opened[e.window] = 0
      BY <1>1, <1>3, <2>1 DEF Window!Openable, WindowInv, WindowRight
    <3> QED BY <1>1, <1>2, <1>4, <1>6, <2>1, <3>1
  <2>2. CASE ~e.new
    BY <1>1, <1>2, <1>4, <1>6, <2>2
  <2> QED BY <1>1, <2>1, <2>2
<1>10. WindowTyped'
  <2>1. why \in WindowBlocks
    BY DEF WindowBlocks
  <2> QED BY <1>1, <1>6, <1>7, <1>8, <1>9, <2>1 DEF WindowInv, WindowTyped
<1>11. WindowRight'
  <2>1. \A w \in WindowNames : opened'[w] # 0 <=> w \in book'.windows
    <3> TAKE w \in WindowNames
    <3>1. CASE w = e.window
      BY <1>4, <1>8, <1>9, <3>1
    <3>2. CASE w # e.window
      BY <1>8, <1>9, <3>2 DEF WindowInv, WindowRight
    <3> QED BY <3>1, <3>2
  <2>2. book'.window \in book'.windows /\ book'.started = opened'[book'.window]
        /\ book'.deadline <= book'.started + Length /\ book'.deadline < token'
    BY <1>5, <1>6, <1>8, <1>9
  <2> QED BY <2>1, <2>2 DEF WindowRight
<1>12. JobRight' /\ DoneRight'
  BY <1>8, ChargedStays
<1> QED BY <1>10, <1>11, <1>12 DEF WindowInv

(* The runner is blocked, by a reason or for the model's sake.             *)
LEMMA BlockMoves ==
  ASSUME WindowInv, UNCHANGED << now, token, serves, done, opened >>, kept' \subseteq Requests,
         job' \in {NoJob, job}, refused' \in WindowBlocks,
         \/ book' = book
         \/ \E why \in WindowBlocks : book' = [book EXCEPT !.blocked = why]
         \/ book' = [book EXCEPT !.model = TRUE]
  PROVE  WindowInv'
<1>1. book \in BookRows
  BY DEF WindowInv, WindowTyped
<1>2. /\ book' \in BookRows /\ book'.made = book.made /\ book'.window = book.window /\ book'.windows = book.windows
      /\ book'.started = book.started /\ book'.deadline = book.deadline /\ book'.charged = book.charged
  <2>1. CASE book' = book
    BY <1>1, <2>1
  <2>2. CASE \E why \in WindowBlocks : book' = [book EXCEPT !.blocked = why]
    BY <1>1, <2>2 DEF BookRows
  <2>3. CASE book' = [book EXCEPT !.model = TRUE]
    BY <1>1, <2>3 DEF BookRows
  <2> QED BY <2>1, <2>2, <2>3
<1>3. WindowTyped'
  BY <1>2 DEF WindowInv, WindowTyped
<1>4. WindowRight'
  BY <1>2 DEF WindowInv, WindowRight
<1>5. JobRight' /\ DoneRight'
  BY <1>2, ChargedStays
<1> QED BY <1>3, <1>4, <1>5 DEF WindowInv

LEMMA SupplyStep ==
  ASSUME WindowInv, NEW e \in Window!Envelopes, Window!SupplyStarts(e) \/ Window!SupplyAgain(e)
  PROVE  WindowInv'
<1>1. CASE Window!SupplyStarts(e)
  <2>1. job = NoJob
    BY <1>1 DEF Window!SupplyStarts, WindowInv, JobRight
  <2> QED BY <1>1, <2>1, InstallMoves DEF Window!SupplyStarts
<1>2. CASE Window!SupplyAgain(e)
  <2>1. job = NoJob /\ UNCHANGED << now, serves, kept, job, done >> /\ serves \in BOOLEAN /\ kept \subseteq Requests
    BY <1>2 DEF Window!SupplyAgain, Window!NoTurn, NoJob, WindowInv, WindowTyped
  <2>2. CASE Window!Installable(e) /\ \E why \in {"none", "auth_revoked"} : Window!Install(e, why)
    BY <2>1, <2>2, InstallMoves
  <2>3. CASE ~Window!Installable(e) /\ Window!Block(Window!Refusal(e)) /\ UNCHANGED << token, opened >>
    <3>1. Window!Refusal(e) \in WindowBlocks
      BY DEF Window!Refusal, WindowBlocks
    <3>2. book' = [book EXCEPT !.blocked = Window!Refusal(e)] /\ refused' = Window!Refusal(e)
      BY <2>3 DEF Window!Block
    <3> HIDE DEF Window!Refusal
    <3> QED BY <2>1, <2>3, <3>1, <3>2, BlockMoves
  <2> QED BY <1>2, <2>2, <2>3 DEF Window!SupplyAgain
<1> QED BY <1>1, <1>2

(* Work is taken only before the deadline.                                 *)
LEMMA ServingInTime ==
  ASSUME WindowInv, Window!Serving, book.made
  PROVE  now < opened[book.window] + Length /\ now + 1 < token
<1>1. now \in Nat /\ book.deadline \in Nat /\ token \in Nat /\ book.started \in Nat /\ Length \in Nat
  BY WindowConstants DEF WindowInv, WindowTyped, BookRows, Instants
<1>2. now < book.deadline /\ book.deadline < token /\ book.started = opened[book.window]
      /\ book.deadline <= book.started + Length
  BY DEF Window!Serving, WindowInv, WindowRight
<1> QED BY <1>1, <1>2

LEMMA ChargeStep ==
  ASSUME WindowInv, NEW r \in Requests, Window!Consume(r)
  PROVE  /\ WindowInv'
         /\ \A q \in Requests : (book'.charged[q] # book.charged[q] \/ done'[q] # done[q]) =>
                                  now < opened[book'.charged[q]] + Length /\ now + 1 < token
<1>1. /\ serves /\ Window!Serving /\ Cardinality(ChargedTo(book.window)) < Budget /\ book.charged[r] = 0
      /\ book' = [book EXCEPT !.charged[r] = book.window] /\ job' = [request |-> r, step |-> "consumed"]
      /\ UNCHANGED << now, token, serves, refused, kept, done, opened >>
  BY WindowCount DEF Window!Consume, Window!Spent, Window!Used, ChargedTo
<1>2. book \in BookRows /\ book.made /\ book.window \in WindowNames /\ book.window # 0
      /\ book.charged \in [Requests -> 0..MaxWindow]
  BY <1>1, WindowConstants DEF WindowInv, WindowTyped, WindowRight, BookRows, WindowNames
<1> DEFINE h == [book.charged EXCEPT ![r] = book.window]
<1>3. h \in [Requests -> 0..MaxWindow] /\ h[r] = book.window /\ \A q \in Requests \ {r} : h[q] = book.charged[q]
  BY <1>2, WindowConstants DEF WindowNames
<1>4. book' = [book EXCEPT !.charged = h]
  BY <1>1, <1>2 DEF BookRows
<1> HIDE DEF h
<1>5. /\ book' \in BookRows /\ book'.made = book.made /\ book'.window = book.window /\ book'.windows = book.windows
      /\ book'.started = book.started /\ book'.deadline = book.deadline /\ book'.charged = h
  BY <1>2, <1>3, <1>4 DEF BookRows
<1>6. WindowTyped' /\ WindowRight'
  BY <1>1, <1>5 DEF WindowInv, WindowTyped, WindowRight
<1>7. done[r] = 0
  BY <1>1 DEF WindowInv, DoneRight
<1>8. JobRight'
  <2>1. job' \in JobRows /\ job'.request = r /\ job'.step = "consumed"
    BY <1>1 DEF JobRows
  <2> QED BY <1>1, <1>3, <1>5, <1>7, <2>1 DEF JobRight
<1>9. DoneRight'
  <2>1. \A q \in Requests : done'[q] = 1 => book'.charged[q] # 0
    BY <1>1, <1>2, <1>3, <1>5 DEF WindowInv, DoneRight
  <2>2. ASSUME NEW w \in WindowNames PROVE IsFiniteSet(ChargedTo(w)') /\ Cardinality(ChargedTo(w)') <= Budget
    <3>1. IsFiniteSet(ChargedTo(w)) /\ Cardinality(ChargedTo(w)) <= Budget
      BY DEF WindowInv, DoneRight
    <3>2. CASE w # book.window
      <4>1. ChargedTo(w)' = ChargedTo(w)
        BY <1>1, <1>3, <1>5, <3>2, WindowConstants DEF ChargedTo, WindowNames
      <4> QED BY <3>1, <4>1
    <3>3. CASE w = book.window
      <4>1. ChargedTo(w)' = ChargedTo(w) \cup {r}
        BY <1>3, <1>5, <3>3 DEF ChargedTo
      <4>2. r \notin ChargedTo(w)
        BY <1>1, <1>2, <3>3 DEF ChargedTo
      <4>3. IsFiniteSet(ChargedTo(w) \cup {r}) /\ Cardinality(ChargedTo(w) \cup {r}) = Cardinality(ChargedTo(w)) + 1
            /\ Cardinality(ChargedTo(w)) \in Nat
        BY <3>1, <4>2, FS_AddElement, FS_CardinalityType
      <4> QED BY <1>1, <3>3, <4>1, <4>3, WindowConstants
    <3> QED BY <3>2, <3>3
  <2> QED BY <1>1, <2>1, <2>2 DEF WindowInv, DoneRight
<1>10. now < opened[book.window] + Length /\ now + 1 < token
  BY <1>1, <1>2, ServingInTime
<1> QED BY <1>1, <1>3, <1>5, <1>6, <1>8, <1>9, <1>10 DEF WindowInv

LEMMA JobDispatch ==
  ASSUME WindowInv, Window!Dispatch
  PROVE  /\ WindowInv'
         /\ \A q \in Requests : (book'.charged[q] # book.charged[q] \/ done'[q] # done[q]) =>
                                  now < opened[book'.charged[q]] + Length /\ now + 1 < token
<1>1. job.step = "reserved" /\ Window!Serving /\ job' = [job EXCEPT !.step = "sent"]
      /\ done' = [done EXCEPT ![job.request] = IF @ = 2 THEN 2 ELSE @ + 1]
      /\ UNCHANGED << now, book, token, serves, refused, kept, opened >>
  BY DEF Window!Dispatch
<1>2. job \in JobRows /\ job.request \in Requests /\ serves /\ book.made
      /\ book.charged[job.request] = book.window /\ book.window \in WindowNames /\ done[job.request] = 0
  BY <1>1 DEF WindowInv, WindowTyped, WindowRight, JobRight, JobRows, NoJob, BookRows
<1>3. WindowTyped' /\ WindowRight'
  BY <1>1 DEF WindowInv, WindowTyped, WindowRight
<1>4. done' = [done EXCEPT ![job.request] = 1] /\ done \in [Requests -> 0..1]
  BY <1>1, <1>2 DEF WindowInv, DoneRight
<1>5. book.window # 0
  BY <1>2 DEF WindowNames
<1>6. DoneRight'
  <2>1. done' \in [Requests -> 0..1] /\ \A r \in Requests : done'[r] = 1 => book'.charged[r] # 0
    BY <1>1, <1>2, <1>4, <1>5 DEF WindowInv, DoneRight
  <2>2. \A w : ChargedTo(w)' = ChargedTo(w)
    BY <1>1 DEF ChargedTo
  <2> QED BY <2>1, <2>2 DEF WindowInv, DoneRight
<1>7. job' \in JobRows /\ job'.step = "sent" /\ job'.request = job.request
  BY <1>1, <1>2 DEF JobRows
<1>8. JobRight'
  BY <1>1, <1>2, <1>7 DEF JobRight
<1>9. \A q \in Requests \ {job.request} : done'[q] = done[q]
  BY <1>4
<1>10. now < opened[book.window] + Length /\ now + 1 < token
  BY <1>1, <1>2, ServingInTime
<1> QED BY <1>1, <1>2, <1>3, <1>6, <1>8, <1>9, <1>10 DEF WindowInv

LEMMA OtherWindowStep ==
  ASSUME WindowInv, Window!Tick \/ Window!Reserve \/ Window!Expires \/ Window!Ends \/ Window!Stop \/ Window!RestoreHome
  PROVE  WindowInv' /\ book'.charged = book.charged /\ done' = done
<1>1. book \in BookRows /\ kept \subseteq Requests /\ refused \in WindowBlocks /\ now \in 1..MaxTime
  BY DEF WindowInv, WindowTyped
<1>2. done' = done /\ opened' = opened
  BY DEF Window!Tick, Window!Reserve, Window!Expires, Window!Ends, Window!Stop, Window!RestoreHome
<1>3. CASE Window!Tick
  <2>1. now' \in 1..MaxTime /\ UNCHANGED << book, token, serves, refused, kept, job, done, opened >>
    BY <1>1, <1>3, WindowConstants DEF Window!Tick
  <2>2. WindowTyped' /\ WindowRight'
    BY <2>1 DEF WindowInv, WindowTyped, WindowRight
  <2> QED BY <2>1, <2>2, ChargedStays DEF WindowInv
<1>4. CASE Window!Reserve
  <2>1. job.step = "consumed" /\ UNCHANGED << now, book, token, serves, refused, done, opened >>
    BY <1>4 DEF Window!Reserve
  <2>2. job \in JobRows /\ job.request \in Requests /\ serves /\ book.charged[job.request] = book.window
        /\ done[job.request] = 0
    BY <2>1 DEF WindowInv, JobRight, JobRows, NoJob
  <2>3. WindowTyped' /\ WindowRight'
    <3>1. kept' \subseteq Requests
      BY <1>1, <1>4, <2>2 DEF Window!Reserve
    <3> QED BY <2>1, <3>1 DEF WindowInv, WindowTyped, WindowRight
  <2>4. DoneRight'
    BY <2>1 DEF WindowInv, DoneRight, ChargedTo
  <2>5. JobRight'
    <3>1. CASE job' = NoJob
      BY <3>1 DEF JobRight, NoJob
    <3>2. CASE job' = [job EXCEPT !.step = "reserved"]
      <4>1. job' \in JobRows /\ job'.step = "reserved" /\ job'.request = job.request
        BY <2>2, <3>2 DEF JobRows
      <4> QED BY <2>1, <2>2, <4>1 DEF JobRight
    <3> QED BY <1>4, <3>1, <3>2 DEF Window!Reserve, Window!NoTurn, NoJob
  <2> QED BY <2>1, <2>3, <2>4, <2>5 DEF WindowInv
<1>5. CASE Window!Expires \/ Window!Ends
  <2>1. UNCHANGED << now, token, serves, kept >> /\ job' = NoJob
    BY <1>5 DEF Window!Expires, Window!Ends, Window!NoTurn, NoJob
  <2>2. /\ refused' \in WindowBlocks
        /\ \/ book' = book
           \/ \E why \in WindowBlocks : book' = [book EXCEPT !.blocked = why]
           \/ book' = [book EXCEPT !.model = TRUE]
    BY <1>1, <1>5 DEF Window!Expires, Window!Ends, Window!Block, WindowBlocks
  <2>3. WindowInv'
    BY <1>1, <1>2, <2>1, <2>2, BlockMoves
  <2>4. book'.charged = book.charged
    BY <1>1, <2>2 DEF BookRows
  <2> QED BY <1>2, <2>3, <2>4
<1>6. CASE Window!Stop
  <2>1. serves' = FALSE /\ token' = 0 /\ refused' = "none" /\ job' = NoJob /\ UNCHANGED << now, book, kept, done, opened >>
    BY <1>6 DEF Window!Stop, Window!NoTurn, NoJob
  <2>2. WindowTyped'
    <3>1. 0 \in Instants /\ "none" \in WindowBlocks
      BY WindowConstants DEF Instants, WindowBlocks
    <3> QED BY <2>1, <3>1 DEF WindowInv, WindowTyped
  <2>3. WindowRight'
    BY <2>1 DEF WindowInv, WindowRight
  <2> QED BY <2>1, <2>2, <2>3, ChargedStays DEF WindowInv
<1>7. CASE Window!RestoreHome
  <2>1. kept' \subseteq Requests /\ UNCHANGED << now, book, token, serves, refused, job, done, opened >>
    BY <1>1, <1>7 DEF Window!RestoreHome
  <2> QED BY <1>1, <2>1, BlockMoves
<1> QED BY <1>3, <1>4, <1>5, <1>6, <1>7

LEMMA WindowRests == WindowInv /\ UNCHANGED windowVars => WindowInv'
  BY DEF WindowInv, WindowTyped, WindowRight, JobRight, DoneRight, ChargedTo, windowVars

LEMMA WindowStep ==
  ASSUME WindowInv, Window!Next
  PROVE  /\ WindowInv'
         /\ \A q \in Requests : (book'.charged[q] # book.charged[q] \/ done'[q] # done[q]) =>
                                  now < opened[book'.charged[q]] + Length /\ now + 1 < token
<1>1. ASSUME NEW e \in Window!Envelopes, Window!SupplyStarts(e) \/ Window!SupplyAgain(e)
      PROVE  WindowInv' /\ book'.charged = book.charged /\ done' = done
  <2>1. WindowInv' /\ done' = done
    BY <1>1, SupplyStep DEF Window!SupplyStarts, Window!SupplyAgain
  <2>2. book \in BookRows
    BY DEF WindowInv, WindowTyped
  <2>3. book'.charged = book.charged
    <3>1. CASE \E why \in {"none", "auth_revoked"} : Window!Install(e, why)
      BY <2>2, <3>1 DEF Window!Install, BookRows
    <3>2. CASE Window!Block(Window!Refusal(e))
      BY <2>2, <3>2 DEF Window!Block, BookRows
    <3> QED BY <1>1, <3>1, <3>2 DEF Window!SupplyStarts, Window!SupplyAgain
  <2> QED BY <2>1, <2>3
<1>2. CASE Window!Tick \/ Window!Reserve \/ Window!Expires \/ Window!Ends \/ Window!Stop \/ Window!RestoreHome
  BY <1>2, OtherWindowStep
<1>3. CASE (\E r \in Requests : Window!Consume(r)) \/ Window!Dispatch
  BY <1>3, ChargeStep, JobDispatch
<1> QED BY <1>1, <1>2, <1>3 DEF Window!Next

(* What the runs check of the window follows.                              *)
LEMMA WindowShown == WindowInv => Window!TypeOK /\ Window!WindowSpentOnce
<1> SUFFICES ASSUME WindowInv PROVE Window!TypeOK /\ Window!WindowSpentOnce
  OBVIOUS
<1>1. Window!TypeOK
  <2>1. done \in [Requests -> 0..2]
    BY DEF WindowInv, DoneRight
  <2>2. job = Window!NoTurn \/ job \in JobRows
    BY DEF WindowInv, JobRight, Window!NoTurn, NoJob
  <2> QED BY <2>1, <2>2 DEF WindowInv, WindowTyped, JobRows, BookRows, WindowNames, Instants, WindowBlocks,
           Window!TypeOK, Window!Windows, Window!Tokens, Window!Blocks
<1>2. \A w : Window!Spent(w) = Cardinality(ChargedTo(w))
  BY WindowCount DEF Window!Spent, ChargedTo
<1>3. Window!WindowSpentOnce
  BY <1>2 DEF WindowInv, DoneRight, Window!WindowSpentOnce, Window!Windows, WindowNames
<1> QED BY <1>1, <1>3

-----------------------------------------------------------------------------
(* The parts together: a step of the composition is one of one part, and   *)
(* leaves the others' variables alone.                                     *)
AccessInv == RunnerInv /\ BrokerInv /\ CacheInv /\ WindowInv

allVars == << part, vars, brokerVars, cacheVars, windowVars >>

LEMMA PartsStart == AllInit => AccessInv
  BY RunnerStart, BrokerStart, CacheStart, WindowStart DEF AllInit, AccessInv

(* Which step of which part it is.                                         *)
LEMMA PartSteps ==
  ASSUME [AllNext]_allVars
  PROVE  /\ Next \/ UNCHANGED vars
         /\ Broker!Next \/ Broker!Done \/ UNCHANGED brokerVars
         /\ Cache!Next \/ UNCHANGED cacheVars
         /\ Window!Next \/ UNCHANGED windowVars
  BY DEF AllNext, allVars

LEMMA RunnerRests == RunnerInv /\ UNCHANGED vars => RunnerInv'
  BY DEF RunnerInv, ProviderTyped, LedgerKnown, Coherent, ProcessTyped, PullKnown, TurnKnown, SentKnown, vars

LEMMA PartsMove ==
  ASSUME AccessInv, [AllNext]_allVars
  PROVE  AccessInv'
<1>1. RunnerInv'
  BY RunnerStep, RunnerRests, PartSteps DEF AccessInv
<1>2. BrokerInv'
  BY BrokerStep, BrokerRests, PartSteps DEF AccessInv
<1>3. CacheInv'
  BY CacheStep, CacheRests, PartSteps DEF AccessInv
<1>4. WindowInv'
  BY WindowStep, WindowRests, PartSteps DEF AccessInv
<1> QED BY <1>1, <1>2, <1>3, <1>4 DEF AccessInv

LEMMA PartsHold == AllSpec => []AccessInv
<1>1. AccessInv /\ [AllNext]_allVars => AccessInv'
  BY PartsMove
<1> QED BY <1>1, PartsStart, PTL DEF AllSpec, allVars

(* Every part keeps the shapes of its ledgers, files and requests,         *)
(* whatever the bounds are (MCAccess.AllTypeOK).                           *)
THEOREM AccessIsTyped == AllSpec => []AllTypeOK
<1>1. AccessInv => AllTypeOK
  BY RunnerShown, BrokerShown, CacheShown, WindowShown DEF AccessInv, AllTypeOK
<1> QED BY <1>1, PartsHold, PTL

(* A request reaches the provider at most once, on a receipt or a charge   *)
(* that was written before, and no grant or window is charged beyond its   *)
(* budget, whatever died in between (MCAccess.EveryDispatchIsCharged).     *)
THEOREM DispatchesAreCharged == AllSpec => []EveryDispatchIsCharged
<1>1. AccessInv => EveryDispatchIsCharged
  BY RunnerShown, CacheShown, WindowShown DEF AccessInv, EveryDispatchIsCharged
<1> QED BY <1>1, PartsHold, PTL

(* The broker drives one forced refresh a minute, with one app-server, and *)
(* hands nobody the token that was refused; its events chain unless        *)
(* somebody else wrote (MCAccess.RefreshIsOrderly).                        *)
THEOREM RefreshesAreOrderly == AllSpec => []RefreshIsOrderly
<1>1. AccessInv => RefreshIsOrderly
  BY BrokerShown DEF AccessInv, RefreshIsOrderly
<1> QED BY <1>1, PartsHold, PTL

(* No rejected token serves a turn and no token that was left is installed *)
(* again; a refresh runs on the login that was found or a later one, a     *)
(* process on the login the provider accepts, nothing is left after a      *)
(* cleanup, and no window serves beyond its time                           *)
(* (MCAccess.TokensNeverReturn, what TokensGoForward says of steps).       *)
THEOREM CredentialsNeverReturn == AllSpec => TokensNeverReturn
<1>1. AccessInv /\ [AllNext]_allVars =>
        [turn.step = "reserved" /\ turn'.step = "sent" => memory \notin ledger.rejected]_vars
  BY RejectedStep, PartSteps DEF AccessInv
<1>2. AccessInv /\ [AllNext]_allVars =>
        [ledger'.snapshot # ledger.snapshot => ledger'.snapshot \notin ledger.seen]_vars
  BY RunnerStep, PartSteps DEF AccessInv
<1>3. AccessInv /\ [AllNext]_allVars => [WorksWithLedger']_vars
  <2> SUFFICES ASSUME AccessInv, [AllNext]_allVars PROVE WorksWithLedger'
    OBVIOUS
  <2>1. TurnKnown'
    BY PartsMove DEF AccessInv, RunnerInv
  <2> QED BY <2>1 DEF TurnKnown, WorksWithLedger
<1>4. AccessInv /\ [AllNext]_allVars =>
        [\A c \in Callers : call[c].step = "driven" /\ call'[c].step = "rewritten"
                              => server >= call[c].current]_(Broker!vars)
  BY DEF AccessInv, BrokerInv, CallsKnown, HolderFits, Held
<1>5. AccessInv /\ [AllNext]_allVars => [Cache!CacheIsCurrent' /\ Cache!CleanedStaysClean']_cacheVars
  <2> SUFFICES ASSUME AccessInv, [AllNext]_allVars PROVE Cache!CacheIsCurrent' /\ Cache!CleanedStaysClean'
    OBVIOUS
  <2>1. LoginRight'
    BY PartsMove DEF AccessInv, CacheInv
  <2> QED BY <2>1 DEF LoginRight, Cache!CacheIsCurrent, Cache!CleanedStaysClean
<1>6. AccessInv /\ [AllNext]_allVars =>
        [\A r \in Requests : (book'.charged[r] # book.charged[r] \/ done'[r] # done[r]) =>
           now < opened[book'.charged[r]] + Length /\ now + 1 < token]_(Window!vars)
  BY WindowStep, PartSteps DEF AccessInv, windowVars, Window!vars
<1> QED BY <1>1, <1>2, <1>3, <1>4, <1>5, <1>6, PartsHold, PTL
    DEF AllSpec, allVars, TokensNeverReturn, RejectedNeverServes, NeverRollsBack, Broker!RefreshUsesCurrentLogin,
        Window!AdmittedInTime

=============================================================================
