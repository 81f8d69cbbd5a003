---------------------------- MODULE RunnerStatus ----------------------------
(***************************************************************************)
(* What one browser tab knows of its login and of its environment: the     *)
(* me queries and the logout of components/auth/AuthProvider.tsx, and the  *)
(* status queries, the entry preparation and the polling of                *)
(* components/research/CodexStatusProvider.tsx.                            *)
(*                                                                         *)
(* The tab is a JavaScript loop: what runs between two awaits is one step, *)
(* an effect is a step of its own.  The server takes a request some time   *)
(* after it was sent and its answer arrives some time later still; the     *)
(* session cookie is the browser's, so that other tabs log in and out too. *)
(***************************************************************************)
EXTENDS Naturals, Sequences, SequencesExt, FiniteSets

CONSTANTS Accounts,
          MaxSession,  \* bound: sessions of the browser
          MaxEpoch,    \* bound: identities the tab goes through
          MaxMe,       \* bound: me queries at a time
          MaxPress,    \* bound: presses of the preparation button
          MaxLost      \* bound: answers that never arrive

StatusAssumption ==
  /\ IsFiniteSet(Accounts)
  /\ {MaxSession, MaxEpoch, MaxMe, MaxPress, MaxLost} \subseteq Nat
  /\ MaxSession > 0

VARIABLES
  cookie,    \* [account, nonce]: the session the browser's requests carry
  sessions,  \* sessions made so far
  rights,    \* per account: "none", "research", "prepare" (research and preparation)
  env,       \* per account: what the server says of its environment
  user,      \* the tab's login: [account, nonce, rights], or NoUser
  confirmed, \* whether the me query that found user was taken after the last confirmed logout
  mes,       \* me queries under way: [valid, state, who, after]; valid while of this generation
  out,       \* the logout under way
  epoch,     \* generations of account and rights
  ran,       \* dependencies with which the entry effect ran last
  entrySent, \* epoch of the last entry preparation
  entries,   \* epochs of all entry preparations, in order
  pressed,   \* presses of the button so far
  prepares,  \* preparation requests under way: [epoch, nonce, id, answer]
  data,      \* the status shown: [epoch, result, early]
  inflight,  \* the loop of status queries: [epoch, again], or NoLoop
  loads,     \* status queries under way: [epoch, latest, early, answer]; latest while of the last number,
             \* early when a preparation was answered since
  timer,     \* whether the next poll is scheduled
  panel,     \* the chat panel: "never" opened, "open", "closed", or open in a tab that is "hidden"
  seen,      \* epoch the panel has asked for
  lost       \* answers lost so far

serverVars == << cookie, sessions, rights, env >>
loginVars  == << user, confirmed, mes, out, epoch >>
entryVars  == << ran, entrySent, entries, pressed, prepares >>
loadVars   == << inflight, loads >>
shownVars  == << data, timer >>
panelVars  == << panel, seen >>
vars == << serverVars, loginVars, entryVars, loadVars, shownVars, panelVars, lost >>

-----------------------------------------------------------------------------
Nobody == "nobody"
NoUser == [ account |-> Nobody, nonce |-> 0, rights |-> "none" ]
NoLoop == [ epoch |-> 0, again |-> FALSE ]
Waiting == "waiting"                       \* the server has not taken the request
Lost == "lost"                             \* network failure, timeout, 5xx: uncertain

Inquiry == [ valid |-> TRUE, state |-> Waiting, who |-> NoUser, after |-> TRUE ]

(* What may be shown: nothing yet, an answer, or a definite refusal.       *)
States == { "not_prepared", "provisioning", "ready" }
Refusals == { "401", "csrf", "403" }

MayPrepare(u) == u.rights = "prepare"
Researches(u) == u.rights \in {"research", "prepare"}

(* A fresh identity shows nothing of the one before.                       *)
Current == IF data.epoch = epoch THEN data ELSE [ epoch |-> epoch, result |-> "none", early |-> FALSE ]
Shown == Current.result

(* A transient state is asked for again while an open panel is visible.    *)
PollsWith(d, e, p) == p = "open" /\ d.epoch = e /\ d.result = "provisioning"

TypeOK ==
  /\ cookie.account \in Accounts \cup {Nobody} /\ cookie.nonce \in 0..MaxSession
  /\ sessions \in 0..MaxSession
  /\ rights \in [Accounts -> {"none", "research", "prepare"}] /\ env \in [Accounts -> States]
  /\ user.account \in Accounts \cup {Nobody} /\ confirmed \in BOOLEAN
  /\ \A m \in mes : m.valid \in BOOLEAN /\ m.after \in BOOLEAN
  /\ out \in {"no", "sent", "done", "csrf", Lost}
  /\ epoch \in 0..MaxEpoch /\ entrySent \in 0..MaxEpoch /\ entries \in Seq(0..MaxEpoch)
  /\ data.epoch \in 0..MaxEpoch /\ data.result \in States \cup Refusals \cup {"none", Lost}
  /\ inflight.again \in BOOLEAN /\ \A l \in loads : l.epoch \in 0..MaxEpoch
  /\ timer \in BOOLEAN /\ panel \in {"never", "open", "closed", "hidden"}
  /\ pressed \in 0..MaxPress /\ lost \in 0..MaxLost

(* A page has just been opened, by whoever the browser is logged in as.    *)
Init ==
  /\ \E a \in Accounts \cup {Nobody} : cookie = [ account |-> a, nonce |-> IF a = Nobody THEN 0 ELSE 1 ]
  /\ sessions = 1
  /\ rights \in [Accounts -> {"research", "prepare"}]
  /\ env = [ a \in Accounts |-> "not_prepared" ]
  /\ user = NoUser /\ confirmed = TRUE /\ out = "no"
  /\ mes = { Inquiry }
  /\ epoch = 0 /\ ran = << 0, 0 >> /\ entrySent = 0 /\ entries = << >> /\ pressed = 0 /\ prepares = {}
  /\ data = [ epoch |-> 0, result |-> "none", early |-> FALSE ]
  /\ inflight = NoLoop /\ loads = {} /\ timer = FALSE
  /\ panel = "never" /\ seen = 0 /\ lost = 0

-----------------------------------------------------------------------------
(* The server.  Another tab logs in; rights change; environments start and *)
(* are stopped when idle.                                                  *)
Holder == [ account |-> cookie.account, nonce |-> cookie.nonce,
            rights |-> IF cookie.account = Nobody THEN "none" ELSE rights[cookie.account] ]

OtherTab(a) ==
  /\ sessions < MaxSession
  /\ sessions' = sessions + 1
  /\ cookie' = [ account |-> a, nonce |-> sessions + 1 ]
  /\ UNCHANGED << rights, env, loginVars, entryVars, loadVars, shownVars, panelVars, lost >>

RightsChange(a) ==
  /\ rights' = [rights EXCEPT ![a] = IF @ = "prepare" THEN "research" ELSE "prepare"]
  /\ UNCHANGED << cookie, sessions, env, loginVars, entryVars, loadVars, shownVars, panelVars, lost >>

EnvironmentMoves(a) ==
  /\ env[a] # "not_prepared"
  /\ env' = [env EXCEPT ![a] = IF @ = "provisioning" THEN "ready" ELSE "not_prepared"]
  /\ UNCHANGED << cookie, sessions, rights, loginVars, entryVars, loadVars, shownVars, panelVars, lost >>

-----------------------------------------------------------------------------
(* Every query, and every answer of a preparation, takes the next number.  *)
Numbered(ls) == { [l EXCEPT !.latest = FALSE] : l \in ls }
Query == [ epoch |-> epoch, latest |-> TRUE, early |-> FALSE, answer |-> Waiting ]

(* reload: one loop per epoch; a call while it runs makes it go once more. *)
Reload ==
  IF ~Researches(user) THEN UNCHANGED loadVars
  ELSE IF inflight # NoLoop /\ inflight.epoch = epoch
  THEN inflight' = [inflight EXCEPT !.again = TRUE] /\ UNCHANGED loads
  ELSE inflight' = [ epoch |-> epoch, again |-> FALSE ] /\ loads' = Numbered(loads) \cup {Query}

LoadTaken(l) ==
  /\ l \in loads /\ l.answer = Waiting
  /\ loads' = (loads \ {l}) \cup { [l EXCEPT !.answer =
       IF cookie.account = Nobody THEN "401" ELSE env[cookie.account]] }
  /\ UNCHANGED << serverVars, loginVars, entryVars, inflight, shownVars, panelVars, lost >>

LoadLost(l) ==
  /\ l \in loads /\ l.answer = Waiting /\ lost < MaxLost
  /\ loads' = (loads \ {l}) \cup { [l EXCEPT !.answer = Lost] }
  /\ lost' = lost + 1
  /\ UNCHANGED << serverVars, loginVars, entryVars, inflight, shownVars, panelVars >>

(* Mutant: a failed query is not counted, and the effect does not run.     *)
QuietApply(e, result, early) ==
  /\ data' = (IF result = Lost /\ Shown \in States THEN Current
              ELSE [ epoch |-> e, result |-> result, early |-> early ])
  /\ timer' = (result # Lost /\ PollsWith(data', epoch, panel))

(* apply: a transient failure keeps what was shown.  Either way the effect *)
(* runs again, and schedules the next poll.                                *)
Apply(e, result, early) ==
  /\ data' = (IF result = Lost /\ Shown \in States THEN Current
              ELSE [ epoch |-> e, result |-> result, early |-> early ])
  /\ timer' = PollsWith(data', epoch, panel)

(* Mutant: a call that came while the loop ran is forgotten.               *)
ForgetfulLoops(l) == FALSE

Loops(l) == inflight.again

(* Mutant: the answers to the identity before reach this one's status.     *)
AnyonesDropped(epo) == FALSE

(* What is answered belongs to the epoch it was asked in.                  *)
Dropped(epo) == epo # epoch

(* Mutant: a query overtaken by the answer of a preparation is shown.      *)
AnyLatest(l) == TRUE

Latest(l) == l.latest

(* The answer of a status query.  That of an epoch gone by ends its loop.  *)
LoadArrives(l) ==
  /\ l \in loads /\ l.answer # Waiting
  /\ IF Dropped(l.epoch)
     THEN /\ loads' = loads \ {l}
          /\ inflight' = (IF inflight.epoch = l.epoch THEN NoLoop ELSE inflight)
          /\ UNCHANGED shownVars
     ELSE /\ IF Latest(l) THEN Apply(l.epoch, l.answer, l.early) ELSE UNCHANGED shownVars
          /\ IF Loops(l)
             THEN inflight' = [inflight EXCEPT !.again = FALSE] /\ loads' = Numbered(loads \ {l}) \cup {Query}
             ELSE inflight' = NoLoop /\ loads' = loads \ {l}
  /\ UNCHANGED << serverVars, loginVars, entryVars, panelVars, lost >>

-----------------------------------------------------------------------------
(* me queries: the page opens, an error is retried, a request is refused   *)
(* with 401 or for its nonce.                                              *)
AskMe ==
  mes' = IF Cardinality(mes) >= MaxMe THEN mes
                ELSE mes \cup { Inquiry }

(* Another request of this tab was refused: it is no longer logged in as   *)
(* the tab believes.                                                       *)
RefusedElsewhere ==
  /\ user # NoUser /\ cookie.nonce # user.nonce /\ mes = {} /\ AskMe
  /\ UNCHANGED << serverVars, user, confirmed, out, epoch, entryVars, loadVars, shownVars, panelVars, lost >>

Retry ==
  /\ user = NoUser /\ mes = {} /\ AskMe
  /\ UNCHANGED << serverVars, user, confirmed, out, epoch, entryVars, loadVars, shownVars, panelVars, lost >>

MeTaken(m) ==
  /\ m \in mes /\ m.state = Waiting
  /\ mes' = (mes \ {m}) \cup { [m EXCEPT !.state = "taken", !.who = Holder] }
  /\ UNCHANGED << serverVars, user, confirmed, out, epoch, entryVars, loadVars, shownVars, panelVars, lost >>

MeLost(m) ==
  /\ m \in mes /\ m.state = Waiting /\ lost < MaxLost
  /\ mes' = (mes \ {m}) \cup { [m EXCEPT !.state = Lost, !.who = NoUser] }
  /\ lost' = lost + 1
  /\ UNCHANGED << serverVars, user, confirmed, out, epoch, entryVars, loadVars, shownVars, panelVars >>

(* The tab is who: another account or other rights begin a new epoch.      *)
Becomes(who) ==
  /\ user' = who
  /\ epoch' = (IF << who.account, who.rights >> # << user.account, user.rights >> THEN epoch + 1 ELSE epoch)
  /\ timer' = PollsWith(data, epoch', panel)

(* applyMe, unless a logout began or ended since the query was sent.  A    *)
(* failed check is nobody's login.                                         *)
MeArrives(m) ==
  /\ m \in mes /\ m.state # Waiting
  /\ IF m.valid
     THEN /\ epoch < MaxEpoch
          /\ Becomes(m.who)
          /\ confirmed' = m.after
     ELSE UNCHANGED << user, epoch, timer, confirmed >>
  /\ mes' = mes \ {m}
  /\ UNCHANGED << serverVars, out, entryVars, loadVars, data, panelVars, lost >>

-----------------------------------------------------------------------------
(* Mutant: the answer of a logout leaves the queries sent meanwhile valid. *)
StillValid(ms) == ms

(* Queries of a generation gone by.                                        *)
Voided(ms) == { [m EXCEPT !.valid = FALSE] : m \in ms }

(* signOut: its beginning and its end both make earlier me queries void.   *)
SignOut ==
  /\ user # NoUser /\ out = "no" /\ epoch < MaxEpoch
  /\ out' = "sent" /\ mes' = { [m EXCEPT !.valid = FALSE] : m \in mes }
  /\ UNCHANGED << serverVars, user, confirmed, epoch, entryVars, loadVars, shownVars, panelVars, lost >>

(* The session ends only for its own nonce; me queries taken before it     *)
(* will have answered for a login that is over.                            *)
SignOutTaken ==
  /\ out = "sent"
  /\ IF cookie.nonce = user.nonce
     THEN /\ cookie' = [ account |-> Nobody, nonce |-> 0 ]
          /\ mes' = { [m EXCEPT !.after = m.state # "taken"] : m \in mes }
          /\ out' = "done"
     ELSE out' = "csrf" /\ UNCHANGED << cookie, mes >>
  /\ UNCHANGED << sessions, rights, env, user, confirmed, epoch, entryVars, loadVars, shownVars, panelVars, lost >>

SignOutLost ==
  /\ out \in {"sent", "done"} /\ lost < MaxLost
  /\ out' = Lost /\ lost' = lost + 1
  /\ UNCHANGED << serverVars, user, confirmed, mes, epoch, entryVars, loadVars, shownVars, panelVars >>

(* Its answer: logged out; or refused, and the tab asks who it is; or not  *)
(* known, and the tab stays as it was.                                     *)
SignedOut ==
  /\ out = "done" /\ epoch < MaxEpoch
  /\ Becomes(NoUser) /\ mes' = Voided(mes) /\ confirmed' = TRUE

StaysIn ==
  \/ out = "csrf" /\ mes' = Voided(mes) \cup { Inquiry }
                  /\ UNCHANGED << user, epoch, timer, confirmed >>
  \/ out = Lost /\ mes' = { [m EXCEPT !.after = TRUE] : m \in Voided(mes) }
                /\ confirmed' = TRUE /\ UNCHANGED << user, epoch, timer >>

SignOutArrives ==
  /\ SignedOut \/ StaysIn
  /\ out' = "no"
  /\ UNCHANGED << serverVars, entryVars, loadVars, data, panelVars, lost >>

-----------------------------------------------------------------------------
Send == prepares' = prepares \cup
  { [ epoch |-> epoch, nonce |-> user.nonce, id |-> Len(entries') + pressed', answer |-> Waiting ] }

(* Mutant: the effect sends whenever it runs.                              *)
EveryRunEnters == MayPrepare(user)

Enters == MayPrepare(user) /\ entrySent # epoch

(* The entry effect: once an epoch, though it runs again with every nonce. *)
EntryEffect ==
  /\ ran # << epoch, user.nonce >>
  /\ ran' = << epoch, user.nonce >>
  /\ IF Enters
     THEN /\ entrySent' = epoch /\ entries' = Append(entries, epoch) /\ pressed' = pressed
          /\ Send
     ELSE UNCHANGED << entrySent, entries, pressed, prepares >>
  /\ UNCHANGED << serverVars, loginVars, loadVars, shownVars, panelVars, lost >>

Press ==
  /\ MayPrepare(user) /\ Shown = "not_prepared" /\ pressed < MaxPress
  /\ \A p \in prepares : p.epoch # epoch
  /\ pressed' = pressed + 1 /\ UNCHANGED << ran, entrySent, entries >> /\ Send
  /\ UNCHANGED << serverVars, loginVars, loadVars, shownVars, panelVars, lost >>

(* The server prepares the environment of the session that asks.           *)
PrepareTaken(p) ==
  /\ p \in prepares /\ p.answer = Waiting
  /\ LET a == cookie.account
         answer == IF a = Nobody THEN "401"
                   ELSE IF cookie.nonce # p.nonce THEN "csrf"
                   ELSE IF rights[a] # "prepare" THEN "403"
                   ELSE IF env[a] = "ready" THEN "ready" ELSE "provisioning"
     IN /\ prepares' = (prepares \ {p}) \cup { [p EXCEPT !.answer = answer] }
        /\ env' = (IF answer = "provisioning" THEN [env EXCEPT ![a] = answer] ELSE env)
  /\ UNCHANGED << cookie, sessions, rights, loginVars, ran, entrySent, entries, pressed,
                  loadVars, shownVars, panelVars, lost >>

PrepareLost(p) ==
  /\ p \in prepares /\ p.answer # Lost /\ lost < MaxLost
  /\ prepares' = (prepares \ {p}) \cup { [p EXCEPT !.answer = Lost] }
  /\ lost' = lost + 1
  /\ UNCHANGED << serverVars, loginVars, ran, entrySent, entries, pressed, loadVars, shownVars, panelVars >>

(* sendPrepare, resumed: an answer of another epoch is dropped; a status   *)
(* is shown and makes the queries under way void; a refusal asks who one   *)
(* is; what is not settled thereby is settled by a status query.           *)
PrepareArrives(p) ==
  /\ p \in prepares /\ p.answer # Waiting
  /\ prepares' = prepares \ {p}
  /\ IF Dropped(p.epoch) THEN UNCHANGED << mes, loadVars, shownVars >>
     ELSE IF p.answer \in States
     THEN /\ loads' = { [l EXCEPT !.early = TRUE] : l \in Numbered(loads) }
          /\ Apply(p.epoch, p.answer, FALSE)
          /\ UNCHANGED << mes, inflight >>
     ELSE /\ IF p.answer \in Refusals THEN AskMe ELSE UNCHANGED mes
          /\ IF p.answer \in {"401", "csrf"} THEN UNCHANGED loadVars ELSE Reload
          /\ UNCHANGED shownVars
  /\ UNCHANGED << serverVars, user, confirmed, out, epoch, ran, entrySent, entries, pressed, panelVars, lost >>

-----------------------------------------------------------------------------
(* The panel: its first opening asks, closing and hiding stop the poll,    *)
(* and a tab that is shown again asks.                                     *)
PanelGoes(p) ==
  /\ panel' = p
  /\ timer' = PollsWith(data, epoch, p)
  /\ UNCHANGED << serverVars, loginVars, entryVars, data, lost >>

OpenPanel ==
  /\ panel \in {"never", "closed"} /\ PanelGoes("open")
  /\ IF panel = "never" THEN Reload /\ seen' = epoch ELSE UNCHANGED << loadVars, seen >>

LeavePanel == panel = "open" /\ PanelGoes("closed") /\ UNCHANGED << loadVars, seen >>
HideTab == panel = "open" /\ PanelGoes("hidden") /\ UNCHANGED << loadVars, seen >>
ShowTab == panel = "hidden" /\ PanelGoes("open") /\ Reload /\ UNCHANGED seen

(* A new epoch is asked for while something shows the status.              *)
EpochEffect ==
  /\ panel # "never" /\ seen # epoch
  /\ seen' = epoch
  /\ Reload
  /\ UNCHANGED << serverVars, loginVars, entryVars, shownVars, panel, lost >>

Poll ==
  /\ timer
  /\ timer' = FALSE
  /\ Reload
  /\ UNCHANGED << serverVars, loginVars, entryVars, data, panelVars, lost >>

Next ==
  \/ \E a \in Accounts : OtherTab(a) \/ RightsChange(a) \/ EnvironmentMoves(a)
  \/ \E l \in loads : LoadTaken(l) \/ LoadLost(l) \/ LoadArrives(l)
  \/ RefusedElsewhere \/ Retry
  \/ \E m \in mes : MeTaken(m) \/ MeLost(m) \/ MeArrives(m)
  \/ SignOut \/ SignOutTaken \/ SignOutLost \/ SignOutArrives
  \/ EntryEffect \/ Press
  \/ \E p \in prepares : PrepareTaken(p) \/ PrepareLost(p) \/ PrepareArrives(p)
  \/ OpenPanel \/ LeavePanel \/ HideTab \/ ShowTab \/ EpochEffect \/ Poll

(* The environment starts, the server takes and answers status queries,    *)
(* and the timer fires.                                                    *)
Fairness ==
  /\ WF_vars(Poll) /\ WF_vars(\E l \in loads : LoadTaken(l)) /\ WF_vars(\E l \in loads : LoadArrives(l))
  /\ \A a \in Accounts : WF_vars(env[a] = "provisioning" /\ EnvironmentMoves(a))

Spec == Init /\ [][Next]_vars /\ Fairness

-----------------------------------------------------------------------------
(* One entry preparation per identity, however often its nonce changes or  *)
(* its login is confirmed again.                                           *)
OneEntryPerEpoch == IsInjective(entries)

(* No status query overtaken by a preparation's answer takes its place, no *)
(* late answer to an earlier identity takes away what is shown, and a call *)
(* that came while a query was under way is followed by a query of its own *)
(* ("so that a change in between is not missed", says the comment).        *)
ShownIsCurrent ==
  [][ /\ ~data'.early
      /\ epoch' = epoch /\ Shown # "none" => Shown' # "none"
      /\ inflight.again /\ inflight.epoch = epoch' /\ ~inflight'.again =>
           \E l \in loads' \ loads : l.epoch = epoch /\ l.answer = Waiting ]_vars

(* After a logout the server confirmed, no answer from before it logs the  *)
(* tab in again.                                                           *)
LoggedOutStaysOut == user # NoUser /\ out = "no" => confirmed

(* While the panel is open and the tab visible, a transient state is asked *)
(* for until it has passed.                                                *)
ProgressIsSeen == Shown = "provisioning" ~> (Shown # "provisioning" \/ panel # "open")
=============================================================================
