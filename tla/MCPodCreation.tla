---------------------------- MODULE MCPodCreation ----------------------------
(* Small instances for TLC of what an environment's request comes to: the  *)
(* Pods that creators make of it, and the browser tab that asks for it and *)
(* shows its state.  The tab's own parts are who it is and what its panel  *)
(* shows.  A behaviour is one of one part, the others rest in an initial   *)
(* state.                                                                  *)
EXTENDS PodCreation, TLC

CONSTANTS Accounts, MaxSession, MaxEpoch, MaxMe, MaxPress, MaxLost

VARIABLES
  part,                                                                  \* which of them is explored
  cookie, sessions, rights, env, user, confirmed, mes, out, epoch, ran, entrySent, entries, pressed,
  prepares, data, inflight, loads, timer, panel, seen, lost              \* RunnerStatus

tabVars == << cookie, sessions, rights, env, user, confirmed, mes, out, epoch, ran, entrySent,
              entries, pressed, prepares, data, inflight, loads, timer, panel, seen, lost >>

Tab == INSTANCE RunnerStatus

ASSUME TabAssumption == Tab!StatusAssumption

(* Owners, creators and keys are interchangeable in the safety runs.       *)
Interchangeable ==
  Permutations(Owners) \cup Permutations(Creators) \cup Permutations(Keys)

AllInit ==
  /\ part \in {"creation", "login", "panel"}
  /\ Init /\ Tab!Init
  /\ part = "creation" => cookie.account \in Accounts /\ \A a \in Accounts : rights[a] = "prepare"

(* The tab is bounded twice: who it is, with environments that do not      *)
(* become ready, and what it shows, without logins and logouts.            *)
Bounded ==
  \/ part = "login" /\ panel' = "never" /\ pressed' = 0 /\ \A a \in Accounts : env'[a] # "ready"
  \/ part = "panel" /\ out' = "no" /\ sessions' = 1 /\ epoch' <= 1

AllNext ==
  \/ part = "creation" /\ Next /\ UNCHANGED << part, tabVars >>
  \/ Tab!Next /\ Bounded /\ UNCHANGED << part, vars >>

AllSpec == AllInit /\ [][AllNext]_<< part, vars, tabVars >>

-----------------------------------------------------------------------------
(* A tab prepares an environment once for each identity it has, stays      *)
(* logged out, and shows what it asked for last, as who it is              *)
(* (CodexStatusProvider.tsx, AuthProvider.tsx).                            *)
TabIsWhoItShows ==
  /\ [][Tab!TypeOK' /\ Tab!OneEntryPerEpoch' /\ Tab!LoggedOutStaysOut']_tabVars
  /\ Tab!ShownIsCurrent
=============================================================================
