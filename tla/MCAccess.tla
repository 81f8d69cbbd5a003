------------------------------ MODULE MCAccess ------------------------------
(* A runner's credentials for TLC, part by part: the operator's tokens in  *)
(* a runner with its ledger, the broker whose answers it takes, a person's *)
(* own login in its cache, and windows that are supplied by hand.  Each    *)
(* module holds what it needs to know of the others, so a behaviour here   *)
(* is one of one of them, and the others rest in their initial states.     *)
EXTENDS OperatorAccess, TLC

CONSTANTS Callers, MaxFile, Submitted, Grant, MaxLogin, Budget, Length, MaxWindow, MaxTime

VARIABLES
  part,                                                                        \* which of them is explored
  file, written, age, servers, server, forced, lock, call, events, foreign, drives,   \* BrokerCredentials
  grant, trial, exported, cache, latest, rotating, proc, clean, reserved, task, sweep, spent, cleaned,  \* PersonalCache
  now, book, token, serves, refused, kept, job, done, opened                   \* AccessWindow

brokerVars == << file, written, age, servers, server, forced, lock, call, events, foreign, drives >>
cacheVars  == << grant, trial, exported, cache, latest, rotating, proc, clean, reserved, task, sweep, spent, cleaned >>
windowVars == << now, book, token, serves, refused, kept, job, done, opened >>

Broker == INSTANCE BrokerCredentials WITH life <- age
Cache  == INSTANCE PersonalCache WITH ledger <- trial, turn <- task, sent <- spent,
                                   Requests <- Submitted, Budget <- Grant, MaxToken <- MaxLogin
Window == INSTANCE AccessWindow WITH ledger <- book, memory <- token, proc <- serves, reason <- refused,
                                     reserved <- kept, turn <- job, sent <- done

ASSUME PartsAssumption ==
  Broker!BrokerAssumption /\ Cache!CacheAssumption /\ Window!WindowAssumption

AllInit ==
  /\ part \in {"runner", "broker", "renewal", "cache", "window"}
  /\ Init /\ Broker!Init /\ Cache!Init /\ Window!Init
  /\ part \notin {"broker", "renewal"} => \A c \in Callers : ~call[c].force

(* The broker is bounded twice: everything happens with one rewrite less,  *)
(* and with every rewrite no token ages.                                   *)
Bounded ==
  \/ part = "broker" /\ written' < MaxFile
  \/ part = "renewal" /\ UNCHANGED age

AllNext ==
  \/ part = "runner" /\ Next /\ UNCHANGED << part, brokerVars, cacheVars, windowVars >>
  \/ (Broker!Next \/ Broker!Done) /\ Bounded /\ UNCHANGED << part, vars, cacheVars, windowVars >>
  \/ part = "cache" /\ (Cache!Next \/ UNCHANGED cacheVars) /\ UNCHANGED << part, vars, brokerVars, windowVars >>
  \/ part = "window" /\ (Window!Next \/ UNCHANGED windowVars) /\ UNCHANGED << part, vars, brokerVars, cacheVars >>

(* Only the runner's fairness matters here; requests of the broker end in  *)
(* MCLiveness.  At rest the pull thread has not started.                   *)
AllSpec ==
  /\ AllInit /\ [][AllNext]_<< part, vars, brokerVars, cacheVars, windowVars >>
  /\ WF_vars(part = "runner" /\ PullAsk) /\ SF_vars(PullAnswered) /\ SF_vars(Resupply)
  /\ WF_vars(part = "runner" /\ Login) /\ WF_vars(Work)
  /\ WF_vars(part = "runner" /\ CanIssue /\ \E t \in Tokens : t = served /\ Age(t))

-----------------------------------------------------------------------------
AllTypeOK == TypeOK /\ Broker!TypeOK /\ Cache!TypeOK /\ Window!TypeOK

(* In every mode a request is dispatched at most once, on its receipt, and *)
(* within its budget.                                                      *)
EveryDispatchIsCharged == SentOnceWithReceipt /\ Cache!SpentOnce /\ Window!WindowSpentOnce

(* Credentials go forward: no rejected token serves a turn, no left one is *)
(* installed again, a turn works on the token the ledger holds, the        *)
(* app-server that renews the file has loaded the login it found; a        *)
(* person's login runs in one place, rotated, and not after its cleanup;   *)
(* a window's tokens serve no longer than the window ...                   *)
TokensNeverReturn ==
  /\ RejectedNeverServes /\ NeverRollsBack /\ [][WorksWithLedger']_vars
  /\ Broker!RefreshUsesCurrentLogin
  /\ [][Cache!CacheIsCurrent' /\ Cache!CleanedStaysClean']_cacheVars /\ Window!AdmittedInTime

(* ... and a runner blocked for a token's sake comes to work again.        *)
TokensGoForward == TokensNeverReturn /\ AuthBlockRecovers

(* The broker forces one refresh a minute, with one app-server, gives      *)
(* nobody the token that was refused, and its record of refreshes breaks   *)
(* only where somebody else wrote.                                         *)
RefreshIsOrderly ==
  /\ Broker!OneForcedRefreshAMinute /\ Broker!OneManagedWriter
  /\ Broker!RefusedTokenNotReturned /\ Broker!ChainBreaksOnlyByOthers
=============================================================================
