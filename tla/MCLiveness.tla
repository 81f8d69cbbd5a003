----------------------------- MODULE MCLiveness -----------------------------
(* What must eventually happen elsewhere, for TLC: to requests that compete*)
(* for locks, to a Pod whose create answer was lost, to text typed in an   *)
(* editor, to requests for a credential, and in a browser tab to a         *)
(* conversation seen running and an environment seen starting.  They share *)
(* no state, so a behaviour here is one of one of them, and the others     *)
(* rest in their initial states.                                           *)
EXTENDS OwnerLocks

CONSTANTS Owners, Creators, Keys, Tab, Texts, Opening, Callers, Questions, Accounts

VARIABLES
  part,                                                            \* which of them is explored
  reg, receipts, settled, eligible, kube, posts, sent, born, job,  \* PodCreation
  rows, answered, document, net, tab, keys, typed, lost,           \* DraftAutosave
  file, written, age, servers, server, forced, lock, call, events, foreign, drives,      \* BrokerCredentials
  session, receipted, signedIn, stored, draft, screen, known, view, reloads, again,
  waits, orphans, made, ended, entered, twice, edits, faults,                            \* ChatComposer
  cookie, sessions, rights, env, user, confirmed, mes, out, epoch, ran, entrySent, entries, pressed,
  prepares, data, inflight, loads, timer, panel, seen, missed                            \* RunnerStatus

createVars == << reg, receipts, settled, eligible, kube, posts, sent, born, job >>
editorVars == << rows, answered, document, net, tab, keys, typed, lost >>
brokerVars == << file, written, age, servers, server, forced, lock, call, events, foreign, drives >>
chatVars   == << session, receipted, signedIn, stored, draft, screen, known, view, reloads, again,
                 waits, orphans, made, ended, entered, twice, edits, faults >>
statusVars == << cookie, sessions, rights, env, user, confirmed, mes, out, epoch, ran, entrySent,
                 entries, pressed, prepares, data, inflight, loads, timer, panel, seen, missed >>

(* Two slots, so that no owner waits for another.                          *)
Create == INSTANCE PodCreation WITH MaxPods <- 2, MaxGen <- 1

(* One new document in one tab; answers are lost and requests arrive late. *)
Editor == INSTANCE DraftAutosave WITH
  Tabs <- {Tab}, Initial <- Opening, Existing <- FALSE, Faults <- {}, MaxTyped <- 3, MaxLost <- 2,
  receipts <- answered

Broker == INSTANCE BrokerCredentials WITH MaxFile <- 1, life <- age

(* One question, one composer, one fault.                                  *)
Chat == INSTANCE ChatComposer WITH
  Texts <- Questions, MaxKeys <- 1, MaxScreens <- 1, MaxTyped <- 1, MaxFaults <- 1,
  receipts <- receipted, loads <- reloads, timer <- again, typed <- entered, settled <- ended

(* One login with the chat panel, and one answer lost.                     *)
Status == INSTANCE RunnerStatus WITH
  MaxSession <- 1, MaxEpoch <- 1, MaxMe <- 0, MaxPress <- 0, MaxLost <- 1, lost <- missed

AllInit ==
  /\ part \in {"locks", "create", "editor", "broker", "chat", "panel"}
  /\ Init /\ Create!Init /\ Editor!Init /\ Broker!Init /\ Chat!Init /\ Status!Init
  /\ part # "broker" => \A c \in Callers : ~call[c].force
  /\ cookie.account \in Accounts /\ \A a \in Accounts : rights[a] = "prepare"

AllNext ==
  \/ /\ part = "locks" /\ Next
     /\ UNCHANGED << part, createVars, editorVars, brokerVars, chatVars, statusVars >>
  \/ /\ part = "create" /\ Create!Next
     /\ UNCHANGED << part, vars, editorVars, brokerVars, chatVars, statusVars >>
  \/ /\ part = "editor" /\ Editor!Next
     /\ UNCHANGED << part, vars, createVars, brokerVars, chatVars, statusVars >>
  \/ /\ part = "broker" /\ Broker!Next
     /\ UNCHANGED << part, vars, createVars, editorVars, chatVars, statusVars >>
  \/ /\ part = "chat" /\ Chat!Next
     /\ UNCHANGED << part, vars, createVars, editorVars, brokerVars, statusVars >>
  \/ /\ part = "panel" /\ Status!Next /\ out' = "no" /\ rights' = rights
     /\ UNCHANGED << part, vars, createVars, editorVars, brokerVars, chatVars >>

(* Each part's own fairness.  What rests in its initial state has no fair  *)
(* step enabled, the requests of locks and broker apart.                   *)
AllSpec ==
  /\ AllInit
  /\ [][AllNext]_<< part, vars, createVars, editorVars, brokerVars, chatVars, statusVars >>
  /\ \A p \in Requests : WF_vars(part = "locks" /\ Step(p))
  /\ \A c \in Callers : WF_brokerVars(part = "broker" /\ Broker!Serve(c))
  /\ Create!Fairness /\ Editor!Fairness /\ Chat!Fairness /\ Status!Fairness

-----------------------------------------------------------------------------
(* Every request ends: those of the service and the controller for rows,   *)
(* locks and connections, and those of runners for the operator's token;   *)
(* and a Pod whose create answer was lost is found again and bound.        *)
RequestsEnd ==
  /\ IF part = "locks" THEN EveryRequestEnds ELSE part = "broker" => Broker!EveryRequestEnds
  /\ Create!LostCreateIsAdopted

(* What is typed reaches the server or the person is told; a conversation  *)
(* seen running is seen to end, and an environment seen starting is seen   *)
(* to have started.                                                        *)
TabCatchesUp == Editor!TypedTextLands /\ Chat!EndIsSeen /\ Status!ProgressIsSeen

(* "Saved" and "same as the server" are true, and an editor makes one draft*)
(* and no conflict with itself, whatever is lost or arrives late           *)
(* (useServerDraft.ts:6-7).                                                *)
EditorKeepsItsWord == Editor!EditorKeepsItsWord
=============================================================================
