---------------------------- MODULE TurnDispatch ----------------------------
(***************************************************************************)
(* One owner's conversations in the service (app/conversations.py) and the *)
(* turns their messages become in the runner (runner/app.py).              *)
(*                                                                         *)
(* The service commits a message, submits it in the background and learns  *)
(* the outcome by polling; the runner reserves a turn, runs it in a worker *)
(* over a native process and keeps a cache of the native history.  Either  *)
(* process may die, a submission may be late, lost or delivered again, an  *)
(* answer may be lost, and a history read may overlap everything.          *)
(***************************************************************************)
EXTENDS Naturals, Sequences, SequencesExt

CONSTANTS Sessions, Requests,
          Nobody,       \* no request, no session
          Duplicates    \* whether the network may deliver a submission again

ASSUME TurnDispatchAssumption ==
  /\ Nobody \notin Sessions \cup Requests
  /\ Duplicates \in BOOLEAN

VARIABLES
  conv,     \* research.conversations
  home,     \* the conversation a request was accepted for
  launch,   \* the background dispatch of each request
  net,      \* submissions on their way to the runner
  reply,    \* the runner's answer to a submission
  poll,     \* the detail request that holds a conversation's row
  mem,      \* Native.mapping: the runner's entry for each session
  disk,     \* the mapping file
  worker,   \* active_session and where its thread has got to
  native,   \* the turns of each native thread, by the request they are for
  history   \* the history read that holds the protocol mutex

api    == << conv, home, launch, poll >>
runner == << mem, disk, worker, native, history >>
vars   == << conv, home, launch, net, reply, poll, mem, disk, worker, native, history >>

-----------------------------------------------------------------------------
NoEntry  == [ request |-> Nobody, requests |-> {}, state |-> "none",
              turn |-> FALSE, thread |-> FALSE, record |-> {} ]
NoWorker == [ at |-> "none", session |-> Nobody ]
NoPoll   == [ session |-> Nobody, reads |-> FALSE ]
NoRead   == [ session |-> Nobody, entry |-> NoEntry, turns |-> {} ]

Init ==
  /\ conv = [s \in Sessions |-> [ state |-> "idle", request |-> Nobody, pending |-> FALSE,
                                  record |-> {}, unrecorded |-> {} ]]
  /\ home = [r \in Requests |-> Nobody] /\ launch = [r \in Requests |-> "none"]
  /\ net = {} /\ reply = [r \in Requests |-> "none"]
  /\ poll = NoPoll
  /\ mem = [s \in Sessions |-> NoEntry] /\ disk = mem
  /\ worker = NoWorker /\ native = [s \in Sessions |-> << >>] /\ history = NoRead

Current(s, r) == conv[s].state = "running" /\ conv[s].request = r

RowFree(s) == poll.session # s

-----------------------------------------------------------------------------
(* message: an input the previous turn left is retained as unrecorded.  A  *)
(* conversation that is running when the request takes its row refuses.    *)
Message(s, r) ==
  /\ home[r] = Nobody
  /\ conv[s].state # "running" /\ RowFree(s)
  /\ conv' = [conv EXCEPT ![s].state = "running", ![s].request = r, ![s].pending = TRUE,
                ![s].unrecorded = @ \cup (IF conv[s].pending THEN {conv[s].request} ELSE {})]
  /\ home' = [home EXCEPT ![r] = s]
  /\ launch' = [launch EXCEPT ![r] = "queued"]
  /\ UNCHANGED << net, reply, poll, runner >>

Submit(r) ==
  /\ launch[r] = "queued" /\ Current(home[r], r)
  /\ launch' = [launch EXCEPT ![r] = "sent"]
  /\ net' = net \cup {r}
  /\ UNCHANGED << conv, home, poll, reply, runner >>

(* launch's handler: a failure is definite only for the current request.   *)
Fail(r) ==
  /\ RowFree(home[r])
  /\ conv' = IF Current(home[r], r) THEN [conv EXCEPT ![home[r]].state = "failed"] ELSE conv
  /\ launch' = [launch EXCEPT ![r] = "done"]

(* Nothing was submitted: the runner is not eligible or not ready.         *)
LocalFailure(r) ==
  /\ launch[r] = "queued"
  /\ Fail(r)
  /\ UNCHANGED << home, poll, net, reply, runner >>

Refused(r) ==
  /\ launch[r] = "sent" /\ reply[r] = "refused"
  /\ Fail(r)
  /\ UNCHANGED << home, poll, net, reply, runner >>

(* Mutant: a timeout or a network error fails the message.                 *)
UnansweredFails(r) ==
  /\ launch[r] = "sent"
  /\ Fail(r)
  /\ UNCHANGED << home, poll, net, reply, runner >>

(* Accepted, or an ambiguous outcome: the conversation goes on running.    *)
Unanswered(r) ==
  /\ launch[r] = "sent"
  /\ launch' = [launch EXCEPT ![r] = "done"]
  /\ UNCHANGED << conv, home, poll, net, reply, runner >>

(* Dispatches are background tasks: they die with the process.             *)
ServiceCrash ==
  /\ launch' = [r \in Requests |-> IF home[r] = Nobody THEN "none" ELSE "done"]
  /\ poll' = NoPoll
  /\ UNCHANGED << conv, home, net, reply, runner >>

-----------------------------------------------------------------------------
(* detail, as far as the runner's read: a history read, unless a turn is   *)
(* on or the protocol mutex is taken.                                      *)
PollBegin(s) ==
  /\ poll = NoPoll /\ conv[s].state = "running"
  /\ LET reads == /\ worker = NoWorker /\ history = NoRead
                  /\ mem[s].state # "running" /\ mem[s].thread
     IN /\ poll' = [ session |-> s, reads |-> reads ]
        /\ history' = IF reads THEN [ session |-> s, entry |-> mem[s], turns |-> ToSet(native[s]) ]
                      ELSE history
  /\ UNCHANGED << conv, home, launch, net, reply, mem, disk, worker, native >>

(* Mutant: what was read is stored whatever happened meanwhile.            *)
UndisturbedAlways == TRUE

(* The entry is still the one that was read for, and no turn is reserved.  *)
Undisturbed == mem[history.session] = history.entry /\ worker = NoWorker

HistoryEnd ==
  /\ history # NoRead
  /\ IF Undisturbed
     THEN /\ mem' = [mem EXCEPT ![history.session] = [history.entry EXCEPT !.record = history.turns]]
          /\ disk' = mem'
     ELSE UNCHANGED << mem, disk >>
  /\ history' = NoRead
  /\ UNCHANGED << api, net, reply, worker, native >>

StateRead(s) == IF worker.session = s THEN "running" ELSE mem[s].state

(* Mutant: an input is done with when its turn is.                         *)
RecordedSettled(s) == StateRead(s) # "running"

(* Only the request's own native turn proves that the input was recorded.  *)
Recorded(s) == mem[s].turn /\ mem[s].request \in mem[s].record

(* Mutant: the answer is taken whatever request it is for.                 *)
AnswersAny(s) == TRUE

Answers(s) == mem[s].request = conv[s].request

(* refresh, with what the runner answers now.                              *)
PollEnd(s) ==
  /\ poll.session = s /\ (poll.reads => history = NoRead)
  /\ conv' = IF ~Answers(s) THEN conv ELSE
       [conv EXCEPT ![s].record = mem[s].record, ![s].state = StateRead(s),
                    ![s].pending = @ /\ ~(StateRead(s) # "running" /\ Recorded(s))]
  /\ poll' = NoPoll
  /\ UNCHANGED << home, launch, net, reply, runner >>

(* The service gives up; the runner's read goes on.                        *)
PollFail ==
  /\ poll # NoPoll
  /\ poll' = NoPoll
  /\ UNCHANGED << conv, home, launch, net, reply, runner >>

-----------------------------------------------------------------------------
Arrives(r) ==
  /\ r \in net
  /\ \/ net' = net \ {r}
     \/ Duplicates /\ net' = net

Lose(r) ==
  /\ net' = net \ {r} /\ net' # net
  /\ UNCHANGED << api, reply, runner >>

(* Mutant: only the entry's last request is known.                         *)
KnownLast(s, r) == mem[s].request = r

Known(s, r) == r \in mem[s].requests

(* accept: a request the mapping knows is answered and not run again.      *)
AcceptAgain(r) ==
  /\ Arrives(r) /\ Known(home[r], r)
  /\ reply' = [reply EXCEPT ![r] = "accepted"]
  /\ UNCHANGED << api, runner >>

(* Busy, closing, unavailable, over budget, or the reservation not saved.  *)
Refuse(r) ==
  /\ Arrives(r) /\ ~Known(home[r], r)
  /\ reply' = [reply EXCEPT ![r] = "refused"]
  /\ UNCHANGED << api, runner >>

Reserved(s, r) ==
  [mem EXCEPT ![s].request = r, ![s].requests = @ \cup {r}, ![s].state = "running", ![s].turn = FALSE]

Accept(r) ==
  LET s == home[r] IN
  /\ Arrives(r) /\ ~Known(s, r)
  /\ worker = NoWorker
  /\ mem' = Reserved(s, r) /\ disk' = mem'
  /\ worker' = [ at |-> "reserved", session |-> s ]
  /\ reply' = [reply EXCEPT ![r] = "accepted"]
  /\ UNCHANGED << api, native, history >>

(* The worker's thread could not be started.                               *)
AcceptFails(r) ==
  LET s == home[r] IN
  /\ Arrives(r) /\ ~Known(s, r)
  /\ worker = NoWorker
  /\ mem' = [Reserved(s, r) EXCEPT ![s].state = "failed"] /\ disk' = mem'
  /\ reply' = [reply EXCEPT ![r] = "refused"]
  /\ UNCHANGED << api, worker, native, history >>

-----------------------------------------------------------------------------
(* run_turn: the thread, once a history read has released the mutex ...    *)
OpenThread ==
  /\ worker.at = "reserved" /\ history = NoRead
  /\ mem' = [mem EXCEPT ![worker.session].thread = TRUE] /\ disk' = mem'
  /\ worker' = [worker EXCEPT !.at = "open"]
  /\ UNCHANGED << api, net, reply, native, history >>

(* ... turn/start, from which on the input is in the native history ...    *)
StartTurn ==
  /\ worker.at = "open"
  /\ native' = [native EXCEPT ![worker.session] = Append(@, mem[worker.session].request)]
  /\ worker' = [worker EXCEPT !.at = "started"]
  /\ UNCHANGED << api, net, reply, mem, disk, history >>

(* ... its answer, which names the turn ...                                *)
NameTurn ==
  /\ worker.at = "started"
  /\ mem' = [mem EXCEPT ![worker.session].turn = TRUE] /\ disk' = mem'
  /\ worker' = [worker EXCEPT !.at = "named"]
  /\ UNCHANGED << api, net, reply, native, history >>

(* ... its end, or a failure anywhere; the history is read when it can be. *)
EndTurn(state, reads) ==
  LET s == worker.session IN
  /\ worker.at \in {"reserved", "open", "started", "named"}
  /\ worker.at = "reserved" => history = NoRead
  /\ state = "idle" => worker.at = "named" /\ reads
  /\ reads => mem[s].thread
  /\ mem' = [mem EXCEPT ![s].state = state,
                        ![s].record = IF reads THEN ToSet(native[s]) ELSE @]
  /\ worker' = [worker EXCEPT !.at = "over"]
  /\ UNCHANGED << api, net, reply, disk, native, history >>

(* The last save may fail: the session is released all the same.           *)
Release(saves) ==
  /\ worker.at = "over"
  /\ disk' = IF saves THEN mem ELSE disk
  /\ worker' = NoWorker
  /\ UNCHANGED << api, net, reply, mem, native, history >>

(* A restart fails what was interrupted and submits nothing again.         *)
RunnerCrash ==
  /\ mem' = [s \in Sessions |-> IF disk[s].state = "running" THEN [disk[s] EXCEPT !.state = "failed"]
                                ELSE disk[s]]
  /\ disk' = mem'
  /\ worker' = NoWorker /\ history' = NoRead
  /\ UNCHANGED << api, net, reply, native >>

-----------------------------------------------------------------------------
ServiceStep ==
  \/ \E s \in Sessions : PollBegin(s) \/ PollEnd(s) \/ \E r \in Requests : Message(s, r)
  \/ \E r \in Requests : Submit(r) \/ LocalFailure(r) \/ Refused(r) \/ Unanswered(r)
  \/ PollFail \/ ServiceCrash

NetworkStep == \E r \in Requests :
  Lose(r) \/ AcceptAgain(r) \/ Refuse(r) \/ Accept(r) \/ AcceptFails(r)

RunnerStep ==
  \/ HistoryEnd \/ OpenThread \/ StartTurn \/ NameTurn \/ RunnerCrash
  \/ \E state \in {"idle", "failed"}, reads \in BOOLEAN : EndTurn(state, reads)
  \/ \E saves \in BOOLEAN : Release(saves)

Next == ServiceStep \/ NetworkStep \/ RunnerStep

Spec == Init /\ [][Next]_vars

-----------------------------------------------------------------------------
Entries ==
  [request : Requests \cup {Nobody}, requests : SUBSET Requests,
   state : {"none", "running", "idle", "failed"}, turn : BOOLEAN, thread : BOOLEAN,
   record : SUBSET Requests]

(* The rows, the mapping and what is in flight have their shapes.          *)
TypeOK ==
  /\ conv \in [Sessions -> [state : {"idle", "running", "failed"}, request : Requests \cup {Nobody},
                            pending : BOOLEAN, record : SUBSET Requests, unrecorded : SUBSET Requests]]
  /\ home \in [Requests -> Sessions \cup {Nobody}]
  /\ launch \in [Requests -> {"none", "queued", "sent", "done"}]
  /\ net \subseteq Requests /\ reply \in [Requests -> {"none", "accepted", "refused"}]
  /\ poll \in [session : Sessions \cup {Nobody}, reads : BOOLEAN]
  /\ mem \in [Sessions -> Entries] /\ disk \in [Sessions -> Entries]
  /\ worker \in [at : {"none", "reserved", "open", "started", "named", "over"},
                 session : Sessions \cup {Nobody}]
  /\ native \in [Sessions -> Seq(Requests)]
  /\ history \in [session : Sessions \cup {Nobody}, entry : Entries, turns : SUBSET Requests]

(* runner/README.md: "It never resubmits an ambiguous paid request".  A    *)
(* message becomes at most one native turn, however often its submission   *)
(* is delivered and whenever either process dies.                          *)
OneTurnPerRequest == \A s \in Sessions : IsInjective(native[s])

(* While a worker runs, its request is the entry's, in memory and on disk: *)
(* no history read that was under way has put an older entry back.         *)
ReservationStands ==
  worker # NoWorker =>
    /\ mem[worker.session].request \in disk[worker.session].requests
    /\ Known(worker.session, mem[worker.session].request)
    /\ worker.at # "over" => mem[worker.session].state = "running"

(* runner/README.md: "User inputs that never reached native history are    *)
(* retained as explicitly unrecorded platform conversation messages".      *)
InputKept ==
  \A r \in Requests : home[r] # Nobody =>
    \/ r \in ToSet(native[home[r]])
    \/ r \in conv[home[r]].unrecorded
    \/ conv[home[r]].request = r /\ conv[home[r]].pending

(* A conversation that shows its message as answered or as failed has no   *)
(* work left anywhere: not in a worker, nor on its way to one.  Without    *)
(* this a person writes again while the first message is still to run.     *)
SettledIsSettled ==
  \A s \in Sessions : conv[s].state # "running" =>
    /\ worker.session # s
    /\ \A r \in net : home[r] # s

=============================================================================
