----------------------------- MODULE OwnerLocks -----------------------------
(***************************************************************************)
(* The locks one owner's requests take: the account row, a conversation's  *)
(* row, the owner's advisory lock (runner_registry.py) and the service's   *)
(* pooled connections (database.py).                                       *)
(*                                                                         *)
(* A request is a program of steps in up to two transactions, one of which *)
(* it may hold while it waits for the other.  The database sees each       *)
(* transaction on its own: only a pool wait has a timeout.                 *)
(***************************************************************************)
EXTENDS Naturals, Sequences, FiniteSets

CONSTANTS Details, Prepares, Dispatches, Members,   \* requests of the service
          Stops, DeadStops,                         \* steps of the controller
          PoolSize                                  \* the service's connections

Service    == Details \cup Prepares \cup Dispatches \cup Members
Controller == Stops \cup DeadStops
Requests   == Service \cup Controller

ASSUME OwnerLocksAssumption ==
  /\ PoolSize \in Nat \ {0}
  /\ Service \cap Controller = {}

VARIABLES
  at,     \* how far each request is in its program
  held,   \* locks, by request, transaction, lock and mode
  conns   \* pooled connections, by request and transaction

vars == << at, held, conns >>

-----------------------------------------------------------------------------
Connect(t)    == [ do |-> "connect", tx |-> t, lock |-> "", mode |-> "" ]
Lock(t, l, m) == [ do |-> "lock", tx |-> t, lock |-> l, mode |-> m ]
Commit(t)     == [ do |-> "commit", tx |-> t, lock |-> "", mode |-> "" ]

(* BoundRunner.call, from Pool.bound on, in a transaction of its own.      *)
Call(t) == << Connect(t), Commit(t),
              Connect(t), Lock(t, "account", "share"), Lock(t, "owner", "update"), Commit(t) >>

(* detail: the conversation's row is locked while refresh reads the runner.*)
Detail == << Connect(1), Lock(1, "account", "share"), Lock(1, "row", "update") >> \o Call(2) \o << Commit(1) >>

(* prepare: enter, the status again, and the health of the runner.         *)
Prepare == << Connect(1), Lock(1, "account", "share"), Lock(1, "owner", "update"), Commit(1),
              Connect(1), Commit(1) >> \o Call(1)

(* launch: the row is read, health asked, the turn submitted and refused.  *)
Refused  == << Connect(1), Lock(1, "row", "update"), Commit(1) >>
Dispatch == << Connect(1), Commit(1) >> \o Call(1) \o Call(1) \o Refused

Member == << Connect(1), Lock(1, "account", "update"), Commit(1) >>

(* Service.step, of a runner that drains and of one that died.             *)
Release == << Lock(1, "owner", "update"), Lock(1, "account", "share"), Commit(1) >>
Stop    == << Lock(1, "owner", "update"), Commit(1) >> \o Release
DeadStop ==
  << Lock(1, "owner", "update"), Commit(1),
     Lock(1, "owner", "update"), Lock(1, "row", "update"), Commit(1) >> \o Release

Program(p) ==
  CASE p \in Details    -> Detail
    [] p \in Prepares   -> Prepare
    [] p \in Dispatches -> Dispatch
    [] p \in Members    -> Member
    [] p \in Stops      -> Stop
    [] p \in DeadStops  -> DeadStop

Ended(p) == at[p] > Len(Program(p))
Next1(p) == Program(p)[at[p]]

Init ==
  /\ at = [p \in Requests |-> 1]
  /\ held = {} /\ conns = {}

-----------------------------------------------------------------------------
(* Locks of one's own other transaction conflict as well.                  *)
Conflicts(h, p, step) ==
  /\ h.lock = step.lock /\ << h.by, h.tx >> # << p, step.tx >>
  /\ "update" \in {h.mode, step.mode}

TakeConnection(p) ==
  /\ ~Ended(p) /\ Next1(p).do = "connect"
  /\ Cardinality(conns) < PoolSize
  /\ conns' = conns \cup {<< p, Next1(p).tx >>}
  /\ at' = [at EXCEPT ![p] = @ + 1]
  /\ UNCHANGED held

(* Mutant: a request waits for a connection as long as it takes.           *)
WaitsForConnection(p) == FALSE /\ UNCHANGED vars

(* Where a request goes on that got no connection: launch writes what came *)
(* of the turn, in a transaction of its own; the others have failed.       *)
AfterTimeout(p) ==
  LET last == Len(Dispatch) - Len(Refused) + 1
  IN  IF p \in Dispatches /\ at[p] < last THEN last ELSE Len(Program(p)) + 1

(* The pool gives up: everything is rolled back.                           *)
PoolTimeout(p) ==
  /\ ~Ended(p) /\ Next1(p).do = "connect"
  /\ Cardinality(conns) = PoolSize
  /\ at' = [at EXCEPT ![p] = AfterTimeout(p)]
  /\ held' = { h \in held : h.by # p }
  /\ conns' = { c \in conns : c[1] # p }

TakeLock(p) ==
  /\ ~Ended(p) /\ Next1(p).do = "lock"
  /\ \A h \in held : ~Conflicts(h, p, Next1(p))
  /\ held' = held \cup {[ by |-> p, tx |-> Next1(p).tx, lock |-> Next1(p).lock, mode |-> Next1(p).mode ]}
  /\ at' = [at EXCEPT ![p] = @ + 1]
  /\ UNCHANGED conns

Returned(p, t) == conns \ {<< p, t >>}

EndTransaction(p) ==
  /\ ~Ended(p) /\ Next1(p).do = "commit"
  /\ held' = { h \in held : << h.by, h.tx >> # << p, Next1(p).tx >> }
  /\ conns' = Returned(p, Next1(p).tx)
  /\ at' = [at EXCEPT ![p] = @ + 1]

Step(p) == TakeConnection(p) \/ PoolTimeout(p) \/ TakeLock(p) \/ EndTransaction(p)

Next == \E p \in Requests : Step(p)

(* Every request has a thread, and what it asks outside the database is    *)
(* answered or times out (httpx, 5 s).                                     *)
Fairness == \A p \in Requests : WF_vars(Step(p))

Spec == Init /\ [][Next]_vars /\ Fairness

-----------------------------------------------------------------------------
(* Locks and connections have their shapes, and a request that has ended   *)
(* holds neither.                                                          *)
TypeOK ==
  /\ at \in [Requests -> Nat \ {0}]
  /\ held \subseteq [by : Requests, tx : {1, 2}, lock : {"account", "row", "owner"},
                     mode : {"share", "update"}]
  /\ conns \subseteq Service \X {1, 2}
  /\ \A p \in Requests : Ended(p) => /\ \A h \in held : h.by # p
                                     /\ \A c \in conns : c[1] # p

(* Whatever requests meet, the service's and the controller's, with more   *)
(* of them than connections: each one ends (and has then ended for good).  *)
EveryRequestEnds == <>(\A p \in Requests : Ended(p))

(* ops/runner_controller_service.py: "A dead runner cannot finish its      *)
(* turns: fail them visibly and close their admissions."  The step that    *)
(* does so commits.                                                        *)
DeadWorkIsClosed == <>(\A p \in DeadStops : Ended(p))

=============================================================================
