------------------------------ MODULE ShellLease ------------------------------
(***************************************************************************)
(* The shell tool of a runner: a turn's lease in the broker                *)
(* (runner/shell_broker.py, Native.authorize_shell), the bridge that the   *)
(* native process starts (runner/shell_bridge.py), and the executor that   *)
(* runs one command at a time in its own process namespace                 *)
(* (executor/server.py).                                                   *)
(*                                                                         *)
(* A bridge keeps the lease it was started with, so it may call when its   *)
(* turn is over; authorization waits for HTTP; a revoked connection may    *)
(* have delivered its command already; a command may leave processes       *)
(* behind that outlive it.                                                 *)
(***************************************************************************)
EXTENDS Naturals, FiniteSets

CONSTANTS Calls,      \* bridge calls, reused when they end
          MaxLease,   \* bound: leases given out
          Slots,      \* the broker's handlers
          Handlers    \* the executor's handlers

Unlocked == "nobody"

ShellAssumption ==
  /\ MaxLease \in Nat /\ Slots \in Nat \ {0} /\ Handlers \in Nat \ {0}
  /\ IsFiniteSet(Calls) /\ Unlocked \notin Calls

VARIABLES
  lease,     \* the broker's current lease, 0 for none
  given,     \* leases given out
  call,      \* call -> the lease it presented and its step in the broker
  conn,      \* call -> its connection to the executor
  handler,   \* call -> the executor's handler of it
  procs,     \* calls that have processes in the executor's namespace
  workspace  \* the executor's workspace lock: a call, or Unlocked

vars == << lease, given, call, conn, handler, procs, workspace >>
broker == << lease, given, call >>
executor == << handler, procs, workspace >>

Idle   == [ lease |-> 0, at |-> "idle" ]
Leases == 0..MaxLease

TypeOK ==
  /\ lease \in Leases /\ given \in Leases /\ lease \in {0, given}
  /\ call \in [Calls -> [ lease : Leases, at : {"idle", "asked", "authorizing", "authorized", "connected", "sent"} ]]
  /\ conn \in [Calls -> {"none", "open", "shut"}]
  /\ handler \in [Calls -> {"none", "reading", "running", "cleaning", "replying"}]
  /\ procs \subseteq Calls /\ workspace \in Calls \cup {Unlocked}
  /\ Cardinality({ c \in Calls : call[c].at # "idle" }) <= Slots
  /\ Cardinality({ c \in Calls : handler[c] # "none" }) <= Handlers

Init ==
  /\ lease = 0 /\ given = 0 /\ call = [c \in Calls |-> Idle]
  /\ conn = [c \in Calls |-> "none"] /\ handler = [c \in Calls |-> "none"]
  /\ procs = {} /\ workspace = Unlocked

At(c, step) == call' = [call EXCEPT ![c].at = step]

-----------------------------------------------------------------------------
(* The broker.                                                             *)

(* Mutant: the lease is dropped, its connections are left.                 *)
ShutNone == conn

ShutAll == [c \in Calls |-> IF conn[c] = "open" THEN "shut" ELSE conn[c]]

Revoke ==
  /\ lease # 0 /\ lease' = 0 /\ conn' = ShutAll
  /\ UNCHANGED << given, call, executor >>

(* run_turn takes a lease for its turn; what is left of the last is shut.  *)
Activate ==
  /\ given < MaxLease /\ given' = given + 1 /\ lease' = given + 1 /\ conn' = ShutAll
  /\ UNCHANGED << call, executor >>

(* A bridge calls with the lease of its environment, which may be over.    *)
Ask(c) ==
  /\ call[c] = Idle /\ handler[c] = "none"
  /\ Cardinality({ d \in Calls : call[d].at # "idle" }) < Slots
  /\ \E l \in 1..given : call' = [call EXCEPT ![c] = [ lease |-> l, at |-> "asked" ]]
  /\ UNCHANGED << lease, given, conn, executor >>

(* Every refusal and failure ends the call and frees its slot.             *)
Ended(c) == call' = [call EXCEPT ![c] = Idle] /\ conn' = [conn EXCEPT ![c] = IF @ = "none" THEN @ ELSE "shut"]

Compare(c) ==
  /\ call[c].at = "asked"
  /\ IF call[c].lease = lease THEN At(c, "authorizing") /\ UNCHANGED conn ELSE Ended(c)
  /\ UNCHANGED << lease, given, executor >>

(* The turn is running, its arguments are permitted and the service agrees.*)
Authorize(c) ==
  /\ call[c].at = "authorizing"
  /\ \/ lease = call[c].lease /\ At(c, "authorized") /\ UNCHANGED conn
     \/ Ended(c)
  /\ UNCHANGED << lease, given, executor >>

(* Mutant: the lease is not compared again after the authorization.        *)
StillHeldThen(c) == TRUE

StillHeld(c) == call[c].lease = lease

(* Compared and connected under one lock; the executor may not answer.     *)
Connect(c) ==
  /\ call[c].at = "authorized"
  /\ IF StillHeld(c) /\ Cardinality({ d \in Calls : handler[d] # "none" }) < Handlers
     THEN At(c, "connected") /\ conn' = [conn EXCEPT ![c] = "open"] /\ handler' = [handler EXCEPT ![c] = "reading"]
     ELSE Ended(c) /\ UNCHANGED handler
  /\ UNCHANGED << lease, given, procs, workspace >>

(* The command is sent outside the lock; a shut connection refuses it.     *)
SendCommand(c) ==
  /\ call[c].at = "connected"
  /\ IF conn[c] = "open" THEN At(c, "sent") /\ UNCHANGED conn ELSE Ended(c)
  /\ UNCHANGED << lease, given, executor >>

(* The answer arrives, the connection was shut, or the timer shuts it.     *)
Answered(c) ==
  /\ call[c].at = "sent" /\ (conn[c] = "shut" \/ handler[c] = "none") /\ Ended(c)
  /\ UNCHANGED << lease, given, executor >>

Expires(c) ==
  /\ conn[c] = "open" /\ conn' = [conn EXCEPT ![c] = "shut"]
  /\ UNCHANGED << broker, executor >>

-----------------------------------------------------------------------------
(* The executor.                                                           *)

(* Whether the command's line reached the executor.                        *)
Delivered(c) == call[c].at = "sent" \/ (call[c].at = "idle" /\ conn[c] = "shut")

(* A whole request is run unless another holds the workspace, with or      *)
(* without its peer; a torn one is dropped.                                *)
Take(c) ==
  /\ handler[c] = "reading"
  /\ \/ /\ Delivered(c) /\ workspace = Unlocked
        /\ workspace' = c /\ procs' = procs \cup {c} /\ handler' = [handler EXCEPT ![c] = "running"]
     \/ /\ Delivered(c) \/ conn[c] = "shut"
        /\ handler' = [handler EXCEPT ![c] = "replying"] /\ UNCHANGED << procs, workspace >>
  /\ UNCHANGED << broker, conn >>

(* The command exits, perhaps leaving descendants; its time is up; or its  *)
(* connection is shut.                                                     *)
Stops(c) ==
  /\ handler[c] = "running" /\ handler' = [handler EXCEPT ![c] = "cleaning"]
  /\ \E left \in {procs, procs \ {c}} : procs' = left
  /\ UNCHANGED << broker, conn, workspace >>

(* Mutant: only the command's own process is waited for.                   *)
CleanedOwnOnly == procs

(* Every other process of the namespace is killed and reaped.              *)
Cleaned == {}

Clean(c) ==
  /\ handler[c] = "cleaning"
  /\ procs' = Cleaned /\ workspace' = Unlocked /\ handler' = [handler EXCEPT ![c] = "replying"]
  /\ UNCHANGED << broker, conn >>

Reply(c) ==
  /\ handler[c] = "replying" /\ handler' = [handler EXCEPT ![c] = "none"]
  /\ conn' = [conn EXCEPT ![c] = "none"]
  /\ UNCHANGED << broker, procs, workspace >>

(* Unproved clean-up, SIGTERM or a crash ends PID 1 and its namespace.     *)
ExecutorEnds ==
  /\ \E c \in Calls : handler[c] # "none"
  /\ handler' = [c \in Calls |-> "none"] /\ procs' = {} /\ workspace' = Unlocked
  /\ conn' = [c \in Calls |-> IF conn[c] = "open" THEN "shut" ELSE "none"]
  /\ UNCHANGED broker

Next ==
  \/ Revoke \/ Activate \/ ExecutorEnds
  \/ \E c \in Calls : \/ Ask(c) \/ Compare(c) \/ Authorize(c) \/ Connect(c) \/ SendCommand(c)
                      \/ Answered(c) \/ Expires(c)
                      \/ Take(c) \/ Stops(c) \/ Clean(c) \/ Reply(c)

Spec == Init /\ [][Next]_vars

-----------------------------------------------------------------------------
(* "Recheck the same lease before opening the executor connection, and     *)
(* keep the connection revocable thereafter" (shell_broker.py:101): an     *)
(* open connection to the executor is the running turn's.                  *)
OpenIsCurrent == \A c \in Calls : conn[c] = "open" => call[c].lease = lease

(* A command starts in a namespace without processes of another: "Never    *)
(* release a lease with unproved descendant cleanup" (server.py:63).       *)
OneCommandAtATime == Cardinality(procs) <= 1 /\ (procs # {} => workspace \in procs)
=============================================================================
