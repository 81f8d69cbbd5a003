------------------------- MODULE BrokerCredentials --------------------------
(***************************************************************************)
(* The codex-broker's operator login (broker/credentials.py): one          *)
(* auth.json, the managed app-server that renews it, and runners' requests *)
(* that are served one at a time under the lock.  Outside the lock the     *)
(* operator logs in or out inside the Pod and the app-server renews the    *)
(* file on its own, between any two steps of a request.  Every refresh the *)
(* broker drives leaves an event with the file's identity before and       *)
(* after.                                                                  *)
(*                                                                         *)
(* A file is named by its identity, a number that grows with every         *)
(* rewrite; it holds the token of the same number.                         *)
(***************************************************************************)
EXTENDS Naturals, Sequences, FiniteSets

CONSTANTS Callers,   \* requests of runners
          MaxFile    \* bound: rewrites of auth.json

NoOne == "none"

(* What the constants must satisfy, assumed where they get their values.   *)
BrokerAssumption == MaxFile \in Nat \ {0} /\ NoOne \notin Callers

VARIABLES file,      \* identity of auth.json, 0 when absent
          written,   \* how many identities were used
          life,      \* identity -> "fresh", "near" or "dead"
          servers,   \* live app-server processes: the identities they loaded
          server,    \* Credentials.server_source, 0 without a server
          forced,    \* a forced refresh started within the last minute
          lock,      \* the request holding Credentials.lock
          call,      \* request -> its step and local variables
          events,    \* broker-events.jsonl
          foreign,   \* history: who else wrote the file since the last event
          drives     \* history: forced refreshes in the current minute

vars == <<file, written, life, servers, server, forced, lock, call, events, foreign, drives>>

Files == 1..MaxFile
Others == {"nobody", "server", "operator"}
Waiting == [step |-> "waiting", force |-> FALSE, current |-> 0, before |-> 0, answer |-> 0]

TypeOK ==
  /\ file \in 0..MaxFile /\ written \in 0..MaxFile /\ server \in 0..MaxFile
  /\ life \in [Files -> {"fresh", "near", "dead"}]
  /\ servers \subseteq Files /\ forced \in BOOLEAN /\ foreign \in Others
  /\ lock \in Callers \cup {NoOne} /\ drives \in Nat
  /\ call \in [Callers ->
       [step: {"waiting", "read", "ready", "driven", "rewritten", "answered", "failed"},
        force: BOOLEAN, current: 0..MaxFile, before: 0..MaxFile, answer: 0..MaxFile]]
  /\ events \in Seq([ok: BOOLEAN, before: 0..MaxFile, after: 0..MaxFile, foreign: Others])

Init ==
  /\ file = 0 /\ written = 0 /\ life = [f \in Files |-> "fresh"]
  /\ servers = {} /\ server = 0 /\ forced = FALSE /\ lock = NoOne
  /\ call \in [Callers -> {[Waiting EXCEPT !.force = f] : f \in BOOLEAN}]
  /\ events = <<>> /\ foreign = "nobody" /\ drives = 0

request == <<forced, lock, call, events, drives>>

-----------------------------------------------------------------------------
(* The operator and the provider. *)

(* `codex login --device-auth` inside the Pod writes a new file. *)
DeviceLogin ==
  /\ written < MaxFile
  /\ written' = written + 1 /\ file' = written + 1 /\ foreign' = "operator"
  /\ UNCHANGED <<life, servers, server, request>>

Logout ==
  /\ file # 0 /\ file' = 0 /\ foreign' = "operator"
  /\ UNCHANGED <<written, life, servers, server, request>>

(* The app-server renews a login it holds when its expiry is close. *)
RenewsItself ==
  /\ file \in servers /\ life[file] = "near" /\ written < MaxFile
  /\ written' = written + 1 /\ file' = written + 1
  /\ foreign' = IF foreign = "nobody" THEN "server" ELSE foreign
  /\ UNCHANGED <<life, servers, server, request>>

Age ==
  /\ file # 0 /\ life[file] # "dead"
  /\ life' = [life EXCEPT ![file] = IF @ = "fresh" THEN "near" ELSE "dead"]
  /\ UNCHANGED <<file, written, servers, server, foreign, request>>

(* Sixty seconds have passed since the last forced refresh. *)
MinutePasses ==
  /\ forced /\ forced' = FALSE /\ drives' = 0
  /\ UNCHANGED <<file, written, life, servers, server, foreign, lock, call, events>>

ServerDies ==
  /\ server # 0 /\ servers' = {} /\ UNCHANGED <<file, written, life, server, foreign, request>>

-----------------------------------------------------------------------------
(* Credentials.access, step by step. *)
Ends(c, s, f) ==
  /\ lock' = NoOne
  /\ call' = [call EXCEPT ![c].step = s, ![c].answer = f]

(* Mutant: the limit on forced refreshes is taken out of the lock. *)
EnterForced(c) ==
  /\ lock = NoOne /\ call[c].step = "waiting"
  /\ LET force == call[c].force
     IN IF file = 0 THEN Ends(c, "failed", 0)
        ELSE IF life[file] = "fresh" /\ ~force THEN Ends(c, "answered", file)
        ELSE /\ lock' = c
             /\ call' = [call EXCEPT ![c].step = "read", ![c].force = force,
                           ![c].current = IF life[file] = "dead" THEN 0 ELSE file]
  /\ UNCHANGED <<file, written, life, servers, server, forced, events, foreign, drives>>

(* Take the lock, read the file, and answer at once what is fresh and was  *)
(* not refused; a forced request within a minute of another is an ordinary *)
(* one.                                                                    *)
Enter(c) ==
  /\ lock = NoOne /\ call[c].step = "waiting"
  /\ LET force == call[c].force /\ ~forced
     IN IF file = 0 THEN Ends(c, "failed", 0)
        ELSE IF life[file] = "fresh" /\ ~force THEN Ends(c, "answered", file)
        ELSE /\ lock' = c
             /\ call' = [call EXCEPT ![c].step = "read", ![c].force = force,
                           ![c].current = IF life[file] = "dead" THEN 0 ELSE file]
  /\ UNCHANGED <<file, written, life, servers, server, forced, events, foreign, drives>>

(* The request goes on to its refresh; a forced one is counted before it   *)
(* is tried.                                                               *)
Ready(c) ==
  /\ call' = [call EXCEPT ![c].step = "ready"] /\ UNCHANGED lock
  /\ forced' = (forced \/ call[c].force)
  /\ drives' = drives + (IF call[c].force THEN 1 ELSE 0)

(* Mutant: a failed start keeps the lock. *)
GivesUpHolding(c) ==
  /\ call' = [call EXCEPT ![c].step = "failed"]
  /\ UNCHANGED <<lock, forced, drives>>

(* The request fails before it reaches the app-server. *)
GivesUp(c) == Ends(c, "failed", 0) /\ UNCHANGED <<forced, drives>>

(* Mutant: the app-server that is replaced keeps running. *)
RestartedLeaves(c) ==
  \/ servers' = servers \cup {file} /\ server' = file /\ Ready(c)
  \/ servers' = {} /\ server' = 0 /\ GivesUp(c)

(* The old app-server is closed before the new one starts; a failed start  *)
(* leaves none behind.                                                     *)
Restarted(c) ==
  \/ servers' = {file} /\ server' = file /\ Ready(c)
  \/ servers' = {} /\ server' = 0 /\ GivesUp(c)

(* Mutant: an app-server that is alive is kept, whatever login it loaded. *)
LoadedAny == servers # {}

(* The app-server is alive and has loaded the file that is there. *)
Loaded == servers # {} /\ server = file

EnsureServer(c) ==
  /\ lock = c /\ call[c].step = "read"
  /\ \/ file = 0 /\ GivesUp(c) /\ UNCHANGED <<servers, server>>
     \/ file # 0 /\ Loaded /\ Ready(c) /\ UNCHANGED <<servers, server>>
     \/ file # 0 /\ ~Loaded /\ Restarted(c)
  /\ UNCHANGED <<file, written, life, events, foreign>>

(* Mutant: the identity of the first read is recorded. *)
DriveStale(c) ==
  /\ lock = c /\ call[c].step = "ready"
  /\ call' = [call EXCEPT ![c].step = "driven", ![c].before = call[c].current]
  /\ UNCHANGED <<file, written, life, servers, server, forced, lock, events, foreign, drives>>

(* `before` is read, and the refresh is asked of the app-server: it        *)
(* rewrites the file, keeps the token, or does not answer.                 *)
Drive(c) ==
  /\ lock = c /\ call[c].step = "ready"
  /\ call' = [call EXCEPT ![c].step = "driven", ![c].before = file]
  /\ UNCHANGED <<file, written, life, servers, server, forced, lock, events, foreign, drives>>

Rewrites ==
  /\ lock # NoOne /\ call[lock].step = "driven" /\ servers # {} /\ written < MaxFile
  /\ written' = written + 1 /\ file' = written + 1
  /\ call' = [call EXCEPT ![lock].step = "rewritten"]
  /\ UNCHANGED <<life, servers, server, foreign, forced, lock, events, drives>>

(* Mutant: the event counts rewrites, not identities. *)
RecordLoose(ok, c) ==
  /\ events' = Append(events, [ok |-> ok, before |-> call[c].before, after |-> written + file,
                               foreign |-> foreign])
  /\ foreign' = "nobody"

(* The event is appended; `foreign` tells the history apart. *)
Record(ok, c) ==
  /\ events' = Append(events, [ok |-> ok, before |-> call[c].before, after |-> file,
                               foreign |-> foreign])
  /\ foreign' = "nobody"

(* Mutant: any answer of the app-server is taken for a refresh. *)
VerifyAny(c) ==
  /\ lock = c /\ call[c].step \in {"driven", "rewritten"}
  /\ \/ /\ file = 0 /\ Record(FALSE, c) /\ Ends(c, "failed", 0) /\ UNCHANGED server
     \/ /\ file # 0 /\ server' = file
        /\ life[file] = "fresh"
        /\ Record(TRUE, c) /\ Ends(c, "answered", file)
     \/ /\ file # 0 /\ Record(FALSE, c) /\ Ends(c, "failed", 0)
        /\ server' \in {server, file}
  /\ UNCHANGED <<file, written, life, servers, forced, drives>>

(* The file decides: fresh, and another token than the one refused.  An    *)
(* RPC that fails or a file that is gone is a failed refresh.              *)
Verify(c) ==
  /\ lock = c /\ call[c].step \in {"driven", "rewritten"}
  /\ \/ /\ file = 0 /\ Record(FALSE, c) /\ Ends(c, "failed", 0) /\ UNCHANGED server
     \/ /\ file # 0 /\ server' = file
        /\ life[file] = "fresh" /\ ~(call[c].force /\ call[c].current = file)
        /\ Record(TRUE, c) /\ Ends(c, "answered", file)
     \/ /\ file # 0 /\ Record(FALSE, c) /\ Ends(c, "failed", 0)
        /\ server' \in {server, file}
  /\ UNCHANGED <<file, written, life, servers, forced, drives>>

Serve(c) == Enter(c) \/ EnsureServer(c) \/ Drive(c) \/ Verify(c)
Next == \/ DeviceLogin \/ Logout \/ RenewsItself \/ Age \/ MinutePasses \/ ServerDies \/ Rewrites
        \/ \E c \in Callers : Serve(c)
Done == (\A c \in Callers : call[c].step \in {"answered", "failed"}) /\ UNCHANGED vars
Spec == Init /\ [][Next \/ Done]_vars
(* Each step of a request ends: RPCs have timeouts, and a waiting request  *)
(* takes a lock that stays free.                                           *)
LiveSpec == Spec /\ \A c \in Callers : WF_vars(Serve(c))

-----------------------------------------------------------------------------
(* "A forced refresh runs at most once a minute" (codex-broker/README.md), *)
(* whichever runners report a 401 and however the refresh ended.           *)
OneForcedRefreshAMinute == drives <= 1

(* "Never leave a second managed writer behind a failed start"             *)
(* (credentials.py:59): refresh tokens rotate, so two app-servers on one   *)
(* login would spend each other's.                                         *)
OneManagedWriter == Cardinality(servers) <= 1

(* A request that drove a forced refresh is never answered with the token  *)
(* its runner was refused.                                                 *)
RefusedTokenNotReturned ==
  \A c \in Callers :
    call[c].step = "answered" /\ call[c].force /\ call[c].current # 0
      /\ call[c].before # 0 => call[c].answer # call[c].current

(* After a new login the old session is not renewed over it: the           *)
(* app-server that rewrites the file for a request has loaded the login    *)
(* the request found, or a later one.                                      *)
RefreshUsesCurrentLogin ==
  [][ \A c \in Callers : call[c].step = "driven" /\ call'[c].step = "rewritten"
        => server >= call[c].current ]_vars

(* Two driven refreshes chain unless something else touched the file       *)
(* between them: a broken chain is always somebody else's write.           *)
ChainBreaksOnlyByOthers ==
  \A i \in 1..(Len(events) - 1) :
    events[i].after = events[i+1].before \/ events[i+1].foreign # "nobody"

(* Every request is answered or refused. *)
EveryRequestEnds ==
  <>(\A c \in Callers : call[c].step \in {"answered", "failed"})

=============================================================================
