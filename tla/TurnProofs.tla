----------------------------- MODULE TurnProofs -----------------------------
(***************************************************************************)
(* A conversation's turns, for every set of sessions, requests, calls and  *)
(* payloads and every bound: a request runs one native turn, an input is   *)
(* never lost, and what is shown is what happened.                         *)
(*                                                                         *)
(* The theorems are about the parts' own actions and are carried over to   *)
(* the composition that the runs explore (PartsMove at the end).           *)
(***************************************************************************)
EXTENDS MCTurnDispatch, FiniteSetTheorems, TLAPS

-----------------------------------------------------------------------------
(* TurnDispatch: the runner's side.                                        *)

Workers == [at : {"none", "reserved", "open", "started", "named", "over"},
            session : Sessions \cup {Nobody}]
Reads   == [session : Sessions \cup {Nobody}, entry : Entries, turns : SUBSET Requests]

RunnerTyped ==
  /\ mem \in [Sessions -> Entries] /\ disk \in [Sessions -> Entries]
  /\ worker \in Workers
  /\ native \in [Sessions -> Seq(Requests)]
  /\ history \in Reads
  /\ worker # NoWorker => worker.session \in Sessions /\ worker.at # "none"
  /\ history # NoRead => history.session \in Sessions
  /\ \A s \in Sessions : mem[s].request # Nobody => mem[s].state # "none"
  /\ \A s \in Sessions : disk[s].request # Nobody => disk[s].state # "none"

(* A turn is begun only for a request that both copies of the mapping hold *)
(* and that has none yet: a restart forgets no request.                    *)
NativeReserved ==
  /\ \A s \in Sessions : /\ ToSet(native[s]) \subseteq disk[s].requests
                         /\ disk[s].requests \subseteq mem[s].requests
  /\ worker.at \in {"reserved", "open"} =>
       mem[worker.session].request \notin ToSet(native[worker.session])

(* A record shows only what reached the native history.                    *)
RecordsTrue ==
  /\ \A s \in Sessions : /\ mem[s].record \subseteq ToSet(native[s])
                         /\ disk[s].record \subseteq ToSet(native[s])
  /\ history # NoRead => history.turns \subseteq ToSet(native[history.session])

RunnerInv ==
  RunnerTyped /\ ReservationStands /\ NativeReserved /\ RecordsTrue /\ OneTurnPerRequest

(* What an entry's type gives.                                             *)
LEMMA EntryFacts ==
  ASSUME NEW e \in Entries
  PROVE  /\ e.request \in Requests \cup {Nobody} /\ e.requests \subseteq Requests
         /\ e.state \in {"none", "running", "idle", "failed"}
         /\ e.turn \in BOOLEAN /\ e.thread \in BOOLEAN /\ e.record \subseteq Requests
  BY DEF Entries

(* One entry is replaced, the others stay.                                 *)
LEMMA MemChanged ==
  ASSUME mem \in [Sessions -> Entries], NEW s \in Sessions, NEW e \in Entries,
         mem' = [mem EXCEPT ![s] = e]
  PROVE  /\ mem' \in [Sessions -> Entries] /\ mem'[s] = e
         /\ \A t \in Sessions \ {s} : mem'[t] = mem[t]
  OBVIOUS

(* The entry that a reservation makes.                                     *)
LEMMA ReservedEntry ==
  ASSUME mem \in [Sessions -> Entries], NEW s \in Sessions, NEW r \in Requests
  PROVE  \E e \in Entries :
           /\ Reserved(s, r) = [mem EXCEPT ![s] = e]
           /\ e.request = r /\ e.requests = mem[s].requests \cup {r}
           /\ e.state = "running" /\ e.record = mem[s].record
<1> DEFINE e == [mem[s] EXCEPT !.request = r, !.requests = @ \cup {r}, !.state = "running",
                               !.turn = FALSE]
<1>1. Reserved(s, r) = [mem EXCEPT ![s] = e]
  BY DEF Reserved
<1>2. /\ e \in Entries /\ e.request = r /\ e.requests = mem[s].requests \cup {r}
      /\ e.state = "running" /\ e.record = mem[s].record
  BY DEF Entries
<1> QED BY <1>1, <1>2

(* An element at the end of a sequence.                                    *)
LEMMA Appended ==
  ASSUME NEW S, NEW q \in Seq(S), NEW r \in S
  PROVE  /\ Append(q, r) \in Seq(S) /\ ToSet(Append(q, r)) = ToSet(q) \cup {r}
         /\ IsInjective(q) /\ r \notin ToSet(q) => IsInjective(Append(q, r))
<1>1. ToSet(Append(q, r)) = ToSet(q) \cup {r}
  <2> DEFINE a == Append(q, r)
  <2>1. Len(a) = Len(q) + 1 /\ \A i \in 1..Len(q) : a[i] = q[i]
    OBVIOUS
  <2>2. a[Len(q) + 1] = r
    OBVIOUS
  <2>3. DOMAIN a = 1..(Len(q) + 1) /\ DOMAIN q = 1..Len(q) /\ Len(q) \in Nat
    OBVIOUS
  <2> HIDE DEF a
  <2> QED BY <2>1, <2>2, <2>3 DEF ToSet
<1>2. IsInjective(q) /\ r \notin ToSet(q) => IsInjective(Append(q, r))
  BY DEF IsInjective, ToSet
<1> QED BY <1>1, <1>2

(* The runner's invariant is about its own state only.                     *)
LEMMA RunnerStays == RunnerInv /\ UNCHANGED runner => RunnerInv'
  BY DEF RunnerInv, RunnerTyped, ReservationStands, Known, NativeReserved, RecordsTrue,
         OneTurnPerRequest, runner

LEMMA ReadBeginsKeeps ==
  ASSUME RunnerInv, NEW s \in Sessions, PollBegin(s)
  PROVE  RunnerInv'
<1>1. UNCHANGED << mem, disk, worker, native >>
  BY DEF PollBegin
<1>2. CASE UNCHANGED history
  BY <1>1, <1>2, RunnerStays DEF runner
<1>3. CASE history' = [ session |-> s, entry |-> mem[s], turns |-> ToSet(native[s]) ]
  <2>1. ToSet(native[s]) \subseteq Requests /\ mem[s] \in Entries
    BY DEF RunnerInv, RunnerTyped, ToSet
  <2>2. history' \in Reads /\ history'.session = s /\ history'.turns = ToSet(native[s])
    BY <1>3, <2>1 DEF Reads
  <2> QED BY <1>1, <2>2 DEF RunnerInv, RunnerTyped, ReservationStands, Known, NativeReserved,
                            RecordsTrue, OneTurnPerRequest
<1> QED BY <1>2, <1>3 DEF PollBegin

(* The entry that is stored is the current one, its record apart.          *)
LEMMA HistoryEndKeeps ==
  ASSUME RunnerInv, HistoryEnd
  PROVE  RunnerInv'
<1>1. /\ history' = NoRead /\ UNCHANGED << worker, native >>
      /\ NoRead \in Reads
  BY DEF HistoryEnd, NoRead, Reads, NoEntry, Entries
<1>2. CASE ~Undisturbed
  <2>1. UNCHANGED << mem, disk >>
    BY <1>2 DEF HistoryEnd
  <2> QED BY <1>1, <2>1 DEF RunnerInv, RunnerTyped, ReservationStands, Known, NativeReserved,
                            RecordsTrue, OneTurnPerRequest
<1>3. CASE Undisturbed
  <2> DEFINE s == history.session
             e == [mem[s] EXCEPT !.record = history.turns]
  <2>1. s \in Sessions /\ history.turns \subseteq ToSet(native[s])
    BY DEF HistoryEnd, RunnerInv, RunnerTyped, RecordsTrue
  <2>2. mem[s] \in Entries /\ history.turns \subseteq Requests
    BY <2>1 DEF RunnerInv, RunnerTyped, Reads
  <2>3. /\ e \in Entries /\ e.request = mem[s].request /\ e.requests = mem[s].requests
        /\ e.state = mem[s].state /\ e.record = history.turns
    BY <2>2 DEF Entries
  <2>4. mem' = [mem EXCEPT ![s] = e] /\ disk' = mem' /\ worker = NoWorker
    BY <1>3 DEF HistoryEnd, Undisturbed
  <2> HIDE DEF e
  <2>5. /\ mem' \in [Sessions -> Entries] /\ mem'[s] = e
        /\ \A t \in Sessions \ {s} : mem'[t] = mem[t]
    BY <2>1, <2>3, <2>4, MemChanged DEF RunnerInv, RunnerTyped
  <2> QED BY <1>1, <2>1, <2>3, <2>4, <2>5 DEF RunnerInv, RunnerTyped, ReservationStands,
                NativeReserved, RecordsTrue, OneTurnPerRequest, NoWorker
<1> QED BY <1>2, <1>3

(* A reservation is in both copies before anything else happens.           *)
LEMMA AcceptKeeps ==
  ASSUME RunnerInv, NEW r \in Requests, home[r] \in Sessions, Accept(r)
  PROVE  RunnerInv'
<1> DEFINE s == home[r]
<1>1. PICK e \in Entries :
        /\ Reserved(s, r) = [mem EXCEPT ![s] = e]
        /\ e.request = r /\ e.requests = mem[s].requests \cup {r}
        /\ e.state = "running" /\ e.record = mem[s].record
  BY ReservedEntry DEF RunnerInv, RunnerTyped
<1>7. mem' = [mem EXCEPT ![s] = e]
  BY <1>1 DEF Accept
<1>2. /\ mem' \in [Sessions -> Entries] /\ mem'[s] = e
      /\ \A t \in Sessions \ {s} : mem'[t] = mem[t]
  BY <1>7, MemChanged DEF RunnerInv, RunnerTyped
<1>3. /\ disk' = mem' /\ UNCHANGED << native, history >> /\ r \notin mem[s].requests
      /\ worker' = [ at |-> "reserved", session |-> s ]
  BY DEF Accept, Known
<1>4. worker' \in Workers /\ worker'.session = s /\ worker'.at = "reserved" /\ worker' # NoWorker
  BY <1>3 DEF Workers, NoWorker
<1>10. s \in Sessions
  OBVIOUS
<1>5. \A t \in Sessions : ToSet(native[t]) \subseteq mem[t].requests
  BY DEF RunnerInv, NativeReserved
<1> HIDE DEF s
<1>11. e.state # "none" /\ disk' = mem' /\ UNCHANGED << native, history >>
  BY <1>1, <1>3
<1>6. RunnerTyped'
  BY <1>2, <1>4, <1>10, <1>11 DEF RunnerInv, RunnerTyped
<1>8. NativeReserved' /\ RecordsTrue'
  BY <1>1, <1>2, <1>3, <1>4, <1>5, <1>10 DEF RunnerInv, RunnerTyped, NativeReserved, RecordsTrue
<1>9. ReservationStands' /\ OneTurnPerRequest'
  BY <1>1, <1>2, <1>3, <1>4, <1>10 DEF RunnerInv, ReservationStands, Known, OneTurnPerRequest
<1> QED BY <1>6, <1>8, <1>9 DEF RunnerInv

LEMMA AcceptFailsKeeps ==
  ASSUME RunnerInv, NEW r \in Requests, home[r] \in Sessions, AcceptFails(r)
  PROVE  RunnerInv'
<1> DEFINE s == home[r]
<1>1. PICK e \in Entries :
        /\ Reserved(s, r) = [mem EXCEPT ![s] = e]
        /\ e.request = r /\ e.requests = mem[s].requests \cup {r}
        /\ e.state = "running" /\ e.record = mem[s].record
  BY ReservedEntry DEF RunnerInv, RunnerTyped
<1> DEFINE f == [e EXCEPT !.state = "failed"]
<1>2. /\ f \in Entries /\ f.requests = mem[s].requests \cup {r}
      /\ f.state = "failed" /\ f.record = mem[s].record
  BY <1>1 DEF Entries
<1>3. mem' = [mem EXCEPT ![s] = f]
  BY <1>1 DEF AcceptFails, RunnerInv, RunnerTyped
<1> HIDE DEF f
<1>4. /\ mem' \in [Sessions -> Entries] /\ mem'[s] = f
      /\ \A t \in Sessions \ {s} : mem'[t] = mem[t]
  BY <1>2, <1>3, MemChanged DEF RunnerInv, RunnerTyped
<1>5. disk' = mem' /\ UNCHANGED << worker, native, history >> /\ worker = NoWorker
  BY DEF AcceptFails
<1>6. \A t \in Sessions : ToSet(native[t]) \subseteq mem[t].requests
  BY DEF RunnerInv, NativeReserved
<1> QED BY <1>2, <1>4, <1>5, <1>6 DEF RunnerInv, RunnerTyped, ReservationStands, NoWorker,
              NativeReserved, RecordsTrue, OneTurnPerRequest

(* The worker's own steps are at its session.                              *)
LEMMA WorkerFacts ==
  ASSUME RunnerInv, worker.at \in {"reserved", "open", "started", "named", "over"}
  PROVE  /\ worker # NoWorker /\ worker.session \in Sessions /\ worker \in Workers
         /\ mem[worker.session] \in Entries /\ disk[worker.session] \in Entries
         /\ mem[worker.session].request \in disk[worker.session].requests
         /\ mem[worker.session].request \in mem[worker.session].requests
         /\ mem[worker.session].request \in Requests
<1>1. worker # NoWorker
  BY DEF NoWorker
<1>2. worker.session \in Sessions /\ worker \in Workers
  BY <1>1 DEF RunnerInv, RunnerTyped
<1>3. mem[worker.session] \in Entries /\ disk[worker.session] \in Entries
  BY <1>2 DEF RunnerInv, RunnerTyped
<1>4. /\ mem[worker.session].request \in disk[worker.session].requests
      /\ mem[worker.session].request \in mem[worker.session].requests
  BY <1>1 DEF RunnerInv, ReservationStands, Known
<1> QED BY <1>1, <1>2, <1>3, <1>4, EntryFacts

(* The worker moves on at its session.                                     *)
LEMMA WorkerMoves ==
  ASSUME worker \in Workers, NEW at \in {"reserved", "open", "started", "named", "over"},
         worker' = [worker EXCEPT !.at = at]
  PROVE  worker' \in Workers /\ worker'.at = at /\ worker'.session = worker.session
  BY DEF Workers

LEMMA OpenThreadKeeps ==
  ASSUME RunnerInv, OpenThread
  PROVE  RunnerInv'
<1> DEFINE s == worker.session
           e == [mem[s] EXCEPT !.thread = TRUE]
<1>1. /\ s \in Sessions /\ mem[s] \in Entries /\ worker # NoWorker /\ worker \in Workers
      /\ worker.at = "reserved"
  BY WorkerFacts DEF OpenThread
<1>2. /\ e \in Entries /\ e.request = mem[s].request /\ e.requests = mem[s].requests
      /\ e.state = mem[s].state /\ e.record = mem[s].record
  BY <1>1 DEF Entries
<1>3. mem' = [mem EXCEPT ![s] = e] /\ disk' = mem' /\ UNCHANGED << native, history >>
  BY DEF OpenThread
<1> HIDE DEF e
<1>4. /\ mem' \in [Sessions -> Entries] /\ mem'[s] = e
      /\ \A t \in Sessions \ {s} : mem'[t] = mem[t]
  BY <1>1, <1>2, <1>3, MemChanged DEF RunnerInv, RunnerTyped
<1>5. worker' \in Workers /\ worker'.at = "open" /\ worker'.session = s
  BY <1>1, WorkerMoves DEF OpenThread
<1>6. \A t \in Sessions : ToSet(native[t]) \subseteq mem[t].requests
  BY DEF RunnerInv, NativeReserved
<1> QED BY <1>1, <1>2, <1>3, <1>4, <1>5, <1>6 DEF RunnerInv, RunnerTyped, ReservationStands, Known,
              NativeReserved, RecordsTrue, OneTurnPerRequest

(* The request of the worker has no turn yet.                              *)
LEMMA StartTurnKeeps ==
  ASSUME RunnerInv, StartTurn
  PROVE  RunnerInv'
<1> DEFINE s == worker.session
           r == mem[s].request
<1>1. /\ s \in Sessions /\ worker # NoWorker /\ worker \in Workers /\ worker.at = "open"
      /\ r \in Requests /\ r \in disk[s].requests
  BY WorkerFacts DEF StartTurn
<1>2. native[s] \in Seq(Requests) /\ r \notin ToSet(native[s]) /\ IsInjective(native[s])
  BY <1>1 DEF RunnerInv, RunnerTyped, NativeReserved, OneTurnPerRequest
<1>3. /\ Append(native[s], r) \in Seq(Requests) /\ ToSet(Append(native[s], r)) = ToSet(native[s]) \cup {r}
      /\ IsInjective(Append(native[s], r))
  BY <1>1, <1>2, Appended
<1>4. native' = [native EXCEPT ![s] = Append(native[s], r)] /\ UNCHANGED << mem, disk, history >>
  BY DEF StartTurn
<1>5. /\ native' \in [Sessions -> Seq(Requests)] /\ native'[s] = Append(native[s], r)
      /\ \A t \in Sessions \ {s} : native'[t] = native[t]
  BY <1>1, <1>3, <1>4 DEF RunnerInv, RunnerTyped
<1>6. worker' \in Workers /\ worker'.at = "started" /\ worker'.session = s
  BY <1>1, WorkerMoves DEF StartTurn
<1>7. RunnerTyped'
  BY <1>1, <1>4, <1>5, <1>6 DEF RunnerInv, RunnerTyped
<1>8. NativeReserved' /\ RecordsTrue'
  BY <1>1, <1>3, <1>4, <1>5, <1>6 DEF RunnerInv, RunnerTyped, NativeReserved, RecordsTrue
<1>9. ReservationStands' /\ OneTurnPerRequest'
  BY <1>1, <1>3, <1>4, <1>5, <1>6 DEF RunnerInv, ReservationStands, Known, OneTurnPerRequest
<1> QED BY <1>7, <1>8, <1>9 DEF RunnerInv

LEMMA NameTurnKeeps ==
  ASSUME RunnerInv, NameTurn
  PROVE  RunnerInv'
<1> DEFINE s == worker.session
           e == [mem[s] EXCEPT !.turn = TRUE]
<1>1. /\ s \in Sessions /\ mem[s] \in Entries /\ worker # NoWorker /\ worker \in Workers
      /\ worker.at = "started"
  BY WorkerFacts DEF NameTurn
<1>2. /\ e \in Entries /\ e.request = mem[s].request /\ e.requests = mem[s].requests
      /\ e.state = mem[s].state /\ e.record = mem[s].record
  BY <1>1 DEF Entries
<1>3. mem' = [mem EXCEPT ![s] = e] /\ disk' = mem' /\ UNCHANGED << native, history >>
  BY DEF NameTurn
<1> HIDE DEF e
<1>4. /\ mem' \in [Sessions -> Entries] /\ mem'[s] = e
      /\ \A t \in Sessions \ {s} : mem'[t] = mem[t]
  BY <1>1, <1>2, <1>3, MemChanged DEF RunnerInv, RunnerTyped
<1>5. worker' \in Workers /\ worker'.at = "named" /\ worker'.session = s
  BY <1>1, WorkerMoves DEF NameTurn
<1>6. \A t \in Sessions : ToSet(native[t]) \subseteq mem[t].requests
  BY DEF RunnerInv, NativeReserved
<1> QED BY <1>1, <1>2, <1>3, <1>4, <1>5, <1>6 DEF RunnerInv, RunnerTyped, ReservationStands, Known,
              NativeReserved, RecordsTrue, OneTurnPerRequest

LEMMA EndTurnKeeps ==
  ASSUME RunnerInv, NEW state \in {"idle", "failed"}, NEW reads \in BOOLEAN, EndTurn(state, reads)
  PROVE  RunnerInv'
<1> DEFINE s      == worker.session
           record == IF reads THEN ToSet(native[s]) ELSE mem[s].record
           e      == [mem[s] EXCEPT !.state = state, !.record = record]
<1>1. /\ s \in Sessions /\ mem[s] \in Entries /\ worker # NoWorker /\ worker \in Workers
      /\ worker.at # "over" /\ mem[s].request \in disk[s].requests
  BY WorkerFacts DEF EndTurn
<1>2. record \subseteq ToSet(native[s]) /\ ToSet(native[s]) \subseteq Requests
  BY <1>1 DEF RunnerInv, RunnerTyped, RecordsTrue, ToSet
<1>3. /\ e \in Entries /\ e.request = mem[s].request /\ e.requests = mem[s].requests
      /\ e.state = state /\ e.record = record
  <2> HIDE DEF record
  <2> QED BY <1>1, <1>2 DEF Entries
<1>4. mem' = [mem EXCEPT ![s] = e] /\ UNCHANGED << disk, native, history >>
  BY DEF EndTurn
<1> HIDE DEF e, record
<1>5. /\ mem' \in [Sessions -> Entries] /\ mem'[s] = e
      /\ \A t \in Sessions \ {s} : mem'[t] = mem[t]
  BY <1>1, <1>3, <1>4, MemChanged DEF RunnerInv, RunnerTyped
<1>6. worker' \in Workers /\ worker'.at = "over" /\ worker'.session = s
  BY <1>1, WorkerMoves DEF EndTurn
<1> QED BY <1>1, <1>2, <1>3, <1>4, <1>5, <1>6 DEF RunnerInv, RunnerTyped, ReservationStands, Known,
              NativeReserved, RecordsTrue, OneTurnPerRequest

LEMMA ReleaseKeeps ==
  ASSUME RunnerInv, NEW saves \in BOOLEAN, Release(saves)
  PROVE  RunnerInv'
<1>1. /\ disk' \in {mem, disk} /\ worker' = NoWorker /\ UNCHANGED << mem, native, history >>
  BY DEF Release
<1>2. NoWorker \in Workers /\ NoWorker.at = "none"
  BY DEF NoWorker, Workers
<1>3. \A t \in Sessions : ToSet(native[t]) \subseteq mem[t].requests
  BY DEF RunnerInv, NativeReserved
<1> QED BY <1>1, <1>2, <1>3 DEF RunnerInv, RunnerTyped, ReservationStands, Known,
              NativeReserved, RecordsTrue, OneTurnPerRequest

(* A restart reads the mapping file: what it holds was kept for this.      *)
LEMMA RunnerCrashKeeps ==
  ASSUME RunnerInv, RunnerCrash
  PROVE  RunnerInv'
<1>1. /\ disk' = mem' /\ worker' = NoWorker /\ history' = NoRead /\ UNCHANGED native
      /\ mem' = [s \in Sessions |-> IF disk[s].state = "running"
                                    THEN [disk[s] EXCEPT !.state = "failed"] ELSE disk[s]]
  BY DEF RunnerCrash
<1>2. NoWorker \in Workers /\ NoWorker.at = "none" /\ NoRead \in Reads
  BY DEF NoWorker, Workers, NoRead, Reads, NoEntry, Entries
<1>3. ASSUME NEW s \in Sessions
      PROVE  /\ mem'[s] \in Entries /\ mem'[s].request = disk[s].request
             /\ mem'[s].requests = disk[s].requests /\ mem'[s].record = disk[s].record
             /\ mem'[s].request # Nobody => mem'[s].state # "none"
  <2>1. disk[s] \in Entries /\ (disk[s].request # Nobody => disk[s].state # "none")
    BY DEF RunnerInv, RunnerTyped
  <2>2. CASE disk[s].state = "running"
    <3>1. mem'[s] = [disk[s] EXCEPT !.state = "failed"]
      BY <1>1, <2>2
    <3> QED BY <2>1, <3>1 DEF Entries
  <2>3. CASE disk[s].state # "running"
    <3>1. mem'[s] = disk[s]
      BY <1>1, <2>3
    <3> QED BY <2>1, <3>1
  <2> QED BY <2>2, <2>3
<1>4. mem' \in [Sessions -> Entries]
  BY <1>1, <1>3
<1> QED BY <1>1, <1>2, <1>3, <1>4 DEF RunnerInv, RunnerTyped, ReservationStands, Known,
              NativeReserved, RecordsTrue, OneTurnPerRequest

LEMMA InitRunner == Init => RunnerInv
<1> SUFFICES ASSUME Init PROVE RunnerInv
  OBVIOUS
<1>1. /\ mem = [s \in Sessions |-> NoEntry] /\ disk = mem /\ worker = NoWorker
      /\ native = [s \in Sessions |-> << >>] /\ history = NoRead
  BY DEF Init
<1>2. NoEntry \in Entries /\ NoEntry.record = {} /\ NoEntry.requests = {} /\ NoEntry.request = Nobody
  BY DEF NoEntry, Entries
<1>3. NoWorker \in Workers /\ NoWorker.at = "none" /\ NoRead \in Reads
  BY <1>2 DEF NoWorker, Workers, NoRead, Reads
<1>4. << >> \in Seq(Requests) /\ ToSet(<< >>) = {} /\ IsInjective(<< >>)
  BY DEF ToSet, IsInjective
<1> QED BY <1>1, <1>2, <1>3, <1>4 DEF RunnerInv, RunnerTyped, ReservationStands, NativeReserved,
              RecordsTrue, OneTurnPerRequest

-----------------------------------------------------------------------------
(* TurnDispatch: the service's side.                                       *)

Conversations ==
  [state : {"idle", "running", "failed"}, request : Requests \cup {Nobody},
   pending : BOOLEAN, record : SUBSET Requests, unrecorded : SUBSET Requests]

ServiceTyped ==
  /\ conv \in [Sessions -> Conversations]
  /\ home \in [Requests -> Sessions \cup {Nobody}]
  /\ launch \in [Requests -> {"none", "queued", "sent", "done"}]
  /\ net \subseteq Requests /\ reply \in [Requests -> {"none", "accepted", "refused"}]
  /\ poll \in [session : Sessions \cup {Nobody}, reads : BOOLEAN]
  /\ \A r \in Requests : r \in net \/ launch[r] \in {"queued", "sent"} => home[r] \in Sessions
  /\ \A s \in Sessions : conv[s].state = "running" \/ conv[s].pending => conv[s].request \in Requests
  /\ poll.session \in Sessions => conv[poll.session].state = "running"

DispatchInv == RunnerInv /\ ServiceTyped /\ InputKept

(* What a conversation's type gives.                                       *)
LEMMA ConversationFacts ==
  ASSUME NEW c \in Conversations
  PROVE  /\ c.state \in {"idle", "running", "failed"} /\ c.request \in Requests \cup {Nobody}
         /\ c.pending \in BOOLEAN /\ c.record \subseteq Requests /\ c.unrecorded \subseteq Requests
  BY DEF Conversations

LEMMA ConvChanged ==
  ASSUME conv \in [Sessions -> Conversations], NEW s \in Sessions, NEW c \in Conversations,
         conv' = [conv EXCEPT ![s] = c]
  PROVE  /\ conv' \in [Sessions -> Conversations] /\ conv'[s] = c
         /\ \A t \in Sessions \ {s} : conv'[t] = conv[t]
  OBVIOUS

(* A row is not held for a conversation that does not run.                 *)
LEMMA NobodyIsNone == Nobody \notin Sessions /\ Nobody \notin Requests
  BY TurnDispatchAssumption DEF TurnDispatchAssumption

(* The pending input of the last turn is retained before it is replaced.   *)
LEMMA MessageKeeps ==
  ASSUME DispatchInv, NEW s \in Sessions, NEW r \in Requests, Message(s, r)
  PROVE  ServiceTyped' /\ InputKept'
<1> DEFINE left == IF conv[s].pending THEN {conv[s].request} ELSE {}
           c    == [conv[s] EXCEPT !.state = "running", !.request = r, !.pending = TRUE,
                                   !.unrecorded = @ \cup left]
<1>1. conv[s] \in Conversations /\ (conv[s].pending => conv[s].request \in Requests)
  BY DEF DispatchInv, ServiceTyped
<1>2. left \subseteq Requests
  BY <1>1
<1>3. /\ c \in Conversations /\ c.state = "running" /\ c.request = r /\ c.pending = TRUE
      /\ c.unrecorded = conv[s].unrecorded \cup left
  <2> HIDE DEF left
  <2> QED BY <1>1, <1>2 DEF Conversations
<1>4. conv' = [conv EXCEPT ![s] = c]
  BY DEF Message
<1>5. /\ home' = [home EXCEPT ![r] = s] /\ launch' = [launch EXCEPT ![r] = "queued"]
      /\ home[r] = Nobody /\ poll.session # s /\ UNCHANGED << net, reply, poll, native >>
  BY DEF Message, RowFree, runner
<1>6. conv[s].pending => conv[s].request \in left
  OBVIOUS
<1> HIDE DEF c, left
<1>7. /\ conv' \in [Sessions -> Conversations] /\ conv'[s] = c
      /\ \A t \in Sessions \ {s} : conv'[t] = conv[t]
  BY <1>3, <1>4, ConvChanged DEF DispatchInv, ServiceTyped
<1>8. ServiceTyped'
  BY <1>3, <1>5, <1>7, NobodyIsNone DEF DispatchInv, ServiceTyped
<1>9. InputKept'
  BY <1>3, <1>5, <1>6, <1>7, NobodyIsNone DEF DispatchInv, ServiceTyped, InputKept
<1> QED BY <1>8, <1>9

(* A conversation that fails keeps what it holds.                          *)
LEMMA FailKeeps ==
  ASSUME DispatchInv, NEW r \in Requests, launch[r] \in {"queued", "sent"}, Fail(r),
         UNCHANGED << home, poll, net, reply, native >>
  PROVE  ServiceTyped' /\ InputKept'
<1> DEFINE s == home[r]
           c == [conv[s] EXCEPT !.state = "failed"]
<1>1. s \in Sessions /\ conv[s] \in Conversations
  BY DEF DispatchInv, ServiceTyped
<1>2. launch' = [launch EXCEPT ![r] = "done"] /\ poll.session # s
  BY DEF Fail, RowFree
<1>3. CASE conv' = conv
  BY <1>2, <1>3 DEF DispatchInv, ServiceTyped, InputKept
<1>4. CASE conv' = [conv EXCEPT ![s].state = "failed"]
  <2>1. /\ c \in Conversations /\ c.state = "failed" /\ c.request = conv[s].request
        /\ c.pending = conv[s].pending /\ c.unrecorded = conv[s].unrecorded
    BY <1>1 DEF Conversations
  <2>2. conv' = [conv EXCEPT ![s] = c]
    BY <1>4
  <2> HIDE DEF c
  <2>3. /\ conv' \in [Sessions -> Conversations] /\ conv'[s] = c
        /\ \A t \in Sessions \ {s} : conv'[t] = conv[t]
    BY <1>1, <2>1, <2>2, ConvChanged DEF DispatchInv, ServiceTyped
  <2>4. ServiceTyped'
    BY <1>1, <1>2, <2>1, <2>3 DEF DispatchInv, ServiceTyped
  <2>5. InputKept'
    BY <1>1, <2>1, <2>3, NobodyIsNone DEF DispatchInv, ServiceTyped, InputKept
  <2> QED BY <2>4, <2>5
<1> QED BY <1>3, <1>4 DEF Fail

(* The answer to a poll is the runner's, of the request that is current:   *)
(* an input is done with only when its own turn is in the native history.  *)
LEMMA PollEndKeeps ==
  ASSUME DispatchInv, NEW s \in Sessions, PollEnd(s)
  PROVE  ServiceTyped' /\ InputKept'
<1>1. /\ poll' = NoPoll /\ poll.session = s /\ UNCHANGED << home, launch, net, reply, native >>
      /\ NoPoll \in [session : Sessions \cup {Nobody}, reads : BOOLEAN] /\ NoPoll.session \notin Sessions
  BY NobodyIsNone DEF PollEnd, runner, NoPoll
<1>2. conv[s] \in Conversations /\ conv[s].state = "running" /\ conv[s].request \in Requests
  BY <1>1 DEF DispatchInv, ServiceTyped
<1>3. CASE ~Answers(s)
  <2>1. conv' = conv
    BY <1>3 DEF PollEnd
  <2> QED BY <1>1, <2>1 DEF DispatchInv, ServiceTyped, InputKept
<1>4. CASE Answers(s)
  <2> DEFINE settled == StateRead(s) # "running" /\ Recorded(s)
             c == [conv[s] EXCEPT !.record = mem[s].record, !.state = StateRead(s),
                                  !.pending = @ /\ ~settled]
  <2>1. mem[s] \in Entries /\ mem[s].request = conv[s].request /\ mem[s].state # "none"
        /\ mem[s].record \subseteq ToSet(native[s])
    BY <1>2, <1>4, NobodyIsNone DEF Answers, DispatchInv, RunnerInv, RunnerTyped, RecordsTrue
  <2>2. StateRead(s) \in {"running", "idle", "failed"} /\ mem[s].record \subseteq Requests
    BY <2>1, EntryFacts DEF StateRead
  <2>3. (conv[s].pending /\ ~settled) \in BOOLEAN
    OBVIOUS
  <2>4. /\ c \in Conversations /\ c.state = StateRead(s) /\ c.request = conv[s].request
        /\ c.unrecorded = conv[s].unrecorded
    <3> DEFINE p == conv[s].pending /\ ~settled
    <3>1. c = [conv[s] EXCEPT !.record = mem[s].record, !.state = StateRead(s), !.pending = p]
      BY DEF p
    <3> HIDE DEF p
    <3> QED BY <1>2, <2>2, <2>3, <3>1 DEF Conversations
  <2>5. c.pending <=> conv[s].pending /\ ~settled
    BY <1>2 DEF Conversations
  <2>6. settled => conv[s].request \in ToSet(native[s])
    BY <2>1 DEF Recorded
  <2>7. conv' = [conv EXCEPT ![s] = c]
    BY <1>4 DEF PollEnd
  <2> HIDE DEF c, settled
  <2>8. /\ conv' \in [Sessions -> Conversations] /\ conv'[s] = c
        /\ \A t \in Sessions \ {s} : conv'[t] = conv[t]
    BY <1>2, <2>4, <2>7, ConvChanged DEF DispatchInv, ServiceTyped
  <2>9. ServiceTyped'
    BY <1>1, <1>2, <2>4, <2>8 DEF DispatchInv, ServiceTyped
  <2>10. InputKept'
    BY <1>1, <2>4, <2>5, <2>6, <2>8, NobodyIsNone DEF DispatchInv, ServiceTyped, InputKept
  <2> QED BY <2>9, <2>10
<1> QED BY <1>3, <1>4

LEMMA PollBeginKeeps ==
  ASSUME DispatchInv, NEW s \in Sessions, PollBegin(s)
  PROVE  ServiceTyped' /\ InputKept'
<1> DEFINE reads == /\ worker = NoWorker /\ history = NoRead
                    /\ mem[s].state # "running" /\ mem[s].thread
<1>1. /\ poll' = [ session |-> s, reads |-> reads ] /\ conv[s].state = "running"
      /\ UNCHANGED << conv, home, launch, net, reply, native >>
  BY DEF PollBegin
<1>2. reads \in BOOLEAN
  BY EntryFacts DEF DispatchInv, RunnerInv, RunnerTyped
<1> HIDE DEF reads
<1>3. poll' \in [session : Sessions \cup {Nobody}, reads : BOOLEAN] /\ poll'.session = s
  BY <1>1, <1>2
<1> QED BY <1>1, <1>3 DEF DispatchInv, ServiceTyped, InputKept

(* The service's other steps touch a request's dispatch or nothing.        *)
LEMMA DispatchStepKeeps ==
  ASSUME DispatchInv, UNCHANGED << conv, home, reply, native >>,
         poll' \in {poll, NoPoll},
         launch' \in [Requests -> {"none", "queued", "sent", "done"}],
         net' \subseteq Requests,
         \A r \in Requests : launch'[r] \in {"queued", "sent"} => launch[r] \in {"queued", "sent"},
         \A r \in Requests : r \in net' => r \in net \/ launch[r] \in {"queued", "sent"}
  PROVE  ServiceTyped' /\ InputKept'
<1>1. NoPoll \in [session : Sessions \cup {Nobody}, reads : BOOLEAN] /\ NoPoll.session \notin Sessions
  BY NobodyIsNone DEF NoPoll
<1> QED BY <1>1 DEF DispatchInv, ServiceTyped, InputKept

LEMMA ServiceStepKeeps ==
  ASSUME DispatchInv, ServiceStep
  PROVE  DispatchInv'
<1>1. ASSUME NEW s \in Sessions, PollBegin(s) PROVE DispatchInv'
  BY <1>1, PollBeginKeeps, ReadBeginsKeeps DEF DispatchInv
<1>2. ASSUME UNCHANGED runner, ServiceTyped', InputKept' PROVE DispatchInv'
  BY <1>2, RunnerStays DEF DispatchInv
<1>3. ASSUME NEW s \in Sessions, PollEnd(s) PROVE DispatchInv'
  BY <1>2, <1>3, PollEndKeeps DEF PollEnd
<1>4. ASSUME NEW s \in Sessions, NEW r \in Requests, Message(s, r) PROVE DispatchInv'
  BY <1>2, <1>4, MessageKeeps DEF Message
<1>5. ASSUME NEW r \in Requests, Submit(r) PROVE DispatchInv'
  <2>1. ServiceTyped' /\ InputKept'
    BY <1>5, DispatchStepKeeps DEF Submit, runner, DispatchInv, ServiceTyped
  <2> QED BY <1>2, <1>5, <2>1 DEF Submit
<1>6. ASSUME NEW r \in Requests, LocalFailure(r) \/ Refused(r) PROVE DispatchInv'
  <2>1. /\ launch[r] \in {"queued", "sent"} /\ Fail(r) /\ UNCHANGED runner
        /\ UNCHANGED << home, poll, net, reply, native >>
    BY <1>6 DEF LocalFailure, Refused, runner
  <2> QED BY <1>2, <2>1, FailKeeps
<1>7. ASSUME NEW r \in Requests, Unanswered(r) PROVE DispatchInv'
  <2>1. ServiceTyped' /\ InputKept'
    BY <1>7, DispatchStepKeeps DEF Unanswered, runner, DispatchInv, ServiceTyped
  <2> QED BY <1>2, <1>7, <2>1 DEF Unanswered
<1>8. ASSUME PollFail PROVE DispatchInv'
  <2>1. ServiceTyped' /\ InputKept'
    BY <1>8, DispatchStepKeeps DEF PollFail, runner, DispatchInv, ServiceTyped
  <2> QED BY <1>2, <1>8, <2>1 DEF PollFail
<1>9. ASSUME ServiceCrash PROVE DispatchInv'
  <2>1. ServiceTyped' /\ InputKept'
    BY <1>9, DispatchStepKeeps DEF ServiceCrash, runner, DispatchInv, ServiceTyped
  <2> QED BY <1>2, <1>9, <2>1 DEF ServiceCrash
<1> QED BY <1>1, <1>3, <1>4, <1>5, <1>6, <1>7, <1>8, <1>9 DEF ServiceStep

LEMMA NetworkStepKeeps ==
  ASSUME DispatchInv, NetworkStep
  PROVE  DispatchInv'
<1> PICK r \in Requests : Lose(r) \/ AcceptAgain(r) \/ Refuse(r) \/ Accept(r) \/ AcceptFails(r)
  BY DEF NetworkStep
<1>1. UNCHANGED << conv, home, launch, poll, native >> /\ net' \subseteq net
  BY DEF Lose, AcceptAgain, Refuse, Accept, AcceptFails, Arrives, api, runner
<1>2. reply' \in [Requests -> {"none", "accepted", "refused"}]
  BY DEF Lose, AcceptAgain, Refuse, Accept, AcceptFails, DispatchInv, ServiceTyped
<1>3. ServiceTyped' /\ InputKept'
  BY <1>1, <1>2 DEF DispatchInv, ServiceTyped, InputKept
<1>4. RunnerInv'
  <2>1. CASE Lose(r) \/ AcceptAgain(r) \/ Refuse(r)
    BY <2>1, RunnerStays DEF Lose, AcceptAgain, Refuse, DispatchInv
  <2>2. CASE Accept(r)
    BY <2>2, AcceptKeeps DEF Accept, Arrives, DispatchInv, ServiceTyped
  <2>3. CASE AcceptFails(r)
    BY <2>3, AcceptFailsKeeps DEF AcceptFails, Arrives, DispatchInv, ServiceTyped
  <2> QED BY <2>1, <2>2, <2>3
<1> QED BY <1>3, <1>4 DEF DispatchInv

LEMMA RunnerStepKeeps ==
  ASSUME DispatchInv, RunnerStep
  PROVE  DispatchInv'
<1>1. UNCHANGED << conv, home, launch, poll, net, reply >>
  BY DEF RunnerStep, HistoryEnd, OpenThread, StartTurn, NameTurn, RunnerCrash, EndTurn, Release, api
<1>2. RunnerInv'
  BY HistoryEndKeeps, OpenThreadKeeps, StartTurnKeeps, NameTurnKeeps, EndTurnKeeps, ReleaseKeeps,
     RunnerCrashKeeps DEF RunnerStep, DispatchInv
<1>3. \A s \in Sessions : ToSet(native[s]) \subseteq ToSet(native'[s])
  <2>1. CASE StartTurn
    <3>1. /\ worker.session \in Sessions /\ mem[worker.session].request \in Requests
          /\ native[worker.session] \in Seq(Requests)
      BY <2>1, WorkerFacts DEF StartTurn, DispatchInv, RunnerInv, RunnerTyped
    <3>2. native' = [native EXCEPT ![worker.session] =
                       Append(native[worker.session], mem[worker.session].request)]
      BY <2>1 DEF StartTurn
    <3> QED BY <3>1, <3>2, Appended DEF DispatchInv, RunnerInv, RunnerTyped
  <2>2. CASE ~StartTurn
    <3>1. UNCHANGED native
      BY <2>2 DEF RunnerStep, HistoryEnd, OpenThread, NameTurn, RunnerCrash, EndTurn, Release
    <3> QED BY <3>1
  <2> QED BY <2>1, <2>2
<1>4. ServiceTyped'
  BY <1>1 DEF DispatchInv, ServiceTyped
<1>5. InputKept'
  BY <1>1, <1>3 DEF DispatchInv, ServiceTyped, InputKept
<1> QED BY <1>2, <1>4, <1>5 DEF DispatchInv

LEMMA InitDispatch == Init => DispatchInv
<1> SUFFICES ASSUME Init PROVE ServiceTyped /\ InputKept
  BY InitRunner DEF DispatchInv
<1> DEFINE c == [ state |-> "idle", request |-> Nobody, pending |-> FALSE, record |-> {}, unrecorded |-> {} ]
<1>1. c \in Conversations /\ c.state = "idle" /\ c.pending = FALSE
  BY DEF Conversations
<1>2. NoPoll \in [session : Sessions \cup {Nobody}, reads : BOOLEAN] /\ NoPoll.session \notin Sessions
  BY NobodyIsNone DEF NoPoll
<1>3. conv = [s \in Sessions |-> c]
  BY DEF Init
<1> HIDE DEF c
<1> QED BY <1>1, <1>2, <1>3 DEF Init, ServiceTyped, InputKept

LEMMA NextKeepsDispatch == DispatchInv /\ [Next]_vars => DispatchInv'
<1>1. DispatchInv /\ UNCHANGED vars => DispatchInv'
  BY DEF DispatchInv, RunnerInv, RunnerTyped, ReservationStands, Known, NativeReserved, RecordsTrue,
         OneTurnPerRequest, ServiceTyped, InputKept, vars
<1> QED BY <1>1, ServiceStepKeeps, NetworkStepKeeps, RunnerStepKeeps DEF Next

LEMMA DispatchIsTyped == DispatchInv => TypeOK
  BY DEF DispatchInv, RunnerInv, RunnerTyped, ServiceTyped, TypeOK, Conversations, Workers, Reads

(* A message becomes at most one native turn, and no reservation is ever   *)
(* put back by a read that was under way (TurnDispatch.OneTurnPerRequest,  *)
(* ReservationStands); no input is lost (InputKept).                       *)
THEOREM DispatchIsSafe ==
  Spec => [](TypeOK /\ OneTurnPerRequest /\ ReservationStands /\ InputKept)
<1>1. Spec => []DispatchInv
  BY InitDispatch, NextKeepsDispatch, PTL DEF Spec
<1>2. DispatchInv => TypeOK /\ OneTurnPerRequest /\ ReservationStands /\ InputKept
  BY DispatchIsTyped DEF DispatchInv, RunnerInv
<1> QED BY <1>1, <1>2, PTL

-----------------------------------------------------------------------------
(* TurnDispatch without repeated submissions: what is settled is settled.  *)

(* The next-state relation of a network that delivers a submission once.   *)
OnceStep ==
  \/ ServiceStep \/ RunnerStep
  \/ \E r \in Requests :
       /\ net' = net \ {r}
       /\ Lose(r) \/ AcceptAgain(r) \/ Refuse(r) \/ Accept(r) \/ AcceptFails(r)

(* A request on its way is its conversation's current one, and new to the  *)
(* runner; the worker's request is current; a request that the service has *)
(* not sent is unknown.                                                    *)
SettledInv ==
  /\ \A r \in net :
       /\ launch[r] \in {"sent", "done"} /\ reply[r] = "none"
       /\ Current(home[r], r) /\ ~Known(home[r], r)
  /\ worker # NoWorker =>
       /\ Current(worker.session, mem[worker.session].request)
       /\ reply[mem[worker.session].request] = "accepted"
  /\ \A r \in Requests : launch[r] \in {"none", "queued"} =>
       reply[r] = "none" /\ \A s \in Sessions : ~Known(s, r)
  /\ \A r \in Requests : home[r] = Nobody => launch[r] = "none"
  /\ \A s \in Sessions : /\ mem[s].request # Nobody => mem[s].request \in mem[s].requests
                         /\ disk[s].request # Nobody => disk[s].request \in disk[s].requests

OnceInv == DispatchInv /\ SettledInv

LEMMA SettledFollows == OnceInv => SettledIsSettled
<1> SUFFICES ASSUME OnceInv, NEW s \in Sessions, conv[s].state # "running"
             PROVE  worker.session # s /\ \A r \in net : home[r] # s
  BY DEF SettledIsSettled
<1>1. \A r \in net : home[r] # s
  BY DEF OnceInv, SettledInv, Current
<1>2. worker = NoWorker => worker.session # s
  BY NobodyIsNone DEF NoWorker
<1>3. worker # NoWorker => worker.session # s
  BY DEF OnceInv, SettledInv, Current
<1> QED BY <1>1, <1>2, <1>3

(* A new message's conversation has nothing left.                          *)
LEMMA MessageSettled ==
  ASSUME OnceInv, NEW s \in Sessions, NEW r \in Requests, Message(s, r)
  PROVE  SettledInv'
<1>1. conv[s].state # "running" /\ home[r] = Nobody /\ UNCHANGED << net, reply, mem, disk, worker >>
  BY DEF Message, runner
<1>2. worker.session # s /\ (\A q \in net : home[q] # s) /\ r \notin net
  BY <1>1, SettledFollows, NobodyIsNone DEF SettledIsSettled, OnceInv, DispatchInv, ServiceTyped
<1>3. \A t \in Sessions \ {s} : conv'[t] = conv[t]
  BY DEF OnceInv, Message, DispatchInv, ServiceTyped
<1>4. home' = [home EXCEPT ![r] = s] /\ launch' = [launch EXCEPT ![r] = "queued"]
  BY DEF Message
<1>5. worker # NoWorker => worker.session \in Sessions /\ mem[worker.session].request \in Requests
  <2> SUFFICES ASSUME worker # NoWorker
               PROVE  worker.session \in Sessions /\ mem[worker.session].request \in Requests
    OBVIOUS
  <2>1. worker.session \in Sessions
    BY DEF OnceInv, DispatchInv, RunnerInv, RunnerTyped
  <2>2. mem[worker.session].requests \subseteq Requests
    BY <2>1, EntryFacts DEF OnceInv, DispatchInv, RunnerInv, RunnerTyped
  <2> QED BY <2>1, <2>2 DEF OnceInv, DispatchInv, RunnerInv, ReservationStands, Known
<1>6. launch[r] = "none"
  BY <1>1 DEF OnceInv, SettledInv
<1>7. \A q \in net : home[q] \in Sessions \ {s} /\ q \in Requests /\ q # r
  BY <1>2 DEF OnceInv, DispatchInv, ServiceTyped
<1> QED BY <1>1, <1>2, <1>3, <1>4, <1>5, <1>6, <1>7, NobodyIsNone
        DEF OnceInv, SettledInv, Current, Known, DispatchInv, ServiceTyped

(* A conversation fails only when its current request has no work left.    *)
LEMMA FailSettled ==
  ASSUME OnceInv, NEW r \in Requests, Fail(r), UNCHANGED << home, net, reply, mem, disk, worker >>,
         launch[r] = "queued" \/ (launch[r] = "sent" /\ reply[r] = "refused")
  PROVE  SettledInv'
<1> DEFINE s == home[r]
<1>1. s \in Sessions
  BY DEF OnceInv, DispatchInv, ServiceTyped
<1>2. reply[r] \in {"none", "refused"} /\ (launch[r] = "queued" => reply[r] = "none")
  BY DEF OnceInv, SettledInv
<1>3. launch' = [launch EXCEPT ![r] = "done"]
  BY DEF Fail
<1>4. CASE conv' = conv
  BY <1>3, <1>4 DEF OnceInv, SettledInv, Current, Known, DispatchInv, ServiceTyped
<1>5. CASE Current(s, r) /\ conv' = [conv EXCEPT ![s].state = "failed"]
  <2>1. \A t \in Sessions \ {s} : conv'[t] = conv[t]
    BY <1>5 DEF OnceInv, DispatchInv, ServiceTyped
  <2>2. r \notin net
    BY <1>2 DEF OnceInv, SettledInv
  <2>3. \A q \in net : home[q] \in Sessions \ {s}
    BY <1>5, <2>2 DEF OnceInv, SettledInv, Current, DispatchInv, ServiceTyped
  <2>4. worker # NoWorker => worker.session \in Sessions \ {s}
    BY <1>2, <1>5 DEF OnceInv, SettledInv, Current, DispatchInv, RunnerInv, RunnerTyped
  <2> QED BY <1>3, <2>1, <2>3, <2>4
          DEF OnceInv, SettledInv, Current, Known, DispatchInv, ServiceTyped
<1> QED BY <1>4, <1>5 DEF Fail

(* What the runner answers of the current request when it does not work on *)
(* it is final.                                                            *)
LEMMA PollEndSettled ==
  ASSUME OnceInv, NEW s \in Sessions, PollEnd(s)
  PROVE  SettledInv'
<1>1. UNCHANGED << home, launch, net, reply, mem, disk, worker >> /\ poll.session = s
  BY DEF PollEnd, runner
<1>2. conv[s] \in Conversations /\ conv[s].state = "running" /\ conv[s].request \in Requests
  BY <1>1 DEF OnceInv, DispatchInv, ServiceTyped
<1>3. CASE conv' = conv
  BY <1>1, <1>3 DEF OnceInv, SettledInv, Current, Known
<1>4. CASE Answers(s)
  <2>1. \A t \in Sessions \ {s} : conv'[t] = conv[t]
    BY <1>4 DEF PollEnd, OnceInv, DispatchInv, ServiceTyped
  <2>2. conv'[s].state = StateRead(s) /\ conv'[s].request = conv[s].request
    <3> DEFINE p == conv[s].pending /\ ~(StateRead(s) # "running" /\ Recorded(s))
               c == [conv[s] EXCEPT !.record = mem[s].record, !.state = StateRead(s), !.pending = p]
    <3>1. conv' = [conv EXCEPT ![s] = c]
      BY <1>4 DEF PollEnd
    <3>2. c.state = StateRead(s) /\ c.request = conv[s].request
      <4> HIDE DEF p
      <4> QED BY <1>2 DEF Conversations
    <3> HIDE DEF c
    <3> QED BY <3>1, <3>2 DEF OnceInv, DispatchInv, ServiceTyped
  <2>3. \A q \in net : home[q] \in Sessions \ {s}
    <3> SUFFICES ASSUME NEW q \in net, home[q] = s PROVE FALSE
      BY DEF OnceInv, DispatchInv, ServiceTyped
    <3>1. conv[s].request = q /\ q \notin mem[s].requests
      BY DEF OnceInv, SettledInv, Current, Known
    <3>2. mem[s].request = q /\ q # Nobody
      BY <1>2, <1>4, <3>1, NobodyIsNone DEF Answers
    <3> QED BY <3>1, <3>2 DEF OnceInv, SettledInv
  <2>4. worker # NoWorker => worker.session \in Sessions
    BY DEF OnceInv, DispatchInv, RunnerInv, RunnerTyped
  <2>5. worker.session = s => conv'[s].state = "running"
    BY <2>2 DEF StateRead
  <2> QED BY <1>1, <2>1, <2>2, <2>3, <2>4, <2>5 DEF OnceInv, SettledInv, Current, Known
<1> QED BY <1>3, <1>4 DEF PollEnd

LEMMA ServiceStepSettled ==
  ASSUME OnceInv, ServiceStep
  PROVE  SettledInv'
<1>1. ASSUME NEW s \in Sessions, PollBegin(s) PROVE SettledInv'
  BY <1>1 DEF PollBegin, OnceInv, SettledInv, Current, Known
<1>2. ASSUME NEW r \in Requests, Submit(r) PROVE SettledInv'
  <2>1. /\ launch[r] = "queued" /\ Current(home[r], r) /\ net' = net \cup {r}
        /\ launch' = [launch EXCEPT ![r] = "sent"]
        /\ UNCHANGED << conv, home, reply, mem, disk, worker >>
    BY <1>2 DEF Submit, runner
  <2>2. ~Known(home[r], r) /\ reply[r] = "none"
    BY <2>1 DEF OnceInv, SettledInv, DispatchInv, ServiceTyped
  <2> QED BY <2>1, <2>2 DEF OnceInv, SettledInv, Current, Known, DispatchInv, ServiceTyped
<1>3. ASSUME NEW r \in Requests, LocalFailure(r) \/ Refused(r) PROVE SettledInv'
  BY <1>3, FailSettled DEF LocalFailure, Refused, runner
<1>4. ASSUME NEW r \in Requests, Unanswered(r) PROVE SettledInv'
  BY <1>4 DEF Unanswered, runner, OnceInv, SettledInv, Current, Known, DispatchInv, ServiceTyped
<1>5. ASSUME PollFail PROVE SettledInv'
  BY <1>5 DEF PollFail, runner, OnceInv, SettledInv, Current, Known
<1>6. ASSUME ServiceCrash PROVE SettledInv'
  BY <1>6 DEF ServiceCrash, runner, OnceInv, SettledInv, Current, Known, DispatchInv, ServiceTyped
<1> QED BY <1>1, <1>2, <1>3, <1>4, <1>5, <1>6, MessageSettled, PollEndSettled DEF ServiceStep

(* Delivered once, a submission leaves the network with its answer.        *)
LEMMA DeliveredSettled ==
  ASSUME OnceInv, NEW r \in Requests, net' = net \ {r},
         Lose(r) \/ AcceptAgain(r) \/ Refuse(r) \/ Accept(r) \/ AcceptFails(r)
  PROVE  SettledInv'
<1>1. CASE Lose(r)
  BY <1>1 DEF Lose, api, runner, OnceInv, SettledInv, Current, Known
<1>2. CASE AcceptAgain(r)
  BY <1>2 DEF AcceptAgain, Arrives, OnceInv, SettledInv, Current, Known
<1>3. CASE Refuse(r)
  <2>1. /\ reply' = [reply EXCEPT ![r] = "refused"] /\ r \in net
        /\ UNCHANGED << conv, home, launch, mem, disk, worker >>
    BY <1>3 DEF Refuse, Arrives, api, runner
  <2>2. \A q \in Requests \ {r} : reply'[q] = reply[q]
    BY <2>1 DEF OnceInv, DispatchInv, ServiceTyped
  <2>3. worker # NoWorker => mem[worker.session].request \in Requests \ {r}
    <3> SUFFICES ASSUME worker # NoWorker PROVE mem[worker.session].request \in Requests \ {r}
      OBVIOUS
    <3>1. mem[worker.session].request \in Requests
      BY WorkerFacts DEF OnceInv, DispatchInv, RunnerInv, RunnerTyped, Workers
    <3> QED BY <2>1, <3>1 DEF OnceInv, SettledInv
  <2>4. \A q \in net' : q \in Requests \ {r} /\ q \in net
    BY DEF OnceInv, DispatchInv, ServiceTyped
  <2>5. launch[r] \in {"sent", "done"}
    BY <2>1 DEF OnceInv, SettledInv
  <2> QED BY <2>1, <2>2, <2>3, <2>4, <2>5 DEF OnceInv, SettledInv, Current, Known
<1>4. ASSUME Accept(r) \/ AcceptFails(r)
      PROVE  /\ r \in net /\ launch[r] \in {"sent", "done"} /\ Current(home[r], r) /\ home[r] \in Sessions
             /\ r \in Requests /\ worker = NoWorker /\ UNCHANGED << conv, home, launch >>
             /\ \A q \in net' : q \in Requests /\ q # r /\ home[q] \in Sessions \ {home[r]}
  BY <1>4 DEF Accept, AcceptFails, Arrives, api, OnceInv, SettledInv, Current, DispatchInv, ServiceTyped
<1> DEFINE s == home[r]
<1>5. ASSUME Accept(r) \/ AcceptFails(r)
      PROVE  \E e \in Entries : /\ Reserved(s, r) = [mem EXCEPT ![s] = e]
                                /\ e.request = r /\ e.requests = mem[s].requests \cup {r}
                                /\ e.state = "running" /\ e.record = mem[s].record
  BY <1>4, <1>5, ReservedEntry DEF OnceInv, DispatchInv, RunnerInv, RunnerTyped
<1>6. CASE Accept(r)
  <2>1. PICK e \in Entries : /\ Reserved(s, r) = [mem EXCEPT ![s] = e]
                             /\ e.request = r /\ e.requests = mem[s].requests \cup {r}
    BY <1>5, <1>6
  <2>2. mem' = [mem EXCEPT ![s] = e] /\ disk' = mem'
    BY <1>6, <2>1 DEF Accept
  <2>3. /\ mem'[s] = e /\ disk' = mem' /\ \A t \in Sessions \ {s} : mem'[t] = mem[t]
    BY <1>4, <1>6, <2>2, MemChanged DEF OnceInv, DispatchInv, RunnerInv, RunnerTyped
  <2>4. worker'.session = s /\ reply' = [reply EXCEPT ![r] = "accepted"]
    BY <1>6 DEF Accept
  <2>5. e.request = r /\ e.requests = mem[s].requests \cup {r}
    BY <2>1
  <2> HIDE DEF s
  <2>6. s = home[r]
    BY DEF s
  <2> QED BY <1>4, <1>6, <2>3, <2>4, <2>5, <2>6
          DEF OnceInv, SettledInv, Current, Known, DispatchInv, ServiceTyped
<1>7. CASE AcceptFails(r)
  <2>1. PICK e \in Entries : /\ Reserved(s, r) = [mem EXCEPT ![s] = e]
                             /\ e.request = r /\ e.requests = mem[s].requests \cup {r}
    BY <1>5, <1>7
  <2> DEFINE f == [e EXCEPT !.state = "failed"]
  <2>2. f \in Entries /\ f.request = r /\ f.requests = mem[s].requests \cup {r}
    BY <2>1 DEF Entries
  <2>3. mem' = [mem EXCEPT ![s] = f] /\ disk' = mem'
    <3>1. mem \in [Sessions -> Entries] /\ s \in Sessions
      BY <1>4, <1>7 DEF OnceInv, DispatchInv, RunnerInv, RunnerTyped
    <3>2. mem' = [Reserved(s, r) EXCEPT ![s].state = "failed"] /\ disk' = mem'
      BY <1>7 DEF AcceptFails
    <3> QED BY <2>1, <3>1, <3>2
  <2> HIDE DEF f
  <2>4. /\ mem'[s] = f /\ disk' = mem' /\ \A t \in Sessions \ {s} : mem'[t] = mem[t]
    BY <1>4, <1>7, <2>2, <2>3, MemChanged DEF OnceInv, DispatchInv, RunnerInv, RunnerTyped
  <2>5. worker' = worker /\ reply' = [reply EXCEPT ![r] = "refused"]
    BY <1>7 DEF AcceptFails
  <2>6. s = home[r]
    OBVIOUS
  <2> HIDE DEF s
  <2> QED BY <1>4, <1>7, <2>2, <2>4, <2>5, <2>6
          DEF OnceInv, SettledInv, Current, Known, DispatchInv, ServiceTyped
<1> QED BY <1>1, <1>2, <1>3, <1>6, <1>7

(* The runner's own steps keep requests; only the worker that a request    *)
(* began, or the one it leaves, matters here.                              *)
LEMMA RunnerStepSettled ==
  ASSUME OnceInv, RunnerStep
  PROVE  SettledInv'
<1>1. UNCHANGED << conv, home, launch, net, reply >>
  BY DEF RunnerStep, HistoryEnd, OpenThread, StartTurn, NameTurn, RunnerCrash, EndTurn, Release, api
<1>2. \A s \in Sessions : disk[s].requests \subseteq mem[s].requests
  BY DEF OnceInv, DispatchInv, RunnerInv, NativeReserved
<1>3. worker # NoWorker => worker.session \in Sessions
  BY DEF OnceInv, DispatchInv, RunnerInv, RunnerTyped
<1>4. SUFFICES /\ worker' # NoWorker =>
                    /\ worker # NoWorker /\ worker'.session = worker.session
                    /\ \A s \in Sessions : mem'[s].request = mem[s].request
               /\ \A s \in Sessions :
                    /\ mem'[s].requests \in {mem[s].requests, disk[s].requests}
                    /\ mem'[s].request # Nobody => mem'[s].request \in mem'[s].requests
                    /\ disk'[s].request # Nobody => disk'[s].request \in disk'[s].requests
  <2>1. \A s \in Sessions, r \in Requests : ~Known(s, r) => ~Known(s, r)'
    BY <1>2, <1>4 DEF Known
  <2>2. \A r \in net : r \in Requests /\ home[r] \in Sessions
    BY DEF OnceInv, DispatchInv, ServiceTyped
  <2> QED BY <1>1, <1>3, <1>4, <2>1, <2>2 DEF OnceInv, SettledInv, Current
<1>5. \A s \in Sessions : /\ mem[s] \in Entries /\ disk[s] \in Entries
                          /\ mem[s].request # Nobody => mem[s].request \in mem[s].requests
                          /\ disk[s].request # Nobody => disk[s].request \in disk[s].requests
  BY DEF OnceInv, SettledInv, DispatchInv, RunnerInv, RunnerTyped
(* Only fields other than the request and the requests change.             *)
<1>6. ASSUME NEW s \in Sessions, NEW e \in Entries, mem' = [mem EXCEPT ![s] = e],
             e.request = mem[s].request, e.requests = mem[s].requests
      PROVE  \A t \in Sessions : mem'[t].request = mem[t].request /\ mem'[t].requests = mem[t].requests
  BY <1>6 DEF OnceInv, DispatchInv, RunnerInv, RunnerTyped
<1>7. ASSUME (HistoryEnd /\ Undisturbed) \/ OpenThread \/ NameTurn
             \/ \E state \in {"idle", "failed"}, reads \in BOOLEAN : EndTurn(state, reads)
      PROVE  \A t \in Sessions : mem'[t].request = mem[t].request /\ mem'[t].requests = mem[t].requests
  <2>1. CASE HistoryEnd /\ Undisturbed
    <3> DEFINE s == history.session
               e == [mem[s] EXCEPT !.record = history.turns]
    <3>1. s \in Sessions /\ history.turns \subseteq Requests /\ mem' = [mem EXCEPT ![s] = e]
      BY <2>1 DEF HistoryEnd, Undisturbed, OnceInv, DispatchInv, RunnerInv, RunnerTyped, Reads
    <3>2. e \in Entries /\ e.request = mem[s].request /\ e.requests = mem[s].requests
      BY <1>5, <3>1 DEF Entries
    <3> HIDE DEF e
    <3> QED BY <1>6, <3>1, <3>2
  <2>2. CASE OpenThread
    <3> DEFINE s == worker.session
               e == [mem[s] EXCEPT !.thread = TRUE]
    <3>1. s \in Sessions /\ mem' = [mem EXCEPT ![s] = e]
      BY <2>2, WorkerFacts DEF OpenThread, OnceInv, DispatchInv
    <3>2. e \in Entries /\ e.request = mem[s].request /\ e.requests = mem[s].requests
      BY <1>5, <3>1 DEF Entries
    <3> HIDE DEF e
    <3> QED BY <1>6, <3>1, <3>2
  <2>3. CASE NameTurn
    <3> DEFINE s == worker.session
               e == [mem[s] EXCEPT !.turn = TRUE]
    <3>1. s \in Sessions /\ mem' = [mem EXCEPT ![s] = e]
      BY <2>3, WorkerFacts DEF NameTurn, OnceInv, DispatchInv
    <3>2. e \in Entries /\ e.request = mem[s].request /\ e.requests = mem[s].requests
      BY <1>5, <3>1 DEF Entries
    <3> HIDE DEF e
    <3> QED BY <1>6, <3>1, <3>2
  <2>4. ASSUME NEW state \in {"idle", "failed"}, NEW reads \in BOOLEAN, EndTurn(state, reads)
        PROVE  \A t \in Sessions : mem'[t].request = mem[t].request /\ mem'[t].requests = mem[t].requests
    <3> DEFINE s      == worker.session
               record == IF reads THEN ToSet(native[s]) ELSE mem[s].record
               e      == [mem[s] EXCEPT !.state = state, !.record = record]
    <3>1. s \in Sessions /\ mem' = [mem EXCEPT ![s] = e]
      BY <2>4, WorkerFacts DEF EndTurn, OnceInv, DispatchInv
    <3>2. record \subseteq Requests
      BY <1>5, <3>1, EntryFacts DEF OnceInv, DispatchInv, RunnerInv, RunnerTyped, ToSet
    <3>3. e \in Entries /\ e.request = mem[s].request /\ e.requests = mem[s].requests
      <4> HIDE DEF record
      <4> QED BY <1>5, <3>1, <3>2 DEF Entries
    <3> HIDE DEF e
    <3> QED BY <1>6, <3>1, <3>3
  <2> QED BY <1>7, <2>1, <2>2, <2>3, <2>4
<1>8. CASE (HistoryEnd /\ Undisturbed) \/ OpenThread \/ NameTurn
  <2>1. disk' = mem' /\ (worker' # NoWorker => worker # NoWorker /\ worker'.session = worker.session)
    BY <1>8, WorkerFacts, WorkerMoves DEF HistoryEnd, OpenThread, NameTurn, OnceInv, DispatchInv
  <2> QED BY <1>5, <1>7, <1>8, <2>1
<1>9. CASE \E state \in {"idle", "failed"}, reads \in BOOLEAN : EndTurn(state, reads)
  <2>1. disk' = disk /\ worker # NoWorker /\ worker'.session = worker.session
    BY <1>9, WorkerFacts, WorkerMoves DEF EndTurn, OnceInv, DispatchInv
  <2> QED BY <1>5, <1>7, <1>9, <2>1
<1>10. CASE (HistoryEnd /\ ~Undisturbed) \/ StartTurn
  <2>1. UNCHANGED << mem, disk >> /\ (worker' # NoWorker => worker # NoWorker /\ worker'.session = worker.session)
    BY <1>10, WorkerFacts, WorkerMoves DEF HistoryEnd, StartTurn, OnceInv, DispatchInv
  <2> QED BY <1>5, <2>1
<1>11. CASE \E saves \in BOOLEAN : Release(saves)
  <2>1. mem' = mem /\ disk' \in {mem, disk} /\ worker' = NoWorker
    BY <1>11 DEF Release
  <2> QED BY <1>5, <2>1
<1>12. CASE RunnerCrash
  <2>1. /\ worker' = NoWorker /\ disk' = mem'
        /\ mem' = [s \in Sessions |-> IF disk[s].state = "running"
                                      THEN [disk[s] EXCEPT !.state = "failed"] ELSE disk[s]]
    BY <1>12 DEF RunnerCrash
  <2>2. ASSUME NEW s \in Sessions
        PROVE  mem'[s].request = disk[s].request /\ mem'[s].requests = disk[s].requests
    <3>1. mem'[s] = disk[s] \/ mem'[s] = [disk[s] EXCEPT !.state = "failed"]
      BY <2>1
    <3> QED BY <1>5, <3>1 DEF Entries
  <2> QED BY <1>5, <2>1, <2>2
<1> QED BY <1>8, <1>9, <1>10, <1>11, <1>12 DEF RunnerStep

LEMMA OnceStepKeeps == OnceInv /\ (OnceStep \/ UNCHANGED vars) => OnceInv'
<1>1. ASSUME OnceInv, OnceStep PROVE OnceInv'
  <2>1. Next
    BY <1>1 DEF OnceStep, Next, NetworkStep
  <2> QED BY <1>1, <2>1, NextKeepsDispatch, ServiceStepSettled, RunnerStepSettled, DeliveredSettled
          DEF OnceStep, OnceInv
<1>2. ASSUME OnceInv, UNCHANGED vars PROVE OnceInv'
  <2>1. DispatchInv'
    BY <1>2, NextKeepsDispatch DEF OnceInv
  <2> QED BY <1>2, <2>1 DEF OnceInv, SettledInv, Current, Known, vars
<1> QED BY <1>1, <1>2

LEMMA InitOnce == Init => OnceInv
<1> SUFFICES ASSUME Init PROVE SettledInv
  BY InitDispatch DEF OnceInv
<1>1. NoEntry.request = Nobody
  BY DEF NoEntry
<1>2. /\ worker = NoWorker /\ net = {} /\ disk = mem /\ \A s \in Sessions : mem[s] = NoEntry
      /\ \A r \in Requests : reply[r] = "none" /\ launch[r] = "none"
  BY DEF Init
<1>3. \A r \in Requests, s \in Sessions : ~Known(s, r)
  BY <1>2 DEF Known, NoEntry
<1> QED BY <1>1, <1>2, <1>3 DEF SettledInv

(* The instance Once moves as this module does, without repetition.        *)
LEMMA OnceMoves == Once!Next => OnceStep
<1>1. ASSUME NEW r \in Requests, Once!Lose(r) \/ Once!AcceptAgain(r) \/ Once!Refuse(r)
                                 \/ Once!Accept(r) \/ Once!AcceptFails(r)
      PROVE  /\ net' = net \ {r}
             /\ Lose(r) \/ AcceptAgain(r) \/ Refuse(r) \/ Accept(r) \/ AcceptFails(r)
  BY <1>1 DEF Once!Lose, Once!AcceptAgain, Once!Refuse, Once!Accept, Once!AcceptFails, Once!Arrives,
              Lose, AcceptAgain, Refuse, Accept, AcceptFails, Arrives, Once!Known, Known,
              Once!api, api, Once!runner, runner, Once!Reserved, Reserved, Once!NoWorker, NoWorker
<1>2. Once!ServiceStep => ServiceStep
  <2>1. ASSUME NEW s \in Sessions PROVE Once!PollBegin(s) => PollBegin(s)
    BY DEF Once!PollBegin, PollBegin, Once!NoPoll, NoPoll, Once!NoWorker, NoWorker, Once!NoRead, NoRead,
           Once!NoEntry, NoEntry, Once!ToSet, ToSet
  <2>2. ASSUME NEW s \in Sessions PROVE Once!PollEnd(s) => PollEnd(s)
    BY DEF Once!PollEnd, PollEnd, Once!NoPoll, NoPoll, Once!NoRead, NoRead, Once!NoEntry, NoEntry,
           Once!Answers, Answers, Once!StateRead, StateRead, Once!Recorded, Recorded, Once!runner, runner
  <2>3. ASSUME NEW s \in Sessions, NEW r \in Requests PROVE Once!Message(s, r) => Message(s, r)
    BY DEF Once!Message, Message, Once!RowFree, RowFree, Once!runner, runner
  <2>4. ASSUME NEW r \in Requests
        PROVE  Once!Submit(r) \/ Once!LocalFailure(r) \/ Once!Refused(r) \/ Once!Unanswered(r)
                 => Submit(r) \/ LocalFailure(r) \/ Refused(r) \/ Unanswered(r)
    BY DEF Once!Submit, Submit, Once!LocalFailure, LocalFailure, Once!Refused, Refused,
           Once!Unanswered, Unanswered, Once!Fail, Fail, Once!Current, Current, Once!RowFree, RowFree,
           Once!runner, runner
  <2>5. Once!PollFail \/ Once!ServiceCrash => PollFail \/ ServiceCrash
    BY DEF Once!PollFail, PollFail, Once!ServiceCrash, ServiceCrash, Once!NoPoll, NoPoll, Once!runner, runner
  <2> QED BY <2>1, <2>2, <2>3, <2>4, <2>5 DEF Once!ServiceStep, ServiceStep
<1>3. Once!RunnerStep => RunnerStep
  <2>1. Once!HistoryEnd => HistoryEnd
    BY DEF Once!HistoryEnd, HistoryEnd, Once!NoRead, NoRead, Once!NoEntry, NoEntry, Once!Undisturbed,
           Undisturbed, Once!NoWorker, NoWorker, Once!api, api
  <2>2. Once!OpenThread \/ Once!StartTurn \/ Once!NameTurn => OpenThread \/ StartTurn \/ NameTurn
    BY DEF Once!OpenThread, OpenThread, Once!StartTurn, StartTurn, Once!NameTurn, NameTurn,
           Once!NoRead, NoRead, Once!NoEntry, NoEntry, Once!api, api
  <2>3. Once!RunnerCrash => RunnerCrash
    BY DEF Once!RunnerCrash, RunnerCrash, Once!NoRead, NoRead, Once!NoEntry, NoEntry,
           Once!NoWorker, NoWorker, Once!api, api
  <2>4. ASSUME NEW state \in {"idle", "failed"}, NEW reads \in BOOLEAN
        PROVE  Once!EndTurn(state, reads) => EndTurn(state, reads)
    BY DEF Once!EndTurn, EndTurn, Once!NoRead, NoRead, Once!NoEntry, NoEntry, Once!api, api,
           Once!ToSet, ToSet
  <2>5. ASSUME NEW saves \in BOOLEAN PROVE Once!Release(saves) => Release(saves)
    BY DEF Once!Release, Release, Once!NoWorker, NoWorker, Once!api, api
  <2> QED BY <2>1, <2>2, <2>3, <2>4, <2>5 DEF Once!RunnerStep, RunnerStep
<1> QED BY <1>1, <1>2, <1>3 DEF Once!Next, Once!NetworkStep, OnceStep

(* Next itself makes no other step when nothing is delivered again.        *)
LEMMA NoDuplicates == Next /\ ~Duplicates => OnceStep
  BY DEF Next, NetworkStep, OnceStep, Lose, AcceptAgain, Refuse, Accept, AcceptFails, Arrives

(* A conversation that shows an outcome has no work left, if the network   *)
(* does not deliver a submission again (TurnDispatch.SettledIsSettled).    *)
THEOREM OutcomesSettle == Spec /\ ~Duplicates => []SettledIsSettled
<1>1. Init /\ ~Duplicates => OnceInv /\ ~Duplicates
  BY InitOnce
<1>2. (OnceInv /\ ~Duplicates) /\ [Next]_vars => (OnceInv /\ ~Duplicates)'
  BY NoDuplicates, OnceStepKeeps
<1> QED BY <1>1, <1>2, SettledFollows, PTL DEF Spec

-----------------------------------------------------------------------------
(* ModelQuarantine: what is shown of refused turns.                        *)

(* A turn is behind the boundary, nobody vouched for it, and if it is in   *)
(* the record it is marked.                                                *)
HeldBack(e, t) ==
  /\ e.base # Answer!NoBase /\ t \notin e.base /\ t \notin e.verified
  /\ t \in e.turns => t \in e.mismatch

(* An entry speaks of turns of the native history; behind its boundary it  *)
(* shows only what was vouched for; what was refused is held back.         *)
EntryHolds(e) ==
  /\ e \in Answer!Entries /\ e.cur \in 0..(next - 1)
  /\ e.turns \cup e.mismatch \cup e.verified \subseteq orig
  /\ e.base = Answer!NoBase => e.verified = {} /\ e.mismatch = {}
  /\ e.base # Answer!NoBase => e.base \subseteq orig /\ Answer!Shown(e) \subseteq e.base \cup e.verified
  /\ e.error = "model" => e.base # Answer!NoBase
  /\ e.error = "model" /\ e.cur # 0 => HeldBack(e, e.cur)
  /\ \A t \in caught : HeldBack(e, t)

(* The turn of the worker is new: no record knows it yet.                  *)
NewTurn(e) ==
  /\ e.cur = next - 1 /\ e.cur # 0 /\ e.error = "none"
  /\ e.cur \notin e.turns \cup e.mismatch \cup e.verified \cup e.base \cup caught

AnswerFlags ==
  /\ {up, active, blocked, noted} \subseteq BOOLEAN
  /\ up => active
  /\ blocked = noted
  /\ serving # "none" => up

AnswerWorker ==
  /\ bad \subseteq Answer!Turns /\ next \in 1..(MaxTurn + 1) /\ orig \subseteq 1..(next - 1)
  /\ caught \subseteq 1..(next - 1)
  /\ serving \in {"none", "resume", "sent", "named", "completed", "failed", "ends"}
  /\ reading \in {"no", "in flight", "overtaken"}
  /\ reading = "in flight" => serving = "none"
  /\ serving # "none" => entry.state \in {"running", "idle", "failed"}
  /\ serving = "resume" => entry.cur = 0 /\ entry.error = "none" /\ next <= MaxTurn
  /\ serving \in {"sent", "named", "completed"} => NewTurn(entry)
  /\ serving \in {"named", "completed"} => entry.cur \in orig
  /\ serving \in {"resume", "sent", "named"} => entry.state = "running"
  /\ serving = "failed" => entry.state = "failed"
  /\ serving = "ends" /\ entry.state = "idle" => entry.cur \in Answer!Shown(entry)

AnswerInv == AnswerFlags /\ AnswerWorker /\ EntryHolds(entry) /\ EntryHolds(saved)

LEMMA AnswerAssumption == MaxTurn \in Nat \ {0}
  BY PartsAssumption DEF Answer!QuarantineAssumption

LEMMA EarlierTurns ==
  ASSUME AnswerInv
  PROVE  1..(next - 1) \subseteq Answer!Turns /\ 0 \notin Answer!Turns /\ next \in Nat \ {0} /\ next <= MaxTurn + 1
<1>1. next \in 1..(MaxTurn + 1)
  BY DEF AnswerInv, AnswerWorker
<1> QED BY <1>1, AnswerAssumption DEF Answer!Turns

LEMMA AnswerFollows ==
  AnswerInv => Answer!TypeOK /\ Answer!QuarantineHolds /\ Answer!CompletedIsShown
<1> SUFFICES ASSUME AnswerInv PROVE Answer!TypeOK /\ Answer!QuarantineHolds /\ Answer!CompletedIsShown
  OBVIOUS
<1>1. caught \subseteq Answer!Turns
  BY EarlierTurns DEF AnswerInv, AnswerWorker
<1>2. Answer!TypeOK
  BY <1>1 DEF AnswerInv, AnswerFlags, AnswerWorker, EntryHolds, Answer!TypeOK
<1>3. Answer!QuarantineHolds
  BY DEF AnswerInv, EntryHolds, HeldBack, Answer!QuarantineHolds, Answer!Shown
<1>4. Answer!CompletedIsShown
  BY DEF AnswerInv, AnswerWorker, Answer!CompletedIsShown
<1> QED BY <1>2, <1>3, <1>4

(* The projection holds back what it held back, and more history shows no  *)
(* less of what was shown.                                                 *)
LEMMA ProjectionHolds ==
  ASSUME AnswerInv, NEW t \in {0, entry.cur},
         t # 0 => serving = "completed"
  PROVE  /\ EntryHolds(Answer!Stored(entry, t, orig))
         /\ Answer!Stored(entry, t, orig).state = entry.state
         /\ Answer!Stored(entry, t, orig).error = entry.error
         /\ Answer!Stored(entry, t, orig).cur = entry.cur
         /\ Answer!Shown(entry) \subseteq Answer!Shown(Answer!Stored(entry, t, orig))
         /\ t # 0 => t \in Answer!Shown(Answer!Stored(entry, t, orig))
<1> DEFINE f == Answer!Stored(entry, t, orig)
           verified == entry.verified \cup Answer!Vouched(entry, t, orig)
           mismatch == entry.mismatch \cup (orig \ (entry.base \cup verified))
<1>1. /\ entry \in Answer!Entries /\ orig \subseteq Answer!Turns
      /\ entry.turns \cup entry.mismatch \cup entry.verified \subseteq orig /\ entry.cur \in 0..(next - 1)
  <2>1. orig \subseteq Answer!Turns
    BY EarlierTurns DEF AnswerInv, AnswerWorker
  <2> QED BY <2>1 DEF AnswerInv, EntryHolds
<1>2. t # 0 => t \in orig /\ NewTurn(entry) /\ t = entry.cur
  BY DEF AnswerInv, AnswerWorker
<1>3. Answer!Base(entry) = entry.base
  BY DEF Answer!Base, AnswerInv, EntryHolds
<1>4. CASE entry.base = Answer!NoBase
  <2>1. f = [entry EXCEPT !.turns = orig]
    BY <1>3, <1>4 DEF Answer!Stored
  <2>2. /\ f \in Answer!Entries /\ f.turns = orig /\ f.state = entry.state /\ f.error = entry.error /\ f.cur = entry.cur
        /\ f.base = entry.base /\ f.verified = entry.verified /\ f.mismatch = entry.mismatch
    BY <1>1, <2>1 DEF Answer!Entries
  <2> HIDE DEF f
  <2>3. entry.mismatch = {} /\ entry.error # "model" /\ caught = {} /\ entry.verified = {}
    BY <1>4 DEF AnswerInv, EntryHolds, HeldBack
  <2> QED BY <1>1, <1>2, <1>4, <2>2, <2>3 DEF EntryHolds, Answer!Shown, f
<1>5. CASE entry.base # Answer!NoBase
  <2>1. f = [entry EXCEPT !.turns = orig, !.base = entry.base, !.verified = verified, !.mismatch = mismatch]
    BY <1>3, <1>5 DEF Answer!Stored
  <2>2. verified \subseteq orig /\ mismatch \subseteq orig
    BY <1>1, <1>2 DEF Answer!Vouched
  <2>3. /\ f \in Answer!Entries /\ f.turns = orig /\ f.state = entry.state /\ f.error = entry.error /\ f.cur = entry.cur
        /\ f.base = entry.base /\ f.verified = verified /\ f.mismatch = mismatch
    <3> HIDE DEF verified, mismatch
    <3> QED BY <1>1, <2>1, <2>2 DEF Answer!Entries
  <2>4. Answer!Shown(entry) \subseteq entry.base \cup entry.verified /\ entry.base \subseteq orig
    BY <1>5 DEF AnswerInv, EntryHolds
  <2> HIDE DEF f
  <2>5. Answer!Shown(f) \subseteq f.base \cup f.verified
    BY <2>3 DEF Answer!Shown
  <2>6. /\ Answer!Shown(entry) \subseteq Answer!Shown(f)
        /\ t # 0 => t \in Answer!Shown(f)
    BY <1>1, <1>2, <2>3, <2>4 DEF Answer!Shown, Answer!Vouched, NewTurn
  <2>7. \A u : HeldBack(entry, u) /\ (t # 0 => u # t) => HeldBack(f, u)
    BY <2>3 DEF HeldBack, Answer!Vouched
  <2>8. /\ t # 0 => entry.error # "model" /\ t \notin caught
        /\ entry.error = "model" /\ entry.cur # 0 => HeldBack(entry, entry.cur)
        /\ \A u \in caught : HeldBack(entry, u)
    BY <1>2 DEF AnswerInv, EntryHolds, NewTurn
  <2>9. EntryHolds(f)
    BY <1>1, <1>5, <2>2, <2>3, <2>4, <2>5, <2>7, <2>8 DEF EntryHolds
  <2> QED BY <2>3, <2>6, <2>9 DEF f
<1> QED BY <1>4, <1>5

-----------------------------------------------------------------------------
(* What every action of ModelQuarantine leaves true.                       *)

(* An entry goes on holding while the history grows.                       *)
LEMMA MoreHistory ==
  ASSUME NEW e, EntryHolds(e), orig \subseteq orig', caught' = caught, next \in Nat, next' \in {next, next + 1}
  PROVE  EntryHolds(e)'
<1>1. e.cur \in 0..(next' - 1)
  BY DEF EntryHolds
<1> QED BY <1>1 DEF EntryHolds, HeldBack, Answer!Entries, Answer!Turns, Answer!NoBase, Answer!Shown

(* So does one whose record stays and that has no error of the model.      *)
LEMMA SameRecord ==
  ASSUME NEW e, EntryHolds(e), NEW f \in Answer!Entries,
         f.turns = e.turns, f.mismatch = e.mismatch, f.verified = e.verified, f.base = e.base,
         f.error # "model" \/ (f.error = e.error /\ f.cur = e.cur), f.cur \in 0..(next - 1)
  PROVE  EntryHolds(f)
  BY DEF EntryHolds, HeldBack, Answer!Shown

(* And the entry that is written, or that its write missed.                *)
LEMMA SavedHolds ==
  ASSUME AnswerInv, EntryHolds(entry'), orig' = orig, next' = next, Answer!Save
  PROVE  EntryHolds(entry)' /\ EntryHolds(saved)' /\ caught' \subseteq 1..(next - 1)
<1>1. caught \subseteq 1..(next - 1) /\ EntryHolds(saved)
  BY DEF AnswerInv, AnswerWorker
<1>2. CASE UNCHANGED << saved, caught >>
  BY <1>1, <1>2 DEF EntryHolds, HeldBack, Answer!Entries, Answer!Turns, Answer!NoBase, Answer!Shown
<1>3. CASE /\ saved' = entry'
           /\ caught' = IF entry'.error = "model" THEN caught \cup ({entry'.cur} \ {0}) ELSE caught
  <2>1. entry'.cur \in 0..(next - 1)
    BY DEF EntryHolds
  <2>2. entry'.cur # 0 => entry'.cur \in 1..(next - 1)
    BY <2>1, EarlierTurns
  <2>3. caught' \subseteq 1..(next - 1)
    BY <1>1, <1>3, <2>2
  <2>4. EntryHolds(entry)'
    BY <1>3 DEF EntryHolds, HeldBack, Answer!Entries, Answer!Turns, Answer!NoBase, Answer!Shown
  <2>5. EntryHolds(saved)'
    BY <1>3, <2>4 DEF EntryHolds, HeldBack, Answer!Entries, Answer!Turns, Answer!NoBase, Answer!Shown
  <2> QED BY <2>3, <2>4, <2>5
<1> QED BY <1>2, <1>3 DEF Answer!Save

(* What is unsaved leaves what was saved.                                  *)
LEMMA UnsavedHolds ==
  ASSUME AnswerInv, EntryHolds(entry'), orig' = orig, next' = next, caught' = caught,
         saved' = saved \/ EntryHolds(saved')
  PROVE  EntryHolds(entry)' /\ EntryHolds(saved)'
<1>1. EntryHolds(saved')
  BY DEF AnswerInv
<1> QED BY <1>1 DEF EntryHolds, HeldBack, Answer!Entries, Answer!Turns, Answer!NoBase, Answer!Shown

LEMMA TurnAppearsAnswers ==
  ASSUME AnswerInv, Answer!TurnAppears PROVE AnswerInv'
<1>1. orig \subseteq orig' /\ orig' \subseteq 1..(next - 1)
  BY DEF Answer!TurnAppears, AnswerInv, AnswerWorker
<1>2. next \in Nat
  BY EarlierTurns
<1>3. EntryHolds(entry)' /\ EntryHolds(saved)'
  <2>1. EntryHolds(entry) /\ EntryHolds(saved) /\ UNCHANGED << entry, saved, next, caught >>
    BY DEF AnswerInv, Answer!TurnAppears
  <2> QED BY <1>1, <1>2, <2>1, MoreHistory DEF EntryHolds, HeldBack, Answer!Entries, Answer!Turns, Answer!NoBase, Answer!Shown
<1> QED BY <1>1, <1>3 DEF Answer!TurnAppears, AnswerInv, AnswerFlags, AnswerWorker, NewTurn, Answer!Shown, Answer!Turns

LEMMA AcceptAnswers ==
  ASSUME AnswerInv, Answer!Accept PROVE AnswerInv'
<1> DEFINE e == [entry EXCEPT !.state = "running", !.error = "none", !.cur = 0]
<1>1. next \in Nat \ {0} /\ entry \in Answer!Entries
  BY EarlierTurns DEF AnswerInv, EntryHolds
<1>0. 0 \in 0..MaxTurn /\ 0 \in 0..(next - 1)
  BY AnswerAssumption, <1>1
<1>2. /\ e \in Answer!Entries /\ e.turns = entry.turns /\ e.mismatch = entry.mismatch
      /\ e.verified = entry.verified /\ e.base = entry.base /\ e.error = "none" /\ e.cur = 0 /\ e.state = "running"
  BY <1>0, <1>1 DEF Answer!Entries
<1>3. entry' = e /\ saved' = e
  BY DEF Answer!Accept, Answer!Carried
<1> HIDE DEF e
<1>4. EntryHolds(e)
  BY <1>0, <1>1, <1>2, SameRecord DEF AnswerInv
<1>5. EntryHolds(entry)' /\ EntryHolds(saved)'
  BY <1>3, <1>4, UnsavedHolds DEF Answer!Accept, Answer!native
<1> QED BY <1>2, <1>3, <1>5 DEF Answer!Accept, Answer!native, AnswerInv, AnswerFlags, AnswerWorker, Answer!Turns

(* turn/start makes the next turn the worker's: a new one.                 *)
LEMMA SendTurnAnswers ==
  ASSUME AnswerInv, Answer!SendTurn PROVE AnswerInv'
<1> DEFINE e == [entry EXCEPT !.cur = next]
<1>1. next \in Nat \ {0} /\ entry \in Answer!Entries /\ EntryHolds(entry) /\ 0 \notin Answer!Turns
  BY EarlierTurns DEF AnswerInv, EntryHolds
<1>2. next <= MaxTurn /\ next' = next + 1 /\ orig' = orig /\ caught' = caught
  BY DEF Answer!SendTurn, AnswerInv, AnswerWorker
<1>3. /\ e \in Answer!Entries /\ e.turns = entry.turns /\ e.mismatch = entry.mismatch /\ e.state = entry.state
      /\ e.verified = entry.verified /\ e.base = entry.base /\ e.error = entry.error /\ e.cur = next
  <2>1. next \in 0..MaxTurn
    BY <1>1, <1>2, AnswerAssumption
  <2> QED BY <1>1, <2>1 DEF Answer!Entries
<1>4. entry' = e /\ saved' = entry
  BY DEF Answer!SendTurn
<1> HIDE DEF e
<1>5. entry.error = "none"
  BY DEF Answer!SendTurn, AnswerInv, AnswerWorker
<1>6. EntryHolds(entry)'
  <2>1. next \in 0..(next' - 1)
    BY <1>1, <1>2
  <2> QED BY <1>1, <1>2, <1>3, <1>4, <1>5, <2>1
       DEF EntryHolds, HeldBack, Answer!Entries, Answer!Turns, Answer!NoBase, Answer!Shown
<1>7. EntryHolds(saved)'
  <2>1. next' \in {next, next + 1} /\ orig \subseteq orig'
    BY <1>2
  <2>2. EntryHolds(entry)
    BY <1>1
  <2>3. entry.cur \in 0..(next' - 1)
    BY <1>1, <1>2 DEF EntryHolds
  <2> QED BY <1>2, <1>4, <2>2, <2>3 DEF EntryHolds, HeldBack, Answer!Entries, Answer!Turns, Answer!NoBase, Answer!Shown
<1>8. next \notin orig \cup caught
  <2>1. next \notin 1..(next - 1)
    BY <1>1
  <2> QED BY <2>1 DEF AnswerInv, AnswerWorker
<1>9. NewTurn(entry)'
  <2>1. next' - 1 = next
    BY <1>1, <1>2
  <2> QED BY <1>1, <1>2, <1>3, <1>4, <1>5, <1>8, <2>1 DEF NewTurn, EntryHolds, Answer!NoBase
<1>10. next' \in 1..(MaxTurn + 1) /\ orig' \subseteq 1..(next' - 1) /\ caught' \subseteq 1..(next' - 1)
  <2>1. 1..(next - 1) \subseteq 1..(next' - 1)
    BY <1>1, <1>2
  <2>2. orig \subseteq 1..(next - 1) /\ caught \subseteq 1..(next - 1)
    BY DEF AnswerInv, AnswerWorker
  <2>3. next' \in 1..(MaxTurn + 1)
    BY <1>1, <1>2, AnswerAssumption
  <2> QED BY <1>2, <2>1, <2>2, <2>3
<1>11. UNCHANGED << bad, reading, up, active, blocked, noted >> /\ serving = "resume" /\ serving' = "sent" /\ reading = "no"
  BY DEF Answer!SendTurn
<1>12. AnswerWorker'
  BY <1>3, <1>4, <1>9, <1>10, <1>11 DEF AnswerInv, AnswerWorker, Answer!Turns
<1> QED BY <1>6, <1>7, <1>11, <1>12 DEF AnswerInv, AnswerFlags

LEMMA NamedAnswers ==
  ASSUME AnswerInv, Answer!Named PROVE AnswerInv'
<1>1. EntryHolds(entry) /\ UNCHANGED << orig, next, caught, bad, entry, reading, up, active, blocked, noted >>
  BY DEF Answer!Named, Answer!native, AnswerInv
<1>2. saved' = entry /\ serving = "sent" /\ serving' = "named" /\ entry.cur \in orig
  BY DEF Answer!Named
<1>3. EntryHolds(entry)' /\ EntryHolds(saved)'
  BY <1>1, <1>2, UnsavedHolds
<1>4. AnswerWorker'
  BY <1>1, <1>2 DEF AnswerInv, AnswerWorker, NewTurn, Answer!Turns
<1> QED BY <1>1, <1>2, <1>3, <1>4 DEF AnswerInv, AnswerFlags

LEMMA CompletesAnswers ==
  ASSUME AnswerInv, Answer!Completes PROVE AnswerInv'
<1> DEFINE e == [entry EXCEPT !.state = "idle"]
<1>1. EntryHolds(entry) /\ UNCHANGED << orig, next, caught, bad, saved, reading, up, active, blocked, noted >>
  BY DEF Answer!Completes, Answer!Unsaved, Answer!native, AnswerInv
<1>2. entry' = e /\ serving = "named" /\ serving' = "completed"
  BY DEF Answer!Completes
<1>3. entry \in Answer!Entries /\ entry.cur \in 0..(next - 1)
  BY <1>1 DEF EntryHolds
<1>4. /\ e \in Answer!Entries /\ e.turns = entry.turns /\ e.mismatch = entry.mismatch /\ e.state = "idle"
      /\ e.verified = entry.verified /\ e.base = entry.base /\ e.error = entry.error /\ e.cur = entry.cur
  BY <1>3 DEF Answer!Entries
<1> HIDE DEF e
<1>5. EntryHolds(e)
  BY <1>1, <1>3, <1>4, SameRecord
<1>6. EntryHolds(entry)' /\ EntryHolds(saved)'
  BY <1>1, <1>2, <1>5, UnsavedHolds
<1>7. NewTurn(entry)'
  BY <1>1, <1>2, <1>4 DEF NewTurn, AnswerInv, AnswerWorker
<1>8. AnswerWorker'
  BY <1>1, <1>2, <1>4, <1>7 DEF AnswerInv, AnswerWorker, Answer!Turns
<1> QED BY <1>1, <1>2, <1>6, <1>8 DEF AnswerInv, AnswerFlags

(* A refused turn is behind the boundary that its refusal draws.           *)
LEMMA RefusedAnswers ==
  ASSUME AnswerInv, Answer!Refused
  PROVE  AnswerInv' /\ Answer!Shown(entry) \subseteq Answer!Shown(entry')
<1> DEFINE e == [entry EXCEPT !.state = "failed", !.error = "model"]
           q == Answer!Quarantined(e)
<1>1. EntryHolds(entry) /\ UNCHANGED << orig, next, caught, bad, saved, reading, up, active >>
  BY DEF Answer!Refused, Answer!Unsaved, Answer!native, AnswerInv
<1>2. entry' = q /\ serving \in {"resume", "sent", "named", "completed"} /\ serving' = "failed" /\ blocked' = TRUE /\ noted' = TRUE
  BY DEF Answer!Refused, Answer!Block
<1>3. entry \in Answer!Entries /\ entry.cur \in 0..(next - 1)
  BY <1>1 DEF EntryHolds
<1>4. /\ e \in Answer!Entries /\ e.turns = entry.turns /\ e.mismatch = entry.mismatch /\ e.state = "failed"
      /\ e.verified = entry.verified /\ e.base = entry.base /\ e.error = "model" /\ e.cur = entry.cur
  BY <1>3 DEF Answer!Entries
<1> HIDE DEF e
<1>5. /\ q \in Answer!Entries /\ q.turns = entry.turns /\ q.mismatch = entry.mismatch /\ q.state = "failed"
      /\ q.verified = entry.verified /\ q.error = "model" /\ q.cur = entry.cur
      /\ q.base = IF entry.base = Answer!NoBase THEN entry.turns ELSE entry.base
  <2>1. CASE e.base = Answer!NoBase
    <3>1. q = [e EXCEPT !.base = e.turns] /\ e.turns \in SUBSET Answer!Turns
      BY <1>4, <2>1 DEF Answer!Quarantined, Answer!Entries
    <3> QED BY <1>4, <2>1, <3>1 DEF Answer!Entries
  <2>2. CASE e.base # Answer!NoBase
    BY <1>4, <2>2 DEF Answer!Quarantined
  <2> QED BY <2>1, <2>2
<1> HIDE DEF q
<1>6. entry.cur # 0 => NewTurn(entry)
  BY <1>2 DEF AnswerInv, AnswerWorker
<1>7. q.base # Answer!NoBase /\ q.base \subseteq orig
  <2>1. 0 \notin entry.turns
    BY <1>3, EarlierTurns DEF Answer!Entries
  <2> QED BY <1>1, <1>5, <2>1 DEF EntryHolds, Answer!NoBase
<1>8. q.cur # 0 => HeldBack(q, q.cur)
  BY <1>5, <1>6, <1>7 DEF HeldBack, NewTurn
<1>9. \A t \in caught : HeldBack(q, t)
  BY <1>1, <1>5, <1>7 DEF HeldBack, EntryHolds
<1>10. EntryHolds(q)
  BY <1>1, <1>3, <1>5, <1>7, <1>8, <1>9 DEF EntryHolds, Answer!Shown
<1>11. EntryHolds(entry)' /\ EntryHolds(saved)'
  BY <1>1, <1>2, <1>10, UnsavedHolds
<1>12. AnswerWorker'
  BY <1>1, <1>2, <1>5 DEF AnswerInv, AnswerWorker, Answer!Turns
<1>13. AnswerFlags'
  BY <1>1, <1>2 DEF AnswerInv, AnswerFlags
<1> QED BY <1>2, <1>5, <1>11, <1>12, <1>13 DEF AnswerInv, Answer!Shown

LEMMA FailsOtherwiseAnswers ==
  ASSUME AnswerInv, Answer!FailsOtherwise
  PROVE  AnswerInv' /\ Answer!Shown(entry) \subseteq Answer!Shown(entry')
<1> DEFINE e == [entry EXCEPT !.state = "failed", !.error = "other"]
<1>1. EntryHolds(entry) /\ UNCHANGED << orig, next, caught, bad, saved, reading, up, active, blocked, noted >>
  BY DEF Answer!FailsOtherwise, Answer!Unsaved, Answer!native, AnswerInv
<1>2. entry' = e /\ serving \in {"resume", "sent", "named", "completed"} /\ serving' = "failed"
  BY DEF Answer!FailsOtherwise
<1>3. entry \in Answer!Entries /\ entry.cur \in 0..(next - 1)
  BY <1>1 DEF EntryHolds
<1>4. /\ e \in Answer!Entries /\ e.turns = entry.turns /\ e.mismatch = entry.mismatch /\ e.state = "failed"
      /\ e.verified = entry.verified /\ e.base = entry.base /\ e.error = "other" /\ e.cur = entry.cur
  BY <1>3 DEF Answer!Entries
<1> HIDE DEF e
<1>5. EntryHolds(e)
  BY <1>1, <1>3, <1>4, SameRecord
<1>6. EntryHolds(entry)' /\ EntryHolds(saved)'
  BY <1>1, <1>2, <1>5, UnsavedHolds
<1>7. AnswerWorker'
  BY <1>1, <1>2, <1>4 DEF AnswerInv, AnswerWorker, Answer!Turns
<1> QED BY <1>1, <1>2, <1>4, <1>6, <1>7 DEF AnswerInv, AnswerFlags, Answer!Shown

LEMMA ProjectsAnswers ==
  ASSUME AnswerInv, Answer!Projects
  PROVE  AnswerInv' /\ Answer!Shown(entry) \subseteq Answer!Shown(entry')
<1>1. EntryHolds(entry) /\ UNCHANGED << orig, next, caught, bad, saved, reading, up, active >>
  BY DEF Answer!Projects, Answer!Unsaved, Answer!native, AnswerInv
<1>2. PICK t \in {0, entry.cur} :
        /\ serving \in {"completed", "failed"} /\ serving' = "ends"
        /\ t # 0 => serving = "completed"
        /\ serving = "completed" => t = entry.cur
        /\ \/ entry' = Answer!Stored(entry, t, orig)
           \/ serving = "failed" /\ entry' = entry
  BY DEF Answer!Projects
<1>3. blocked' = noted' /\ {blocked', noted'} \subseteq BOOLEAN
  BY DEF Answer!Projects, Answer!Block, AnswerInv, AnswerFlags
<1>4. /\ EntryHolds(entry') /\ entry'.state = entry.state /\ entry'.cur = entry.cur
      /\ Answer!Shown(entry) \subseteq Answer!Shown(entry')
      /\ t # 0 => t \in Answer!Shown(entry')
  BY <1>1, <1>2, ProjectionHolds
<1>5. EntryHolds(entry)' /\ EntryHolds(saved)'
  BY <1>1, <1>4, UnsavedHolds
<1>6. serving = "completed" => t # 0
  BY <1>2 DEF AnswerInv, AnswerWorker, NewTurn
<1>7. serving = "failed" => entry.state = "failed"
  BY DEF AnswerInv, AnswerWorker
<1>8. entry.state \in {"running", "idle", "failed"}
  BY <1>1 DEF EntryHolds, Answer!Entries
<1>9. AnswerWorker'
  <2>1. serving' = "ends" /\ entry'.state = "idle" => entry'.cur \in Answer!Shown(entry)'
    BY <1>2, <1>4, <1>6, <1>7 DEF Answer!Shown
  <2> QED BY <1>1, <1>2, <1>4, <1>8, <2>1 DEF AnswerInv, AnswerWorker, Answer!Turns
<1>10. AnswerFlags'
  BY <1>1, <1>2, <1>3 DEF AnswerInv, AnswerFlags
<1> QED BY <1>4, <1>5, <1>9, <1>10 DEF AnswerInv

LEMMA EndsAnswers ==
  ASSUME AnswerInv, Answer!Ends PROVE AnswerInv'
<1>1. EntryHolds(entry) /\ UNCHANGED << orig, next, bad, entry, reading, up, active, blocked, noted >>
  BY DEF Answer!Ends, Answer!native, AnswerInv
<1>2. serving' = "none" /\ Answer!Save
  BY DEF Answer!Ends
<1>3. EntryHolds(entry)' /\ EntryHolds(saved)' /\ caught' \subseteq 1..(next - 1)
  BY <1>1, <1>2, SavedHolds
<1>4. AnswerWorker'
  BY <1>1, <1>2, <1>3 DEF AnswerInv, AnswerWorker, Answer!Turns
<1> QED BY <1>1, <1>2, <1>3, <1>4 DEF AnswerInv, AnswerFlags

LEMMA ReadEndsAnswers ==
  ASSUME AnswerInv, Answer!ReadEnds
  PROVE  AnswerInv' /\ Answer!Shown(entry) \subseteq Answer!Shown(entry')
<1>1. EntryHolds(entry) /\ UNCHANGED << orig, next, bad, serving, up, active >> /\ reading' = "no"
  BY DEF Answer!ReadEnds, Answer!native, AnswerInv
<1>2. blocked' = noted' /\ {blocked', noted'} \subseteq BOOLEAN
  <2>1. UNCHANGED << blocked, noted >> \/ Answer!Block
    BY DEF Answer!ReadEnds
  <2>2. blocked = noted /\ blocked \in BOOLEAN
    BY DEF AnswerInv, AnswerFlags
  <2> QED BY <2>1, <2>2 DEF Answer!Block
<1>3. AnswerFlags'
  BY <1>1, <1>2 DEF AnswerInv, AnswerFlags
<1>4. CASE reading = "in flight" /\ entry' = Answer!Stored(entry, 0, orig) /\ Answer!Save
  <2>1. EntryHolds(entry') /\ Answer!Shown(entry) \subseteq Answer!Shown(entry')
    BY <1>4, ProjectionHolds
  <2>2. EntryHolds(entry)' /\ EntryHolds(saved)' /\ caught' \subseteq 1..(next - 1)
    BY <1>1, <1>4, <2>1, SavedHolds
  <2>3. serving = "none" /\ serving' = "none"
    BY <1>1, <1>4 DEF AnswerInv, AnswerWorker
  <2>4. AnswerWorker'
    BY <1>1, <2>2, <2>3 DEF AnswerInv, AnswerWorker, Answer!Turns
  <2> QED BY <1>3, <2>1, <2>2, <2>4 DEF AnswerInv
<1>5. CASE entry' = entry /\ Answer!Unsaved
  <2>1. UNCHANGED << entry, saved, caught >>
    BY <1>5 DEF Answer!Unsaved
  <2>2. EntryHolds(entry)' /\ EntryHolds(saved)'
    BY <1>1, <2>1, UnsavedHolds
  <2>3. AnswerWorker'
    BY <1>1, <2>1 DEF AnswerInv, AnswerWorker, NewTurn, Answer!Turns, Answer!Shown
  <2> QED BY <1>3, <2>1, <2>2, <2>3 DEF AnswerInv
<1> QED BY <1>4, <1>5 DEF Answer!ReadEnds

LEMMA ReadBeginsAnswers ==
  ASSUME AnswerInv, Answer!ReadBegins PROVE AnswerInv'
<1>1. /\ UNCHANGED << bad, next, orig, entry, saved, serving, up, active, blocked, noted, caught >>
      /\ reading' = "in flight" /\ serving = "none"
  BY DEF Answer!ReadBegins, Answer!native
<1>2. EntryHolds(entry)' /\ EntryHolds(saved)'
  BY <1>1, UnsavedHolds DEF AnswerInv
<1>3. AnswerWorker'
  BY <1>1 DEF AnswerInv, AnswerWorker, Answer!Turns
<1> QED BY <1>1, <1>2, <1>3 DEF AnswerInv, AnswerFlags

(* Ends of the process, and an operator's release, leave the entry alone.  *)
LEMMA StopsAnswer ==
  ASSUME AnswerInv, Answer!ClosesCleanly \/ Answer!Crash \/ Answer!Release
  PROVE  AnswerInv' /\ ~(up /\ up')
<1>1. UNCHANGED << bad, next, orig, entry, saved, caught >> /\ serving' = "none" /\ ~up'
  <2>1. ~up => serving = "none"
    BY DEF AnswerInv, AnswerFlags
  <2> QED BY <2>1 DEF Answer!ClosesCleanly, Answer!Crash, Answer!Release, Answer!native
<1>2. blocked' = noted' /\ {up', active', blocked', noted'} \subseteq BOOLEAN
  <2>1. up' \in {up, FALSE} /\ active' \in {active, FALSE}
    BY DEF Answer!ClosesCleanly, Answer!Crash, Answer!Release
  <2>2. UNCHANGED << blocked, noted >> \/ (noted' = FALSE /\ blocked' = FALSE)
    BY DEF Answer!ClosesCleanly, Answer!Crash, Answer!Release
  <2>3. blocked = noted /\ blocked \in BOOLEAN /\ up \in BOOLEAN /\ active \in BOOLEAN
    BY DEF AnswerInv, AnswerFlags
  <2> QED BY <2>1, <2>2, <2>3
<1>3. reading' = "no" \/ reading' = reading
  BY DEF Answer!ClosesCleanly, Answer!Crash, Answer!Release
<1>4. EntryHolds(entry)' /\ EntryHolds(saved)'
  BY <1>1, UnsavedHolds DEF AnswerInv
<1>5. AnswerWorker'
  BY <1>1, <1>3 DEF AnswerInv, AnswerWorker, Answer!Turns
<1> QED BY <1>1, <1>2, <1>4, <1>5 DEF AnswerInv, AnswerFlags

(* A start takes up what was saved.                                        *)
LEMMA StartsAnswers ==
  ASSUME AnswerInv, Answer!Starts PROVE AnswerInv' /\ ~up
<1> DEFINE e == [saved EXCEPT !.state = IF saved.state = "running" THEN "failed" ELSE saved.state]
<1>1. EntryHolds(saved) /\ UNCHANGED << orig, next, caught, bad, serving, reading, noted >>
  BY DEF Answer!Starts, Answer!native, AnswerInv
<1>2. entry' = e /\ saved' = e /\ ~up /\ up' = TRUE /\ active' = TRUE /\ blocked' = noted
  BY DEF Answer!Starts
<1>3. saved \in Answer!Entries /\ saved.cur \in 0..(next - 1)
  BY <1>1 DEF EntryHolds
<1>4. /\ e \in Answer!Entries /\ e.turns = saved.turns /\ e.mismatch = saved.mismatch
      /\ e.verified = saved.verified /\ e.base = saved.base /\ e.error = saved.error /\ e.cur = saved.cur
  BY <1>3 DEF Answer!Entries
<1> HIDE DEF e
<1>5. EntryHolds(e)
  BY <1>1, <1>3, <1>4, SameRecord
<1>6. EntryHolds(entry)' /\ EntryHolds(saved)'
  BY <1>1, <1>2, <1>5, UnsavedHolds
<1>7. serving = "none" /\ serving' = "none"
  BY <1>1, <1>2 DEF AnswerInv, AnswerFlags
<1>8. AnswerWorker'
  BY <1>1, <1>2, <1>7 DEF AnswerInv, AnswerWorker, Answer!Turns
<1> QED BY <1>1, <1>2, <1>6, <1>7, <1>8 DEF AnswerInv, AnswerFlags

LEMMA AnswerRests == ASSUME AnswerInv, UNCHANGED answerVars PROVE AnswerInv'
<1>1. UNCHANGED << bad, next, orig, entry, saved, serving, reading, up, active, blocked, noted, caught >>
  BY DEF answerVars
<1>2. EntryHolds(entry)' /\ EntryHolds(saved)'
  BY <1>1, UnsavedHolds DEF AnswerInv
<1>3. AnswerWorker'
  BY <1>1 DEF AnswerInv, AnswerWorker, NewTurn, Answer!Shown, Answer!Turns
<1> QED BY <1>1, <1>2, <1>3 DEF AnswerInv, AnswerFlags

LEMMA AnswerStep ==
  ASSUME AnswerInv, Answer!Next \/ UNCHANGED answerVars
  PROVE  AnswerInv' /\ (up /\ up' => Answer!Shown(entry) \subseteq Answer!Shown(entry'))
<1>0. entry \in Answer!Entries
  BY DEF AnswerInv, EntryHolds
<1>1. CASE Answer!TurnAppears \/ Answer!Named \/ Answer!Ends \/ Answer!ReadBegins
  BY <1>1, TurnAppearsAnswers, NamedAnswers, EndsAnswers, ReadBeginsAnswers
     DEF Answer!TurnAppears, Answer!Named, Answer!Ends, Answer!ReadBegins
<1>2. CASE Answer!Accept
  <2>1. entry'.turns = entry.turns /\ entry'.mismatch = entry.mismatch
    BY <1>0, <1>2 DEF Answer!Accept, Answer!Carried, Answer!Entries
  <2> QED BY <1>2, <2>1, AcceptAnswers DEF Answer!Shown
<1>3. CASE Answer!SendTurn
  <2>1. entry'.turns = entry.turns /\ entry'.mismatch = entry.mismatch
    BY <1>0, <1>3 DEF Answer!SendTurn, Answer!Entries
  <2> QED BY <1>3, <2>1, SendTurnAnswers DEF Answer!Shown
<1>4. CASE Answer!Completes
  <2>1. entry'.turns = entry.turns /\ entry'.mismatch = entry.mismatch
    BY <1>0, <1>4 DEF Answer!Completes, Answer!Entries
  <2> QED BY <1>4, <2>1, CompletesAnswers DEF Answer!Shown
<1>5. CASE Answer!Refused \/ Answer!FailsOtherwise \/ Answer!Projects \/ Answer!ReadEnds
  BY <1>5, RefusedAnswers, FailsOtherwiseAnswers, ProjectsAnswers, ReadEndsAnswers
<1>6. CASE Answer!ClosesCleanly \/ Answer!Crash \/ Answer!Release \/ Answer!Starts
  BY <1>6, StopsAnswer, StartsAnswers
<1>7. CASE Answer!Wedged \/ UNCHANGED answerVars
  <2>1. UNCHANGED answerVars
    BY <1>7 DEF Answer!Wedged, Answer!vars, answerVars
  <2> QED BY <2>1, AnswerRests DEF answerVars
<1> QED BY <1>1, <1>2, <1>3, <1>4, <1>5, <1>6, <1>7 DEF Answer!Next

LEMMA AnswerStarts == Answer!Init => AnswerInv
<1> SUFFICES ASSUME Answer!Init PROVE AnswerInv
  OBVIOUS
<1>1. next = 1 /\ orig = {} /\ caught = {} /\ entry = Answer!Fresh /\ saved = Answer!Fresh /\ serving = "none"
  BY DEF Answer!Init
<1>2. 1 \in 1..(MaxTurn + 1) /\ 0 \in 0..MaxTurn /\ 0 \in 0..(next - 1)
  BY <1>1, AnswerAssumption
<1>3. Answer!Fresh \in Answer!Entries
  BY <1>2 DEF Answer!Fresh, Answer!Entries
<1>4. EntryHolds(Answer!Fresh)
  BY <1>1, <1>2, <1>3 DEF EntryHolds, Answer!Fresh, Answer!NoBase, Answer!Shown
<1> QED BY <1>1, <1>2, <1>4 DEF AnswerInv, AnswerFlags, AnswerWorker, Answer!Init

-----------------------------------------------------------------------------
(* ShellLease: whose command runs in the executor.                         *)

Steps == {"idle", "asked", "authorizing", "authorized", "connected", "sent"}

Busy == { c \in Calls : call[c].at # "idle" }

Served == { c \in Calls : handler[c] # "none" }

ShellTyped ==
  /\ lease \in Command!Leases /\ given \in Command!Leases /\ lease \in {0, given}
  /\ call \in [Calls -> [ lease : Command!Leases, at : Steps ]]
  /\ conn \in [Calls -> {"none", "open", "shut"}]
  /\ handler \in [Calls -> {"none", "reading", "running", "cleaning", "replying"}]
  /\ procs \subseteq Calls /\ workspace \in Calls \cup {Command!Unlocked}

(* An open connection is that of a call that was compared and connected    *)
(* with the current lease, and before it connects a call has no handler.   *)
ConnectedCalls ==
  \A c \in Calls : /\ conn[c] = "open" => call[c].at \in {"connected", "sent"} /\ call[c].lease = lease
                   /\ call[c].at \in {"asked", "authorizing", "authorized"} => handler[c] = "none"

(* The workspace is held exactly while its handler runs or cleans, and     *)
(* nothing but its holder's processes is in the namespace.                 *)
WorkspaceHeld ==
  /\ \A c \in Calls : handler[c] \in {"running", "cleaning"} <=> workspace = c
  /\ procs \subseteq {workspace}

PoolsBounded == Cardinality(Busy) <= Slots /\ Cardinality(Served) <= Handlers

ShellInv == ShellTyped /\ ConnectedCalls /\ WorkspaceHeld /\ PoolsBounded

LEMMA ShellNumbers ==
  /\ MaxLease \in Nat /\ Slots \in Nat \ {0} /\ Handlers \in Nat \ {0}
  /\ IsFiniteSet(Calls) /\ Command!Unlocked \notin Calls
  BY PartsAssumption DEF Command!ShellAssumption, Command!IsFiniteSet, IsFiniteSet

(* The instance counts as this module does.                                *)
LEMMA SameCount == ASSUME NEW S PROVE Command!Cardinality(S) = Cardinality(S)
  BY DEF Command!Cardinality, Cardinality

LEMMA ShellFollows == ShellInv => Command!TypeOK /\ Command!OpenIsCurrent /\ Command!OneCommandAtATime
<1> SUFFICES ASSUME ShellInv PROVE Command!TypeOK /\ Command!OpenIsCurrent /\ Command!OneCommandAtATime
  OBVIOUS
<1>1. Command!TypeOK
  BY SameCount DEF ShellInv, ShellTyped, PoolsBounded, Busy, Served, Steps, Command!TypeOK
<1>2. Command!OpenIsCurrent
  BY DEF ShellInv, ConnectedCalls, Command!OpenIsCurrent
<1>3. procs = {} \/ procs = {workspace}
  BY DEF ShellInv, WorkspaceHeld
<1>4. Cardinality({}) = 0 /\ Cardinality({workspace}) = 1
  BY FS_EmptySet, FS_Singleton
<1>5. Cardinality(procs) <= 1
  BY <1>3, <1>4
<1> QED BY <1>1, <1>2, <1>3, <1>5, SameCount DEF Command!OneCommandAtATime

(* A pool that gets no new member stays within its bound, and one that had *)
(* room may take one.                                                      *)
LEMMA PoolStep ==
  ASSUME NEW S, NEW T, NEW c \in Calls, NEW bound \in Nat, S \subseteq Calls, Cardinality(S) <= bound,
         T \subseteq S \/ (T \subseteq S \cup {c} /\ Cardinality(S) < bound)
  PROVE  Cardinality(T) <= bound
<1>1. IsFiniteSet(S) /\ IsFiniteSet(S \cup {c})
  BY ShellNumbers, FS_Subset, FS_AddElement
<1>2. Cardinality(S) \in Nat /\ Cardinality(S \cup {c}) <= Cardinality(S) + 1 /\ Cardinality(S \cup {c}) \in Nat
  BY <1>1, FS_CardinalityType, FS_AddElement
<1>3. CASE T \subseteq S
  <2>1. Cardinality(T) <= Cardinality(S) /\ Cardinality(T) \in Nat
    BY <1>1, <1>3, FS_Subset, FS_CardinalityType
  <2> QED BY <1>2, <2>1
<1>4. CASE T \subseteq S \cup {c} /\ Cardinality(S) < bound
  <2>1. Cardinality(T) <= Cardinality(S \cup {c}) /\ Cardinality(T) \in Nat
    BY <1>1, <1>4, FS_Subset, FS_CardinalityType
  <2> QED BY <1>2, <1>4, <2>1
<1> QED BY <1>3, <1>4

LEMMA CallChanged ==
  ASSUME ShellTyped, NEW c \in Calls, NEW r \in [ lease : Command!Leases, at : Steps ],
         call' = [call EXCEPT ![c] = r]
  PROVE  /\ call' \in [Calls -> [ lease : Command!Leases, at : Steps ]] /\ call'[c] = r
         /\ \A d \in Calls : d # c => call'[d] = call[d]
  BY DEF ShellTyped

LEMMA ConnChanged ==
  ASSUME ShellTyped, NEW c \in Calls, NEW x \in {"none", "open", "shut"}, conn' = [conn EXCEPT ![c] = x]
  PROVE  /\ conn' \in [Calls -> {"none", "open", "shut"}] /\ conn'[c] = x
         /\ \A d \in Calls : d # c => conn'[d] = conn[d]
  BY DEF ShellTyped

LEMMA HandlerChanged ==
  ASSUME ShellTyped, NEW c \in Calls, NEW x \in {"none", "reading", "running", "cleaning", "replying"},
         handler' = [handler EXCEPT ![c] = x]
  PROVE  /\ handler' \in [Calls -> {"none", "reading", "running", "cleaning", "replying"}] /\ handler'[c] = x
         /\ \A d \in Calls : d # c => handler'[d] = handler[d]
  BY DEF ShellTyped

(* A call's step, and its end.                                             *)
LEMMA AtChanged ==
  ASSUME ShellTyped, NEW c \in Calls, NEW x \in Steps, Command!At(c, x)
  PROVE  /\ call' \in [Calls -> [ lease : Command!Leases, at : Steps ]]
         /\ call'[c].at = x /\ call'[c].lease = call[c].lease
         /\ \A d \in Calls : d # c => call'[d] = call[d]
<1> DEFINE r == [call[c] EXCEPT !.at = x]
<1>1. r \in [ lease : Command!Leases, at : Steps ] /\ r.at = x /\ r.lease = call[c].lease
  BY DEF ShellTyped
<1>2. call' = [call EXCEPT ![c] = r]
  BY DEF Command!At
<1> HIDE DEF r
<1> QED BY <1>1, <1>2, CallChanged

LEMMA EndedChanges ==
  ASSUME ShellTyped, NEW c \in Calls, Command!Ended(c)
  PROVE  /\ call' \in [Calls -> [ lease : Command!Leases, at : Steps ]] /\ call'[c].at = "idle"
         /\ \A d \in Calls : d # c => call'[d] = call[d] /\ conn'[d] = conn[d]
         /\ conn' \in [Calls -> {"none", "open", "shut"}] /\ conn'[c] # "open"
<1> DEFINE x == IF conn[c] = "none" THEN conn[c] ELSE "shut"
<1>1. Command!Idle \in [ lease : Command!Leases, at : Steps ] /\ Command!Idle.at = "idle"
  BY ShellNumbers DEF Command!Idle, Command!Leases, Steps
<1>2. call' = [call EXCEPT ![c] = Command!Idle] /\ conn' = [conn EXCEPT ![c] = x]
  BY DEF Command!Ended
<1>3. x \in {"none", "shut"}
  OBVIOUS
<1> HIDE DEF x
<1>4. /\ call' \in [Calls -> [ lease : Command!Leases, at : Steps ]] /\ call'[c] = Command!Idle
      /\ \A d \in Calls : d # c => call'[d] = call[d]
  BY <1>1, <1>2, CallChanged
<1>5. /\ conn' \in [Calls -> {"none", "open", "shut"}] /\ conn'[c] = x /\ \A d \in Calls : d # c => conn'[d] = conn[d]
  BY <1>2, <1>3, ConnChanged
<1> QED BY <1>1, <1>3, <1>4, <1>5

(* A step of the broker that takes up no new call and leaves the executor. *)
LEMMA CallMoves ==
  ASSUME ShellInv, NEW c \in Calls, UNCHANGED << lease, given, handler, procs, workspace >>,
         call' \in [Calls -> [ lease : Command!Leases, at : Steps ]], conn' \in [Calls -> {"none", "open", "shut"}],
         \A d \in Calls : d # c => call'[d] = call[d] /\ conn'[d] = conn[d],
         call[c].at # "idle",
         conn'[c] = "open" => call'[c].at \in {"connected", "sent"} /\ call'[c].lease = lease,
         call'[c].at \in {"asked", "authorizing", "authorized"} => handler[c] = "none"
  PROVE  ShellInv'
<1>1. ShellTyped'
  BY DEF ShellInv, ShellTyped
<1>2. ConnectedCalls'
  BY DEF ShellInv, ConnectedCalls
<1>3. WorkspaceHeld'
  BY DEF ShellInv, WorkspaceHeld
<1>4. Busy' \subseteq Busy /\ Busy \subseteq Calls /\ Served' = Served
  BY DEF Busy, Served
<1>5. PoolsBounded'
  BY <1>4, PoolStep, ShellNumbers DEF ShellInv, PoolsBounded
<1> QED BY <1>1, <1>2, <1>3, <1>5 DEF ShellInv

(* A step of the executor that takes up no new call and leaves the broker. *)
LEMMA HandlerMoves ==
  ASSUME ShellInv, NEW c \in Calls, UNCHANGED << lease, given, call >>, WorkspaceHeld',
         handler' \in [Calls -> {"none", "reading", "running", "cleaning", "replying"}],
         conn' \in [Calls -> {"none", "open", "shut"}],
         procs' \subseteq Calls, workspace' \in Calls \cup {Command!Unlocked},
         handler[c] # "none",
         \A d \in Calls : /\ d # c => handler'[d] = handler[d]
                          /\ conn'[d] = "open" => conn[d] = "open"
  PROVE  ShellInv'
<1>1. ShellTyped'
  BY DEF ShellInv, ShellTyped
<1>2. ConnectedCalls'
  BY DEF ShellInv, ConnectedCalls
<1>3. Served' \subseteq Served /\ Served \subseteq Calls /\ Busy' = Busy
  BY DEF Busy, Served
<1>4. PoolsBounded'
  BY <1>3, PoolStep, ShellNumbers DEF ShellInv, PoolsBounded
<1> QED BY <1>1, <1>2, <1>4 DEF ShellInv

(* A lease ends or begins: every connection is shut.                       *)
LEMMA LeaseSteps ==
  ASSUME ShellInv, Command!Revoke \/ Command!Activate PROVE ShellInv'
<1>1. /\ UNCHANGED << call, handler, procs, workspace >>
      /\ conn' = [c \in Calls |-> IF conn[c] = "open" THEN "shut" ELSE conn[c]]
  BY DEF Command!Revoke, Command!Activate, Command!executor, Command!ShutAll
<1>2. lease' \in Command!Leases /\ given' \in Command!Leases /\ lease' \in {0, given'}
  BY ShellNumbers DEF Command!Revoke, Command!Activate, Command!Leases, ShellInv, ShellTyped
<1>3. conn' \in [Calls -> {"none", "open", "shut"}] /\ \A c \in Calls : conn'[c] # "open"
  BY <1>1 DEF ShellInv, ShellTyped
<1>4. ShellTyped'
  BY <1>1, <1>2, <1>3 DEF ShellInv, ShellTyped
<1>5. ConnectedCalls' /\ WorkspaceHeld'
  BY <1>1, <1>3 DEF ShellInv, ConnectedCalls, WorkspaceHeld
<1>6. PoolsBounded'
  BY <1>1 DEF ShellInv, PoolsBounded, Busy, Served
<1> QED BY <1>4, <1>5, <1>6 DEF ShellInv

LEMMA ExecutorEndsStep ==
  ASSUME ShellInv, Command!ExecutorEnds PROVE ShellInv'
<1>1. /\ UNCHANGED << lease, given, call >> /\ procs' = {} /\ workspace' = Command!Unlocked
      /\ handler' = [c \in Calls |-> "none"]
      /\ conn' = [c \in Calls |-> IF conn[c] = "open" THEN "shut" ELSE "none"]
  BY DEF Command!ExecutorEnds, Command!broker
<1>2. conn' \in [Calls -> {"none", "open", "shut"}] /\ \A c \in Calls : conn'[c] # "open" /\ handler'[c] = "none"
  BY <1>1
<1>3. ShellTyped'
  BY <1>1, <1>2 DEF ShellInv, ShellTyped
<1>4. ConnectedCalls' /\ WorkspaceHeld'
  BY <1>1, <1>2, ShellNumbers DEF ConnectedCalls, WorkspaceHeld
<1>5. Served' = {} /\ Busy' = Busy
  BY <1>1, <1>2 DEF Served, Busy
<1>6. Cardinality({}) = 0
  BY FS_EmptySet
<1>7. PoolsBounded'
  BY <1>5, <1>6, ShellNumbers DEF ShellInv, PoolsBounded
<1> QED BY <1>3, <1>4, <1>7 DEF ShellInv

LEMMA AskStep ==
  ASSUME ShellInv, NEW c \in Calls, Command!Ask(c) PROVE ShellInv'
<1>1. call[c].at = "idle" /\ handler[c] = "none" /\ UNCHANGED << lease, given, conn, handler, procs, workspace >>
  BY DEF Command!Ask, Command!executor, Command!Idle
<1>2. Cardinality(Busy) < Slots
  BY SameCount DEF Command!Ask, Busy
<1>3. PICK l \in 1..given : call' = [call EXCEPT ![c] = [ lease |-> l, at |-> "asked" ]]
  BY DEF Command!Ask
<1>4. l \in Command!Leases
  BY ShellNumbers DEF ShellInv, ShellTyped, Command!Leases
<1>5. /\ call' \in [Calls -> [ lease : Command!Leases, at : Steps ]] /\ call'[c].at = "asked"
      /\ \A d \in Calls : d # c => call'[d] = call[d]
  <2> DEFINE r == [ lease |-> l, at |-> "asked" ]
  <2>1. r \in [ lease : Command!Leases, at : Steps ] /\ r.at = "asked" /\ call' = [call EXCEPT ![c] = r]
    BY <1>3, <1>4 DEF Steps
  <2> HIDE DEF r
  <2> QED BY <2>1, CallChanged DEF ShellInv
<1>6. ShellTyped'
  BY <1>1, <1>5 DEF ShellInv, ShellTyped
<1>7. ConnectedCalls'
  BY <1>1, <1>5 DEF ShellInv, ConnectedCalls
<1>8. WorkspaceHeld'
  BY <1>1 DEF ShellInv, WorkspaceHeld
<1>9. Busy' \subseteq Busy \cup {c} /\ Busy \subseteq Calls /\ Served' = Served
  BY <1>1, <1>5 DEF Busy, Served
<1>10. PoolsBounded'
  BY <1>2, <1>9, PoolStep, ShellNumbers DEF ShellInv, PoolsBounded
<1> QED BY <1>6, <1>7, <1>8, <1>10 DEF ShellInv

(* A call that ends has no open connection any more.                       *)
LEMMA EndedStep ==
  ASSUME ShellInv, NEW c \in Calls, call[c].at # "idle", Command!Ended(c),
         UNCHANGED << lease, given, handler, procs, workspace >>
  PROVE  ShellInv'
<1>1. ShellTyped
  BY DEF ShellInv
<1> QED BY <1>1, EndedChanges, CallMoves

LEMMA CompareStep ==
  ASSUME ShellInv, NEW c \in Calls, Command!Compare(c) \/ Command!Authorize(c) PROVE ShellInv'
<1>1. call[c].at \in {"asked", "authorizing"} /\ UNCHANGED << lease, given, handler, procs, workspace >>
  BY DEF Command!Compare, Command!Authorize, Command!executor
<1>2. CASE Command!Ended(c)
  BY <1>1, <1>2, EndedStep
<1>3. CASE conn' = conn /\ (Command!At(c, "authorizing") \/ Command!At(c, "authorized"))
  <2>1. handler[c] = "none" /\ conn[c] # "open" /\ ShellTyped
    BY <1>1 DEF ShellInv, ConnectedCalls
  <2>2. /\ call' \in [Calls -> [ lease : Command!Leases, at : Steps ]]
        /\ call'[c].at \in {"authorizing", "authorized"}
        /\ \A d \in Calls : d # c => call'[d] = call[d]
    BY <1>3, <2>1, AtChanged DEF Steps
  <2>3. conn' \in [Calls -> {"none", "open", "shut"}]
    BY <1>3 DEF ShellInv, ShellTyped
  <2> QED BY <1>1, <1>3, <2>1, <2>2, <2>3, CallMoves
<1> QED BY <1>2, <1>3 DEF Command!Compare, Command!Authorize

(* The lease is compared and the connection opened in one step.            *)
LEMMA ConnectStep ==
  ASSUME ShellInv, NEW c \in Calls, Command!Connect(c) PROVE ShellInv'
<1>1. call[c].at = "authorized" /\ UNCHANGED << lease, given, procs, workspace >> /\ handler[c] = "none" /\ ShellTyped
  BY DEF Command!Connect, ShellInv, ConnectedCalls
<1>2. CASE Command!Ended(c) /\ UNCHANGED handler
  BY <1>1, <1>2, EndedStep
<1>3. CASE /\ Command!StillHeld(c) /\ Command!Cardinality({ d \in Calls : handler[d] # "none" }) < Handlers
           /\ Command!At(c, "connected") /\ conn' = [conn EXCEPT ![c] = "open"]
           /\ handler' = [handler EXCEPT ![c] = "reading"]
  <2>1. call[c].lease = lease /\ Cardinality(Served) < Handlers
    BY <1>3, SameCount DEF Command!StillHeld, Served
  <2>2. /\ call' \in [Calls -> [ lease : Command!Leases, at : Steps ]]
        /\ call'[c].at = "connected" /\ call'[c].lease = lease
        /\ \A d \in Calls : d # c => call'[d] = call[d]
    BY <1>1, <1>3, <2>1, AtChanged DEF Steps
  <2>3. /\ conn' \in [Calls -> {"none", "open", "shut"}] /\ conn'[c] = "open"
        /\ \A d \in Calls : d # c => conn'[d] = conn[d]
    BY <1>1, <1>3, ConnChanged
  <2>4. /\ handler' \in [Calls -> {"none", "reading", "running", "cleaning", "replying"}] /\ handler'[c] = "reading"
        /\ \A d \in Calls : d # c => handler'[d] = handler[d]
    BY <1>1, <1>3, HandlerChanged
  <2>5. ShellTyped'
    BY <1>1, <2>2, <2>3, <2>4 DEF ShellTyped
  <2>6. ConnectedCalls'
    BY <1>1, <2>2, <2>3, <2>4 DEF ShellInv, ConnectedCalls
  <2>7. WorkspaceHeld'
    BY <1>1, <2>4 DEF ShellInv, WorkspaceHeld
  <2>8. Busy' \subseteq Busy /\ Busy \subseteq Calls /\ Served' \subseteq Served \cup {c} /\ Served \subseteq Calls
    BY <1>1, <2>2, <2>4 DEF Busy, Served
  <2>9. PoolsBounded'
    BY <2>1, <2>8, PoolStep, ShellNumbers DEF ShellInv, PoolsBounded
  <2> QED BY <2>5, <2>6, <2>7, <2>9 DEF ShellInv
<1> QED BY <1>2, <1>3 DEF Command!Connect

LEMMA SendCommandStep ==
  ASSUME ShellInv, NEW c \in Calls, Command!SendCommand(c) \/ Command!Answered(c) PROVE ShellInv'
<1>1. call[c].at \in {"connected", "sent"} /\ UNCHANGED << lease, given, handler, procs, workspace >>
  BY DEF Command!SendCommand, Command!Answered, Command!executor
<1>2. CASE Command!Ended(c)
  BY <1>1, <1>2, EndedStep
<1>3. CASE conn[c] = "open" /\ Command!At(c, "sent") /\ UNCHANGED conn
  <2>1. ShellTyped /\ call[c].lease = lease
    BY <1>3 DEF ShellInv, ConnectedCalls
  <2>2. /\ call' \in [Calls -> [ lease : Command!Leases, at : Steps ]]
        /\ call'[c].at = "sent" /\ call'[c].lease = lease
        /\ \A d \in Calls : d # c => call'[d] = call[d]
    BY <1>3, <2>1, AtChanged DEF Steps
  <2>3. conn' \in [Calls -> {"none", "open", "shut"}]
    BY <1>3 DEF ShellInv, ShellTyped
  <2> QED BY <1>1, <1>3, <2>1, <2>2, <2>3, CallMoves
<1> QED BY <1>2, <1>3 DEF Command!SendCommand, Command!Answered

LEMMA ExpiresStep ==
  ASSUME ShellInv, NEW c \in Calls, Command!Expires(c) PROVE ShellInv'
<1>1. conn[c] = "open" /\ conn' = [conn EXCEPT ![c] = "shut"] /\ UNCHANGED << lease, given, call, handler, procs, workspace >>
  BY DEF Command!Expires, Command!broker, Command!executor
<1>2. call[c].at \in {"connected", "sent"} /\ ShellTyped /\ call \in [Calls -> [ lease : Command!Leases, at : Steps ]]
  BY <1>1 DEF ShellInv, ConnectedCalls, ShellTyped
<1>3. /\ conn' \in [Calls -> {"none", "open", "shut"}] /\ conn'[c] = "shut"
      /\ \A d \in Calls : d # c => conn'[d] = conn[d]
  BY <1>1, <1>2, ConnChanged
<1> QED BY <1>1, <1>2, <1>3, CallMoves

(* The workspace is taken when nobody holds it and given up clean.         *)
LEMMA ExecutorStep ==
  ASSUME ShellInv, NEW c \in Calls, Command!Take(c) \/ Command!Stops(c) \/ Command!Clean(c) PROVE ShellInv'
<1>1. UNCHANGED << lease, given, call, conn >> /\ handler[c] # "none"
      /\ ShellTyped /\ conn' \in [Calls -> {"none", "open", "shut"}]
  BY DEF Command!Take, Command!Stops, Command!Clean, Command!broker, ShellInv, ShellTyped
<1>2. PICK x \in {"running", "replying", "cleaning"} : handler' = [handler EXCEPT ![c] = x]
  BY DEF Command!Take, Command!Stops, Command!Clean
<1>3. /\ handler' \in [Calls -> {"none", "reading", "running", "cleaning", "replying"}] /\ handler'[c] = x
      /\ \A d \in Calls : d # c => handler'[d] = handler[d]
  BY <1>1, <1>2, HandlerChanged
<1>4. /\ procs' \subseteq Calls /\ workspace' \in Calls \cup {Command!Unlocked}
      /\ WorkspaceHeld'
  <2>1. CASE /\ handler[c] = "reading" /\ workspace = Command!Unlocked
             /\ workspace' = c /\ procs' = procs \cup {c} /\ handler' = [handler EXCEPT ![c] = "running"]
    <3>1. procs = {} /\ x = "running"
      BY <1>1, <1>3, <2>1, ShellNumbers DEF ShellInv, ShellTyped, WorkspaceHeld
    <3> QED BY <1>3, <2>1, <3>1, ShellNumbers DEF ShellInv, ShellTyped, WorkspaceHeld
  <2>2. CASE handler[c] = "reading" /\ handler' = [handler EXCEPT ![c] = "replying"] /\ UNCHANGED << procs, workspace >>
    <3>1. x = "replying"
      BY <1>1, <1>3, <2>2 DEF ShellTyped
    <3> QED BY <1>3, <2>2, <3>1 DEF ShellInv, ShellTyped, WorkspaceHeld
  <2>3. CASE Command!Stops(c)
    <3>1. x = "cleaning" /\ handler[c] = "running" /\ workspace' = workspace /\ procs' \subseteq procs
      BY <1>1, <1>3, <2>3 DEF ShellTyped, Command!Stops
    <3> QED BY <1>3, <3>1 DEF ShellInv, ShellTyped, WorkspaceHeld
  <2>4. CASE Command!Clean(c)
    <3>1. x = "replying" /\ handler[c] = "cleaning" /\ workspace' = Command!Unlocked /\ procs' = {}
      BY <1>1, <1>3, <2>4 DEF ShellTyped, Command!Clean, Command!Cleaned
    <3> QED BY <1>3, <3>1, ShellNumbers DEF ShellInv, ShellTyped, WorkspaceHeld
  <2> QED BY <2>1, <2>2, <2>3, <2>4 DEF Command!Take
<1> QED BY <1>1, <1>3, <1>4, HandlerMoves

LEMMA ReplyStep ==
  ASSUME ShellInv, NEW c \in Calls, Command!Reply(c) PROVE ShellInv'
<1>1. /\ UNCHANGED << lease, given, call, procs, workspace >> /\ handler[c] = "replying" /\ ShellTyped
      /\ handler' = [handler EXCEPT ![c] = "none"] /\ conn' = [conn EXCEPT ![c] = "none"]
  BY DEF Command!Reply, Command!broker, ShellInv
<1>2. /\ handler' \in [Calls -> {"none", "reading", "running", "cleaning", "replying"}] /\ handler'[c] = "none"
      /\ \A d \in Calls : d # c => handler'[d] = handler[d]
  BY <1>1, HandlerChanged
<1>3. /\ conn' \in [Calls -> {"none", "open", "shut"}] /\ conn'[c] = "none"
      /\ \A d \in Calls : d # c => conn'[d] = conn[d]
  BY <1>1, ConnChanged
<1>4. WorkspaceHeld' /\ procs' \subseteq Calls /\ workspace' \in Calls \cup {Command!Unlocked}
  BY <1>1, <1>2 DEF ShellInv, ShellTyped, WorkspaceHeld
<1> QED BY <1>1, <1>2, <1>3, <1>4, HandlerMoves

LEMMA ShellRests == ASSUME ShellInv, UNCHANGED shellVars PROVE ShellInv'
  BY DEF shellVars, ShellInv, ShellTyped, ConnectedCalls, WorkspaceHeld, PoolsBounded, Busy, Served

LEMMA ShellStep == ASSUME ShellInv, Command!Next \/ UNCHANGED shellVars PROVE ShellInv'
  BY LeaseSteps, ExecutorEndsStep, AskStep, CompareStep, ConnectStep, SendCommandStep, ExpiresStep, ExecutorStep,
     ReplyStep, ShellRests DEF Command!Next

LEMMA ShellStarts == Command!Init => ShellInv
<1> SUFFICES ASSUME Command!Init PROVE ShellInv
  OBVIOUS
<1>1. 0 \in Command!Leases /\ Command!Idle \in [ lease : Command!Leases, at : Steps ] /\ Command!Idle.at = "idle"
  BY ShellNumbers DEF Command!Leases, Command!Idle, Steps
<1>2. ShellTyped
  BY <1>1 DEF Command!Init, ShellTyped
<1>3. ConnectedCalls /\ WorkspaceHeld
  BY <1>1, ShellNumbers DEF Command!Init, ConnectedCalls, WorkspaceHeld
<1>4. Busy = {} /\ Served = {} /\ Cardinality({}) = 0
  BY <1>1, FS_EmptySet DEF Command!Init, Busy, Served
<1>5. PoolsBounded
  BY <1>4, ShellNumbers DEF PoolsBounded
<1> QED BY <1>2, <1>3, <1>5 DEF ShellInv

-----------------------------------------------------------------------------
(* TurnTools: for whom the storage tools write.                            *)

ToolSteps == {"none", "sent", "row", "locked", "written", "ended"}
Replies   == {"none", "yes", "no", "unconfirmed"}

Relays == [ request : 0..MaxRequest, step : {"none", "resuming", "starting", "active"}, turn : 0..MaxRequest,
            pending : Seq(ToolCalls), waits : ToolCalls \cup {Tool!NoCall} ]
Rows == [ request : 0..MaxRequest, grant : 0..MaxRequest, fresh : BOOLEAN, launched : BOOLEAN,
          state : {"idle", "running", "failed"}, scope : [Tool!TurnNumbers -> Tool!Scopes], archived : BOOLEAN ]
Accounts == [ permitted : BOOLEAN, share : SUBSET ToolCalls, changing : BOOLEAN ]
Handlings == [ at : ToolSteps, request : 0..MaxRequest ]
Asked == [ turn : 0..MaxRequest, mutation : Mutations \cup {Tool!Nothing},
           payload : Payloads \cup {Tool!Nothing}, answer : Replies ]

(* The conversation's row and its owner's account.                         *)
RowHolds ==
  /\ row \in Rows /\ account \in Accounts /\ login \in BOOLEAN
  /\ row.grant # 0 => row.grant = row.request /\ row.state = "running"
  /\ row.state = "running" => row.request # 0
  /\ account.changing => account.share = {}

(* The runner's worker is at a request of the row; an active one knows its *)
(* turn.                                                                   *)
RelayHolds ==
  /\ relay \in Relays /\ relay.turn \in {0, relay.request} /\ Len(relay.pending) <= MaxPending
  /\ relay.request <= row.request
  /\ relay.step # "none" => relay.request # 0
  /\ relay.step = "active" => relay.turn = relay.request
  /\ completed \subseteq Tool!TurnNumbers /\ outbox \in Seq(Tool!Messages)

(* A call that the native process made names a mutation and a payload; one *)
(* that the API handles is of an owner's turn and carries its request; one *)
(* that is past its checks holds the account.                              *)
CallHolds(c) ==
  /\ calls[c].turn # 0 => calls[c].mutation \in Mutations /\ calls[c].payload \in Payloads
  /\ handled[c].at = "none" => handled[c].request = 0
  /\ handled[c].at # "none" => /\ handled[c].request = calls[c].turn /\ handled[c].request \in 1..row.request
                               /\ row.scope[handled[c].request] = "owner"
  /\ handled[c].at \in {"locked", "written"} => c \in account.share /\ account.permitted

(* A mutation was made once if its key has an answer, and its answer is    *)
(* what whoever was told yes asked for; one transaction at a time has a    *)
(* key that is new to it.                                                  *)
StoreHolds ==
  /\ idem \in [Mutations -> Payloads \cup {Tool!Nothing}]
  /\ times \in [Mutations -> Nat]
  /\ \A k \in Mutations : times[k] = IF idem[k] = Tool!Nothing THEN 0 ELSE 1
  /\ \A c \in ToolCalls : /\ handled[c].at = "written" => idem[calls[c].mutation] = Tool!Nothing
                          /\ calls[c].answer = "yes" => handled[c].at # "none" /\ idem[calls[c].mutation] = calls[c].payload
  /\ \A c, d \in ToolCalls :
        handled[c].at = "written" /\ handled[d].at = "written" /\ calls[c].mutation = calls[d].mutation => c = d

ToolInv ==
  /\ RowHolds /\ RelayHolds /\ StoreHolds
  /\ handled \in [ToolCalls -> Handlings] /\ calls \in [ToolCalls -> Asked]
  /\ \A c \in ToolCalls : CallHolds(c)

LEMMA ToolNumbers ==
  MaxRequest \in Nat \ {0} /\ MaxPending \in Nat /\ Tool!NoCall \notin ToolCalls /\ Tool!Nothing \notin Payloads
  BY PartsAssumption DEF Tool!ToolAssumption

LEMMA ToolFollows ==
  ToolInv => Tool!TypeOK /\ Tool!NoTokenIsBorrowed /\ Tool!WrittenOnce /\ Tool!PublicWritesNothing
<1> SUFFICES ASSUME ToolInv
             PROVE  Tool!TypeOK /\ Tool!NoTokenIsBorrowed /\ Tool!WrittenOnce /\ Tool!PublicWritesNothing
  OBVIOUS
<1>1. Tool!TypeOK
  BY DEF ToolInv, RowHolds, RelayHolds, StoreHolds, Tool!TypeOK, Rows, Accounts, Relays, Handlings, Asked, ToolSteps, Replies
<1>2. Tool!NoTokenIsBorrowed
  BY DEF ToolInv, CallHolds, Tool!NoTokenIsBorrowed
<1>3. Tool!WrittenOnce
  <2>1. \A k \in Mutations : times[k] \in {0, 1}
    BY DEF ToolInv, StoreHolds
  <2>2. \A k \in Mutations : times[k] <= 1
    BY <2>1
  <2> QED BY <2>2 DEF ToolInv, StoreHolds, Tool!WrittenOnce, Tool!Key
<1>4. Tool!PublicWritesNothing
  BY DEF ToolInv, CallHolds, StoreHolds, Tool!PublicWritesNothing
<1> QED BY <1>1, <1>2, <1>3, <1>4

(* A step that hands no call over and writes nothing.                      *)
LEMMA ToolMoves ==
  ASSUME ToolInv, RowHolds', RelayHolds', UNCHANGED << handled, idem, times >>,
         row.request <= row'.request, \A r \in 1..row.request : row'.scope[r] = row.scope[r],
         \A c \in ToolCalls : handled[c].at \in {"locked", "written"} => c \in account'.share /\ account'.permitted,
         calls' \in [ToolCalls -> Asked],
         \A c \in ToolCalls : \/ calls'[c] = calls[c]
                              \/ /\ calls'[c].turn = calls[c].turn /\ calls'[c].mutation = calls[c].mutation
                                 /\ calls'[c].payload = calls[c].payload /\ calls'[c].answer # "yes"
  PROVE  ToolInv'
<1>1. \A c \in ToolCalls : CallHolds(c)'
  <2> SUFFICES ASSUME NEW c \in ToolCalls PROVE CallHolds(c)'
    OBVIOUS
  <2>1. CallHolds(c) /\ row.request \in Nat /\ row'.request \in Nat
    BY ToolNumbers DEF ToolInv, RowHolds, Rows
  <2>2. 1..row.request \subseteq 1..row'.request
    BY <2>1
  <2> QED BY <2>1, <2>2 DEF CallHolds
<1>2. StoreHolds'
  <2>1. \A c \in ToolCalls : /\ calls'[c].mutation = calls[c].mutation /\ calls'[c].payload = calls[c].payload
                             /\ calls'[c].answer = "yes" => calls[c].answer = "yes"
    OBVIOUS
  <2> QED BY <2>1 DEF ToolInv, StoreHolds
<1> QED BY <1>1, <1>2 DEF ToolInv

(* A step of one handler that writes nothing.                              *)
LEMMA HandledMoves ==
  ASSUME ToolInv, NEW c \in ToolCalls, UNCHANGED << row, idem, times >>, RowHolds', RelayHolds',
         handled' \in [ToolCalls -> Handlings], calls' \in [ToolCalls -> Asked],
         \A d \in ToolCalls : d # c => /\ handled'[d] = handled[d] /\ calls'[d] = calls[d]
                                       /\ d \in account.share => d \in account'.share,
         account'.permitted = account.permitted, CallHolds(c)',
         calls'[c].mutation = calls[c].mutation /\ calls'[c].payload = calls[c].payload,
         handled'[c].at = "written" =>
            /\ idem[calls[c].mutation] = Tool!Nothing
            /\ \A d \in ToolCalls : d # c /\ handled[d].at = "written" => calls[d].mutation # calls[c].mutation,
         calls'[c].answer = "yes" => handled'[c].at # "none" /\ idem[calls[c].mutation] = calls[c].payload
  PROVE  ToolInv'
<1>1. \A d \in ToolCalls : CallHolds(d)'
  <2> SUFFICES ASSUME NEW d \in ToolCalls, d # c PROVE CallHolds(d)'
    OBVIOUS
  <2> QED BY DEF ToolInv, CallHolds
<1>2. StoreHolds'
  <2>1. \A d \in ToolCalls : calls'[d].mutation = calls[d].mutation /\ calls'[d].payload = calls[d].payload
    OBVIOUS
  <2>2. \A d \in ToolCalls : /\ handled'[d].at = "written" => idem[calls[d].mutation] = Tool!Nothing
                             /\ calls'[d].answer = "yes" => /\ handled'[d].at # "none"
                                                            /\ idem[calls[d].mutation] = calls[d].payload
    BY DEF ToolInv, StoreHolds
  <2>3. \A d, f \in ToolCalls :
           handled'[d].at = "written" /\ handled'[f].at = "written" /\ calls[d].mutation = calls[f].mutation => d = f
    BY DEF ToolInv, StoreHolds
  <2> QED BY <2>1, <2>2, <2>3 DEF ToolInv, StoreHolds
<1> QED BY <1>1, <1>2 DEF ToolInv

LEMMA AnswerChanged ==
  ASSUME calls \in [ToolCalls -> Asked], NEW c \in ToolCalls, NEW x \in Replies, calls' = [calls EXCEPT ![c].answer = x]
  PROVE  /\ calls' \in [ToolCalls -> Asked]
         /\ calls'[c].turn = calls[c].turn /\ calls'[c].mutation = calls[c].mutation
         /\ calls'[c].payload = calls[c].payload /\ calls'[c].answer = x
         /\ \A d \in ToolCalls : d # c => calls'[d] = calls[d]
<1> DEFINE r == [calls[c] EXCEPT !.answer = x]
<1>1. /\ r \in Asked /\ r.turn = calls[c].turn /\ r.mutation = calls[c].mutation
      /\ r.payload = calls[c].payload /\ r.answer = x
  BY DEF Asked
<1>2. calls' = [calls EXCEPT ![c] = r]
  OBVIOUS
<1> HIDE DEF r
<1> QED BY <1>1, <1>2

LEMMA HandledChanged ==
  ASSUME handled \in [ToolCalls -> Handlings], NEW c \in ToolCalls, NEW h \in Handlings, handled' = [handled EXCEPT ![c] = h]
  PROVE  /\ handled' \in [ToolCalls -> Handlings] /\ handled'[c] = h
         /\ \A d \in ToolCalls : d # c => handled'[d] = handled[d]
  OBVIOUS

LEMMA HandledAt ==
  ASSUME handled \in [ToolCalls -> Handlings], NEW c \in ToolCalls, NEW x \in ToolSteps,
         handled' = [handled EXCEPT ![c].at = x]
  PROVE  /\ handled' \in [ToolCalls -> Handlings] /\ handled'[c].at = x /\ handled'[c].request = handled[c].request
         /\ \A d \in ToolCalls : d # c => handled'[d] = handled[d]
<1> DEFINE h == [handled[c] EXCEPT !.at = x]
<1>1. h \in Handlings /\ h.at = x /\ h.request = handled[c].request
  BY DEF Handlings
<1>2. handled' = [handled EXCEPT ![c] = h]
  OBVIOUS
<1> HIDE DEF h
<1> QED BY <1>1, <1>2, HandledChanged

(* The conversation's own steps.                                           *)
LEMMA MessageStep ==
  ASSUME ToolInv, NEW s \in Tool!Scopes, Tool!Message(s) PROVE ToolInv'
<1> DEFINE n == row.request + 1
           scopes == [row.scope EXCEPT ![n] = s]
           r == [row EXCEPT !.request = n, !.grant = n, !.fresh = TRUE, !.launched = FALSE, !.state = "running", !.scope = scopes]
<1>1. row \in Rows /\ row.request \in Nat /\ row.request < MaxRequest /\ UNCHANGED << account, login, handled, idem, times, relay, completed, outbox, calls >>
  BY ToolNumbers DEF Tool!Message, ToolInv, RowHolds, Rows
<1>2. n \in Nat /\ n # 0 /\ n \in 0..MaxRequest /\ n \in Tool!TurnNumbers /\ row.request < n /\ n \notin 1..row.request
  BY <1>1, ToolNumbers DEF Tool!TurnNumbers
<1> HIDE DEF n
<1>3. scopes \in [Tool!TurnNumbers -> Tool!Scopes] /\ \A i \in 1..row.request : scopes[i] = row.scope[i]
  <2>1. row.scope \in [Tool!TurnNumbers -> Tool!Scopes] /\ \A i \in 1..row.request : i \in Tool!TurnNumbers
    BY <1>1, ToolNumbers DEF Rows, Tool!TurnNumbers
  <2> QED BY <1>2, <2>1
<1>4. row' = r
  BY DEF Tool!Message, n
<1> HIDE DEF scopes
<1>5. r \in Rows /\ r.request = n /\ r.grant = n /\ r.state = "running" /\ r.scope = scopes
  BY <1>1, <1>2, <1>3 DEF Rows
<1> HIDE DEF r
<1>6. RowHolds'
  BY <1>1, <1>2, <1>4, <1>5 DEF ToolInv, RowHolds
<1>7. relay.request <= n /\ row.request <= n
  <2>1. relay.request \in Nat /\ relay.request <= row.request
    BY DEF ToolInv, RelayHolds, Relays
  <2> QED BY <1>1, <1>2, <2>1
<1>8. RelayHolds'
  BY <1>1, <1>4, <1>5, <1>7 DEF ToolInv, RelayHolds
<1>9. \A c \in ToolCalls : handled[c].at \in {"locked", "written"} => c \in account'.share /\ account'.permitted
  BY <1>1 DEF ToolInv, CallHolds
<1>10. calls' \in [ToolCalls -> Asked] /\ \A c \in ToolCalls : calls'[c] = calls[c]
  BY <1>1 DEF ToolInv
<1> QED BY <1>1, <1>3, <1>4, <1>5, <1>6, <1>7, <1>8, <1>9, <1>10, ToolMoves

(* Steps of the row that keep its request and its pages.                   *)
LEMMA SameRequest ==
  ASSUME ToolInv, UNCHANGED << account, login, handled, idem, times >>, RelayHolds',
         row' \in Rows, row'.request = row.request, row'.scope = row.scope,
         row'.grant # 0 => row'.grant = row'.request /\ row'.state = "running",
         row'.state = "running" => row.state = "running",
         calls' = calls
  PROVE  ToolInv'
<1>1. RowHolds'
  BY DEF ToolInv, RowHolds
<1>2. row.request <= row'.request
  <2>1. row.request \in Nat
    BY DEF ToolInv, RowHolds, Rows
  <2> QED BY <2>1
<1>3. \A c \in ToolCalls : handled[c].at \in {"locked", "written"} => c \in account'.share /\ account'.permitted
  BY DEF ToolInv, CallHolds
<1>4. calls' \in [ToolCalls -> Asked] /\ \A c \in ToolCalls : calls'[c] = calls[c]
  BY DEF ToolInv
<1> QED BY <1>1, <1>2, <1>3, <1>4, ToolMoves

LEMMA RowSteps ==
  ASSUME ToolInv, Tool!Refresh \/ Tool!Archive \/ Tool!Expire PROVE ToolInv'
<1>1. /\ UNCHANGED << account, login, handled, idem, times, relay, completed, outbox, calls >>
      /\ row \in Rows
      /\ row.grant # 0 => row.grant = row.request /\ row.state = "running"
  BY DEF Tool!Refresh, Tool!Archive, Tool!Expire, ToolInv, RowHolds
<1>2. 0 \in 0..MaxRequest
  BY ToolNumbers
<1>3. /\ row' \in Rows /\ row'.request = row.request /\ row'.scope = row.scope
      /\ row'.grant = 0 \/ (row'.grant = row.grant /\ row'.state = row.state)
      /\ row'.state = "running" => row.state = "running"
  <2>1. CASE Tool!Refresh
    <3>1. PICK o \in {"idle", "failed"} : row' = [row EXCEPT !.state = o, !.grant = 0]
      BY <2>1 DEF Tool!Refresh
    <3> QED BY <1>1, <1>2, <3>1 DEF Rows
  <2>2. CASE Tool!Archive
    <3>1. row' = [row EXCEPT !.archived = TRUE, !.grant = 0]
      BY <2>2 DEF Tool!Archive
    <3> QED BY <1>1, <1>2, <3>1 DEF Rows
  <2>3. CASE Tool!Expire
    <3>1. row' = [row EXCEPT !.fresh = FALSE]
      BY <2>3 DEF Tool!Expire
    <3> QED BY <1>1, <1>2, <3>1 DEF Rows
  <2> QED BY <2>1, <2>2, <2>3
<1>4. RelayHolds'
  BY <1>1, <1>3 DEF ToolInv, RelayHolds
<1>5. row'.grant # 0 => row'.grant = row'.request /\ row'.state = "running"
  BY <1>1, <1>3
<1> QED BY <1>1, <1>3, <1>4, <1>5, SameRequest

(* The relay's fields.                                                     *)
LEMMA RelayFacts ==
  ASSUME ToolInv
  PROVE  /\ relay \in Relays /\ outbox \in Seq(Tool!Messages) /\ completed \subseteq Tool!TurnNumbers
         /\ relay.turn \in {0, relay.request} /\ Len(relay.pending) <= MaxPending
         /\ relay.pending \in Seq(ToolCalls) /\ Len(relay.pending) \in Nat
         /\ relay.request <= row.request /\ relay.request \in Nat
         /\ relay.step # "none" => relay.request \in Tool!TurnNumbers
         /\ relay.step = "active" => relay.turn = relay.request
         /\ calls \in [ToolCalls -> Asked] /\ handled \in [ToolCalls -> Handlings]
<1>1. relay \in Relays
  BY DEF ToolInv, RelayHolds
<1>2. relay.pending \in Seq(ToolCalls) /\ relay.request \in 0..MaxRequest
  BY <1>1 DEF Relays
<1>3. relay.request \in Nat /\ (relay.request # 0 => relay.request \in Tool!TurnNumbers)
  BY <1>2, ToolNumbers DEF Tool!TurnNumbers
<1>4. Len(relay.pending) \in Nat
  BY <1>2
<1> QED BY <1>1, <1>2, <1>3, <1>4 DEF ToolInv, RelayHolds

LEMMA IdleHolds ==
  ASSUME ToolInv
  PROVE  /\ Tool!Idle \in Relays /\ Tool!Idle.turn = 0 /\ Tool!Idle.request = 0 /\ Tool!Idle.step = "none"
         /\ Tool!Idle.pending = << >> /\ Len(Tool!Idle.pending) <= MaxPending /\ Tool!Idle.request <= row.request
<1>1. 0 \in 0..MaxRequest /\ row.request \in Nat /\ 0 <= row.request
  BY ToolNumbers DEF ToolInv, RowHolds, Rows
<1>2. Tool!Idle \in Relays /\ Tool!Idle.pending = << >>
  BY <1>1 DEF Tool!Idle, Relays
<1>3. Len(Tool!Idle.pending) <= MaxPending
  BY <1>2, ToolNumbers
<1> QED BY <1>1, <1>2, <1>3 DEF Tool!Idle

LEMMA LaunchStep ==
  ASSUME ToolInv, Tool!Launch PROVE ToolInv'
<1>1. /\ UNCHANGED << account, login, handled, idem, times, completed, calls >>
      /\ row \in Rows /\ row.state = "running" /\ row.request # 0
  BY DEF Tool!Launch, ToolInv, RowHolds
<1>2. 0 \in 0..MaxRequest /\ row.request \in 0..MaxRequest /\ row.request \in Tool!TurnNumbers /\ row.request <= row.request
  BY <1>1, ToolNumbers DEF Rows, Tool!TurnNumbers
<1>3. CASE /\ row' = [row EXCEPT !.launched = TRUE]
           /\ relay' = [Tool!Idle EXCEPT !.request = row.request, !.step = "resuming"]
           /\ outbox' = Append(outbox, [ kind |-> "resumed", turn |-> row.request ])
  <2>1. /\ row' \in Rows /\ row'.request = row.request /\ row'.scope = row.scope
        /\ row'.grant = row.grant /\ row'.state = row.state
    BY <1>1, <1>3 DEF Rows
  <2>2. /\ relay' \in Relays /\ relay'.request = row.request /\ relay'.step = "resuming" /\ relay'.turn = 0
        /\ relay'.pending = << >>
    BY <1>2, <1>3, IdleHolds DEF Relays
  <2>3. [ kind |-> "resumed", turn |-> row.request ] \in Tool!Messages /\ outbox \in Seq(Tool!Messages)
    BY <1>2 DEF Tool!Messages, ToolInv, RelayHolds
  <2>4. outbox' \in Seq(Tool!Messages)
    <3> HIDE DEF Tool!Messages
    <3> QED BY <1>3, <2>3
  <2>5. Len(relay'.pending) <= MaxPending
    BY <2>2, ToolNumbers
  <2>6. RelayHolds'
    BY <1>1, <1>2, <2>1, <2>2, <2>4, <2>5 DEF ToolInv, RelayHolds
  <2>7. row.grant # 0 => row.grant = row.request /\ row.state = "running"
    BY DEF ToolInv, RowHolds
  <2> QED BY <1>1, <2>1, <2>6, <2>7, SameRequest
<1>4. CASE row' = [row EXCEPT !.launched = TRUE, !.state = "failed", !.grant = 0] /\ UNCHANGED << relay, outbox >>
  <2>1. /\ row' \in Rows /\ row'.request = row.request /\ row'.scope = row.scope
        /\ row'.grant = 0 /\ row'.state = "failed"
    BY <1>1, <1>2, <1>4 DEF Rows
  <2>2. RelayHolds'
    BY <1>1, <1>4, <2>1 DEF ToolInv, RelayHolds
  <2> QED BY <1>1, <2>1, <2>2, SameRequest
<1> QED BY <1>3, <1>4 DEF Tool!Launch

(* A membership change waits for the handlers that hold the account.       *)
LEMMA AccountSteps ==
  ASSUME ToolInv, Tool!ChangeBegins \/ Tool!ChangeCommits \/ Tool!Logout PROVE ToolInv'
<1>1. /\ UNCHANGED << row, handled, idem, times, relay, completed, outbox, calls >>
      /\ account \in Accounts /\ row \in Rows
  BY DEF Tool!ChangeBegins, Tool!ChangeCommits, Tool!Logout, ToolInv, RowHolds
<1>2. account.changing => account.share = {}
  BY DEF ToolInv, RowHolds
<1>3. /\ account' \in Accounts /\ login' \in BOOLEAN /\ (account'.changing => account'.share = {})
      /\ account' = account \/ account.share = {}
  <2>1. CASE Tool!ChangeBegins
    <3>1. account' = [account EXCEPT !.changing = TRUE] /\ account.share = {} /\ login' = login
      BY <2>1 DEF Tool!ChangeBegins
    <3> QED BY <1>1, <3>1 DEF Accounts, ToolInv, RowHolds
  <2>2. CASE Tool!ChangeCommits
    <3>1. account' = [account EXCEPT !.changing = FALSE, !.permitted = FALSE] /\ account.changing /\ login' = FALSE
      BY <2>2 DEF Tool!ChangeCommits
    <3> QED BY <1>1, <1>2, <3>1 DEF Accounts
  <2>3. CASE Tool!Logout
    BY <1>1, <1>2, <2>3 DEF Tool!Logout
  <2> QED BY <2>1, <2>2, <2>3
<1>4. RowHolds' /\ RelayHolds'
  BY <1>1, <1>3 DEF ToolInv, RowHolds, RelayHolds
<1>5. \A c \in ToolCalls : handled[c].at \in {"locked", "written"} => c \in account'.share /\ account'.permitted
  BY <1>3 DEF ToolInv, CallHolds
<1>6. calls' \in [ToolCalls -> Asked] /\ \A c \in ToolCalls : calls'[c] = calls[c]
  BY <1>1 DEF ToolInv
<1>7. row.request <= row'.request
  BY <1>1, ToolNumbers DEF Rows
<1> QED BY <1>1, <1>4, <1>5, <1>6, <1>7, ToolMoves

(* Steps of the native process and of the worker that hand no call over.   *)
LEMMA RelaySteps ==
  ASSUME ToolInv, UNCHANGED << row, account, login, handled, idem, times >>, RelayHolds',
         calls' \in [ToolCalls -> Asked],
         \A c \in ToolCalls : \/ calls'[c] = calls[c]
                              \/ /\ calls'[c].turn = calls[c].turn /\ calls'[c].mutation = calls[c].mutation
                                 /\ calls'[c].payload = calls[c].payload /\ calls'[c].answer # "yes"
  PROVE  ToolInv'
<1>1. RowHolds'
  BY DEF ToolInv, RowHolds
<1>2. row.request <= row'.request
  <2>1. row.request \in Nat
    BY DEF ToolInv, RowHolds, Rows
  <2> QED BY <2>1
<1>3. \A c \in ToolCalls : handled[c].at \in {"locked", "written"} => c \in account'.share /\ account'.permitted
  BY DEF ToolInv, CallHolds
<1> QED BY <1>1, <1>2, <1>3, ToolMoves

LEMMA SaysStep ==
  ASSUME ToolInv, NEW kind \in {"started", "completed"}, Tool!Says(kind) PROVE ToolInv'
<1>1. UNCHANGED << row, account, login, handled, idem, times, relay, completed, calls >> /\ relay.step # "none"
  BY DEF Tool!Says
<1>2. relay.request \in Tool!TurnNumbers /\ outbox \in Seq(Tool!Messages)
  BY <1>1, RelayFacts
<1> DEFINE m == [ kind |-> kind, turn |-> relay.request ]
<1>3. m \in Tool!Messages
  BY <1>2 DEF Tool!Messages
<1>4. outbox' = Append(outbox, m)
  BY DEF Tool!Says
<1> HIDE DEF m
<1>5. outbox' \in Seq(Tool!Messages)
  BY <1>2, <1>3, <1>4
<1>6. RelayHolds'
  BY <1>1, <1>5 DEF ToolInv, RelayHolds
<1> QED BY <1>1, <1>6, RelaySteps DEF ToolInv

LEMMA CallsToolStep ==
  ASSUME ToolInv, NEW c \in ToolCalls, NEW r \in Tool!TurnNumbers, NEW key \in Mutations, NEW payload \in Payloads,
         Tool!CallsTool(c, r, key, payload)
  PROVE  ToolInv'
<1> DEFINE asked == [ turn |-> r, mutation |-> key, payload |-> payload, answer |-> "none" ]
           m == [ kind |-> "call", call |-> c ]
<1>1. /\ UNCHANGED << row, account, login, handled, idem, times, relay, completed >>
      /\ calls[c].turn = 0 /\ calls' = [calls EXCEPT ![c] = asked] /\ outbox' = Append(outbox, m)
  BY DEF Tool!CallsTool, Tool!Unused
<1>2. m \in Tool!Messages
  BY DEF Tool!Messages
<1>3. asked \in Asked /\ asked.turn # 0 /\ asked.mutation = key /\ asked.payload = payload /\ asked.answer = "none"
  BY ToolNumbers DEF Asked, Replies, Tool!TurnNumbers
<1> HIDE DEF asked, m
<1>4. outbox' \in Seq(Tool!Messages)
  BY <1>1, <1>2, RelayFacts
<1>5. /\ calls' \in [ToolCalls -> Asked] /\ calls'[c] = asked
      /\ \A d \in ToolCalls : d # c => calls'[d] = calls[d]
  BY <1>1, <1>3, RelayFacts
<1>6. handled[c].at = "none" /\ handled[c].request = 0
  <2>1. CallHolds(c) /\ row.request \in Nat
    BY DEF ToolInv, RowHolds, Rows
  <2> QED BY <1>1, <2>1 DEF CallHolds
<1>7. RowHolds' /\ RelayHolds'
  BY <1>1, <1>4 DEF ToolInv, RowHolds, RelayHolds
<1>8. \A d \in ToolCalls : CallHolds(d)'
  BY <1>1, <1>3, <1>5, <1>6 DEF ToolInv, CallHolds
<1>9. StoreHolds'
  <2>1. /\ idem \in [Mutations -> Payloads \cup {Tool!Nothing}] /\ times \in [Mutations -> Nat]
        /\ \A k \in Mutations : times[k] = IF idem[k] = Tool!Nothing THEN 0 ELSE 1
    BY DEF ToolInv, StoreHolds
  <2>2. \A d \in ToolCalls : /\ handled'[d].at = "written" => idem[calls'[d].mutation] = Tool!Nothing
                             /\ calls'[d].answer = "yes" =>
                                  handled'[d].at # "none" /\ idem[calls'[d].mutation] = calls'[d].payload
    BY <1>1, <1>3, <1>5, <1>6 DEF ToolInv, StoreHolds
  <2>3. \A d, f \in ToolCalls :
           handled'[d].at = "written" /\ handled'[f].at = "written" /\ calls'[d].mutation = calls'[f].mutation => d = f
    BY <1>1, <1>3, <1>5, <1>6 DEF ToolInv, StoreHolds
  <2> QED BY <1>1, <2>1, <2>2, <2>3 DEF StoreHolds
<1> QED BY <1>1, <1>5, <1>7, <1>8, <1>9 DEF ToolInv

(* The worker's own reads.                                                 *)
LEMMA ReadSteps ==
  ASSUME ToolInv, Tool!ReadResumed \/ Tool!ReadStarted \/ Tool!ReadCompleted \/ Tool!TurnEnds \/ Tool!RunnerDies
  PROVE  ToolInv'
<1>1. UNCHANGED << row, account, login, handled, idem, times, calls >>
  BY DEF Tool!ReadResumed, Tool!ReadStarted, Tool!ReadCompleted, Tool!TurnEnds, Tool!RunnerDies
<1>2. outbox # << >> => Head(outbox) \in Tool!Messages /\ Tail(outbox) \in Seq(Tool!Messages)
  BY RelayFacts
<1>3. RelayHolds'
  <2>1. CASE Tool!ReadResumed
    <3>1. /\ relay.step = "resuming" /\ relay' = [relay EXCEPT !.step = "starting"]
          /\ outbox # << >> /\ outbox' = Tail(outbox) /\ completed' = completed
      BY <2>1 DEF Tool!ReadResumed, Tool!Reads
    <3>2. /\ relay' \in Relays /\ relay'.step = "starting" /\ relay'.request = relay.request
          /\ relay'.turn = relay.turn /\ relay'.pending = relay.pending
      BY <3>1, RelayFacts DEF Relays
    <3> QED BY <1>1, <1>2, <3>1, <3>2 DEF ToolInv, RelayHolds
  <2>2. CASE Tool!ReadStarted
    <3> DEFINE kept == [i \in DOMAIN relay.pending |-> [ kind |-> "call", call |-> relay.pending[i] ]]
    <3>1. /\ relay.step = "starting"
          /\ relay' = [relay EXCEPT !.step = "active", !.turn = relay.request, !.pending = << >>]
          /\ outbox # << >> /\ outbox' = kept \o Tail(outbox) /\ completed' = completed
      BY <2>2 DEF Tool!ReadStarted, Tool!Reads
    <3>2. relay \in Relays /\ relay.request \in 0..MaxRequest /\ << >> \in Seq(ToolCalls)
      BY RelayFacts DEF Relays
    <3>3. /\ relay' \in Relays /\ relay'.step = "active" /\ relay'.request = relay.request
          /\ relay'.turn = relay.request /\ relay'.pending = << >>
      BY <3>1, <3>2 DEF Relays
    <3>4. kept \in Seq(Tool!Messages)
      <4>1. \A i \in DOMAIN relay.pending : relay.pending[i] \in ToolCalls
        BY RelayFacts
      <4>2. \A i \in DOMAIN relay.pending : kept[i] \in Tool!Messages
        BY <4>1 DEF Tool!Messages
      <4>3. DOMAIN relay.pending = 1..Len(relay.pending) /\ Len(relay.pending) \in Nat
        BY RelayFacts
      <4> HIDE DEF Tool!Messages
      <4>4. kept \in [1..Len(relay.pending) -> Tool!Messages]
        BY <4>2, <4>3
      <4> HIDE DEF kept
      <4> QED BY <4>3, <4>4
    <3> HIDE DEF kept
    <3>5. outbox' \in Seq(Tool!Messages)
      BY <1>2, <3>1, <3>4
    <3>6. Len(<< >>) <= MaxPending
      BY ToolNumbers
    <3> QED BY <1>1, <3>1, <3>3, <3>5, <3>6 DEF ToolInv, RelayHolds
  <2>3. CASE Tool!ReadCompleted
    <3>1. /\ relay' = relay /\ outbox # << >> /\ outbox' = Tail(outbox)
          /\ completed' = completed \/ (Head(outbox).kind = "completed" /\ completed' = completed \cup {Head(outbox).turn})
      BY <2>3 DEF Tool!ReadCompleted, Tool!Reads
    <3>2. Head(outbox).kind = "completed" => Head(outbox).turn \in Tool!TurnNumbers
      BY <1>2, <3>1 DEF Tool!Messages
    <3> QED BY <1>1, <1>2, <3>1, <3>2 DEF ToolInv, RelayHolds
  <2>4. CASE Tool!TurnEnds
    BY <1>1, <2>4, IdleHolds DEF Tool!TurnEnds, ToolInv, RelayHolds
  <2>5. CASE Tool!RunnerDies
    <3>1. << >> \in Seq(Tool!Messages)
      OBVIOUS
    <3> QED BY <1>1, <2>5, <3>1, IdleHolds DEF Tool!RunnerDies, ToolInv, RelayHolds
  <2> QED BY <2>1, <2>2, <2>3, <2>4, <2>5
<1> QED BY <1>1, <1>3, RelaySteps DEF ToolInv

LEMMA UnconfirmedStep ==
  ASSUME ToolInv, Tool!Unconfirmed PROVE ToolInv'
<1>1. /\ UNCHANGED << row, account, login, handled, idem, times, completed, outbox >>
      /\ relay.waits # Tool!NoCall /\ relay' = [relay EXCEPT !.waits = Tool!NoCall]
  BY DEF Tool!Unconfirmed
<1>2. PICK c \in ToolCalls : calls' = [calls EXCEPT ![c].answer = "unconfirmed"]
  <2>1. relay.waits \in ToolCalls
    BY <1>1, RelayFacts DEF Relays
  <2> QED BY <2>1 DEF Tool!Unconfirmed
<1>3. /\ relay' \in Relays /\ relay'.step = relay.step /\ relay'.request = relay.request
      /\ relay'.turn = relay.turn /\ relay'.pending = relay.pending
  BY <1>1, RelayFacts DEF Relays
<1>4. /\ calls' \in [ToolCalls -> Asked]
      /\ calls'[c].turn = calls[c].turn /\ calls'[c].mutation = calls[c].mutation
      /\ calls'[c].payload = calls[c].payload /\ calls'[c].answer = "unconfirmed"
      /\ \A d \in ToolCalls : d # c => calls'[d] = calls[d]
  BY <1>2, RelayFacts, AnswerChanged DEF Replies
<1>5. RelayHolds'
  BY <1>1, <1>3 DEF ToolInv, RelayHolds
<1>6. \A d \in ToolCalls : \/ calls'[d] = calls[d]
                           \/ /\ calls'[d].turn = calls[d].turn /\ calls'[d].mutation = calls[d].mutation
                              /\ calls'[d].payload = calls[d].payload /\ calls'[d].answer # "yes"
  <2> SUFFICES ASSUME NEW d \in ToolCalls, d = c
               PROVE  /\ calls'[d].turn = calls[d].turn /\ calls'[d].mutation = calls[d].mutation
                      /\ calls'[d].payload = calls[d].payload /\ calls'[d].answer # "yes"
    BY <1>4
  <2> QED BY <1>4
<1> QED BY <1>1, <1>4, <1>5, <1>6, RelaySteps

(* A call is handed over with the token of the turn it is of.              *)
LEMMA ReadCallStep ==
  ASSUME ToolInv, Tool!ReadCall PROVE ToolInv'
<1>1. /\ UNCHANGED << row, account, login, idem, times, completed >>
      /\ outbox # << >> /\ Head(outbox).kind = "call" /\ outbox' = Tail(outbox)
  BY DEF Tool!ReadCall, Tool!Reads
<1>0. Head(outbox) \in Tool!Messages /\ Tail(outbox) \in Seq(Tool!Messages)
  BY <1>1, RelayFacts
<1>c. PICK c \in ToolCalls : c = Head(outbox).call
  BY <1>0, <1>1 DEF Tool!Messages
<1>2. c \in ToolCalls /\ outbox' \in Seq(Tool!Messages)
  BY <1>0, <1>1
<1>3. CASE /\ Len(relay.pending) < MaxPending /\ relay' = [relay EXCEPT !.pending = Append(relay.pending, c)]
           /\ UNCHANGED << handled, calls >>
  <2>1. Append(relay.pending, c) \in Seq(ToolCalls) /\ Len(Append(relay.pending, c)) = Len(relay.pending) + 1
    BY <1>2, RelayFacts
  <2>2. Len(Append(relay.pending, c)) <= MaxPending
    BY <1>3, <2>1, RelayFacts, ToolNumbers
  <2>3. /\ relay' \in Relays /\ relay'.step = relay.step /\ relay'.request = relay.request
        /\ relay'.turn = relay.turn /\ relay'.pending = Append(relay.pending, c)
    BY <1>3, <2>1, RelayFacts DEF Relays
  <2>4. RelayHolds'
    BY <1>1, <1>2, <2>2, <2>3 DEF ToolInv, RelayHolds
  <2> QED BY <1>1, <1>3, <2>4, RelaySteps DEF ToolInv
<1>4. CASE Tool!Refuse(c) /\ UNCHANGED handled /\ relay' \in {relay, Tool!Idle}
  <2>1. /\ calls' \in [ToolCalls -> Asked]
        /\ calls'[c].turn = calls[c].turn /\ calls'[c].mutation = calls[c].mutation
        /\ calls'[c].payload = calls[c].payload /\ calls'[c].answer = "no"
        /\ \A d \in ToolCalls : d # c => calls'[d] = calls[d]
    BY <1>2, <1>4, RelayFacts, AnswerChanged DEF Replies, Tool!Refuse
  <2>2. RelayHolds'
    BY <1>1, <1>2, <1>4, IdleHolds DEF ToolInv, RelayHolds
  <2>3. \A d \in ToolCalls : \/ calls'[d] = calls[d]
                             \/ /\ calls'[d].turn = calls[d].turn /\ calls'[d].mutation = calls[d].mutation
                                /\ calls'[d].payload = calls[d].payload /\ calls'[d].answer # "yes"
    <3> SUFFICES ASSUME NEW d \in ToolCalls, d = c
                 PROVE  /\ calls'[d].turn = calls[d].turn /\ calls'[d].mutation = calls[d].mutation
                        /\ calls'[d].payload = calls[d].payload /\ calls'[d].answer # "yes"
      BY <2>1
    <3> QED BY <2>1
  <2> QED BY <1>1, <1>4, <2>1, <2>2, <2>3, RelaySteps
<1>5. CASE /\ Tool!Matches(c) /\ Tool!ToolAllowed(relay.request)
           /\ relay' = [relay EXCEPT !.waits = c]
           /\ handled' = [handled EXCEPT ![c] = [ at |-> "sent", request |-> relay.request ]] /\ UNCHANGED calls
  <2>1. relay.step = "active" /\ calls[c].turn = relay.request /\ row.scope[relay.request] = "owner"
    BY <1>5, RelayFacts DEF Tool!Matches, Tool!ToolAllowed
  <2>2. relay.request \in Tool!TurnNumbers /\ relay.request <= row.request /\ row.request \in Nat
    BY <2>1, RelayFacts DEF ToolInv, RowHolds, Rows
  <2>3. relay.request \in 1..row.request /\ relay.request \in 0..MaxRequest /\ relay.request # 0
    BY <2>2, ToolNumbers DEF Tool!TurnNumbers
  <2>4. /\ handled' \in [ToolCalls -> Handlings] /\ handled'[c].at = "sent" /\ handled'[c].request = relay.request
        /\ \A d \in ToolCalls : d # c => handled'[d] = handled[d]
    <3> DEFINE h == [ at |-> "sent", request |-> relay.request ]
    <3>1. h \in Handlings /\ h.at = "sent" /\ h.request = relay.request /\ handled' = [handled EXCEPT ![c] = h]
      BY <1>5, <2>3 DEF Handlings, ToolSteps
    <3> HIDE DEF h
    <3> QED BY <1>2, <3>1, RelayFacts, HandledChanged
  <2>5. /\ relay' \in Relays /\ relay'.step = relay.step /\ relay'.request = relay.request
        /\ relay'.turn = relay.turn /\ relay'.pending = relay.pending
    BY <1>2, <1>5, RelayFacts DEF Relays
  <2>6. RowHolds' /\ RelayHolds'
    BY <1>1, <1>2, <2>5 DEF ToolInv, RowHolds, RelayHolds
  <2>7. CallHolds(c)'
    <3>1. CallHolds(c) /\ calls'[c] = calls[c] /\ row' = row
      BY <1>1, <1>2, <1>5 DEF ToolInv
    <3> QED BY <2>1, <2>3, <2>4, <3>1 DEF CallHolds
  <2>8. calls[c].answer = "yes" => idem[calls[c].mutation] = calls[c].payload
    BY <1>2 DEF ToolInv, StoreHolds
  <2>9. calls' = calls /\ calls' \in [ToolCalls -> Asked] /\ account' = account /\ UNCHANGED << row, idem, times >>
    BY <1>1, <1>5, RelayFacts
  <2>10. handled'[c].at # "written" /\ handled'[c].at # "none"
    BY <2>4
  <2> QED BY <1>2, <2>4, <2>6, <2>7, <2>8, <2>9, <2>10, HandledMoves
<1> QED BY <1>c, <1>3, <1>4, <1>5 DEF Tool!ReadCall

(* A transaction that is over frees its locks and is answered.             *)
LEMMA EndsFacts ==
  ASSUME ToolInv, NEW c \in ToolCalls, NEW answer \in Replies, Tool!Ends(c, answer),
         UNCHANGED << row, login, completed, outbox >>
  PROVE  /\ handled' \in [ToolCalls -> Handlings] /\ handled'[c].at = "ended" /\ handled'[c].request = handled[c].request
         /\ \A d \in ToolCalls : d # c => /\ handled'[d] = handled[d] /\ calls'[d] = calls[d]
                                          /\ d \in account.share => d \in account'.share
         /\ account'.permitted = account.permitted
         /\ calls' \in [ToolCalls -> Asked]
         /\ calls'[c].turn = calls[c].turn /\ calls'[c].mutation = calls[c].mutation
         /\ calls'[c].payload = calls[c].payload /\ calls'[c].answer \in {answer, calls[c].answer}
         /\ RowHolds' /\ RelayHolds'
<1>1. /\ handled' \in [ToolCalls -> Handlings] /\ handled'[c].at = "ended" /\ handled'[c].request = handled[c].request
      /\ \A d \in ToolCalls : d # c => handled'[d] = handled[d]
  BY RelayFacts, HandledAt DEF Tool!Ends, ToolSteps
<1>2. /\ account' \in Accounts /\ account'.permitted = account.permitted /\ account'.changing = account.changing
      /\ account'.share = account.share \ {c}
  <2>1. account \in Accounts /\ account' = [account EXCEPT !.share = account.share \ {c}]
    BY DEF Tool!Ends, ToolInv, RowHolds
  <2> QED BY <2>1 DEF Accounts
<1>3. RowHolds'
  BY <1>2 DEF ToolInv, RowHolds
<1>4. CASE relay.waits = c /\ calls' = [calls EXCEPT ![c].answer = answer] /\ relay' = [relay EXCEPT !.waits = Tool!NoCall]
  <2>1. /\ calls' \in [ToolCalls -> Asked]
        /\ calls'[c].turn = calls[c].turn /\ calls'[c].mutation = calls[c].mutation
        /\ calls'[c].payload = calls[c].payload /\ calls'[c].answer = answer
        /\ \A d \in ToolCalls : d # c => calls'[d] = calls[d]
    BY <1>4, RelayFacts, AnswerChanged
  <2>2. /\ relay' \in Relays /\ relay'.step = relay.step /\ relay'.request = relay.request
        /\ relay'.turn = relay.turn /\ relay'.pending = relay.pending
    BY <1>4, RelayFacts DEF Relays
  <2>3. RelayHolds'
    BY <2>2 DEF ToolInv, RelayHolds
  <2> QED BY <1>1, <1>2, <1>3, <2>1, <2>3
<1>5. CASE UNCHANGED << calls, relay >>
  <2>1. RelayHolds'
    BY <1>5 DEF ToolInv, RelayHolds
  <2> QED BY <1>1, <1>2, <1>3, <1>5, <2>1, RelayFacts
<1> QED BY <1>4, <1>5 DEF Tool!Ends

LEMMA EndsStep ==
  ASSUME ToolInv, NEW c \in ToolCalls, NEW answer \in Replies, Tool!Ends(c, answer),
         UNCHANGED << row, login, completed, outbox, idem, times >>, handled[c].at # "none",
         answer = "yes" => idem[calls[c].mutation] = calls[c].payload
  PROVE  ToolInv'
<1>1. CallHolds(c)'
  <2>1. CallHolds(c) /\ row' = row
    BY DEF ToolInv
  <2> QED BY <2>1, EndsFacts DEF CallHolds
<1>2. calls'[c].answer = "yes" => handled'[c].at # "none" /\ idem[calls[c].mutation] = calls[c].payload
  BY EndsFacts DEF ToolInv, StoreHolds
<1>3. handled'[c].at # "written"
  BY EndsFacts
<1> QED BY <1>1, <1>2, <1>3, EndsFacts, HandledMoves

(* The handler goes on, with its locks.                                    *)
LEMMA HandlerGoesOn ==
  ASSUME ToolInv, NEW c \in ToolCalls, NEW x \in {"row", "locked", "written"},
         handled[c].at # "none", handled' = [handled EXCEPT ![c].at = x],
         UNCHANGED << row, login, completed, outbox, idem, times, calls, relay >>,
         account' = account \/ account' = [account EXCEPT !.share = account.share \cup {c}],
         ~account.changing \/ account' = account,
         x \in {"locked", "written"} => c \in account'.share /\ account.permitted,
         x = "written" => /\ idem[calls[c].mutation] = Tool!Nothing
                          /\ \A d \in ToolCalls : handled[d].at = "written" => calls[d].mutation # calls[c].mutation
  PROVE  ToolInv'
<1>1. /\ handled' \in [ToolCalls -> Handlings] /\ handled'[c].at = x /\ handled'[c].request = handled[c].request
      /\ \A d \in ToolCalls : d # c => handled'[d] = handled[d]
  BY RelayFacts, HandledAt DEF ToolSteps
<1>2. /\ account' \in Accounts /\ account'.permitted = account.permitted /\ account'.changing = account.changing
      /\ account.share \subseteq account'.share /\ (account.changing => account'.share = account.share)
  <2>1. account \in Accounts
    BY DEF ToolInv, RowHolds
  <2> QED BY <2>1 DEF Accounts
<1>3. RowHolds' /\ RelayHolds'
  BY <1>2 DEF ToolInv, RowHolds, RelayHolds
<1>4. CallHolds(c)'
  <2>1. CallHolds(c) /\ row' = row /\ calls' = calls
    BY DEF ToolInv
  <2> QED BY <1>1, <1>2, <2>1 DEF CallHolds
<1>5. calls' = calls /\ calls \in [ToolCalls -> Asked] /\ UNCHANGED << row, idem, times >>
  BY RelayFacts
<1>6. handled'[c].at # "none" /\ (calls[c].answer = "yes" => idem[calls[c].mutation] = calls[c].payload)
  BY <1>1 DEF ToolInv, StoreHolds
<1> QED BY <1>1, <1>2, <1>3, <1>4, <1>5, <1>6, HandledMoves

LEMMA HandlerSteps ==
  ASSUME ToolInv, NEW c \in ToolCalls, Tool!ReadRow(c) \/ Tool!LockAccount(c) \/ Tool!Mutate(c) \/ Tool!Aborts(c)
  PROVE  ToolInv'
<1>1. UNCHANGED << row, login, completed, outbox, idem, times >> /\ handled[c].at # "none"
  BY DEF Tool!ReadRow, Tool!LockAccount, Tool!Mutate, Tool!Aborts
<1>2. {"no", "yes", "unconfirmed"} \subseteq Replies
  BY DEF Replies
<1>3. CASE Tool!Ends(c, "no") \/ Tool!Ends(c, "unconfirmed")
  BY <1>1, <1>2, <1>3, EndsStep
<1>4. CASE Tool!ReadRow(c)
  <2>1. CASE handled' = [handled EXCEPT ![c].at = "row"] /\ UNCHANGED << account, calls, relay >>
    BY <1>1, <2>1, HandlerGoesOn
  <2> QED BY <1>3, <1>4, <2>1 DEF Tool!ReadRow
<1>5. CASE Tool!LockAccount(c)
  <2>1. CASE /\ account.permitted /\ ~account.changing /\ handled' = [handled EXCEPT ![c].at = "locked"]
             /\ account' = [account EXCEPT !.share = account.share \cup {c}] /\ UNCHANGED << calls, relay >>
    <3>1. c \in account'.share
      <4>1. account \in Accounts
        BY DEF ToolInv, RowHolds
      <4> QED BY <2>1, <4>1 DEF Accounts
    <3> QED BY <1>1, <2>1, <3>1, HandlerGoesOn
  <2> QED BY <1>3, <1>5, <2>1 DEF Tool!LockAccount, Tool!ShareTaken
<1>6. CASE Tool!Mutate(c)
  <2>1. CASE /\ Tool!New(c) /\ handled' = [handled EXCEPT ![c].at = "written"] /\ UNCHANGED << account, calls, relay >>
    <3>1. idem[calls[c].mutation] = Tool!Nothing /\ handled[c].at = "locked"
          /\ \A d \in ToolCalls : handled[d].at = "written" => calls[d].mutation # calls[c].mutation
      BY <1>6, <2>1 DEF Tool!Mutate, Tool!New, Tool!Key
    <3>2. c \in account.share /\ account.permitted
      BY <3>1 DEF ToolInv, CallHolds
    <3> QED BY <1>1, <2>1, <3>1, <3>2, HandlerGoesOn
  <2>2. CASE Tool!Same(c) /\ Tool!Ends(c, "yes")
    <3>1. idem[calls[c].mutation] = calls[c].payload
      BY <2>2 DEF Tool!Same, Tool!Key
    <3> QED BY <1>1, <1>2, <2>2, <3>1, EndsStep
  <2> QED BY <1>3, <1>6, <2>1, <2>2 DEF Tool!Mutate
<1> QED BY <1>3, <1>4, <1>5, <1>6 DEF Tool!Aborts

(* A mutation is committed under the account's lock, once.                 *)
LEMMA CommitStep ==
  ASSUME ToolInv, NEW c \in ToolCalls, Tool!Commit(c)
  PROVE  ToolInv' /\ account.permitted
<1>1. /\ handled[c].at = "written" /\ Tool!Ends(c, "yes") /\ UNCHANGED << row, login, completed, outbox >>
      /\ idem' = [idem EXCEPT ![calls[c].mutation] = calls[c].payload]
      /\ times' = [times EXCEPT ![calls[c].mutation] = times[calls[c].mutation] + 1]
  BY DEF Tool!Commit, Tool!Key
<1>2. /\ CallHolds(c) /\ idem[calls[c].mutation] = Tool!Nothing
      /\ \A d \in ToolCalls : handled[d].at = "written" /\ calls[d].mutation = calls[c].mutation => d = c
  BY <1>1 DEF ToolInv, StoreHolds
<1>3. PICK k \in Mutations, p \in Payloads : k = calls[c].mutation /\ p = calls[c].payload
  <2>1. row.request \in Nat
    BY DEF ToolInv, RowHolds, Rows
  <2> QED BY <1>1, <1>2, <2>1 DEF CallHolds
<1>4. /\ idem' \in [Mutations -> Payloads \cup {Tool!Nothing}] /\ times' \in [Mutations -> Nat]
      /\ idem'[k] = p /\ times'[k] = 1 /\ p # Tool!Nothing
      /\ \A j \in Mutations : j # k => idem'[j] = idem[j] /\ times'[j] = times[j]
  <2>1. idem \in [Mutations -> Payloads \cup {Tool!Nothing}] /\ times \in [Mutations -> Nat] /\ times[k] = 0
    BY <1>2, <1>3 DEF ToolInv, StoreHolds
  <2> QED BY <1>1, <1>3, <2>1, ToolNumbers
<1>5. "yes" \in Replies
  BY DEF Replies
<1>6. \A d \in ToolCalls : CallHolds(d)'
  <2> SUFFICES ASSUME NEW d \in ToolCalls PROVE CallHolds(d)'
    OBVIOUS
  <2>1. CallHolds(d) /\ row' = row
    BY <1>1 DEF ToolInv
  <2>2. CASE d = c
    BY <1>1, <1>5, <2>1, <2>2, EndsFacts DEF CallHolds
  <2>3. CASE d # c
    <3>1. handled'[d] = handled[d] /\ calls'[d] = calls[d] /\ account'.permitted = account.permitted
          /\ (d \in account.share => d \in account'.share)
      BY <1>1, <1>5, <2>3, EndsFacts
    <3> QED BY <2>1, <3>1 DEF CallHolds
  <2> QED BY <2>2, <2>3
<1>7. StoreHolds'
  <2>1. \A d \in ToolCalls : calls'[d].mutation = calls[d].mutation /\ calls'[d].payload = calls[d].payload
    BY <1>1, <1>5, EndsFacts
  <2>2. \A d \in ToolCalls : handled'[d].at = "written" => handled[d].at = "written" /\ d # c
    BY <1>1, <1>5, EndsFacts
  <2>3. \A d \in ToolCalls : handled'[d].at = "written" => idem'[calls[d].mutation] = Tool!Nothing
    <3> SUFFICES ASSUME NEW d \in ToolCalls, handled'[d].at = "written" PROVE idem'[calls[d].mutation] = Tool!Nothing
      OBVIOUS
    <3>1. handled[d].at = "written" /\ calls[d].mutation # k
      BY <1>2, <1>3, <2>2
    <3>2. calls[d].mutation \in Mutations /\ idem[calls[d].mutation] = Tool!Nothing
      <4>1. CallHolds(d) /\ row.request \in Nat
        BY DEF ToolInv, RowHolds, Rows
      <4> QED BY <3>1, <4>1 DEF CallHolds, ToolInv, StoreHolds
    <3> QED BY <1>4, <3>1, <3>2
  <2>4. \A d \in ToolCalls : calls'[d].answer = "yes" => handled'[d].at # "none" /\ idem'[calls[d].mutation] = calls[d].payload
    <3> SUFFICES ASSUME NEW d \in ToolCalls, calls'[d].answer = "yes"
                 PROVE  handled'[d].at # "none" /\ idem'[calls[d].mutation] = calls[d].payload
      OBVIOUS
    <3>1. CASE d = c
      BY <1>1, <1>3, <1>4, <1>5, <3>1, EndsFacts
    <3>2. CASE d # c
      <4>1. handled'[d] = handled[d] /\ calls'[d] = calls[d]
        BY <1>1, <1>5, <3>2, EndsFacts
      <4>2. CallHolds(d) /\ row.request \in Nat /\ handled[d].at # "none" /\ idem[calls[d].mutation] = calls[d].payload
        BY <4>1 DEF ToolInv, RowHolds, Rows, StoreHolds
      <4>3. calls[d].mutation \in Mutations /\ calls[d].payload \in Payloads
        BY <4>2 DEF CallHolds
      <4>4. calls[d].mutation # k
        BY <1>2, <1>3, <4>2, <4>3, ToolNumbers
      <4> QED BY <1>4, <4>1, <4>2, <4>3, <4>4
    <3> QED BY <3>1, <3>2
  <2>5. \A d, f \in ToolCalls :
           handled'[d].at = "written" /\ handled'[f].at = "written" /\ calls[d].mutation = calls[f].mutation => d = f
    BY <2>2 DEF ToolInv, StoreHolds
  <2>6. \A j \in Mutations : times'[j] = IF idem'[j] = Tool!Nothing THEN 0 ELSE 1
    BY <1>4 DEF ToolInv, StoreHolds
  <2> QED BY <1>4, <2>1, <2>3, <2>4, <2>5, <2>6 DEF StoreHolds
<1>8. account.permitted
  BY <1>1, <1>2 DEF CallHolds
<1> QED BY <1>1, <1>5, <1>6, <1>7, <1>8, EndsFacts DEF ToolInv

LEMMA ToolRests == ASSUME ToolInv, UNCHANGED toolVars PROVE ToolInv'
  BY DEF toolVars, ToolInv, RowHolds, RelayHolds, StoreHolds, CallHolds

LEMMA ToolStep ==
  ASSUME ToolInv, Tool!Next \/ UNCHANGED toolVars
  PROVE  ToolInv' /\ (idem' # idem => account.permitted)
<1>1. CASE \E s \in Tool!Scopes : Tool!Message(s)
  BY <1>1, MessageStep DEF Tool!Message
<1>2. CASE Tool!Launch \/ Tool!Refresh \/ Tool!Archive \/ Tool!Expire
  BY <1>2, LaunchStep, RowSteps DEF Tool!Launch, Tool!Refresh, Tool!Archive, Tool!Expire
<1>3. CASE Tool!ChangeBegins \/ Tool!ChangeCommits \/ Tool!Logout
  BY <1>3, AccountSteps DEF Tool!ChangeBegins, Tool!ChangeCommits, Tool!Logout
<1>4. CASE Tool!Native
  <2>1. CASE \E kind \in {"started", "completed"} : Tool!Says(kind)
    BY <2>1, SaysStep DEF Tool!Says
  <2>2. CASE \E c \in ToolCalls, r \in Tool!TurnNumbers, key \in Mutations, payload \in Payloads : Tool!CallsTool(c, r, key, payload)
    BY <2>2, CallsToolStep DEF Tool!CallsTool
  <2> QED BY <1>4, <2>1, <2>2 DEF Tool!Native
<1>5. CASE Tool!ReadCall
  BY <1>5, ReadCallStep DEF Tool!ReadCall
<1>6. CASE Tool!ReadResumed \/ Tool!ReadStarted \/ Tool!ReadCompleted \/ Tool!TurnEnds \/ Tool!RunnerDies
  BY <1>6, ReadSteps DEF Tool!ReadResumed, Tool!ReadStarted, Tool!ReadCompleted, Tool!TurnEnds, Tool!RunnerDies
<1>7. CASE Tool!Unconfirmed
  BY <1>7, UnconfirmedStep DEF Tool!Unconfirmed
<1>8. CASE Tool!Handler
  <2>1. PICK c \in ToolCalls : Tool!ReadRow(c) \/ Tool!LockAccount(c) \/ Tool!Mutate(c) \/ Tool!Commit(c) \/ Tool!Aborts(c)
    BY <1>8 DEF Tool!Handler
  <2>2. CASE Tool!Commit(c)
    BY <2>2, CommitStep
  <2>3. CASE Tool!ReadRow(c) \/ Tool!LockAccount(c) \/ Tool!Mutate(c) \/ Tool!Aborts(c)
    BY <2>3, HandlerSteps DEF Tool!ReadRow, Tool!LockAccount, Tool!Mutate, Tool!Aborts
  <2> QED BY <2>1, <2>2, <2>3
<1>9. CASE UNCHANGED toolVars
  BY <1>9, ToolRests DEF toolVars
<1> QED BY <1>1, <1>2, <1>3, <1>4, <1>5, <1>6, <1>7, <1>8, <1>9 DEF Tool!Next, Tool!Runner

LEMMA ToolStarts == Tool!Init => ToolInv
<1> SUFFICES ASSUME Tool!Init PROVE ToolInv
  OBVIOUS
<1>1. 0 \in 0..MaxRequest /\ << >> \in Seq(ToolCalls) /\ << >> \in Seq(Tool!Messages) /\ Len(<< >>) = 0
  BY ToolNumbers
<1>2. RowHolds
  <2>1. [r \in Tool!TurnNumbers |-> "owner"] \in [Tool!TurnNumbers -> Tool!Scopes]
    BY DEF Tool!Scopes
  <2> QED BY <1>1, <2>1 DEF Tool!Init, RowHolds, Rows, Accounts
<1>3. Tool!Idle \in Relays /\ Tool!Idle.turn = 0 /\ Tool!Idle.request = 0 /\ Tool!Idle.step = "none" /\ Tool!Idle.pending = << >>
  BY <1>1 DEF Tool!Idle, Relays
<1>4. row.request = 0 /\ relay = Tool!Idle /\ completed = {} /\ outbox = << >>
  BY DEF Tool!Init
<1>5. RelayHolds
  BY <1>1, <1>3, <1>4, ToolNumbers DEF RelayHolds
<1>6. handled = [c \in ToolCalls |-> Tool!NoWork] /\ calls = [c \in ToolCalls |-> Tool!Unused]
  BY DEF Tool!Init
<1>7. /\ Tool!NoWork \in Handlings /\ Tool!NoWork.at = "none" /\ Tool!NoWork.request = 0
      /\ Tool!Unused \in Asked /\ Tool!Unused.turn = 0 /\ Tool!Unused.answer = "none"
  BY <1>1 DEF Tool!NoWork, Tool!Unused, Handlings, Asked, ToolSteps, Replies
<1>8. handled \in [ToolCalls -> Handlings] /\ calls \in [ToolCalls -> Asked]
  BY <1>6, <1>7
<1>9. \A c \in ToolCalls : CallHolds(c)
  BY <1>6, <1>7 DEF CallHolds
<1>10. StoreHolds
  BY <1>6, <1>7 DEF StoreHolds, Tool!Init
<1> QED BY <1>2, <1>5, <1>8, <1>9, <1>10 DEF ToolInv

-----------------------------------------------------------------------------
(* The parts together: a step of the composition is one of one part.       *)

PartsInv ==
  /\ DispatchInv /\ (part = "once" => SettledInv)
  /\ AnswerInv /\ ShellInv /\ ToolInv

LEMMA PartsStart == AllInit => PartsInv
  BY InitDispatch, InitOnce, AnswerStarts, ShellStarts, ToolStarts DEF AllInit, PartsInv, OnceInv

LEMMA DispatchMoves ==
  ASSUME PartsInv, [AllNext]_allVars
  PROVE  DispatchInv' /\ (part = "once" => SettledInv') /\ part' = part
<1>1. CASE part = "repeated" /\ Next /\ part' = part
  BY <1>1, NextKeepsDispatch DEF PartsInv
<1>2. CASE part = "once" /\ Once!Next /\ part' = part
  BY <1>2, OnceMoves, OnceStepKeeps DEF PartsInv, OnceInv
<1>3. CASE UNCHANGED vars /\ part' = part
  <2>1. DispatchInv'
    BY <1>3, NextKeepsDispatch DEF PartsInv
  <2>2. part = "once" => SettledInv'
    BY <1>3, OnceStepKeeps DEF PartsInv, OnceInv
  <2> QED BY <1>3, <2>1, <2>2
<1> QED BY <1>1, <1>2, <1>3 DEF AllNext, allVars

LEMMA PartsMove ==
  ASSUME PartsInv, [AllNext]_allVars
  PROVE  /\ PartsInv' /\ part' = part
         /\ up /\ up' => Answer!Shown(entry) \subseteq Answer!Shown(entry')
         /\ idem' # idem => account.permitted
<1>1. Answer!Next \/ UNCHANGED answerVars
  BY DEF AllNext, allVars
<1>2. Command!Next \/ UNCHANGED shellVars
  BY DEF AllNext, allVars
<1>3. Tool!Next \/ UNCHANGED toolVars
  BY DEF AllNext, allVars
<1>4. AnswerInv' /\ (up /\ up' => Answer!Shown(entry) \subseteq Answer!Shown(entry'))
  BY <1>1, AnswerStep DEF PartsInv
<1>5. ShellInv'
  BY <1>2, ShellStep DEF PartsInv
<1>6. ToolInv' /\ (idem' # idem => account.permitted)
  BY <1>3, ToolStep DEF PartsInv
<1> QED BY <1>4, <1>5, <1>6, DispatchMoves DEF PartsInv

LEMMA PartsHold == AllSpec => []PartsInv
<1>1. PartsInv /\ [AllNext]_allVars => PartsInv'
  BY PartsMove
<1> QED BY <1>1, PartsStart, PTL DEF AllSpec

(* Every part keeps to its types, whatever the bounds are                  *)
(* (MCTurnDispatch.AllTypeOK).                                             *)
THEOREM PartsAreTyped == AllSpec => []AllTypeOK
<1>1. PartsInv => AllTypeOK
  BY DispatchIsTyped, AnswerFollows, ShellFollows, ToolFollows DEF PartsInv, AllTypeOK
<1> QED BY <1>1, PartsHold, PTL

(* A request runs one turn whatever the network repeats; an open           *)
(* connection to the executor is the running turn's and one command runs   *)
(* there; a tool runs for the turn whose token it carries, writes once, and*)
(* never for a public page (MCTurnDispatch.RunsOnceAndAlone).              *)
THEOREM EverythingRunsOnce == AllSpec => []RunsOnceAndAlone
<1>1. PartsInv => RunsOnceAndAlone
  BY ShellFollows, ToolFollows DEF PartsInv, DispatchInv, RunnerInv, RunsOnceAndAlone
<1> QED BY <1>1, PartsHold, PTL

(* No history read that was under way puts an older entry back while a     *)
(* worker runs (TurnDispatch.ReservationStands).                           *)
THEOREM ReservationsStand == AllSpec => []ReservationStands
<1>1. PartsInv => ReservationStands
  BY DEF PartsInv, DispatchInv, RunnerInv
<1> QED BY <1>1, PartsHold, PTL

(* What a conversation shows is what happened to its turns: no input is    *)
(* lost; an outcome has no work left when the network repeats nothing; a   *)
(* refused answer, once saved, is never shown and a shown one is not lost; *)
(* no tool writes for an owner whose permission was taken                  *)
(* (MCTurnDispatch.OutcomesAreTrue).                                       *)
THEOREM OutcomesAreShown == AllSpec => OutcomesAreTrue
<1>1. PartsInv /\ [AllNext]_allVars => [InputKept' /\ (part = "once" => SettledIsSettled')]_vars
  <2> SUFFICES ASSUME PartsInv, [AllNext]_allVars PROVE InputKept' /\ (part = "once" => SettledIsSettled')
    OBVIOUS
  <2>1. PartsInv' /\ part' = part
    BY PartsMove
  <2>2. InputKept' /\ (part = "once" => OnceInv')
    BY <2>1 DEF PartsInv, OnceInv, DispatchInv
  <2>3. OnceInv' => SettledIsSettled'
    BY SettledFollows, PTL
  <2> QED BY <2>2, <2>3
<1>2. PartsInv /\ [AllNext]_allVars => [Answer!QuarantineHolds' /\ Answer!CompletedIsShown']_answerVars
  <2>1. AnswerInv' => Answer!QuarantineHolds' /\ Answer!CompletedIsShown'
    BY AnswerFollows, PTL
  <2> QED BY <2>1, PartsMove DEF PartsInv
<1>3. PartsInv /\ [AllNext]_allVars => [up /\ up' => Answer!Shown(entry) \subseteq Answer!Shown(entry')]_(Answer!vars)
  BY PartsMove
<1>4. PartsInv /\ [AllNext]_allVars => [idem' # idem => account.permitted]_(Tool!toolVars)
  BY PartsMove
<1> QED BY <1>1, <1>2, <1>3, <1>4, PartsHold, PTL
    DEF AllSpec, OutcomesAreTrue, Answer!ShownIsKept, Tool!WritesWhilePermitted
=============================================================================
