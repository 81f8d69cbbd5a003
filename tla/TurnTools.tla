------------------------------ MODULE TurnTools ------------------------------
(***************************************************************************)
(* The storage tools of one conversation's turns: the grant a message      *)
(* makes, the runner that relays the native process's calls, and the API's *)
(* handler of a relayed call (app/conversations.py, app/research_tools.py, *)
(* app/page_scope.py, Native in runner/app.py), while memberships change,  *)
(* people log out, answers are late and the runner dies.                   *)
(*                                                                         *)
(* The native process is external: it calls tools for any turn it ever     *)
(* began.  It runs request r as native turn r of one thread.               *)
(***************************************************************************)
EXTENDS Naturals, Sequences

CONSTANTS MaxRequest,  \* bound: messages of the conversation
          ToolCalls,   \* tool calls of the native process
          Mutations,   \* mutation ids it uses, again or not
          Payloads,    \* what it asks to write
          MaxPending   \* calls kept until turn/start is answered: 32

Nothing == "nothing"
NoCall  == "none"

ToolAssumption ==
  /\ MaxRequest \in Nat \ {0} /\ MaxPending \in Nat
  /\ NoCall \notin ToolCalls /\ Nothing \notin Payloads

VARIABLES
  row,       \* the conversation
  account,   \* the owner: permitted, and who holds its row's lock
  login,     \* the login session the messages came with is there
  handled,   \* tool call -> its transaction in the API
  idem,      \* research idempotency: mutation id -> payload committed
  times,     \* history: mutation id -> how often its mutation was committed
  worker,    \* the runner's turn, and the call whose answer it waits for
  completed, \* Native.completed: the turns whose end was read
  outbox,    \* what the native process wrote, not read yet
  calls      \* tool call -> what it asks, and its answer

toolVars == << row, account, login, handled, idem, times, worker, completed, outbox, calls >>

TurnNumbers == 1..MaxRequest
Scopes   == {"owner", "public"}
Idle     == [ request |-> 0, step |-> "none", turn |-> 0, pending |-> << >>, waits |-> NoCall ]
Unused   == [ turn |-> 0, mutation |-> Nothing, payload |-> Nothing, answer |-> "none" ]
NoWork   == [ at |-> "none", request |-> 0 ]

Messages == [ kind : {"resumed", "started", "completed"}, turn : TurnNumbers ] \cup [ kind : {"call"}, call : ToolCalls ]

TypeOK ==
  /\ row \in [ request : 0..MaxRequest, grant : 0..MaxRequest, fresh : BOOLEAN, launched : BOOLEAN,
               state : {"idle", "running", "failed"}, scope : [TurnNumbers -> Scopes], archived : BOOLEAN ]
  /\ account \in [ permitted : BOOLEAN, share : SUBSET ToolCalls, changing : BOOLEAN ]
  /\ login \in BOOLEAN
  /\ handled \in [ToolCalls -> [ at : {"none", "sent", "row", "locked", "written", "ended"}, request : 0..MaxRequest ]]
  /\ idem \in [Mutations -> Payloads \cup {Nothing}] /\ times \in [Mutations -> Nat]
  /\ worker.request \in 0..MaxRequest /\ worker.turn \in {0, worker.request}
  /\ worker.step \in {"none", "resuming", "starting", "active"}
  /\ worker.pending \in Seq(ToolCalls) /\ Len(worker.pending) <= MaxPending /\ worker.waits \in ToolCalls \cup {NoCall}
  /\ completed \subseteq TurnNumbers /\ outbox \in Seq(Messages)
  /\ calls \in [ToolCalls -> [ turn : 0..MaxRequest, mutation : Mutations \cup {Nothing},
                  payload : Payloads \cup {Nothing}, answer : {"none", "yes", "no", "unconfirmed"} ]]
  /\ row.grant # 0 => row.grant = row.request /\ row.state = "running"
  /\ account.changing => account.share = {}

Init ==
  /\ row = [ request |-> 0, grant |-> 0, fresh |-> FALSE, launched |-> FALSE, state |-> "idle",
             scope |-> [r \in TurnNumbers |-> "owner"], archived |-> FALSE ]
  /\ account = [ permitted |-> TRUE, share |-> {}, changing |-> FALSE ] /\ login = TRUE
  /\ handled = [c \in ToolCalls |-> NoWork] /\ idem = [k \in Mutations |-> Nothing] /\ times = [k \in Mutations |-> 0]
  /\ worker = Idle /\ completed = {} /\ outbox = << >> /\ calls = [c \in ToolCalls |-> Unused]

-----------------------------------------------------------------------------
(* The conversation: messages, their launch, what a read learns.           *)

(* A message makes the grant: a new token, bound to the request, the login *)
(* and half an hour.                                                       *)
Message(scope) ==
  /\ ~row.archived /\ row.state # "running" /\ row.request < MaxRequest
  /\ login /\ account.permitted /\ ~account.changing
  /\ row' = [row EXCEPT !.request = @ + 1, !.grant = row.request + 1, !.fresh = TRUE, !.launched = FALSE,
                        !.state = "running", !.scope[row.request + 1] = scope]
  /\ UNCHANGED << account, login, handled, idem, times, worker, completed, outbox, calls >>

(* launch: the runner takes the request, or refuses it for good; the       *)
(* runner's worker first resumes the thread.                               *)
Launch ==
  /\ row.state = "running" /\ ~row.launched
  /\ \/ /\ worker.step = "none" /\ row' = [row EXCEPT !.launched = TRUE]
        /\ worker' = [Idle EXCEPT !.request = row.request, !.step = "resuming"]
        /\ outbox' = Append(outbox, [ kind |-> "resumed", turn |-> row.request ])
     \/ /\ row' = [row EXCEPT !.launched = TRUE, !.state = "failed", !.grant = 0]
        /\ UNCHANGED << worker, outbox >>
  /\ UNCHANGED << account, login, handled, idem, times, completed, calls >>

(* refresh: the runner's answer, for this request, that the turn ended.    *)
Refresh ==
  /\ row.state = "running" /\ row.launched /\ worker.step = "none"
  /\ \E outcome \in {"idle", "failed"} : row' = [row EXCEPT !.state = outcome, !.grant = 0]
  /\ UNCHANGED << account, login, handled, idem, times, worker, completed, outbox, calls >>

Archive ==
  /\ ~row.archived /\ row.state # "running"
  /\ row' = [row EXCEPT !.archived = TRUE, !.grant = 0]
  /\ UNCHANGED << account, login, handled, idem, times, worker, completed, outbox, calls >>

(* tool_expires_at passes.                                                 *)
Expire ==
  /\ row.fresh /\ row' = [row EXCEPT !.fresh = FALSE]
  /\ UNCHANGED << account, login, handled, idem, times, worker, completed, outbox, calls >>

-----------------------------------------------------------------------------
(* The account: set_membership holds its row FOR UPDATE and ends its       *)
(* logins; a logout deletes the login and locks nothing.                   *)

ChangeBegins ==
  /\ account.permitted /\ ~account.changing /\ account.share = {}
  /\ account' = [account EXCEPT !.changing = TRUE]
  /\ UNCHANGED << row, login, handled, idem, times, worker, completed, outbox, calls >>

ChangeCommits ==
  /\ account.changing /\ account' = [account EXCEPT !.changing = FALSE, !.permitted = FALSE] /\ login' = FALSE
  /\ UNCHANGED << row, handled, idem, times, worker, completed, outbox, calls >>

Logout ==
  /\ login /\ login' = FALSE
  /\ UNCHANGED << row, account, handled, idem, times, worker, completed, outbox, calls >>

-----------------------------------------------------------------------------
(* The native process.                                                     *)

(* It has begun turn r when turn/start was sent for it.                    *)
Begun(r) == r < worker.request \/ (r = worker.request /\ worker.step \in {"starting", "active"})

CallsTool(c, r, key, payload) ==
  /\ calls[c] = Unused /\ worker.step # "none" /\ Begun(r)
  /\ calls' = [calls EXCEPT ![c] = [ turn |-> r, mutation |-> key, payload |-> payload, answer |-> "none" ]]
  /\ outbox' = Append(outbox, [ kind |-> "call", call |-> c ])
  /\ UNCHANGED << row, account, login, handled, idem, times, worker, completed >>

(* It answers turn/start, and it ends the turn, in either order.           *)
Says(kind) ==
  /\ worker.step \in {"starting", "active"}
  /\ LET said == [ kind |-> kind, turn |-> worker.request ] IN
     /\ said \notin { outbox[i] : i \in DOMAIN outbox }
     /\ kind = "started" => worker.turn = 0
     /\ kind = "completed" => worker.request \notin completed
     /\ outbox' = Append(outbox, said)
  /\ UNCHANGED << row, account, login, handled, idem, times, worker, completed, calls >>

-----------------------------------------------------------------------------
(* The runner's worker, or between turns a read of the history: receive    *)
(* and reply_tool, one message at a time.                                  *)

Reads == worker.waits = NoCall /\ outbox # << >>

Refuse(c) == calls' = [calls EXCEPT ![c].answer = "no"]

(* thread/resume is answered: turn/start is sent.                          *)
ReadResumed ==
  /\ Reads /\ worker.step = "resuming" /\ Head(outbox).kind = "resumed" /\ Head(outbox).turn = worker.request
  /\ worker' = [worker EXCEPT !.step = "starting"] /\ outbox' = Tail(outbox)
  /\ UNCHANGED << row, account, login, handled, idem, times, completed, calls >>

(* turn/start is answered: the calls kept till now are looked at first.    *)
ReadStarted ==
  /\ Reads /\ worker.step = "starting" /\ Head(outbox).kind = "started"
  /\ worker' = [worker EXCEPT !.step = "active", !.turn = worker.request, !.pending = << >>]
  /\ outbox' = [i \in DOMAIN worker.pending |-> [ kind |-> "call", call |-> worker.pending[i] ]] \o Tail(outbox)
  /\ UNCHANGED << row, account, login, handled, idem, times, completed, calls >>

(* The end of a turn is noted, whoever waits for it; an active worker      *)
(* takes that of its own turn and is done, or fails.                       *)
ReadCompleted ==
  /\ Reads /\ Head(outbox).kind \in {"completed", "started", "resumed"}
  /\ Head(outbox).kind = "completed" \/ Head(outbox).turn # worker.request
  /\ completed' = IF Head(outbox).kind = "completed" THEN completed \cup {Head(outbox).turn} ELSE completed
  /\ outbox' = Tail(outbox)
  /\ UNCHANGED << row, account, login, handled, idem, times, worker, calls >>

TurnEnds ==
  /\ worker.step = "active" /\ worker.waits = NoCall /\ worker.turn \in completed
  /\ worker' = Idle /\ completed' = completed \ {worker.turn}
  /\ UNCHANGED << row, account, login, handled, idem, times, outbox, calls >>

(* "Wait for correlated turn/start response; never borrow a token early."  *)
Kept(c) == worker.step = "starting"

(* Mutant: any turn of the thread will do.                                 *)
MatchesThread(c) == worker.step \in {"starting", "active"}

(* The call is of the turn that runs, and that turn has not ended.         *)
Matches(c) == worker.step = "active" /\ calls[c].turn = worker.turn /\ worker.turn \notin completed

(* Mutant: the public modes are not told apart.                            *)
ToolAllowedAnywhere(r) == r # 0

(* page_scope.tool_allowed, at both boundaries: the calls here write, and  *)
(* a public page's policy has no tool that does.                           *)
ToolAllowed(r) == row.scope[r] = "owner"

(* A call is kept, refused, or relayed with the token of the turn; the     *)
(* runner's own permission may be gone, which refuses it and fails the     *)
(* turn.                                                                   *)
ReadCall ==
  /\ Reads /\ Head(outbox).kind = "call"
  /\ LET c == Head(outbox).call IN
     \/ /\ Kept(c) /\ Len(worker.pending) < MaxPending
        /\ worker' = [worker EXCEPT !.pending = Append(@, c)] /\ UNCHANGED << handled, calls >>
     \/ /\ IF Kept(c) THEN Len(worker.pending) = MaxPending ELSE ~(Matches(c) /\ ToolAllowed(worker.request))
        /\ Refuse(c) /\ UNCHANGED << handled, worker >>
     \/ /\ ~Kept(c) /\ Matches(c) /\ ToolAllowed(worker.request)
        /\ worker' = [worker EXCEPT !.waits = c]
        /\ handled' = [handled EXCEPT ![c] = [ at |-> "sent", request |-> worker.request ]] /\ UNCHANGED calls
     \/ /\ ~Kept(c) /\ Matches(c) /\ Refuse(c) /\ worker' = Idle /\ UNCHANGED handled
  /\ outbox' = Tail(outbox)
  /\ UNCHANGED << row, account, login, idem, times, completed >>

(* 15 seconds: "Storage tool did not confirm success".                     *)
Unconfirmed ==
  /\ worker.waits # NoCall
  /\ calls' = [calls EXCEPT ![worker.waits].answer = "unconfirmed"] /\ worker' = [worker EXCEPT !.waits = NoCall]
  /\ UNCHANGED << row, account, login, handled, idem, times, completed, outbox >>

(* The runner dies with its native process.                                *)
RunnerDies ==
  /\ worker.step # "none" /\ worker' = Idle /\ outbox' = << >> /\ completed' = {}
  /\ UNCHANGED << row, account, login, handled, idem, times, calls >>

-----------------------------------------------------------------------------
(* The API's handler of a relayed call: one transaction.                   *)

(* The transaction is over, its locks are free; a worker that still waits  *)
(* for it reads the answer.                                                *)
Ends(c, answer) ==
  /\ handled' = [handled EXCEPT ![c].at = "ended"]
  /\ account' = [account EXCEPT !.share = @ \ {c}]
  /\ IF worker.waits = c
     THEN /\ calls' = [calls EXCEPT ![c].answer = answer] /\ worker' = [worker EXCEPT !.waits = NoCall]
     ELSE UNCHANGED << calls, worker >>

(* The grant is still that of the open turn: token, request, state, time.  *)
Granted(r) == row.grant = r /\ row.request = r /\ row.state = "running" /\ row.fresh /\ ~row.archived

(* The row is read without a lock.                                         *)
ReadRow(c) ==
  /\ handled[c].at = "sent"
  /\ IF Granted(handled[c].request)
     THEN handled' = [handled EXCEPT ![c].at = "row"] /\ UNCHANGED << account, calls, worker >>
     ELSE Ends(c, "no")
  /\ UNCHANGED << row, login, idem, times, completed, outbox >>

(* Mutant: the account is read, not locked.                                *)
ShareTakenBriefly(c) == account.share

ShareTaken(c) == account.share \cup {c}

(* The account FOR SHARE, which waits for a membership change; then the    *)
(* login and the permission.                                               *)
LockAccount(c) ==
  /\ handled[c].at = "row" /\ ~account.changing
  /\ IF login /\ account.permitted /\ ToolAllowed(handled[c].request)
     THEN /\ handled' = [handled EXCEPT ![c].at = "locked"] /\ account' = [account EXCEPT !.share = ShareTaken(c)]
          /\ UNCHANGED << calls, worker >>
     ELSE Ends(c, "no")
  /\ UNCHANGED << row, login, idem, times, completed, outbox >>

Key(c) == calls[c].mutation

(* Mutant: a key is only looked up once another request has used it.       *)
NewUnlessAnswered(c) == idem[Key(c)] = Nothing \/ \A d \in ToolCalls \ {c} : calls[d].answer # "yes"

(* The mutation id was not used.                                           *)
New(c) == idem[Key(c)] = Nothing

(* Mutant: a key's first answer serves every request that names it.        *)
SameAny(c) == TRUE

Same(c) == idem[Key(c)] = calls[c].payload

(* Store.mutate, behind the key's advisory lock, which is held to the end. *)
Mutate(c) ==
  /\ handled[c].at = "locked" /\ \A d \in ToolCalls : handled[d].at = "written" => Key(d) # Key(c)
  /\ IF New(c)
     THEN handled' = [handled EXCEPT ![c].at = "written"] /\ UNCHANGED << account, calls, worker >>
     ELSE Ends(c, IF Same(c) THEN "yes" ELSE "no")
  /\ UNCHANGED << row, login, idem, times, completed, outbox >>

(* The answer leaves after the commit.                                     *)
Commit(c) ==
  /\ handled[c].at = "written"
  /\ idem' = [idem EXCEPT ![Key(c)] = calls[c].payload] /\ times' = [times EXCEPT ![Key(c)] = @ + 1]
  /\ Ends(c, "yes")
  /\ UNCHANGED << row, login, completed, outbox >>

(* A step of the transaction fails, the service dies: nothing is written.  *)
Aborts(c) ==
  /\ handled[c].at \in {"row", "locked", "written"} /\ Ends(c, "unconfirmed")
  /\ UNCHANGED << row, login, idem, times, completed, outbox >>

-----------------------------------------------------------------------------
Native ==
  \/ \E c \in ToolCalls, r \in TurnNumbers, key \in Mutations, payload \in Payloads : CallsTool(c, r, key, payload)
  \/ \E kind \in {"started", "completed"} : Says(kind)

Runner == ReadResumed \/ ReadStarted \/ ReadCompleted \/ TurnEnds \/ ReadCall \/ Unconfirmed \/ RunnerDies

Handler == \E c \in ToolCalls : ReadRow(c) \/ LockAccount(c) \/ Mutate(c) \/ Commit(c) \/ Aborts(c)

Next ==
  \/ \E scope \in Scopes : Message(scope)
  \/ Launch \/ Refresh \/ Archive \/ Expire \/ ChangeBegins \/ ChangeCommits \/ Logout
  \/ Native \/ Runner \/ Handler

Spec == Init /\ [][Next]_toolVars

-----------------------------------------------------------------------------
(* "Order membership revocation against already-admitted operations": no   *)
(* tool's write is committed after the change that took the owner's        *)
(* permission was.                                                         *)
WritesWhilePermitted == [][idem' # idem => account.permitted]_toolVars

(* "old or completed turns cannot borrow the new token": a call that is    *)
(* handed to the API belongs to the turn whose token it carries.           *)
NoTokenIsBorrowed == \A c \in ToolCalls : handled[c].request \in {0, calls[c].turn}

(* "mutationId is a UUID reused only for an identical retry": whatever     *)
(* answers were lost or late, a mutation is made once, and who is told yes *)
(* is told so of what was written.                                         *)
WrittenOnce ==
  /\ \A k \in Mutations : times[k] <= 1
  /\ \A c \in ToolCalls : calls[c].answer = "yes" => idem[Key(c)] = calls[c].payload

(* A turn of a public page leaves nothing written.                         *)
PublicWritesNothing ==
  \A c \in ToolCalls : calls[c].answer = "yes" \/ handled[c].at = "written" => row.scope[handled[c].request] = "owner"
=============================================================================
