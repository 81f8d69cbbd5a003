--------------------------- MODULE MCTurnDispatch ---------------------------
(* A conversation's turns for TLC, part by part: their dispatch, once with *)
(* a network that may deliver a submission again and once without; what is *)
(* shown of turns that another model served; the shell commands that turns *)
(* run; and their storage tools.  A behaviour is one of one part, the      *)
(* others rest in an initial state.                                        *)
EXTENDS TurnDispatch, TLC

CONSTANTS MaxTurn, Calls, MaxLease, Slots, Handlers, MaxRequest, ToolCalls, Mutations, Payloads, MaxPending

VARIABLES
  part,                                                                              \* which part is explored
  bad, next, orig, entry, saved, serving, reading, up, active, blocked, noted, caught,  \* ModelQuarantine
  lease, given, call, conn, handler, procs, workspace,                               \* ShellLease
  row, account, login, handled, idem, times, relay, completed, outbox, calls           \* TurnTools

answerVars == << bad, next, orig, entry, saved, serving, reading, up, active, blocked, noted, caught >>
shellVars  == << lease, given, call, conn, handler, procs, workspace >>
toolVars   == << row, account, login, handled, idem, times, relay, completed, outbox, calls >>

Once    == INSTANCE TurnDispatch WITH Duplicates <- FALSE
Answer  == INSTANCE ModelQuarantine WITH disk <- saved, worker <- serving
Command == INSTANCE ShellLease
Tool    == INSTANCE TurnTools WITH worker <- relay

ASSUME PartsAssumption ==
  Answer!QuarantineAssumption /\ Command!ShellAssumption /\ Tool!ToolAssumption

Interchangeable == Permutations(Sessions) \cup Permutations(Requests) \cup Permutations(ToolCalls) \cup Permutations(Payloads)

AllInit ==
  /\ part \in {"repeated", "once", "answers", "shell", "tools"}
  /\ Init /\ Answer!Init /\ Command!Init /\ Tool!Init
  /\ part # "answers" => bad = {}

AllNext ==
  \/ part = "repeated" /\ Next /\ UNCHANGED << part, answerVars, shellVars, toolVars >>
  \/ part = "once" /\ Once!Next /\ UNCHANGED << part, answerVars, shellVars, toolVars >>
  \/ part = "answers" /\ Answer!Next /\ UNCHANGED << part, vars, shellVars, toolVars >>
  \/ part = "shell" /\ Command!Next /\ UNCHANGED << part, vars, answerVars, toolVars >>
  \/ part = "tools" /\ Tool!Next /\ UNCHANGED << part, vars, answerVars, shellVars >>

allVars == << part, vars, answerVars, shellVars, toolVars >>

AllSpec == AllInit /\ [][AllNext]_allVars

-----------------------------------------------------------------------------
AllTypeOK == TypeOK /\ Answer!TypeOK /\ Command!TypeOK /\ Tool!TypeOK

(* What a conversation shows is what happened to its turns: no input is    *)
(* lost whatever the outcome; unless the network repeats a submission, a   *)
(* conversation that shows an outcome has no work left; a refused answer   *)
(* is never shown, and a normal one is not lost; and no tool writes for an  *)
(* owner whose permission was taken.                                       *)
OutcomesAreTrue ==
  /\ [][InputKept' /\ (part = "once" => SettledIsSettled')]_vars
  /\ [][Answer!QuarantineHolds' /\ Answer!CompletedIsShown']_answerVars
  /\ Answer!ShownIsKept /\ Tool!WritesWhilePermitted

(* A request runs one turn, whatever the network repeats; and a command is *)
(* only ever that of the running turn, alone in its executor.  A tool runs *)
(* for the turn whose token it carries, writes once, and never for a       *)
(* public page.                                                            *)
RunsOnceAndAlone ==
  /\ OneTurnPerRequest /\ Command!OpenIsCurrent /\ Command!OneCommandAtATime
  /\ Tool!NoTokenIsBorrowed /\ Tool!WrittenOnce /\ Tool!PublicWritesNothing
=============================================================================
