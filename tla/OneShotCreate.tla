--------------------------- MODULE OneShotCreate ----------------------------
(***************************************************************************)
(* The rehearsal's single Pod creation (ops/runner_one_shot.py): one       *)
(* durable permit in a directory that every run shares, the Pod's UID      *)
(* bound once beside it, and the controller's reservation in a database.   *)
(* Runs may overlap, die at any step, lose the answer of their POST, find  *)
(* a restored database, and find a Pod that others put in its place.       *)
(***************************************************************************)
EXTENDS Naturals

CONSTANTS Runs,    \* invocations, each with an empty evidence directory
          MaxPods  \* bound: Pods ever made under the name

None == "none"

OneShotAssumption == MaxPods \in Nat \ {0} /\ None \notin Runs

VARIABLES
  boot,     \* the disposable database: "virgin", "claimed", "migrated", "ready"
  permit,   \* create-permit.json
  uidFile,  \* pod-uid.json: the Pod bound, 0 for no file
  row,      \* the registry row: ensure's receipt, the Pod's UID; owner: the run in its transaction
  pod,      \* the Pod of the name, 0 for none
  made,     \* Pods made so far under the name
  flying,   \* POSTs sent and not yet handled by the API server
  sent,     \* history: POSTs sent
  restored, \* history: an older database was put back
  run       \* run -> its step and what it has read

shotVars == << boot, permit, uidFile, row, pod, made, flying, sent, restored, run >>

NewRun == [ step |-> "new", fresh |-> FALSE, known |-> 0, uid |-> 0, ticket |-> FALSE ]
Steps == {"new", "read", "claimed", "reserve", "look", "preflight", "again", "post", "asked", "bind", "observe", "lookup",
          "keep", "reconcile", "reread", "rebind", "health", "done", "refused"}

TypeOK ==
  /\ boot \in {"virgin", "claimed", "migrated", "ready"} /\ permit \in BOOLEAN /\ uidFile \in 0..MaxPods
  /\ row \in [ issued : BOOLEAN, uid : 0..MaxPods, owner : Runs \cup {None} ]
  /\ pod \in 0..made /\ made \in 0..MaxPods /\ flying \subseteq Runs /\ sent \in Nat /\ restored \in BOOLEAN
  /\ run \in [ Runs -> [ step : Steps, fresh : BOOLEAN, known : 0..MaxPods, uid : 0..MaxPods, ticket : BOOLEAN ] ]

Init ==
  /\ boot = "virgin" /\ permit = FALSE /\ uidFile = 0 /\ row = [ issued |-> FALSE, uid |-> 0, owner |-> None ]
  /\ pod = 0 /\ made = 0 /\ flying = {} /\ sent = 0 /\ restored = FALSE /\ run = [r \in Runs |-> NewRun]

-----------------------------------------------------------------------------
(* "Virgin disposable DB only; a partial bootstrap is retained, never      *)
(* repaired": its marker is created exclusively, so it gets one attempt.   *)
Bootstrap ==
  /\ boot' = CASE boot = "virgin" -> "claimed" [] boot = "claimed" -> "migrated" [] OTHER -> "ready"
  /\ boot # "ready"
  /\ UNCHANGED << permit, uidFile, row, pod, made, flying, sent, restored, run >>

-----------------------------------------------------------------------------
At(r, step) == run[r].step = step
To(r, step) == run' = [run EXCEPT ![r].step = step]

(* An exception: the transaction is rolled back, the process ends.         *)
Refuse(r) == To(r, "refused") /\ row' = (IF row.owner = r THEN [row EXCEPT !.owner = None] ELSE row)

Files == << permit, uidFile >>
Cluster == << pod, made, flying, sent >>

(* check_db: only a database whose bootstrap was completed has a row.      *)
ReadRow(r) ==
  /\ At(r, "new") /\ boot = "ready"
  /\ run' = [run EXCEPT ![r].step = "read", ![r].known = row.uid]
  /\ UNCHANGED << boot, Files, row, Cluster, restored >>

(* Mutant: the permit is looked for, and written once the Pod is made.     *)
ClaimsLater == uidFile # 0

(* "Even a crash before the first API call consumes this permission        *)
(* forever": created exclusively and synced, before anything else.         *)
Claims == TRUE

Claim(r) ==
  /\ At(r, "read") /\ permit' = (permit \/ Claims)
  /\ run' = [run EXCEPT ![r].step = "claimed", ![r].fresh = ~permit]
  /\ UNCHANGED << boot, uidFile, row, Cluster, restored >>

(* preflight(): at most one Pod, exactly as planned.  The fresh run wants  *)
(* none and no receipt; any other only looks.                              *)
Preflight(r) ==
  /\ At(r, "claimed")
  /\ IF ~run[r].fresh THEN To(r, "lookup") /\ UNCHANGED row
     ELSE IF pod = 0 /\ run[r].known = 0 THEN To(r, "reserve") /\ UNCHANGED row
     ELSE Refuse(r)
  /\ UNCHANGED << boot, Files, Cluster, restored >>

(* Controller.reserve: the receipt, in a transaction of its own.           *)
Reserve(r) ==
  /\ At(r, "reserve") /\ row.owner = None
  /\ IF row.uid # 0 THEN Refuse(r)
     ELSE /\ row' = [row EXCEPT !.issued = TRUE]
          /\ run' = [run EXCEPT ![r].step = "look", ![r].ticket = ~row.issued]
  /\ UNCHANGED << boot, Files, Cluster, restored >>

(* ensure's second transaction, under the owner's lock from here on.       *)
LookBeforeCreate(r) ==
  /\ At(r, "look") /\ row.owner = None
  /\ IF row.uid # 0 THEN run' = [run EXCEPT ![r].step = "rebind", ![r].uid = row.uid] /\ UNCHANGED row
     ELSE IF pod # 0 THEN row' = [row EXCEPT !.owner = r] /\ run' = [run EXCEPT ![r].step = "observe", ![r].uid = pod]
     ELSE IF run[r].ticket THEN row' = [row EXCEPT !.owner = r] /\ To(r, "preflight")
     ELSE Refuse(r)
  /\ UNCHANGED << boot, Files, Cluster, restored >>

(* create_once: the Port's own permission is consumed, then a preflight,   *)
(* the server's dry run, and the preflight again.                          *)
PreflightAgain(r) ==
  /\ At(r, "preflight") \/ At(r, "again")
  /\ IF pod = 0 THEN To(r, IF At(r, "preflight") THEN "again" ELSE "post") /\ UNCHANGED row ELSE Refuse(r)
  /\ UNCHANGED << boot, Files, Cluster, restored >>

Post(r) ==
  /\ At(r, "post") /\ flying' = flying \cup {r} /\ sent' = sent + 1 /\ To(r, "asked")
  /\ UNCHANGED << boot, Files, row, pod, made, restored >>

(* The API server handles it, whether or not the run still waits.          *)
Handled(r) ==
  /\ r \in flying /\ flying' = flying \ {r}
  /\ IF pod = 0 /\ made < MaxPods
     THEN /\ made' = made + 1 /\ pod' = made + 1
          /\ run' = IF At(r, "asked") THEN [run EXCEPT ![r].step = "bind", ![r].uid = made + 1] ELSE run
     ELSE UNCHANGED << made, pod, run >>
  /\ UNCHANGED << boot, Files, row, sent, restored >>

(* Mutant: the latest UID is written over the one that was bound.          *)
BoundAgain(uid) == uid

(* bind_uid: an exclusive create, or the same value.                       *)
Bound(uid) == IF uidFile = 0 THEN uid ELSE uidFile

BindUid(r, next) ==
  /\ uidFile' = Bound(run[r].uid)
  /\ IF Bound(run[r].uid) = run[r].uid THEN To(r, next) /\ UNCHANGED row ELSE Refuse(r)
  /\ UNCHANGED << boot, permit, Cluster, restored >>

BindCreated(r) == At(r, "bind") /\ BindUid(r, "observe")

(* observe() and the commit that releases the owner's lock.                *)
Observe(r) ==
  /\ At(r, "observe") /\ row.owner = r
  /\ row' = [row EXCEPT !.uid = run[r].uid, !.owner = None] /\ To(r, "rebind")
  /\ UNCHANGED << boot, Files, Cluster, restored >>

-----------------------------------------------------------------------------
(* "No reserve/ensure on re-entry, even if a DB backup lost its receipt."  *)
Lookup(r) ==
  /\ At(r, "lookup")
  /\ IF pod # 0 /\ run[r].known \in {0, pod}
     THEN run' = [run EXCEPT ![r].step = "keep", ![r].uid = pod] /\ UNCHANGED row
     ELSE Refuse(r)
  /\ UNCHANGED << boot, Files, Cluster, restored >>

BindFound(r) == At(r, "keep") /\ BindUid(r, IF run[r].known = 0 THEN "reconcile" ELSE "rebind")

(* Controller.reconcile: the row as it was read, a receipt, and whatever   *)
(* Pod the name has now.                                                   *)
Reconcile(r) ==
  /\ At(r, "reconcile") /\ row.owner = None
  /\ IF row.issued /\ row.uid = 0 /\ pod # 0 THEN row' = [row EXCEPT !.uid = pod] /\ To(r, "reread") ELSE Refuse(r)
  /\ UNCHANGED << boot, Files, Cluster, restored >>

(* "result.pod_uid == pod.uid", once committed.                            *)
Same(r) == row.uid = run[r].uid

Compare(r) ==
  /\ At(r, "reread") /\ (IF Same(r) THEN To(r, "rebind") /\ UNCHANGED row ELSE Refuse(r))
  /\ UNCHANGED << boot, Files, Cluster, restored >>

Rebind(r) == At(r, "rebind") /\ BindUid(r, "health")

(* Mutant: health is asked of whatever Pod has the name.                   *)
AnswersAny(r) == pod # 0

(* "Every observation is UID/spec checked"; the runner's own answer names  *)
(* its Pod too.                                                            *)
Answers(r) == pod = run[r].uid

Health(r) ==
  /\ At(r, "health") /\ (IF Answers(r) THEN To(r, "done") /\ UNCHANGED row ELSE Refuse(r))
  /\ UNCHANGED << boot, Files, Cluster, restored >>

-----------------------------------------------------------------------------
(* A timeout, a lost answer, an unreachable API or a kill: at any step.    *)
Dies(r) == run[r].step \notin {"new", "done", "refused"} /\ Refuse(r) /\ UNCHANGED << boot, Files, Cluster, restored >>

OthersDelete == pod # 0 /\ pod' = 0 /\ UNCHANGED << boot, Files, row, made, flying, sent, restored, run >>

OthersMake ==
  /\ pod = 0 /\ permit /\ made < MaxPods /\ pod' = made + 1 /\ made' = made + 1
  /\ UNCHANGED << boot, Files, row, flying, sent, restored, run >>

(* A backup from before the receipt, while no transaction is open.         *)
RestoreBackup ==
  /\ row.owner = None /\ row.issued /\ ~restored /\ restored' = TRUE /\ row' = [row EXCEPT !.issued = FALSE, !.uid = 0]
  /\ UNCHANGED << boot, Files, Cluster, run >>

Rests == (\A r \in Runs : run[r].step \in {"done", "refused"}) /\ UNCHANGED shotVars

-----------------------------------------------------------------------------
Next ==
  \/ Bootstrap \/ OthersDelete \/ OthersMake \/ RestoreBackup \/ Rests
  \/ \E r \in Runs :
       \/ ReadRow(r) \/ Claim(r) \/ Preflight(r) \/ Reserve(r) \/ LookBeforeCreate(r) \/ PreflightAgain(r)
       \/ Post(r) \/ Handled(r) \/ BindCreated(r) \/ Observe(r)
       \/ Lookup(r) \/ BindFound(r) \/ Reconcile(r) \/ Compare(r) \/ Rebind(r) \/ Health(r) \/ Dies(r)

Spec == Init /\ [][Next]_shotVars

-----------------------------------------------------------------------------
(* "one durable creation permission": over all runs, whatever died and     *)
(* whatever the database forgot, one POST is sent.                         *)
OnePost == sent <= 1

(* "test_pod_uid_cannot_be_rebound".                                       *)
UidKept == [][uidFile # 0 => uidFile' = uidFile]_uidFile

(* A result names one Pod: the bound one, the recorded one and the one     *)
(* that answered.                                                          *)
ResultNamesOnePod ==
  [][\A r \in Runs : ~At(r, "done") /\ run'[r].step = "done" =>
       uidFile = run[r].uid /\ pod = run[r].uid /\ (restored \/ row.uid = run[r].uid)]_shotVars
=============================================================================
