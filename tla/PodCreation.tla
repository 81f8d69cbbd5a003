----------------------------- MODULE PodCreation -----------------------------
(***************************************************************************)
(* Creation of runner Pods: the registry entry (runner_registry.Registry), *)
(* the two-transaction creation coordinator (runner_controller.Controller) *)
(* and the Kubernetes API as the coordinator sees it through PodPort.      *)
(*                                                                         *)
(* Any number of creators run Controller.ensure concurrently and may die   *)
(* between its transactions.  A create POST may be lost, may answer with a *)
(* lost response, or may take effect after its sender is gone.  A database *)
(* transaction is one step: it holds the owner's advisory lock (and lock   *)
(* 44011 when it counts slots) from its first read to its commit, and the  *)
(* second transaction of `ensure` holds the owner lock across its lookup   *)
(* and its POST, so its outcomes are the outcomes of that one step.        *)
(*                                                                         *)
(* The stop protocol (module RunnerStop) is represented by its effect on a *)
(* row: Quiesce, BeginDeletion, ObjectGone and Release.                    *)
(***************************************************************************)
EXTENDS Lifecycle, FiniteSets

CONSTANTS Owners,     \* accounts
          Creators,   \* threads or processes that run Controller.ensure
          Keys,       \* Idempotency-Keys of prepare requests
          MaxPods,    \* load_limits().max_pods
          MaxGen      \* bound: no entry beyond this generation

ASSUME CreationAssumption ==
  /\ IsFiniteSet(Owners)
  /\ MaxPods \in Nat
  /\ MaxGen \in Nat

VARIABLES
  reg,       \* runner_runtime.registry, one row per owner
  receipts,  \* runner_runtime.entry_receipts: the generation a key got, 0 if none
  settled,   \* generations whose `ensure` outbox rows are settled
  eligible,  \* account approved with role editor or admin
  kube,      \* the API object named runner-<owner>, or NoObject
  posts,     \* generations whose create POST was sent and has not taken effect
  sent,      \* history: create POSTs sent per generation
  born,      \* history: Pod objects created so far, the source of UIDs
  job        \* what each creator holds between transactions

vars == << reg, receipts, settled, eligible, kube, posts, sent, born, job >>

Gens == 1..MaxGen

NoObject == [ uid |-> 0, gen |-> 0, deleting |-> FALSE ]
Objects  == [ uid : Nat \ {0}, gen : Gens, deleting : BOOLEAN ]

(* A creator holds a fence (before `reserve`) or a Ticket (after it).      *)
NoJob == [ stage |-> "idle" ]
Jobs  == [ stage : {"fenced"}, owner : Owners, fence : Fences ]
         \cup [ stage : {"create", "lookup"}, owner : Owners, gen : Nat ]

(* Mutant: a create that was issued but not bound does not count.          *)
OccupiedIfBound(o) == reg[o].phase # "idle_stopped" /\ reg[o].pod # NoPod

(* Slots counted by `reserve`: bound Pods and every issued create.         *)
Occupied(o) ==
  /\ reg[o].phase # "idle_stopped"
  /\ reg[o].pod # NoPod \/ reg[o].gen \in settled[o]

Slots == { o \in Owners : Occupied(o) }

Issued(o) == reg[o].gen \in settled[o]

(* Mutant: entry receipts are not consulted.                               *)
ReplayedUnknown(o, k) == FALSE

Replayed(o, k) == receipts[o][k] # 0

(* The rendered object passes KubePods._pod for this identity.             *)
Matches(obj, gen) == obj # NoObject /\ obj.gen = gen /\ ~obj.deleting

Init ==
  /\ reg      = [o \in Owners |-> NewRow]
  /\ receipts = [o \in Owners |-> [k \in Keys |-> 0]]
  /\ settled  = [o \in Owners |-> {}]
  /\ eligible = [o \in Owners |-> TRUE]
  /\ kube     = [o \in Owners |-> NoObject]
  /\ posts    = [o \in Owners |-> {}]
  /\ sent     = [o \in Owners |-> [g \in Gens |-> 0]]
  /\ born     = [o \in Owners |-> 0]
  /\ job      = [c \in Creators |-> NoJob]

-----------------------------------------------------------------------------
(* Registry.enter                                                          *)
Enter(o, k) ==
  /\ eligible[o]
  /\ reg[o].phase \notin {"runner_failed", "stopping"}
  /\ Replayed(o, k) \/ CanEnter(reg[o])
  /\ StartsGeneration(reg[o]) /\ ~Replayed(o, k) => reg[o].gen < MaxGen
  /\ LET row == IF Replayed(o, k) THEN reg[o] ELSE Entered(reg[o])
     IN  /\ reg' = [reg EXCEPT ![o] = row]
         /\ receipts' = IF Replayed(o, k) THEN receipts
                        ELSE [receipts EXCEPT ![o][k] = row.gen]
  /\ UNCHANGED << settled, eligible, kube, posts, sent, born, job >>

(* Approval or role changes by an administrator.                           *)
ChangeMembership(o) ==
  /\ eligible' = [eligible EXCEPT ![o] = ~@]
  /\ UNCHANGED << reg, receipts, settled, kube, posts, sent, born, job >>

-----------------------------------------------------------------------------
(* Service.waiting and the first transaction of Service.ensure             *)
TakeFence(c, o) ==
  /\ job[c] = NoJob
  /\ eligible[o]
  /\ reg[o].phase \in Creating
  /\ reg[o].pod = NoPod
  /\ job' = [job EXCEPT ![c] = [stage |-> "fenced", owner |-> o, fence |-> FenceOf(reg[o])]]
  /\ UNCHANGED << reg, receipts, settled, eligible, kube, posts, sent, born >>

Reservable(c, o) ==
  /\ job[c].stage = "fenced"
  /\ job[c].owner = o
  /\ eligible[o]
  /\ CanDecideCapacity(reg[o], job[c].fence)

Ticket(o, stage) == [stage |-> stage, owner |-> o, gen |-> reg[o].gen]

(* Mutant: an issued create is skipped instead of looked up.               *)
ReserveIssuedSkips(c, o) ==
  /\ Reservable(c, o)
  /\ Issued(o)
  /\ job' = [job EXCEPT ![c] = NoJob]
  /\ UNCHANGED << reg, receipts, settled, eligible, kube, posts, sent, born >>

(* Controller.reserve: this generation's permission was already issued.    *)
ReserveIssued(c, o) ==
  /\ Reservable(c, o)
  /\ Issued(o)
  /\ job' = [job EXCEPT ![c] = Ticket(o, "lookup")]
  /\ UNCHANGED << reg, receipts, settled, eligible, kube, posts, sent, born >>

(* Controller.reserve: no free slot, the owner waits.                      *)
ReserveWaits(c, o) ==
  /\ Reservable(c, o)
  /\ ~Issued(o)
  /\ Cardinality(Slots) >= MaxPods
  /\ reg' = [reg EXCEPT ![o] = CapacityDecided(@, FALSE)]
  /\ job' = [job EXCEPT ![c] = NoJob]
  /\ UNCHANGED << receipts, settled, eligible, kube, posts, sent, born >>

(* Controller.reserve: the slot is taken before any external call.         *)
ReserveAdmits(c, o) ==
  /\ Reservable(c, o)
  /\ ~Issued(o)
  /\ Cardinality(Slots) < MaxPods
  /\ reg' = [reg EXCEPT ![o] = CapacityDecided(@, TRUE)]
  /\ settled' = [settled EXCEPT ![o] = @ \cup {reg[o].gen}]
  /\ job' = [job EXCEPT ![c] = Ticket(o, "create")]
  /\ UNCHANGED << receipts, eligible, kube, posts, sent, born >>

(* Second transaction of Controller.ensure, up to its lookup.              *)
Ensurable(c, o) ==
  /\ job[c].stage \in {"create", "lookup"}
  /\ job[c].owner = o
  /\ eligible[o]
  /\ reg[o].gen = job[c].gen
  /\ reg[o].pod = NoPod
  /\ reg[o].phase = "provisioning"

Bind(o, uid) ==
  /\ CanObserve(reg[o], FenceOf(reg[o]), uid)
  /\ reg' = [reg EXCEPT ![o] = Observed(@, uid, FALSE, 0, TRUE)]

(* The lookup found the Pod of an earlier POST of this generation.         *)
Adopt(c, o) ==
  /\ Ensurable(c, o)
  /\ Matches(kube[o], reg[o].gen)
  /\ Bind(o, kube[o].uid)
  /\ job' = [job EXCEPT ![c] = NoJob]
  /\ UNCHANGED << receipts, settled, eligible, kube, posts, sent, born >>

(* Mutant: a lookup that finds nothing creates, too.                       *)
CreatableAfterLookup(c, o) == Ensurable(c, o) /\ kube[o] = NoObject

Creatable(c, o) ==
  /\ Ensurable(c, o)
  /\ job[c].stage = "create"
  /\ kube[o] = NoObject

Appear(o, gen) ==
  /\ born' = [born EXCEPT ![o] = @ + 1]
  /\ kube' = [kube EXCEPT ![o] = [uid |-> born[o] + 1, gen |-> gen, deleting |-> FALSE]]

(* create_once answered and the transaction committed the binding, or the  *)
(* answer or the commit was lost after the object appeared.                *)
Create(c, o) ==
  /\ Creatable(c, o)
  /\ Appear(o, job[c].gen)
  /\ Bind(o, born[o] + 1) \/ UNCHANGED reg
  /\ sent' = [sent EXCEPT ![o][job[c].gen] = @ + 1]
  /\ job' = [job EXCEPT ![c] = NoJob]
  /\ UNCHANGED << receipts, settled, eligible, posts >>

(* The sender gave up (timeout, restart) with its POST still on the way.   *)
CreateUnanswered(c, o) ==
  /\ Creatable(c, o)
  /\ posts' = [posts EXCEPT ![o] = @ \cup {job[c].gen}]
  /\ sent' = [sent EXCEPT ![o][job[c].gen] = @ + 1]
  /\ job' = [job EXCEPT ![c] = NoJob]
  /\ UNCHANGED << reg, receipts, settled, eligible, kube, born >>

(* A `require` of either transaction fails, or the Pod is already bound:   *)
(* the caller drops its fence or its Ticket and rereads the registry later.*)
Refused(c, o) ==
  /\ job[c] # NoJob
  /\ job[c].owner = o
  /\ ~Reservable(c, o)
  /\ ~(Ensurable(c, o) /\ (Matches(kube[o], reg[o].gen) \/ Creatable(c, o)))
  /\ job' = [job EXCEPT ![c] = NoJob]
  /\ UNCHANGED << reg, receipts, settled, eligible, kube, posts, sent, born >>

(* The creator dies, or a Kubernetes call fails before any POST.           *)
Abandon(c) ==
  /\ job[c] # NoJob
  /\ job' = [job EXCEPT ![c] = NoJob]
  /\ UNCHANGED << reg, receipts, settled, eligible, kube, posts, sent, born >>

(* Controller.reconcile: lookup-only recovery, also for revoked accounts.  *)
Reconcile(o) ==
  /\ reg[o].phase = "provisioning"
  /\ reg[o].pod = NoPod
  /\ Issued(o)
  /\ Matches(kube[o], reg[o].gen)
  /\ Bind(o, kube[o].uid)
  /\ UNCHANGED << receipts, settled, eligible, kube, posts, sent, born, job >>

-----------------------------------------------------------------------------
(* Kubernetes: an unanswered POST takes effect, hits an object of the same *)
(* name (409), or never arrives.                                           *)
PostArrives(o, gen) ==
  /\ gen \in posts[o]
  /\ posts' = [posts EXCEPT ![o] = @ \ {gen}]
  /\ \/ kube[o] = NoObject /\ Appear(o, gen)
     \/ UNCHANGED << kube, born >>
  /\ UNCHANGED << reg, receipts, settled, eligible, sent, job >>

(* A Pod object disappears: the kubelet finished it, or it was collected.  *)
ObjectGone(o) ==
  /\ kube[o] # NoObject
  /\ kube' = [kube EXCEPT ![o] = NoObject]
  /\ UNCHANGED << reg, receipts, settled, eligible, posts, sent, born, job >>

(* The stop protocol, seen from here: a stop is accepted ...               *)
Quiesce(o) ==
  /\ reg[o].phase \in Live
  /\ reg' = [reg EXCEPT ![o] = Drained(@)]
  /\ UNCHANGED << receipts, settled, eligible, kube, posts, sent, born, job >>

(* ... the bound UID is deleted (UID precondition) ...                     *)
BeginDeletion(o) ==
  /\ reg[o].phase = "stopping"
  /\ kube[o] # NoObject
  /\ kube[o].uid = reg[o].pod
  /\ kube' = [kube EXCEPT ![o].deleting = TRUE]
  /\ UNCHANGED << reg, receipts, settled, eligible, posts, sent, born, job >>

(* Mutant: the slot is released while the object is still terminating.     *)
ReleaseEarly(o) ==
  /\ reg[o].phase = "stopping"
  /\ kube[o] = NoObject \/ kube[o].deleting
  /\ reg' = [reg EXCEPT ![o] = Stopped(@)]
  /\ UNCHANGED << receipts, settled, eligible, kube, posts, sent, born, job >>

(* ... and the slot is released once the API answers 404 for the name.     *)
Release(o) ==
  /\ CanFinishStop(reg[o], FenceOf(reg[o]), reg[o].pod)
  /\ kube[o] = NoObject
  /\ reg' = [reg EXCEPT ![o] = Stopped(@)]
  /\ UNCHANGED << receipts, settled, eligible, kube, posts, sent, born, job >>

-----------------------------------------------------------------------------
CreatorStep(c, o) ==
  \/ TakeFence(c, o)
  \/ ReserveIssued(c, o)
  \/ ReserveWaits(c, o)
  \/ ReserveAdmits(c, o)
  \/ Adopt(c, o)
  \/ Create(c, o)
  \/ CreateUnanswered(c, o)
  \/ Refused(c, o)

ClusterStep(o) ==
  \/ \E gen \in Gens : PostArrives(o, gen)
  \/ ObjectGone(o)

StopStep(o) == Quiesce(o) \/ BeginDeletion(o) \/ Release(o)

Next ==
  \/ \E o \in Owners, k \in Keys : Enter(o, k)
  \/ \E o \in Owners : ChangeMembership(o)
  \/ \E c \in Creators, o \in Owners : CreatorStep(c, o)
  \/ \E c \in Creators : Abandon(c)
  \/ \E o \in Owners : Reconcile(o) \/ ClusterStep(o) \/ StopStep(o)

Spec == Init /\ [][Next]_vars

(* Every attempt ends: its calls carry deadlines.  Service.reconcile visits*)
(* every waiting owner on each pass, so an attempt that is possible again  *)
(* and again is made, and a failure of Kubernetes or of the database does  *)
(* not repeat for ever.                                                    *)
Fairness ==
  /\ \A c \in Creators :
       WF_vars(job[c] # NoJob /\ (Abandon(c) \/ \E o \in Owners : CreatorStep(c, o)))
  /\ \A o \in Owners :
       /\ SF_vars(\E c \in Creators : TakeFence(c, o))
       /\ SF_vars(\E c \in Creators : ReserveIssued(c, o))
       /\ SF_vars(\E c \in Creators : Adopt(c, o))

FairSpec == Spec /\ Fairness

-----------------------------------------------------------------------------
(* Type correctness, with every stored row acceptable to                   *)
(* State.__post_init__ (Registry.read raises on any other row).            *)
TypeOK ==
  /\ reg \in [Owners -> Rows]
  /\ \A o \in Owners : WellFormed(reg[o])
  /\ receipts \in [Owners -> [Keys -> Nat]]
  /\ settled \in [Owners -> SUBSET Gens]
  /\ eligible \in [Owners -> BOOLEAN]
  /\ kube \in [Owners -> Objects \cup {NoObject}]
  /\ posts \in [Owners -> SUBSET Gens]
  /\ sent \in [Owners -> [Gens -> Nat]]
  /\ born \in [Owners -> Nat]
  /\ job \in [Creators -> Jobs \cup {NoJob}]

(* The capacity limit holds whatever creators do at the same time: never   *)
(* more bound or issued creations than MaxPods (Controller.reserve counts  *)
(* and settles under lock 44011).                                          *)
SlotsBounded == Cardinality(Slots) <= MaxPods

(* An owner with a Pod object, or a create POST that may still take        *)
(* effect, holds a slot: the cluster never runs more Pods than the database*)
(* accounts for, whatever was lost or restarted in between.                *)
ClusterHolds(o) == kube[o] # NoObject \/ posts[o] # {}

Running == { o \in Owners : ClusterHolds(o) }

LivePodsHoldSlots == \A o \in Owners : ClusterHolds(o) => Occupied(o)

(* "Stop ... never another POST" (runner_controller.py): at most one create*)
(* POST per owner and generation, whichever creators race or die.          *)
OneCreatePerGeneration == \A o \in Owners, gen \in Gens : sent[o][gen] <= 1

(* The name runner-<owner> never carries a Pod of another generation than  *)
(* the row's, and while a Pod is bound the object of that name is that     *)
(* Pod: the stop protocol's UID checks never meet a foreign object.        *)
NoForeignPod ==
  \A o \in Owners :
    kube[o] # NoObject =>
      /\ kube[o].gen = reg[o].gen
      /\ reg[o].pod \in {NoPod, kube[o].uid}

(* All that is in flight for an owner belongs to its current generation and*)
(* was permitted by a settled outbox row, and a permission to create is in *)
(* at most one hand and unused: the discipline that the "two-transaction   *)
(* owner coordinator" of runner_controller.py rests on.                    *)
Permitted(o) == reg[o].gen \in settled[o] /\ reg[o].phase # "idle_stopped"

OwnerInOrder(o) ==
  /\ reg[o].gen <= MaxGen
  /\ settled[o] \subseteq 1..reg[o].gen
  /\ \A gen \in Gens : sent[o][gen] <= 1
  /\ \A gen \in Gens : sent[o][gen] = 1 => gen \in settled[o]
  /\ posts[o] # {} => Permitted(o) /\ kube[o] = NoObject /\ reg[o].pod = NoPod
  /\ \A gen \in posts[o] : gen = reg[o].gen /\ sent[o][gen] = 1
  /\ kube[o] # NoObject => Permitted(o) /\ kube[o].gen = reg[o].gen
  /\ kube[o] # NoObject => reg[o].pod \in {NoPod, kube[o].uid}

HoldsTicket(c) == job[c].stage \in {"create", "lookup"}
MayCreate(c)   == job[c].stage = "create"

TicketInOrder(c) ==
  /\ HoldsTicket(c) => job[c].gen \in settled[job[c].owner]
  /\ MayCreate(c)   => sent[job[c].owner][job[c].gen] = 0
  /\ \A d \in Creators :
       MayCreate(c) /\ MayCreate(d) /\ c # d /\ job[c].owner = job[d].owner
         => job[c].gen # job[d].gen

InFlightIsCurrent ==
  /\ \A o \in Owners : OwnerInOrder(o)
  /\ \A c \in Creators : TicketInOrder(c)

(* Every generation was begun by an entry key of its own: a repeated       *)
(* prepare request never restarts a runner that was stopped meanwhile.     *)
EveryGenerationHasItsKey ==
  \A o \in Owners : \A gen \in 1..reg[o].gen : \E k \in Keys : receipts[o][k] = gen

(* A new generation begins only when nothing of the previous one is left:  *)
(* no bound Pod, no object, no POST on the way.                            *)
FreshGeneration ==
  [][\A o \in Owners :
       reg'[o].gen # reg[o].gen => reg[o].pod = NoPod /\ ~ClusterHolds(o)]_vars

(* A Pod whose create answer was lost is found again and bound while the   *)
(* account stays eligible: a lost response does not strand the owner.      *)
LostCreateIsAdopted ==
  \A o \in Owners :
    (kube[o] # NoObject /\ reg[o].pod = NoPod)
      ~> (reg[o].pod # NoPod \/ kube[o] = NoObject \/ ~eligible[o])

-----------------------------------------------------------------------------
(* What the creation protocol promises: module SlotPool.                   *)
Pool == INSTANCE SlotPool WITH
          Members <- Owners,
          Limit   <- MaxPods,
          holders <- Slots,
          running <- Running

(* Every step of the protocol takes, keeps or returns slots as the abstract*)
(* pool allows: nothing runs without a slot, no slot is returned while     *)
(* something may run.                                                      *)
PoolSpec == Pool!Spec
=============================================================================
