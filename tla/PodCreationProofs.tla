-------------------------- MODULE PodCreationProofs --------------------------
(***************************************************************************)
(* The safety of Pod creation, for every set of accounts, creators and     *)
(* keys, every slot limit and every bound on generations.                  *)
(*                                                                         *)
(* Inv is inductive: rows and tickets have their types and are readable,   *)
(* and what is in flight belongs to the current generation.  Each action   *)
(* changes one owner's row, object, POSTs and outbox, and one creator's    *)
(* job; OwnerStays and the Tickets lemmas dispose of everybody else.       *)
(*                                                                         *)
(* The browser tab that asks for the Pod is proved apart, as a part of     *)
(* MCPodCreation: TabInv is inductive, and the theorem about the tab is of *)
(* the behaviours of both.                                                 *)
(***************************************************************************)
EXTENDS MCPodCreation, Sequences, FiniteSetTheorems, TLAPS

Inv == TypeOK /\ InFlightIsCurrent

-----------------------------------------------------------------------------
(* What the kernel's decisions return, for every row                       *)

(* A row that was never prepared can be read back (Registry.enter inserts  *)
(* it before it decides).                                                  *)
LEMMA NewRowSound == Row(NewRow)
  BY DEF Row, Rows, WellFormed, NewRow, Phases, Creating, Live, NoPod

(* The fence of a row is what callers may hold and compare later.          *)
LEMMA FenceSound == ASSUME NEW s \in Rows PROVE FenceOf(s) \in Fences
  BY DEF Rows, FenceOf, Fences

(* entry keeps the row readable; it begins a generation only without a Pod,*)
(* and otherwise leaves generation, Pod and phase alone.                   *)
LEMMA EnteredSound ==
  ASSUME NEW s, Row(s), CanEnter(s)
  PROVE  /\ Row(Entered(s))
         /\ Entered(s).pod = s.pod
         /\ StartsGeneration(s) =>
              Entered(s).gen = s.gen + 1 /\ Entered(s).phase = "provisioning" /\ s.pod = NoPod
         /\ ~StartsGeneration(s) => Entered(s).gen = s.gen /\ Entered(s).phase = s.phase
<1>1. CASE s.phase \in Creating
  BY <1>1 DEF Row, Entered, StartsGeneration
<1>2. CASE s.phase \notin Creating /\ s.pod # NoPod
  <2>1. Entered(s) = [s EXCEPT !.rev = @ + 1]
    BY <1>2 DEF Entered
  <2>2. /\ Entered(s) \in Rows
        /\ Entered(s).phase = s.phase /\ Entered(s).gen = s.gen /\ Entered(s).pod = s.pod
        /\ Entered(s).active = s.active /\ Entered(s).ambiguous = s.ambiguous
    BY <2>1 DEF Row, Rows
  <2> QED BY <1>2, <2>2 DEF Row, WellFormed, StartsGeneration
<1>3. CASE s.phase \notin Creating /\ s.pod = NoPod
  <2> DEFINE t == Entered(s)
  <2>1. t = [s EXCEPT !.phase = "provisioning", !.gen = @ + 1, !.rev = @ + 1]
    BY <1>3 DEF Entered
  <2>2. /\ t.phase = "provisioning" /\ t.gen = s.gen + 1 /\ t.rev = s.rev + 1
        /\ t.pod = s.pod /\ t.active = s.active /\ t.ambiguous = s.ambiguous
    BY <2>1 DEF Row, Rows
  <2>3. t = [phase |-> t.phase, gen |-> t.gen, rev |-> t.rev, pod |-> t.pod,
             active |-> t.active, ambiguous |-> t.ambiguous]
    BY <2>1 DEF Row, Rows
  <2>4. s.gen \in Nat /\ s.rev \in Nat /\ s.active = 0 /\ ~s.ambiguous
    BY <1>3 DEF Row, Rows, CanEnter
  <2>5. t \in Rows
    BY <1>3, <2>2, <2>3, <2>4 DEF Phases, Row, Rows
  <2>6. WellFormed(t)
    BY <1>3, <2>2, <2>4 DEF WellFormed, Live
  <2> QED BY <1>3, <2>2, <2>5, <2>6 DEF Row, StartsGeneration
<1> QED BY <1>1, <1>2, <1>3

(* capacity keeps generation and Pod, and decides between the two creating *)
(* phases.                                                                 *)
LEMMA CapacitySound ==
  ASSUME NEW s, Row(s), NEW admitted \in BOOLEAN, s.phase \in Creating, s.pod = NoPod
  PROVE  /\ Row(CapacityDecided(s, admitted))
         /\ CapacityDecided(s, admitted).pod = NoPod
         /\ CapacityDecided(s, admitted).gen = s.gen
         /\ CapacityDecided(s, admitted).phase =
              IF admitted THEN "provisioning" ELSE "capacity_wait"
<1> DEFINE phase == IF admitted THEN "provisioning" ELSE "capacity_wait"
           t     == CapacityDecided(s, admitted)
<1>1. CASE s.phase = phase
  BY <1>1 DEF CapacityDecided
<1>2. CASE s.phase # phase
  <2>1. t = [s EXCEPT !.phase = phase, !.rev = @ + 1]
    BY <1>2 DEF CapacityDecided
  <2>2. /\ t.phase = phase /\ t.gen = s.gen /\ t.rev = s.rev + 1
        /\ t.pod = s.pod /\ t.active = s.active /\ t.ambiguous = s.ambiguous
    BY <2>1 DEF Row, Rows
  <2>3. t = [phase |-> t.phase, gen |-> t.gen, rev |-> t.rev, pod |-> t.pod,
             active |-> t.active, ambiguous |-> t.ambiguous]
    BY <2>1 DEF Row, Rows
  <2>4. s.gen \in Nat /\ s.rev \in Nat /\ s.active = 0 /\ ~s.ambiguous /\ s.gen > 0
    BY DEF Row, Rows, WellFormed, Creating, NoPod
  <2>5. t \in Rows
    BY <2>2, <2>3, <2>4 DEF Phases, NoPod, Row, Rows
  <2>6. WellFormed(t)
    BY <2>2, <2>4 DEF WellFormed, Live, NoPod
  <2> QED BY <2>2, <2>5, <2>6 DEF Row
<1> QED BY <1>1, <1>2

(* observed binds a real Pod to a generation that has begun.               *)
LEMMA ObservedSound ==
  ASSUME NEW s, Row(s), NEW pod \in Nat \ {0}, s.phase = "provisioning"
  PROVE  /\ Row(Observed(s, pod, FALSE, 0, TRUE))
         /\ Observed(s, pod, FALSE, 0, TRUE).pod = pod
         /\ Observed(s, pod, FALSE, 0, TRUE).gen = s.gen
         /\ Observed(s, pod, FALSE, 0, TRUE).phase = "runner_unreachable"
<1> DEFINE t == Observed(s, pod, FALSE, 0, TRUE)
<1>1. t = [s EXCEPT !.pod = pod, !.rev = @ + 1, !.active = 0, !.ambiguous = TRUE,
                    !.phase = "runner_unreachable"]
  BY DEF Observed
<1>2. /\ t.phase = "runner_unreachable" /\ t.gen = s.gen /\ t.rev = s.rev + 1
      /\ t.pod = pod /\ t.active = 0 /\ t.ambiguous = TRUE
  BY <1>1 DEF Row, Rows
<1>3. t = [phase |-> t.phase, gen |-> t.gen, rev |-> t.rev, pod |-> t.pod,
           active |-> t.active, ambiguous |-> t.ambiguous]
  BY <1>1 DEF Row, Rows
<1>4. s.gen \in Nat /\ s.rev \in Nat /\ s.gen > 0
  BY DEF Row, Rows, WellFormed
<1>5. t \in Rows
  <2> HIDE DEF t
  <2>1. /\ t.phase \in Phases /\ t.gen \in Nat /\ t.rev \in Nat /\ t.pod \in Nat
        /\ t.active \in Nat
    BY <1>2, <1>4 DEF Phases
  <2>2. t.ambiguous \in BOOLEAN
    BY <1>2, Zenon
  <2> QED BY <1>3, <2>1, <2>2 DEF Rows
<1>6. WellFormed(t)
  BY <1>2, <1>4 DEF WellFormed, Live, NoPod
<1> QED BY <1>2, <1>4, <1>5, <1>6 DEF Row

(* A drain keeps the Pod and its generation.                               *)
LEMMA DrainedSound ==
  ASSUME NEW s, Row(s), s.phase \in Live
  PROVE  /\ Row(Drained(s))
         /\ Drained(s).pod = s.pod
         /\ Drained(s).gen = s.gen
         /\ Drained(s).phase = "stopping"
         /\ s.pod # NoPod
<1> DEFINE t == Drained(s)
<1>1. t = [s EXCEPT !.phase = "stopping", !.rev = @ + 1, !.active = 0, !.ambiguous = FALSE]
  BY DEF Drained
<1>2. /\ t.phase = "stopping" /\ t.gen = s.gen /\ t.rev = s.rev + 1
      /\ t.pod = s.pod /\ t.active = 0 /\ t.ambiguous = FALSE
  BY <1>1 DEF Row, Rows
<1>3. t = [phase |-> t.phase, gen |-> t.gen, rev |-> t.rev, pod |-> t.pod,
           active |-> t.active, ambiguous |-> t.ambiguous]
  BY <1>1 DEF Row, Rows
<1>4. s.gen \in Nat /\ s.rev \in Nat /\ s.gen > 0 /\ s.pod \in Nat /\ s.pod # NoPod
  BY DEF Row, Rows, WellFormed, Live
<1>5. t \in Rows
  <2> HIDE DEF t
  <2>1. /\ t.phase \in Phases /\ t.gen \in Nat /\ t.rev \in Nat /\ t.pod \in Nat
        /\ t.active \in Nat
    BY <1>2, <1>4 DEF Phases
  <2>2. t.ambiguous \in BOOLEAN
    BY <1>2, Zenon
  <2> QED BY <1>3, <2>1, <2>2 DEF Rows
<1>6. WellFormed(t)
  BY <1>2, <1>4 DEF WellFormed, Live, NoPod
<1> QED BY <1>2, <1>4, <1>5, <1>6 DEF Row

(* stopped gives the Pod up and keeps the generation.                      *)
LEMMA StoppedSound ==
  ASSUME NEW s, Row(s), s.phase = "stopping"
  PROVE  /\ Row(Stopped(s))
         /\ Stopped(s).pod = NoPod
         /\ Stopped(s).gen = s.gen
         /\ Stopped(s).phase = "idle_stopped"
         /\ s.pod # NoPod
<1> DEFINE t == Stopped(s)
<1>1. t = [s EXCEPT !.phase = "idle_stopped", !.rev = @ + 1, !.pod = NoPod]
  BY DEF Stopped
<1>2. /\ t.phase = "idle_stopped" /\ t.gen = s.gen /\ t.rev = s.rev + 1
      /\ t.pod = NoPod /\ t.active = s.active /\ t.ambiguous = s.ambiguous
  BY <1>1 DEF Row, Rows
<1>3. t = [phase |-> t.phase, gen |-> t.gen, rev |-> t.rev, pod |-> t.pod,
           active |-> t.active, ambiguous |-> t.ambiguous]
  BY <1>1 DEF Row, Rows
<1>4. /\ s.gen \in Nat /\ s.rev \in Nat /\ s.gen > 0 /\ s.pod # NoPod
      /\ s.active = 0 /\ ~s.ambiguous
  BY DEF Row, Rows, WellFormed, NoPod
<1>5. t \in Rows
  BY <1>2, <1>3, <1>4 DEF Phases, NoPod, Row, Rows
<1>6. WellFormed(t)
  BY <1>2, <1>4 DEF WellFormed, Live, NoPod
<1> QED BY <1>2, <1>4, <1>5, <1>6 DEF Row

-----------------------------------------------------------------------------
(* A readable row in place of one owner's row leaves a readable registry.  *)
LEMMA RowReplaced ==
  ASSUME TypeOK, NEW o \in Owners, NEW r, Row(r), reg' = [reg EXCEPT ![o] = r]
  PROVE  /\ reg' \in [Owners -> Rows]
         /\ \A p \in Owners : WellFormed(reg'[p])
         /\ reg'[o] = r
         /\ \A p \in Owners \ {o} : reg'[p] = reg[p]
<1>1. reg \in [Owners -> Rows] /\ \A p \in Owners : WellFormed(reg[p])
  BY DEF TypeOK
<1>2. r \in Rows /\ WellFormed(r)
  BY DEF Row
<1>3. reg'[o] = r /\ \A p \in Owners \ {o} : reg'[p] = reg[p]
  BY <1>1
<1> QED BY <1>1, <1>2, <1>3

(* What a readable row gives.                                              *)
LEMMA RowFacts ==
  ASSUME TypeOK, NEW o \in Owners
  PROVE  /\ Row(reg[o])
         /\ reg[o].gen \in Nat /\ reg[o].pod \in Nat /\ reg[o].phase \in Phases
         /\ reg[o].pod = NoPod =>
              reg[o].phase \notin Live \cup {"stopping"}
         /\ reg[o].phase = "not_prepared" => reg[o].gen = 0 /\ reg[o].pod = NoPod
         /\ reg[o].phase # "not_prepared" => reg[o].gen > 0
         /\ reg[o].phase = "idle_stopped" => reg[o].pod = NoPod
  BY DEF TypeOK, Row, Rows, WellFormed

(* An owner whose part of the state stays as it was stays in order.        *)
LEMMA OwnerStays ==
  ASSUME NEW p \in Owners, OwnerInOrder(p),
         reg'[p] = reg[p], settled'[p] = settled[p], kube'[p] = kube[p],
         posts'[p] = posts[p], sent'[p] = sent[p]
  PROVE  OwnerInOrder(p)'
  BY DEF OwnerInOrder, Permitted

(* What a creator's job can be.                                            *)
LEMMA JobFacts ==
  ASSUME TypeOK, NEW c \in Creators
  PROVE  /\ job[c] \in Jobs \cup {NoJob}
         /\ HoldsTicket(c) => job[c].owner \in Owners /\ job[c].gen \in Nat
         /\ MayCreate(c) => HoldsTicket(c)
<1>1. job[c] \in Jobs \cup {NoJob}
  BY DEF TypeOK
<1>2. CASE job[c] = NoJob
  BY <1>1, <1>2 DEF NoJob, HoldsTicket, MayCreate
<1>3. CASE job[c] \in [stage : {"fenced"}, owner : Owners, fence : Fences]
  BY <1>1, <1>3 DEF HoldsTicket, MayCreate
<1>4. CASE job[c] \in [stage : {"create", "lookup"}, owner : Owners, gen : Nat]
  BY <1>1, <1>4 DEF HoldsTicket, MayCreate
<1> QED BY <1>1, <1>2, <1>3, <1>4 DEF Jobs

(* Tickets stay in order when no job changes, nothing is sent and no       *)
(* permission is taken back.                                               *)
LEMMA TicketsStay ==
  ASSUME Inv, job' = job, sent' = sent, settled' = settled
  PROVE  \A d \in Creators : TicketInOrder(d)'
  BY DEF Inv, InFlightIsCurrent, TicketInOrder, HoldsTicket, MayCreate

(* Tickets stay in order when one creator drops what it held and no other  *)
(* creator's permission is used up.                                        *)
LEMMA TicketDropped ==
  ASSUME Inv, NEW c \in Creators, job' = [job EXCEPT ![c] = NoJob], settled' = settled,
         \A d \in Creators \ {c} : MayCreate(d) =>
           sent'[job[d].owner][job[d].gen] = sent[job[d].owner][job[d].gen]
  PROVE  /\ job' \in [Creators -> Jobs \cup {NoJob}]
         /\ \A d \in Creators : TicketInOrder(d)'
<1>1. /\ job' \in [Creators -> Jobs \cup {NoJob}]
      /\ job'[c] = NoJob
      /\ \A d \in Creators \ {c} : job'[d] = job[d]
  BY DEF Inv, TypeOK
<1>2. ~HoldsTicket(c)' /\ ~MayCreate(c)'
  BY <1>1 DEF HoldsTicket, MayCreate, NoJob
<1>3. \A d \in Creators \ {c} : (HoldsTicket(d)' <=> HoldsTicket(d)) /\ (MayCreate(d)' <=> MayCreate(d))
  BY <1>1 DEF HoldsTicket, MayCreate
<1>4. \A d \in Creators : TicketInOrder(d)
  BY DEF Inv, InFlightIsCurrent
<1> QED BY <1>1, <1>2, <1>3, <1>4 DEF TicketInOrder

(* Tickets stay in order when one creator takes a fence, or a ticket for a *)
(* permitted generation that nobody else may create.                       *)
LEMMA TicketTaken ==
  ASSUME Inv, NEW c \in Creators, NEW j \in Jobs, job' = [job EXCEPT ![c] = j],
         sent' = sent,
         \A p \in Owners : settled[p] \subseteq settled'[p],
         j.stage \in {"create", "lookup"} => j.gen \in settled'[j.owner],
         j.stage = "create" => sent[j.owner][j.gen] = 0 /\ j.gen \notin settled[j.owner]
  PROVE  /\ job' \in [Creators -> Jobs \cup {NoJob}]
         /\ \A d \in Creators : TicketInOrder(d)'
<1>1. /\ job' \in [Creators -> Jobs \cup {NoJob}]
      /\ job'[c] = j
      /\ \A d \in Creators \ {c} : job'[d] = job[d]
  BY DEF Inv, TypeOK
<1>2. \A d \in Creators : TicketInOrder(d)
  BY DEF Inv, InFlightIsCurrent
<1>3. \A d \in Creators : MayCreate(d) => HoldsTicket(d) /\ job[d].gen \in settled[job[d].owner]
  BY <1>2 DEF TicketInOrder, HoldsTicket, MayCreate
<1>4. \A d \in Creators : HoldsTicket(d) => job[d].owner \in Owners
  BY JobFacts DEF Inv
<1>5. TicketInOrder(c)'
  BY <1>1, <1>2, <1>3 DEF TicketInOrder, HoldsTicket, MayCreate
<1>6. ASSUME NEW d \in Creators \ {c} PROVE TicketInOrder(d)'
  <2>1. (HoldsTicket(d)' <=> HoldsTicket(d)) /\ (MayCreate(d)' <=> MayCreate(d))
    BY <1>1 DEF HoldsTicket, MayCreate
  <2>2. HoldsTicket(d)' => job'[d].gen \in settled'[job'[d].owner]
    BY <1>1, <1>2, <1>4, <2>1 DEF TicketInOrder
  <2>3. MayCreate(d)' => sent'[job'[d].owner][job'[d].gen] = 0
    BY <1>1, <1>2, <2>1 DEF TicketInOrder
  <2>4. ASSUME NEW e \in Creators, MayCreate(d)', MayCreate(e)', d # e,
               job'[d].owner = job'[e].owner
        PROVE  job'[d].gen # job'[e].gen
    <3>1. CASE e = c
      BY <1>1, <1>3, <2>1, <2>4, <3>1 DEF MayCreate
    <3>2. CASE e # c
      BY <1>1, <1>2, <2>1, <2>4, <3>2 DEF TicketInOrder, MayCreate
    <3> QED BY <3>1, <3>2
  <2> QED BY <2>2, <2>3, <2>4 DEF TicketInOrder
<1> QED BY <1>1, <1>5, <1>6

-----------------------------------------------------------------------------
(* The registry entry: a generation begins only where nothing is left.     *)
LEMMA EntryIsFresh ==
  ASSUME Inv, NEW o \in Owners, NEW k \in Keys, Enter(o, k)
  PROVE  \E r : /\ Row(r) /\ reg' = [reg EXCEPT ![o] = r]
                /\ r.pod = reg[o].pod
                /\ \/ r.gen = reg[o].gen /\ r.phase = reg[o].phase
                   \/ /\ r.gen = reg[o].gen + 1 /\ r.gen <= MaxGen
                      /\ r.phase = "provisioning" /\ r.pod = NoPod
                      /\ ~Permitted(o) /\ ~ClusterHolds(o)
<1>1. Row(reg[o]) /\ reg[o].gen \in Nat
  BY RowFacts DEF Inv
<1>2. CASE Replayed(o, k)
  BY <1>1, <1>2 DEF Enter
<1>3. CASE ~Replayed(o, k)
  <2>1. CanEnter(reg[o]) /\ reg' = [reg EXCEPT ![o] = Entered(reg[o])]
    BY <1>3 DEF Enter
  <2>2. /\ Row(Entered(reg[o]))
        /\ Entered(reg[o]).pod = reg[o].pod
        /\ StartsGeneration(reg[o]) =>
             /\ Entered(reg[o]).gen = reg[o].gen + 1
             /\ Entered(reg[o]).phase = "provisioning"
             /\ reg[o].pod = NoPod
        /\ ~StartsGeneration(reg[o]) =>
             Entered(reg[o]).gen = reg[o].gen /\ Entered(reg[o]).phase = reg[o].phase
    BY <1>1, <2>1, EnteredSound
  <2>3. ASSUME StartsGeneration(reg[o])
        PROVE  reg[o].gen + 1 <= MaxGen /\ ~Permitted(o) /\ ~ClusterHolds(o)
    <3>1. reg[o].gen < MaxGen /\ reg[o].phase \notin {"runner_failed", "stopping"}
      BY <1>3, <2>3 DEF Enter
    <3>2. reg[o].phase \in {"not_prepared", "idle_stopped"}
      BY <2>3, <3>1, RowFacts DEF Inv, StartsGeneration, Creating, Live, Phases
    <3>3. reg[o].gen = 0 => reg[o].gen \notin settled[o]
      BY DEF Inv, InFlightIsCurrent, OwnerInOrder
    <3>4. ~Permitted(o)
      BY <3>2, <3>3, RowFacts DEF Inv, Permitted
    <3>5. ~ClusterHolds(o)
      BY <3>4 DEF Inv, InFlightIsCurrent, OwnerInOrder, ClusterHolds
    <3> QED BY <1>1, <3>1, <3>4, <3>5, CreationAssumption DEF CreationAssumption
  <2> QED BY <2>1, <2>2, <2>3
<1> QED BY <1>2, <1>3

(* Registry.enter keeps the invariant: a new generation begins with        *)
(* nothing in flight.                                                      *)
LEMMA EnterKeepsInv ==
  ASSUME Inv, NEW o \in Owners, NEW k \in Keys, Enter(o, k)
  PROVE  Inv'
<1>1. PICK r : /\ Row(r) /\ reg' = [reg EXCEPT ![o] = r]
               /\ r.pod = reg[o].pod
               /\ \/ r.gen = reg[o].gen /\ r.phase = reg[o].phase
                  \/ /\ r.gen = reg[o].gen + 1 /\ r.gen <= MaxGen
                     /\ r.phase = "provisioning" /\ r.pod = NoPod
                     /\ ~Permitted(o) /\ ~ClusterHolds(o)
  BY EntryIsFresh
<1>2. /\ reg' \in [Owners -> Rows] /\ \A p \in Owners : WellFormed(reg'[p])
      /\ reg'[o] = r /\ \A p \in Owners \ {o} : reg'[p] = reg[p]
  BY <1>1, RowReplaced DEF Inv
<1>3. UNCHANGED << settled, eligible, kube, posts, sent, born, job >>
  BY DEF Enter
<1>4. receipts' \in [Owners -> [Keys -> Nat]]
  <2>1. receipts \in [Owners -> [Keys -> Nat]] /\ reg'[o].gen \in Nat
    BY <1>1, <1>2 DEF Inv, TypeOK, Row, Rows
  <2>2. receipts' = receipts \/ receipts' = [receipts EXCEPT ![o][k] = reg'[o].gen]
    BY <1>2 DEF Enter, Inv, TypeOK
  <2> QED BY <2>1, <2>2
<1>5. OwnerInOrder(o)'
  <2>1. OwnerInOrder(o) /\ reg[o].gen \in Nat
    BY RowFacts DEF Inv, InFlightIsCurrent
  <2> QED BY <1>1, <1>2, <1>3, <2>1 DEF OwnerInOrder, Permitted, ClusterHolds
<1>6. \A p \in Owners \ {o} : OwnerInOrder(p)'
  BY <1>2, <1>3, OwnerStays DEF Inv, InFlightIsCurrent
<1>7. \A d \in Creators : TicketInOrder(d)'
  BY <1>3, TicketsStay
<1> QED BY <1>2, <1>3, <1>4, <1>5, <1>6, <1>7 DEF Inv, TypeOK, InFlightIsCurrent

-----------------------------------------------------------------------------
(* Membership, fences, refusals and deaths move nothing but jobs.          *)
LEMMA MembershipKeepsInv ==
  ASSUME Inv, NEW o \in Owners, ChangeMembership(o)
  PROVE  Inv'
<1>1. UNCHANGED << reg, receipts, settled, kube, posts, sent, born, job >>
  BY DEF ChangeMembership
<1>2. eligible' \in [Owners -> BOOLEAN]
  BY Zenon DEF ChangeMembership, Inv, TypeOK
<1>3. \A p \in Owners : OwnerInOrder(p)'
  BY <1>1, OwnerStays DEF Inv, InFlightIsCurrent
<1>4. \A d \in Creators : TicketInOrder(d)'
  BY <1>1, TicketsStay
<1> QED BY <1>1, <1>2, <1>3, <1>4 DEF Inv, TypeOK, InFlightIsCurrent

(* A creator that gives up keeps the invariant.                            *)
LEMMA JobDroppedKeepsInv ==
  ASSUME Inv, NEW c \in Creators, job' = [job EXCEPT ![c] = NoJob],
         UNCHANGED << reg, receipts, settled, eligible, kube, posts, sent, born >>
  PROVE  Inv'
<1>1. /\ job' \in [Creators -> Jobs \cup {NoJob}]
      /\ \A d \in Creators : TicketInOrder(d)'
  BY TicketDropped
<1>2. \A p \in Owners : OwnerInOrder(p)'
  BY OwnerStays DEF Inv, InFlightIsCurrent
<1> QED BY <1>1, <1>2 DEF Inv, TypeOK, InFlightIsCurrent

(* Service.waiting only hands out a fence.                                 *)
LEMMA TakeFenceKeepsInv ==
  ASSUME Inv, NEW c \in Creators, NEW o \in Owners, TakeFence(c, o)
  PROVE  Inv'
<1> DEFINE j == [stage |-> "fenced", owner |-> o, fence |-> FenceOf(reg[o])]
<1>1. /\ UNCHANGED << reg, receipts, settled, eligible, kube, posts, sent, born >>
      /\ job' = [job EXCEPT ![c] = j]
  BY DEF TakeFence
<1>2. j \in Jobs /\ j.stage = "fenced"
  BY FenceSound DEF Jobs, Inv, TypeOK
<1>3. /\ job' \in [Creators -> Jobs \cup {NoJob}]
      /\ \A d \in Creators : TicketInOrder(d)'
  <2> HIDE DEF j
  <2> QED BY <1>1, <1>2, TicketTaken
<1>4. \A p \in Owners : OwnerInOrder(p)'
  BY <1>1, OwnerStays DEF Inv, InFlightIsCurrent
<1> QED BY <1>1, <1>3, <1>4 DEF Inv, TypeOK, InFlightIsCurrent

(* A ticket names the generation of the row.                               *)
LEMMA TicketTyped ==
  ASSUME Inv, NEW o \in Owners, NEW stage \in {"create", "lookup"}
  PROVE  /\ Ticket(o, stage) \in Jobs
         /\ Ticket(o, stage).stage = stage
         /\ Ticket(o, stage).owner = o
         /\ Ticket(o, stage).gen = reg[o].gen
<1>1. reg[o].gen \in Nat
  BY RowFacts DEF Inv
<1> QED BY <1>1 DEF Ticket, Jobs

(* A permission that was issued before is looked up, never issued again.   *)
LEMMA ReserveIssuedKeepsInv ==
  ASSUME Inv, NEW c \in Creators, NEW o \in Owners, ReserveIssued(c, o)
  PROVE  Inv'
<1> DEFINE j == Ticket(o, "lookup")
<1>1. /\ UNCHANGED << reg, receipts, settled, eligible, kube, posts, sent, born >>
      /\ job' = [job EXCEPT ![c] = j]
      /\ reg[o].gen \in settled[o]
  BY DEF ReserveIssued, Issued
<1>2. j \in Jobs /\ j.stage = "lookup" /\ j.owner = o /\ j.gen = reg[o].gen
  BY TicketTyped
<1>3. /\ job' \in [Creators -> Jobs \cup {NoJob}]
      /\ \A d \in Creators : TicketInOrder(d)'
  <2> HIDE DEF j
  <2> QED BY <1>1, <1>2, TicketTaken
<1>4. \A p \in Owners : OwnerInOrder(p)'
  BY <1>1, OwnerStays DEF Inv, InFlightIsCurrent
<1> QED BY <1>1, <1>3, <1>4 DEF Inv, TypeOK, InFlightIsCurrent

-----------------------------------------------------------------------------
(* A slot decision keeps generation and Pod, and the row stays permitted   *)
(* or not.                                                                 *)
LEMMA CapacityKeepsRow ==
  ASSUME Inv, NEW c \in Creators, NEW o \in Owners, NEW admitted \in BOOLEAN,
         Reservable(c, o), reg' = [reg EXCEPT ![o] = CapacityDecided(@, admitted)]
  PROVE  /\ reg' \in [Owners -> Rows] /\ \A p \in Owners : WellFormed(reg'[p])
         /\ reg'[o].gen = reg[o].gen
         /\ reg[o].pod = NoPod /\ reg'[o].pod = NoPod
         /\ reg[o].phase \in Creating /\ reg'[o].phase \in Creating
         /\ \A p \in Owners \ {o} : reg'[p] = reg[p]
<1> DEFINE r == CapacityDecided(reg[o], admitted)
<1>1. Row(reg[o]) /\ reg[o].phase \in Creating /\ reg[o].pod = NoPod
  BY RowFacts DEF Inv, Reservable, CanDecideCapacity
<1>2. /\ Row(r) /\ r.pod = NoPod /\ r.gen = reg[o].gen
      /\ r.phase = IF admitted THEN "provisioning" ELSE "capacity_wait"
  BY <1>1, CapacitySound
<1>3. r.phase \in Creating
  BY <1>2 DEF Creating
<1>4. reg' = [reg EXCEPT ![o] = r]
  OBVIOUS
<1> HIDE DEF r
<1>5. /\ reg' \in [Owners -> Rows] /\ \A p \in Owners : WellFormed(reg'[p])
      /\ reg'[o] = r /\ \A p \in Owners \ {o} : reg'[p] = reg[p]
  BY <1>2, <1>4, RowReplaced DEF Inv
<1> QED BY <1>1, <1>2, <1>3, <1>5

(* An owner without a slot gets no ticket.                                 *)
LEMMA ReserveWaitsKeepsInv ==
  ASSUME Inv, NEW c \in Creators, NEW o \in Owners, ReserveWaits(c, o)
  PROVE  Inv'
<1>1. /\ UNCHANGED << receipts, settled, eligible, kube, posts, sent, born >>
      /\ job' = [job EXCEPT ![c] = NoJob]
      /\ reg[o].gen \notin settled[o]
  BY DEF ReserveWaits, Issued
<1>2. /\ reg' \in [Owners -> Rows] /\ \A p \in Owners : WellFormed(reg'[p])
      /\ reg'[o].gen = reg[o].gen /\ reg'[o].pod = NoPod
      /\ \A p \in Owners \ {o} : reg'[p] = reg[p]
  BY CapacityKeepsRow DEF ReserveWaits
<1>3. /\ job' \in [Creators -> Jobs \cup {NoJob}]
      /\ \A d \in Creators : TicketInOrder(d)'
  BY <1>1, TicketDropped
<1>4. OwnerInOrder(o)'
  BY <1>1, <1>2 DEF Inv, InFlightIsCurrent, OwnerInOrder, Permitted
<1>5. \A p \in Owners \ {o} : OwnerInOrder(p)'
  BY <1>1, <1>2, OwnerStays DEF Inv, InFlightIsCurrent
<1> QED BY <1>1, <1>2, <1>3, <1>4, <1>5 DEF Inv, TypeOK, InFlightIsCurrent

(* The one ticket to create of a generation is issued with its slot.       *)
LEMMA ReserveAdmitsKeepsInv ==
  ASSUME Inv, NEW c \in Creators, NEW o \in Owners, ReserveAdmits(c, o)
  PROVE  Inv'
<1> DEFINE j == Ticket(o, "create")
<1>1. /\ UNCHANGED << receipts, eligible, kube, posts, sent, born >>
      /\ job' = [job EXCEPT ![c] = j]
      /\ settled' = [settled EXCEPT ![o] = @ \cup {reg[o].gen}]
      /\ reg[o].gen \notin settled[o]
  BY DEF ReserveAdmits, Issued
<1>2. /\ reg' \in [Owners -> Rows] /\ \A p \in Owners : WellFormed(reg'[p])
      /\ reg'[o].gen = reg[o].gen /\ reg'[o].pod = NoPod
      /\ reg[o].phase \in Creating /\ reg'[o].phase \in Creating
      /\ \A p \in Owners \ {o} : reg'[p] = reg[p]
  BY CapacityKeepsRow DEF ReserveAdmits
<1>3. reg[o].gen \in Gens
  <2>1. reg[o].gen \in Nat /\ reg[o].gen > 0
    BY <1>2, RowFacts DEF Inv, Creating
  <2>2. reg[o].gen <= MaxGen
    BY DEF Inv, InFlightIsCurrent, OwnerInOrder
  <2> QED BY <2>1, <2>2, CreationAssumption DEF Gens, CreationAssumption
<1>4. /\ settled \in [Owners -> SUBSET Gens] /\ settled' \in [Owners -> SUBSET Gens]
      /\ settled'[o] = settled[o] \cup {reg[o].gen}
      /\ \A p \in Owners \ {o} : settled'[p] = settled[p]
  BY <1>1, <1>3 DEF Inv, TypeOK
<1>5. sent[o][reg[o].gen] = 0
  <2>1. sent[o][reg[o].gen] \in Nat
    BY <1>3 DEF Inv, TypeOK
  <2>2. sent[o][reg[o].gen] <= 1 /\ sent[o][reg[o].gen] # 1
    BY <1>1, <1>3 DEF Inv, InFlightIsCurrent, OwnerInOrder
  <2> QED BY <2>1, <2>2
<1>6. j \in Jobs /\ j.stage = "create" /\ j.owner = o /\ j.gen = reg[o].gen
  BY TicketTyped
<1>7. /\ job' \in [Creators -> Jobs \cup {NoJob}]
      /\ \A d \in Creators : TicketInOrder(d)'
  <2> HIDE DEF j
  <2> QED BY <1>1, <1>4, <1>5, <1>6, TicketTaken
<1>8. OwnerInOrder(o)'
  <2>1. OwnerInOrder(o)
    BY DEF Inv, InFlightIsCurrent
  <2>2. settled'[o] \subseteq 1..reg'[o].gen
    BY <1>2, <1>3, <1>4, <2>1 DEF OwnerInOrder, Gens
  <2>3. kube'[o] = NoObject /\ posts'[o] = {}
    BY <1>1, <2>1 DEF OwnerInOrder, Permitted
  <2> QED BY <1>1, <1>2, <1>4, <2>1, <2>2, <2>3 DEF OwnerInOrder
<1>9. \A p \in Owners \ {o} : OwnerInOrder(p)'
  BY <1>1, <1>2, <1>4, OwnerStays DEF Inv, InFlightIsCurrent
<1> QED BY <1>1, <1>2, <1>4, <1>7, <1>8, <1>9 DEF Inv, TypeOK, InFlightIsCurrent

-----------------------------------------------------------------------------
(* A binding keeps the generation.                                         *)
LEMMA BindKeepsRow ==
  ASSUME Inv, NEW o \in Owners, NEW uid \in Nat \ {0}, reg[o].phase = "provisioning", Bind(o, uid)
  PROVE  /\ reg' \in [Owners -> Rows] /\ \A p \in Owners : WellFormed(reg'[p])
         /\ reg'[o].gen = reg[o].gen /\ reg'[o].pod = uid
         /\ reg'[o].phase = "runner_unreachable"
         /\ \A p \in Owners \ {o} : reg'[p] = reg[p]
<1> DEFINE r == Observed(reg[o], uid, FALSE, 0, TRUE)
<1>1. Row(reg[o])
  BY RowFacts DEF Inv
<1>2. /\ Row(r) /\ r.pod = uid /\ r.gen = reg[o].gen /\ r.phase = "runner_unreachable"
  BY <1>1, ObservedSound
<1>3. reg' = [reg EXCEPT ![o] = r]
  BY DEF Bind
<1> HIDE DEF r
<1> QED BY <1>2, <1>3, RowReplaced DEF Inv

(* The object of a matching lookup has a UID.                              *)
LEMMA ObjectFacts ==
  ASSUME Inv, NEW o \in Owners, kube[o] # NoObject
  PROVE  kube[o] \in Objects /\ kube[o].uid \in Nat \ {0} /\ kube[o].gen \in Gens
  BY DEF Inv, TypeOK, Objects

(* Binding the object that carries the owner's name keeps the owner in     *)
(* order.                                                                  *)
LEMMA AdoptionKeepsOwners ==
  ASSUME Inv, NEW o \in Owners, reg[o].phase = "provisioning", kube[o] # NoObject,
         Bind(o, kube[o].uid),
         UNCHANGED << settled, kube, posts, sent >>
  PROVE  /\ reg' \in [Owners -> Rows] /\ \A p \in Owners : WellFormed(reg'[p])
         /\ \A p \in Owners : OwnerInOrder(p)'
<1>1. /\ reg' \in [Owners -> Rows] /\ \A p \in Owners : WellFormed(reg'[p])
      /\ reg'[o].gen = reg[o].gen /\ reg'[o].pod = kube[o].uid
      /\ reg'[o].phase = "runner_unreachable"
      /\ \A p \in Owners \ {o} : reg'[p] = reg[p]
  BY ObjectFacts, BindKeepsRow
<1>2. OwnerInOrder(o)'
  BY <1>1 DEF Inv, InFlightIsCurrent, OwnerInOrder, Permitted
<1>3. \A p \in Owners \ {o} : OwnerInOrder(p)'
  BY <1>1, OwnerStays DEF Inv, InFlightIsCurrent
<1> QED BY <1>1, <1>2, <1>3

(* Binding the Pod that a lookup found keeps the invariant.                *)
LEMMA AdoptKeepsInv ==
  ASSUME Inv, NEW c \in Creators, NEW o \in Owners, Adopt(c, o)
  PROVE  Inv'
<1>1. /\ UNCHANGED << receipts, settled, eligible, kube, posts, sent, born >>
      /\ job' = [job EXCEPT ![c] = NoJob]
      /\ Bind(o, kube[o].uid) /\ kube[o] # NoObject /\ reg[o].phase = "provisioning"
  BY DEF Adopt, Ensurable, Matches
<1>2. /\ reg' \in [Owners -> Rows] /\ \A p \in Owners : WellFormed(reg'[p])
      /\ \A p \in Owners : OwnerInOrder(p)'
  BY <1>1, AdoptionKeepsOwners
<1>3. /\ job' \in [Creators -> Jobs \cup {NoJob}]
      /\ \A d \in Creators : TicketInOrder(d)'
  BY <1>1, TicketDropped
<1> QED BY <1>1, <1>2, <1>3 DEF Inv, TypeOK, InFlightIsCurrent

(* Controller.reconcile binds the same Pod without a ticket.               *)
LEMMA ReconcileKeepsInv ==
  ASSUME Inv, NEW o \in Owners, Reconcile(o)
  PROVE  Inv'
<1>1. /\ UNCHANGED << receipts, settled, eligible, kube, posts, sent, born, job >>
      /\ Bind(o, kube[o].uid) /\ kube[o] # NoObject /\ reg[o].phase = "provisioning"
  BY DEF Reconcile, Matches
<1>2. /\ reg' \in [Owners -> Rows] /\ \A p \in Owners : WellFormed(reg'[p])
      /\ \A p \in Owners : OwnerInOrder(p)'
  BY <1>1, AdoptionKeepsOwners
<1>3. \A d \in Creators : TicketInOrder(d)'
  BY <1>1, TicketsStay
<1> QED BY <1>1, <1>2, <1>3 DEF Inv, TypeOK, InFlightIsCurrent

-----------------------------------------------------------------------------
(* The holder of a create ticket of the current generation meets no POST   *)
(* of that generation on the way, and using the ticket leaves every other  *)
(* ticket unused.                                                          *)
LEMMA CreatableFacts ==
  ASSUME Inv, NEW c \in Creators, NEW o \in Owners, Creatable(c, o)
  PROVE  /\ job[c].gen = reg[o].gen /\ reg[o].gen \in Gens
         /\ Permitted(o) /\ reg[o].pod = NoPod /\ reg[o].phase = "provisioning"
         /\ kube[o] = NoObject /\ posts[o] = {}
         /\ sent[o][reg[o].gen] = 0
         /\ \A d \in Creators \ {c} :
              MayCreate(d) /\ job[d].owner = o => job[d].gen # reg[o].gen
<1>1. /\ MayCreate(c) /\ HoldsTicket(c) /\ job[c].owner = o /\ job[c].gen = reg[o].gen
      /\ reg[o].pod = NoPod /\ reg[o].phase = "provisioning" /\ kube[o] = NoObject
  BY DEF Creatable, Ensurable, MayCreate, HoldsTicket
<1>2. TicketInOrder(c) /\ OwnerInOrder(o)
  BY DEF Inv, InFlightIsCurrent
<1>3. reg[o].gen \in settled[o] /\ sent[o][reg[o].gen] = 0
  BY <1>1, <1>2 DEF TicketInOrder
<1>4. reg[o].gen \in Gens
  BY <1>3 DEF Inv, TypeOK
<1>5. posts[o] = {}
  BY <1>2, <1>3 DEF OwnerInOrder
<1>6. \A d \in Creators \ {c} : MayCreate(d) /\ job[d].owner = o => job[d].gen # reg[o].gen
  BY <1>1, <1>2 DEF TicketInOrder
<1> QED BY <1>1, <1>3, <1>4, <1>5, <1>6 DEF Permitted

(* Sending counts one POST of the current generation.                      *)
LEMMA SendOnce ==
  ASSUME Inv, NEW c \in Creators, NEW o \in Owners, Creatable(c, o),
         sent' = [sent EXCEPT ![o][job[c].gen] = @ + 1],
         job' = [job EXCEPT ![c] = NoJob], settled' = settled
  PROVE  /\ sent' \in [Owners -> [Gens -> Nat]]
         /\ sent'[o][reg[o].gen] = 1
         /\ \A gen \in Gens : gen # reg[o].gen => sent'[o][gen] = sent[o][gen]
         /\ \A p \in Owners \ {o} : sent'[p] = sent[p]
         /\ job' \in [Creators -> Jobs \cup {NoJob}]
         /\ \A d \in Creators : TicketInOrder(d)'
<1>1. /\ job[c].gen = reg[o].gen /\ reg[o].gen \in Gens /\ sent[o][reg[o].gen] = 0
      /\ \A d \in Creators \ {c} :
           MayCreate(d) /\ job[d].owner = o => job[d].gen # reg[o].gen
  BY CreatableFacts
<1>2. sent \in [Owners -> [Gens -> Nat]]
  BY DEF Inv, TypeOK
<1>3. /\ sent' \in [Owners -> [Gens -> Nat]]
      /\ sent'[o][reg[o].gen] = 1
      /\ \A gen \in Gens : gen # reg[o].gen => sent'[o][gen] = sent[o][gen]
      /\ \A p \in Owners \ {o} : sent'[p] = sent[p]
  BY <1>1, <1>2
<1>4. ASSUME NEW d \in Creators \ {c}, MayCreate(d)
      PROVE  sent'[job[d].owner][job[d].gen] = sent[job[d].owner][job[d].gen]
  <2>1. job[d].owner \in Owners /\ job[d].gen \in settled[job[d].owner]
    BY <1>4, JobFacts DEF Inv, InFlightIsCurrent, TicketInOrder
  <2>2. job[d].gen \in Gens
    BY <2>1 DEF Inv, TypeOK
  <2> QED BY <1>1, <1>3, <1>4, <2>1, <2>2
<1>5. /\ job' \in [Creators -> Jobs \cup {NoJob}]
      /\ \A d \in Creators : TicketInOrder(d)'
  BY <1>4, TicketDropped
<1> QED BY <1>3, <1>5

(* A POST that is on its way uses the ticket up.                           *)
LEMMA CreateUnansweredKeepsInv ==
  ASSUME Inv, NEW c \in Creators, NEW o \in Owners, CreateUnanswered(c, o)
  PROVE  Inv'
<1>1. /\ Creatable(c, o)
      /\ posts' = [posts EXCEPT ![o] = @ \cup {job[c].gen}]
      /\ sent' = [sent EXCEPT ![o][job[c].gen] = @ + 1]
      /\ job' = [job EXCEPT ![c] = NoJob]
      /\ UNCHANGED << reg, receipts, settled, eligible, kube, born >>
  BY DEF CreateUnanswered
<1>2. /\ job[c].gen = reg[o].gen /\ reg[o].gen \in Gens
      /\ Permitted(o) /\ reg[o].pod = NoPod
      /\ kube[o] = NoObject /\ posts[o] = {}
  BY <1>1, CreatableFacts
<1>3. /\ sent' \in [Owners -> [Gens -> Nat]]
      /\ sent'[o][reg[o].gen] = 1
      /\ \A gen \in Gens : gen # reg[o].gen => sent'[o][gen] = sent[o][gen]
      /\ \A p \in Owners \ {o} : sent'[p] = sent[p]
      /\ job' \in [Creators -> Jobs \cup {NoJob}]
      /\ \A d \in Creators : TicketInOrder(d)'
  BY <1>1, SendOnce
<1>4. /\ posts' \in [Owners -> SUBSET Gens]
      /\ posts'[o] = {reg[o].gen}
      /\ \A p \in Owners \ {o} : posts'[p] = posts[p]
  BY <1>1, <1>2 DEF Inv, TypeOK
<1>5. OwnerInOrder(o)'
  <2>1. OwnerInOrder(o)
    BY DEF Inv, InFlightIsCurrent
  <2>2. \A gen \in Gens : sent'[o][gen] <= 1 /\ (sent'[o][gen] = 1 => gen \in settled[o])
    BY <1>2, <1>3, <2>1 DEF OwnerInOrder, Permitted
  <2> QED BY <1>1, <1>2, <1>3, <1>4, <2>1, <2>2 DEF OwnerInOrder, Permitted
<1>6. \A p \in Owners \ {o} : OwnerInOrder(p)'
  BY <1>1, <1>3, <1>4, OwnerStays DEF Inv, InFlightIsCurrent
<1> QED BY <1>1, <1>3, <1>4, <1>5, <1>6 DEF Inv, TypeOK, InFlightIsCurrent

(* An object appears with a fresh UID.                                     *)
LEMMA AppearFacts ==
  ASSUME Inv, NEW o \in Owners, NEW gen \in Gens, Appear(o, gen)
  PROVE  /\ born' \in [Owners -> Nat] /\ born[o] + 1 \in Nat \ {0}
         /\ kube' \in [Owners -> Objects \cup {NoObject}]
         /\ kube'[o] # NoObject /\ kube'[o].gen = gen /\ kube'[o].uid = born[o] + 1
         /\ \A p \in Owners \ {o} : kube'[p] = kube[p]
<1> DEFINE obj == [uid |-> born[o] + 1, gen |-> gen, deleting |-> FALSE]
<1>1. born \in [Owners -> Nat] /\ kube \in [Owners -> Objects \cup {NoObject}]
  BY DEF Inv, TypeOK
<1>2. obj \in Objects /\ obj.gen = gen /\ obj.uid = born[o] + 1
  BY <1>1 DEF Objects
<1>3. obj # NoObject
  BY <1>1 DEF NoObject
<1>4. kube' = [kube EXCEPT ![o] = obj] /\ born' = [born EXCEPT ![o] = @ + 1]
  BY DEF Appear
<1>5. kube'[o] = obj /\ \A p \in Owners \ {o} : kube'[p] = kube[p]
  BY <1>1, <1>4
<1> HIDE DEF obj
<1> QED BY <1>1, <1>2, <1>3, <1>4, <1>5

(* A POST that took effect uses the ticket up, bound or not.               *)
LEMMA CreateKeepsInv ==
  ASSUME Inv, NEW c \in Creators, NEW o \in Owners, Create(c, o)
  PROVE  Inv'
<1>1. /\ Creatable(c, o) /\ Appear(o, job[c].gen)
      /\ Bind(o, born[o] + 1) \/ UNCHANGED reg
      /\ sent' = [sent EXCEPT ![o][job[c].gen] = @ + 1]
      /\ job' = [job EXCEPT ![c] = NoJob]
      /\ UNCHANGED << receipts, settled, eligible, posts >>
  BY DEF Create
<1>2. /\ job[c].gen = reg[o].gen /\ reg[o].gen \in Gens
      /\ Permitted(o) /\ reg[o].pod = NoPod /\ reg[o].phase = "provisioning"
      /\ posts[o] = {}
  BY <1>1, CreatableFacts
<1>3. /\ sent' \in [Owners -> [Gens -> Nat]]
      /\ sent'[o][reg[o].gen] = 1
      /\ \A gen \in Gens : gen # reg[o].gen => sent'[o][gen] = sent[o][gen]
      /\ \A p \in Owners \ {o} : sent'[p] = sent[p]
      /\ job' \in [Creators -> Jobs \cup {NoJob}]
      /\ \A d \in Creators : TicketInOrder(d)'
  BY <1>1, SendOnce
<1>4. /\ born' \in [Owners -> Nat] /\ born[o] + 1 \in Nat \ {0}
      /\ kube' \in [Owners -> Objects \cup {NoObject}]
      /\ kube'[o] # NoObject /\ kube'[o].gen = reg[o].gen /\ kube'[o].uid = born[o] + 1
      /\ \A p \in Owners \ {o} : kube'[p] = kube[p]
  BY <1>1, <1>2, AppearFacts
<1>5. /\ reg' \in [Owners -> Rows] /\ \A p \in Owners : WellFormed(reg'[p])
      /\ reg'[o].gen = reg[o].gen /\ reg'[o].pod \in {NoPod, born[o] + 1}
      /\ reg'[o].phase # "idle_stopped"
      /\ \A p \in Owners \ {o} : reg'[p] = reg[p]
  <2>1. CASE Bind(o, born[o] + 1)
    BY <1>2, <1>4, <2>1, BindKeepsRow
  <2>2. CASE UNCHANGED reg
    BY <1>2, <2>2 DEF Inv, TypeOK
  <2> QED BY <1>1, <2>1, <2>2
<1>6. OwnerInOrder(o)'
  <2>1. OwnerInOrder(o)
    BY DEF Inv, InFlightIsCurrent
  <2>2. \A gen \in Gens : sent'[o][gen] <= 1 /\ (sent'[o][gen] = 1 => gen \in settled[o])
    BY <1>2, <1>3, <2>1 DEF OwnerInOrder, Permitted
  <2> QED BY <1>1, <1>2, <1>4, <1>5, <2>1, <2>2 DEF OwnerInOrder, Permitted
<1>7. \A p \in Owners \ {o} : OwnerInOrder(p)'
  BY <1>1, <1>3, <1>4, <1>5, OwnerStays DEF Inv, InFlightIsCurrent
<1> QED BY <1>1, <1>3, <1>4, <1>5, <1>6, <1>7 DEF Inv, TypeOK, InFlightIsCurrent

-----------------------------------------------------------------------------
(* Kubernetes                                                              *)
LEMMA PostArrivesKeepsInv ==
  ASSUME Inv, NEW o \in Owners, NEW gen \in Gens, PostArrives(o, gen)
  PROVE  Inv'
<1>1. /\ gen \in posts[o]
      /\ posts' = [posts EXCEPT ![o] = @ \ {gen}]
      /\ Appear(o, gen) \/ UNCHANGED << kube, born >>
      /\ UNCHANGED << reg, receipts, settled, eligible, sent, job >>
  BY DEF PostArrives
<1>2. /\ OwnerInOrder(o) /\ posts[o] = {gen} /\ gen = reg[o].gen
      /\ Permitted(o) /\ kube[o] = NoObject /\ reg[o].pod = NoPod
  BY <1>1 DEF Inv, InFlightIsCurrent, OwnerInOrder
<1>3. /\ posts' \in [Owners -> SUBSET Gens] /\ posts'[o] = {}
      /\ \A p \in Owners \ {o} : posts'[p] = posts[p]
  BY <1>1, <1>2 DEF Inv, TypeOK
<1>4. /\ born' \in [Owners -> Nat] /\ kube' \in [Owners -> Objects \cup {NoObject}]
      /\ kube'[o] # NoObject => kube'[o].gen = gen
      /\ \A p \in Owners \ {o} : kube'[p] = kube[p]
  <2>1. CASE Appear(o, gen)
    BY <2>1, AppearFacts
  <2>2. CASE UNCHANGED << kube, born >>
    BY <1>2, <2>2 DEF Inv, TypeOK
  <2> QED BY <1>1, <2>1, <2>2
<1>5. OwnerInOrder(o)'
  BY <1>1, <1>2, <1>3, <1>4 DEF OwnerInOrder, Permitted
<1>6. \A p \in Owners \ {o} : OwnerInOrder(p)'
  BY <1>1, <1>3, <1>4, OwnerStays DEF Inv, InFlightIsCurrent
<1>7. \A d \in Creators : TicketInOrder(d)'
  BY <1>1, TicketsStay
<1> QED BY <1>1, <1>3, <1>4, <1>5, <1>6, <1>7 DEF Inv, TypeOK, InFlightIsCurrent

(* An object that vanishes leaves everything else as it was.               *)
LEMMA ObjectGoneKeepsInv ==
  ASSUME Inv, NEW o \in Owners, ObjectGone(o)
  PROVE  Inv'
<1>1. /\ kube' = [kube EXCEPT ![o] = NoObject]
      /\ UNCHANGED << reg, receipts, settled, eligible, posts, sent, born, job >>
  BY DEF ObjectGone
<1>2. /\ kube' \in [Owners -> Objects \cup {NoObject}] /\ kube'[o] = NoObject
      /\ \A p \in Owners \ {o} : kube'[p] = kube[p]
  BY <1>1 DEF Inv, TypeOK
<1>3. OwnerInOrder(o)'
  BY <1>1, <1>2 DEF Inv, InFlightIsCurrent, OwnerInOrder, Permitted
<1>4. \A p \in Owners \ {o} : OwnerInOrder(p)'
  BY <1>1, <1>2, OwnerStays DEF Inv, InFlightIsCurrent
<1>5. \A d \in Creators : TicketInOrder(d)'
  BY <1>1, TicketsStay
<1> QED BY <1>1, <1>2, <1>3, <1>4, <1>5 DEF Inv, TypeOK, InFlightIsCurrent

-----------------------------------------------------------------------------
(* The stop protocol                                                       *)
LEMMA QuiesceKeepsInv ==
  ASSUME Inv, NEW o \in Owners, Quiesce(o)
  PROVE  Inv'
<1> DEFINE r == Drained(reg[o])
<1>1. /\ reg' = [reg EXCEPT ![o] = r] /\ reg[o].phase \in Live
      /\ UNCHANGED << receipts, settled, eligible, kube, posts, sent, born, job >>
  BY DEF Quiesce
<1>2. Row(r) /\ r.pod = reg[o].pod /\ r.gen = reg[o].gen /\ r.phase = "stopping"
  BY <1>1, DrainedSound, RowFacts DEF Inv
<1> HIDE DEF r
<1>3. /\ reg' \in [Owners -> Rows] /\ \A p \in Owners : WellFormed(reg'[p])
      /\ reg'[o] = r /\ \A p \in Owners \ {o} : reg'[p] = reg[p]
  BY <1>1, <1>2, RowReplaced DEF Inv
<1>4. OwnerInOrder(o)'
  BY <1>1, <1>2, <1>3 DEF Inv, InFlightIsCurrent, OwnerInOrder, Permitted
<1>5. \A p \in Owners \ {o} : OwnerInOrder(p)'
  BY <1>1, <1>3, OwnerStays DEF Inv, InFlightIsCurrent
<1>6. \A d \in Creators : TicketInOrder(d)'
  BY <1>1, TicketsStay
<1> QED BY <1>1, <1>3, <1>4, <1>5, <1>6 DEF Inv, TypeOK, InFlightIsCurrent

(* Deletion marks the bound object and changes nothing else.               *)
LEMMA BeginDeletionKeepsInv ==
  ASSUME Inv, NEW o \in Owners, BeginDeletion(o)
  PROVE  Inv'
<1> DEFINE obj == [kube[o] EXCEPT !.deleting = TRUE]
<1>1. /\ kube' = [kube EXCEPT ![o] = obj] /\ kube[o] # NoObject
      /\ UNCHANGED << reg, receipts, settled, eligible, posts, sent, born, job >>
  BY DEF BeginDeletion
<1>2. kube[o] \in Objects
  BY <1>1, ObjectFacts
<1>3. obj \in Objects /\ obj.uid = kube[o].uid /\ obj.gen = kube[o].gen
  BY <1>2 DEF Objects
<1> HIDE DEF obj
<1>4. /\ kube' \in [Owners -> Objects \cup {NoObject}] /\ kube'[o] = obj
      /\ \A p \in Owners \ {o} : kube'[p] = kube[p]
  BY <1>1, <1>3 DEF Inv, TypeOK
<1>5. OwnerInOrder(o)'
  BY <1>1, <1>3, <1>4 DEF Inv, InFlightIsCurrent, OwnerInOrder, Permitted
<1>6. \A p \in Owners \ {o} : OwnerInOrder(p)'
  BY <1>1, <1>4, OwnerStays DEF Inv, InFlightIsCurrent
<1>7. \A d \in Creators : TicketInOrder(d)'
  BY <1>1, TicketsStay
<1> QED BY <1>1, <1>4, <1>5, <1>6, <1>7 DEF Inv, TypeOK, InFlightIsCurrent

(* A release meets an owner with nothing in flight.                        *)
LEMMA ReleaseKeepsInv ==
  ASSUME Inv, NEW o \in Owners, Release(o)
  PROVE  Inv'
<1> DEFINE r == Stopped(reg[o])
<1>1. /\ reg' = [reg EXCEPT ![o] = r] /\ reg[o].phase = "stopping" /\ kube[o] = NoObject
      /\ UNCHANGED << receipts, settled, eligible, kube, posts, sent, born, job >>
  BY DEF Release, CanFinishStop
<1>2. /\ Row(r) /\ r.pod = NoPod /\ r.gen = reg[o].gen /\ r.phase = "idle_stopped"
      /\ reg[o].pod # NoPod
  BY <1>1, StoppedSound, RowFacts DEF Inv
<1> HIDE DEF r
<1>3. /\ reg' \in [Owners -> Rows] /\ \A p \in Owners : WellFormed(reg'[p])
      /\ reg'[o] = r /\ \A p \in Owners \ {o} : reg'[p] = reg[p]
  BY <1>1, <1>2, RowReplaced DEF Inv
<1>4. OwnerInOrder(o)'
  <2>1. OwnerInOrder(o) /\ posts[o] = {}
    BY <1>2 DEF Inv, InFlightIsCurrent, OwnerInOrder
  <2> QED BY <1>1, <1>2, <1>3, <2>1 DEF OwnerInOrder
<1>5. \A p \in Owners \ {o} : OwnerInOrder(p)'
  BY <1>1, <1>3, OwnerStays DEF Inv, InFlightIsCurrent
<1>6. \A d \in Creators : TicketInOrder(d)'
  BY <1>1, TicketsStay
<1> QED BY <1>1, <1>3, <1>4, <1>5, <1>6 DEF Inv, TypeOK, InFlightIsCurrent

-----------------------------------------------------------------------------
(* The invariant                                                           *)
LEMMA InitInv == Init => Inv
<1> SUFFICES ASSUME Init PROVE Inv
  OBVIOUS
<1>1. NewRow \in Rows /\ WellFormed(NewRow) /\ NewRow.gen = 0 /\ NewRow.pod = NoPod
  BY NewRowSound DEF Row, NewRow
<1>2. eligible \in [Owners -> BOOLEAN]
  BY Zenon DEF Init
<1>3. /\ reg \in [Owners -> Rows] /\ \A o \in Owners : reg[o] = NewRow
      /\ receipts \in [Owners -> [Keys -> Nat]]
      /\ settled \in [Owners -> SUBSET Gens] /\ \A o \in Owners : settled[o] = {}
      /\ kube \in [Owners -> Objects \cup {NoObject}] /\ \A o \in Owners : kube[o] = NoObject
      /\ posts \in [Owners -> SUBSET Gens] /\ \A o \in Owners : posts[o] = {}
      /\ sent \in [Owners -> [Gens -> Nat]] /\ \A o \in Owners, gen \in Gens : sent[o][gen] = 0
      /\ born \in [Owners -> Nat]
      /\ job \in [Creators -> Jobs \cup {NoJob}] /\ \A c \in Creators : job[c] = NoJob
  BY <1>1 DEF Init
<1>4. TypeOK
  BY <1>1, <1>2, <1>3 DEF TypeOK
<1>5. ASSUME NEW o \in Owners PROVE OwnerInOrder(o)
  BY <1>1, <1>3, CreationAssumption DEF OwnerInOrder, CreationAssumption
<1>6. ASSUME NEW c \in Creators PROVE TicketInOrder(c)
  BY <1>3 DEF TicketInOrder, HoldsTicket, MayCreate, NoJob
<1> QED BY <1>4, <1>5, <1>6 DEF Inv, InFlightIsCurrent

(* Every step of Controller.ensure keeps the invariant.                    *)
LEMMA CreatorKeepsInv ==
  ASSUME Inv, NEW c \in Creators, NEW o \in Owners, CreatorStep(c, o)
  PROVE  Inv'
<1>1. CASE TakeFence(c, o)
  BY <1>1, TakeFenceKeepsInv
<1>2. CASE ReserveIssued(c, o)
  BY <1>2, ReserveIssuedKeepsInv
<1>3. CASE ReserveWaits(c, o)
  BY <1>3, ReserveWaitsKeepsInv
<1>4. CASE ReserveAdmits(c, o)
  BY <1>4, ReserveAdmitsKeepsInv
<1>5. CASE Adopt(c, o)
  BY <1>5, AdoptKeepsInv
<1>6. CASE Create(c, o)
  BY <1>6, CreateKeepsInv
<1>7. CASE CreateUnanswered(c, o)
  BY <1>7, CreateUnansweredKeepsInv
<1>8. CASE Refused(c, o)
  BY <1>8, JobDroppedKeepsInv DEF Refused
<1> QED BY <1>1, <1>2, <1>3, <1>4, <1>5, <1>6, <1>7, <1>8 DEF CreatorStep

(* The invariant is inductive.                                             *)
LEMMA NextKeepsInv == Inv /\ [Next]_vars => Inv'
<1> SUFFICES ASSUME Inv, [Next]_vars PROVE Inv'
  OBVIOUS
<1>1. ASSUME NEW o \in Owners, NEW k \in Keys, Enter(o, k) PROVE Inv'
  BY <1>1, EnterKeepsInv
<1>2. ASSUME NEW o \in Owners, ChangeMembership(o) PROVE Inv'
  BY <1>2, MembershipKeepsInv
<1>3. ASSUME NEW c \in Creators, NEW o \in Owners, CreatorStep(c, o) PROVE Inv'
  BY <1>3, CreatorKeepsInv
<1>4. ASSUME NEW c \in Creators, Abandon(c) PROVE Inv'
  BY <1>4, JobDroppedKeepsInv DEF Abandon
<1>5. ASSUME NEW o \in Owners, Reconcile(o) PROVE Inv'
  BY <1>5, ReconcileKeepsInv
<1>6. ASSUME NEW o \in Owners, ClusterStep(o) PROVE Inv'
  BY <1>6, PostArrivesKeepsInv, ObjectGoneKeepsInv DEF ClusterStep
<1>7. ASSUME NEW o \in Owners, StopStep(o) PROVE Inv'
  BY <1>7, QuiesceKeepsInv, BeginDeletionKeepsInv, ReleaseKeepsInv DEF StopStep
<1>8. CASE UNCHANGED vars
  <2>1. UNCHANGED << reg, receipts, settled, eligible, kube, posts, sent, born, job >>
    BY <1>8 DEF vars
  <2>2. \A p \in Owners : OwnerInOrder(p)'
    BY <2>1, OwnerStays DEF Inv, InFlightIsCurrent
  <2>3. \A d \in Creators : TicketInOrder(d)'
    BY <2>1, TicketsStay
  <2> QED BY <2>1, <2>2, <2>3 DEF Inv, TypeOK, InFlightIsCurrent
<1> QED BY <1>1, <1>2, <1>3, <1>4, <1>5, <1>6, <1>7, <1>8 DEF Next

(* The invariant holds in every behaviour.                                 *)
LEMMA InvHolds == Spec => []Inv
  BY InitInv, NextKeepsInv, PTL DEF Spec

-----------------------------------------------------------------------------
(* Consequences                                                            *)

(* Every stored row can be read back, every ticket and object is of its    *)
(* kind, whatever creators, Kubernetes and the stop protocol do.           *)
THEOREM TypeCorrect == Spec => []TypeOK
  BY InvHolds, PTL DEF Inv

(* What is in flight belongs to the current, permitted generation.         *)
THEOREM InFlightCurrent == Spec => []InFlightIsCurrent
  BY InvHolds, PTL DEF Inv

(* No generation of an owner ever sees a second create POST.               *)
THEOREM AtMostOneCreate == Spec => []OneCreatePerGeneration
<1>1. Inv => OneCreatePerGeneration
  BY DEF Inv, InFlightIsCurrent, OwnerInOrder, OneCreatePerGeneration
<1> QED BY <1>1, InvHolds, PTL

(* The object of an owner's name is of the row's generation, and is the    *)
(* bound Pod if one is bound.                                              *)
THEOREM OwnPodOnly == Spec => []NoForeignPod
<1>1. Inv => NoForeignPod
  BY DEF Inv, InFlightIsCurrent, OwnerInOrder, NoForeignPod
<1> QED BY <1>1, InvHolds, PTL

(* Nothing exists, or may still appear, in the cluster without a slot.     *)
LEMMA HoldersCoverCluster == Inv => LivePodsHoldSlots
  BY DEF Inv, InFlightIsCurrent, OwnerInOrder, Permitted, LivePodsHoldSlots, ClusterHolds, Occupied

(* An owner with anything in the cluster holds a slot of the registry.     *)
THEOREM PodsHoldSlots == Spec => []LivePodsHoldSlots
  BY HoldersCoverCluster, InvHolds, PTL

-----------------------------------------------------------------------------
(* Slots                                                                   *)
LEMMA SlotsAreFinite == Slots \subseteq Owners /\ IsFiniteSet(Slots)
  BY CreationAssumption, FS_Subset DEF Slots, CreationAssumption

(* Slots depend on the rows and the settled outbox only.                   *)
LEMMA SameSlots ==
  ASSUME \A p \in Owners : Occupied(p)' <=> Occupied(p)
  PROVE  UNCHANGED Slots
  BY DEF Slots

(* What runs depends on the objects and the POSTs only.                    *)
LEMMA SameRunning == ASSUME UNCHANGED << kube, posts >> PROVE UNCHANGED Running
  BY DEF Running, ClusterHolds

(* An entry takes no slot: a new generation is not permitted yet, and the  *)
(* old one held none.                                                      *)
LEMMA EnterTakesNoSlot ==
  ASSUME Inv, NEW o \in Owners, NEW k \in Keys, Enter(o, k)
  PROVE  UNCHANGED << Slots, Running >>
<1>1. PICK r : /\ Row(r) /\ reg' = [reg EXCEPT ![o] = r]
               /\ r.pod = reg[o].pod
               /\ \/ r.gen = reg[o].gen /\ r.phase = reg[o].phase
                  \/ /\ r.gen = reg[o].gen + 1 /\ r.gen <= MaxGen
                     /\ r.phase = "provisioning" /\ r.pod = NoPod
                     /\ ~Permitted(o) /\ ~ClusterHolds(o)
  BY EntryIsFresh
<1>2. reg'[o] = r /\ \A p \in Owners \ {o} : reg'[p] = reg[p]
  BY <1>1, RowReplaced DEF Inv
<1>3. UNCHANGED << settled, kube, posts >>
  BY DEF Enter
<1>4. Occupied(o)' <=> Occupied(o)
  <2>1. CASE r.gen = reg[o].gen /\ r.phase = reg[o].phase
    BY <1>1, <1>2, <1>3, <2>1 DEF Occupied
  <2>2. CASE r.gen = reg[o].gen + 1 /\ r.pod = NoPod /\ ~Permitted(o)
    <3>1. reg[o].gen + 1 \notin settled[o]
      BY RowFacts DEF Inv, InFlightIsCurrent, OwnerInOrder
    <3> QED BY <1>1, <1>2, <1>3, <2>2, <3>1 DEF Occupied, Permitted
  <2> QED BY <1>1, <2>1, <2>2
<1>5. \A p \in Owners \ {o} : Occupied(p)' <=> Occupied(p)
  BY <1>2, <1>3 DEF Occupied
<1> QED BY <1>3, <1>4, <1>5, SameSlots, SameRunning

(* Waiting takes no slot: neither row has a Pod or a permission.           *)
LEMMA WaitingTakesNoSlot ==
  ASSUME Inv, NEW c \in Creators, NEW o \in Owners, ReserveWaits(c, o)
  PROVE  UNCHANGED << Slots, Running >>
<1>1. /\ reg'[o].gen = reg[o].gen /\ reg[o].pod = NoPod /\ reg'[o].pod = NoPod
      /\ \A p \in Owners \ {o} : reg'[p] = reg[p]
  BY CapacityKeepsRow DEF ReserveWaits
<1>2. reg[o].gen \notin settled[o] /\ UNCHANGED << settled, kube, posts >>
  BY DEF ReserveWaits, Issued
<1>3. \A p \in Owners : Occupied(p)' <=> Occupied(p)
  BY <1>1, <1>2 DEF Occupied
<1> QED BY <1>2, <1>3, SameSlots, SameRunning

(* An admission takes the owner's slot, under the limit.                   *)
LEMMA AdmissionTakesSlot ==
  ASSUME Inv, NEW c \in Creators, NEW o \in Owners, ReserveAdmits(c, o)
  PROVE  /\ o \notin Slots /\ Cardinality(Slots) < MaxPods
         /\ Slots' = Slots \cup {o} /\ UNCHANGED Running
<1>1. /\ reg'[o].gen = reg[o].gen /\ reg[o].pod = NoPod /\ reg'[o].pod = NoPod
      /\ reg'[o].phase \in Creating
      /\ \A p \in Owners \ {o} : reg'[p] = reg[p]
  BY CapacityKeepsRow DEF ReserveAdmits
<1>2. /\ reg[o].gen \notin settled[o] /\ UNCHANGED << kube, posts >>
      /\ settled' = [settled EXCEPT ![o] = @ \cup {reg[o].gen}]
      /\ Cardinality(Slots) < MaxPods
  BY DEF ReserveAdmits, Issued
<1>3. settled'[o] = settled[o] \cup {reg[o].gen} /\ \A p \in Owners \ {o} : settled'[p] = settled[p]
  BY <1>2 DEF Inv, TypeOK
<1>4. ~Occupied(o) /\ Occupied(o)'
  BY <1>1, <1>2, <1>3 DEF Occupied, Creating
<1>5. \A p \in Owners \ {o} : Occupied(p)' <=> Occupied(p)
  BY <1>1, <1>3 DEF Occupied
<1> QED BY <1>2, <1>4, <1>5, SameRunning DEF Slots

(* A binding keeps the slot that the permission already held.              *)
LEMMA BindingKeepsSlot ==
  ASSUME Inv, NEW o \in Owners, NEW uid \in Nat \ {0}, reg[o].phase = "provisioning",
         Bind(o, uid), Permitted(o), UNCHANGED settled
  PROVE  UNCHANGED Slots
<1>1. /\ reg'[o].gen = reg[o].gen /\ reg'[o].pod = uid /\ reg'[o].phase = "runner_unreachable"
      /\ \A p \in Owners \ {o} : reg'[p] = reg[p]
  BY BindKeepsRow
<1>2. \A p \in Owners : Occupied(p)' <=> Occupied(p)
  BY <1>1 DEF Occupied, Permitted
<1> QED BY <1>2, SameSlots

(* Binding a Pod that exists neither takes nor starts anything.            *)
LEMMA AdoptionKeepsSlot ==
  ASSUME Inv, NEW o \in Owners, reg[o].phase = "provisioning", kube[o] # NoObject,
         Bind(o, kube[o].uid), UNCHANGED << settled, kube, posts >>
  PROVE  UNCHANGED << Slots, Running >>
<1>1. Permitted(o)
  BY DEF Inv, InFlightIsCurrent, OwnerInOrder
<1> QED BY <1>1, ObjectFacts, BindingKeepsSlot, SameRunning

-----------------------------------------------------------------------------
(* The protocol implements SlotPool                                        *)
PoolStep == [Pool!Next]_<< Slots, Running >>

(* Both modules count slots the same way.                                  *)
LEMMA PoolCounts == Pool!Cardinality(Slots) = Cardinality(Slots)
  BY Zenon DEF Pool!Cardinality, Cardinality

(* An owner whose first object or POST appears starts to run.              *)
LEMMA RunningGrows ==
  ASSUME NEW o \in Owners, o \in Slots, o \notin Running, UNCHANGED Slots,
         ClusterHolds(o)', \A p \in Owners \ {o} : ClusterHolds(p)' <=> ClusterHolds(p)
  PROVE  PoolStep
<1>1. Running' = Running \cup {o}
  BY DEF Running
<1>2. Pool!Start(o)
  BY <1>1 DEF Pool!Start
<1> QED BY <1>2 DEF PoolStep, Pool!Next

(* Only the last trace of an owner in the cluster ends its running.        *)
LEMMA RunningShrinks ==
  ASSUME NEW o \in Owners, o \in Running, UNCHANGED Slots,
         \A p \in Owners \ {o} : ClusterHolds(p)' <=> ClusterHolds(p)
  PROVE  PoolStep
<1>1. CASE ClusterHolds(o)'
  <2>1. UNCHANGED Running
    BY <1>1 DEF Running
  <2> QED BY <2>1 DEF PoolStep
<1>2. CASE ~ClusterHolds(o)'
  <2>1. Running' = Running \ {o}
    BY <1>2 DEF Running
  <2>2. Pool!Finish(o)
    BY <2>1 DEF Pool!Finish
  <2> QED BY <2>2 DEF PoolStep, Pool!Next
<1> QED BY <1>1, <1>2

(* The create POST is the pool's Start.                                    *)
LEMMA CreateStarts ==
  ASSUME Inv, NEW c \in Creators, NEW o \in Owners, Create(c, o) \/ CreateUnanswered(c, o)
  PROVE  PoolStep
<1>1. /\ Creatable(c, o) /\ UNCHANGED settled
      /\ \/ Appear(o, job[c].gen) /\ UNCHANGED posts
         \/ UNCHANGED kube /\ posts' = [posts EXCEPT ![o] = @ \cup {job[c].gen}]
      /\ Bind(o, born[o] + 1) \/ UNCHANGED reg
  BY DEF Create, CreateUnanswered
<1>2. /\ job[c].gen \in Gens /\ Permitted(o) /\ reg[o].phase = "provisioning"
      /\ kube[o] = NoObject /\ posts[o] = {}
  BY <1>1, CreatableFacts
<1>3. UNCHANGED Slots
  <2>1. CASE Bind(o, born[o] + 1)
    <3>1. born[o] + 1 \in Nat \ {0}
      BY DEF Inv, TypeOK
    <3> QED BY <1>1, <1>2, <2>1, <3>1, BindingKeepsSlot
  <2>2. CASE UNCHANGED reg
    BY <1>1, <2>2, SameSlots DEF Occupied
  <2> QED BY <1>1, <2>1, <2>2
<1>4. ClusterHolds(o)' /\ \A p \in Owners \ {o} : ClusterHolds(p)' <=> ClusterHolds(p)
  <2>1. CASE Appear(o, job[c].gen) /\ UNCHANGED posts
    BY <1>2, <2>1, AppearFacts DEF ClusterHolds
  <2>2. CASE UNCHANGED kube /\ posts' = [posts EXCEPT ![o] = @ \cup {job[c].gen}]
    BY <2>2 DEF ClusterHolds, Inv, TypeOK
  <2> QED BY <1>1, <2>1, <2>2
<1>5. o \in Slots /\ o \notin Running
  BY <1>2 DEF Slots, Running, Occupied, Permitted, ClusterHolds
<1> QED BY <1>3, <1>4, <1>5, RunningGrows

(* A late POST keeps its owner running, or ends what was left of it.       *)
LEMMA PostArrivalIsPoolStep ==
  ASSUME Inv, NEW o \in Owners, NEW gen \in Gens, PostArrives(o, gen)
  PROVE  PoolStep
<1>1. /\ gen \in posts[o] /\ UNCHANGED << reg, settled >>
      /\ posts' = [posts EXCEPT ![o] = @ \ {gen}]
      /\ Appear(o, gen) \/ UNCHANGED << kube, born >>
  BY DEF PostArrives
<1>2. UNCHANGED Slots
  BY <1>1, SameSlots DEF Occupied
<1>3. \A p \in Owners \ {o} : kube'[p] = kube[p] /\ posts'[p] = posts[p]
  BY <1>1, AppearFacts DEF Inv, TypeOK
<1>4. \A p \in Owners \ {o} : ClusterHolds(p)' <=> ClusterHolds(p)
  BY <1>3 DEF ClusterHolds
<1>5. o \in Running
  BY <1>1 DEF Running, ClusterHolds
<1> QED BY <1>2, <1>4, <1>5, RunningShrinks

(* An object that vanishes is the pool's Finish.                           *)
LEMMA ObjectGoneIsPoolStep ==
  ASSUME Inv, NEW o \in Owners, ObjectGone(o)
  PROVE  PoolStep
<1>1. /\ kube[o] # NoObject /\ kube' = [kube EXCEPT ![o] = NoObject]
      /\ UNCHANGED << reg, settled, posts >>
  BY DEF ObjectGone
<1>2. UNCHANGED Slots
  BY <1>1, SameSlots DEF Occupied
<1>3. \A p \in Owners \ {o} : ClusterHolds(p)' <=> ClusterHolds(p)
  BY <1>1 DEF ClusterHolds, Inv, TypeOK
<1>4. o \in Running
  BY <1>1 DEF Running, ClusterHolds
<1> QED BY <1>2, <1>3, <1>4, RunningShrinks

(* An accepted stop keeps the slot.                                        *)
LEMMA QuiesceIsPoolStep ==
  ASSUME Inv, NEW o \in Owners, Quiesce(o)
  PROVE  PoolStep
<1> DEFINE r == Drained(reg[o])
<1>1. /\ reg' = [reg EXCEPT ![o] = r] /\ reg[o].phase \in Live
      /\ UNCHANGED << settled, kube, posts >>
  BY DEF Quiesce
<1>2. Row(r) /\ r.pod = reg[o].pod /\ r.phase = "stopping" /\ reg[o].pod # NoPod
  BY <1>1, DrainedSound, RowFacts DEF Inv
<1> HIDE DEF r
<1>3. reg'[o] = r /\ \A p \in Owners \ {o} : reg'[p] = reg[p]
  BY <1>1, <1>2, RowReplaced DEF Inv
<1>4. \A p \in Owners : Occupied(p)' <=> Occupied(p)
  BY <1>1, <1>2, <1>3 DEF Occupied, Live
<1> QED BY <1>1, <1>4, SameSlots, SameRunning DEF PoolStep

(* A deletion under way keeps the slot and still runs.                     *)
LEMMA BeginDeletionIsPoolStep ==
  ASSUME Inv, NEW o \in Owners, BeginDeletion(o)
  PROVE  PoolStep
<1> DEFINE obj == [kube[o] EXCEPT !.deleting = TRUE]
<1>1. /\ kube' = [kube EXCEPT ![o] = obj] /\ kube[o] # NoObject
      /\ UNCHANGED << reg, settled, posts >>
  BY DEF BeginDeletion
<1>2. UNCHANGED Slots
  BY <1>1, SameSlots DEF Occupied
<1>3. \A p \in Owners \ {o} : ClusterHolds(p)' <=> ClusterHolds(p)
  <2> HIDE DEF obj
  <2> QED BY <1>1 DEF ClusterHolds, Inv, TypeOK
<1>4. o \in Running
  BY <1>1 DEF Running, ClusterHolds
<1> QED BY <1>2, <1>3, <1>4, RunningShrinks

(* A release returns the slot of an owner of whom nothing is left.         *)
LEMMA ReleaseReturns ==
  ASSUME Inv, NEW o \in Owners, Release(o)
  PROVE  PoolStep
<1> DEFINE r == Stopped(reg[o])
<1>1. /\ reg' = [reg EXCEPT ![o] = r] /\ reg[o].phase = "stopping" /\ kube[o] = NoObject
      /\ UNCHANGED << settled, kube, posts >>
  BY DEF Release, CanFinishStop
<1>2. Row(r) /\ r.phase = "idle_stopped" /\ reg[o].pod # NoPod
  BY <1>1, StoppedSound, RowFacts DEF Inv
<1> HIDE DEF r
<1>3. reg'[o] = r /\ \A p \in Owners \ {o} : reg'[p] = reg[p]
  BY <1>1, <1>2, RowReplaced DEF Inv
<1>4. Occupied(o) /\ ~Occupied(o)' /\ \A p \in Owners \ {o} : Occupied(p)' <=> Occupied(p)
  BY <1>1, <1>2, <1>3 DEF Occupied
<1>5. o \in Slots /\ Slots' = Slots \ {o} /\ UNCHANGED Running
  BY <1>1, <1>4, SameRunning DEF Slots
<1>6. o \notin Running
  BY <1>1, <1>2 DEF Inv, InFlightIsCurrent, OwnerInOrder, Running, ClusterHolds
<1>7. Pool!Return(o)
  BY <1>5, <1>6 DEF Pool!Return
<1> QED BY <1>7 DEF PoolStep, Pool!Next

(* Every step of Controller.ensure is a pool step or a stutter.            *)
LEMMA CreatorIsPoolStep ==
  ASSUME Inv, NEW c \in Creators, NEW o \in Owners, CreatorStep(c, o)
  PROVE  PoolStep
<1>1. CASE TakeFence(c, o) \/ ReserveIssued(c, o) \/ Refused(c, o)
  <2>1. UNCHANGED << reg, settled, kube, posts >>
    BY <1>1 DEF TakeFence, ReserveIssued, Refused
  <2> QED BY <2>1, SameSlots, SameRunning DEF PoolStep, Occupied
<1>2. CASE ReserveWaits(c, o)
  BY <1>2, WaitingTakesNoSlot DEF PoolStep
<1>3. CASE ReserveAdmits(c, o)
  <2>1. Pool!Acquire(o)
    BY <1>3, AdmissionTakesSlot, PoolCounts DEF Pool!Acquire
  <2> QED BY <2>1 DEF PoolStep, Pool!Next
<1>4. CASE Adopt(c, o)
  <2>1. /\ UNCHANGED << settled, kube, posts, sent >> /\ Bind(o, kube[o].uid)
        /\ kube[o] # NoObject /\ reg[o].phase = "provisioning"
    BY <1>4 DEF Adopt, Ensurable, Matches
  <2> QED BY <2>1, AdoptionKeepsSlot DEF PoolStep
<1>5. CASE Create(c, o) \/ CreateUnanswered(c, o)
  BY <1>5, CreateStarts
<1> QED BY <1>1, <1>2, <1>3, <1>4, <1>5 DEF CreatorStep

(* Every step of the protocol is a pool step or a stutter.                 *)
LEMMA NextIsPoolStep == Inv /\ [Next]_vars => PoolStep
<1> SUFFICES ASSUME Inv, [Next]_vars PROVE PoolStep
  OBVIOUS
<1>1. ASSUME NEW o \in Owners, NEW k \in Keys, Enter(o, k) PROVE PoolStep
  BY <1>1, EnterTakesNoSlot DEF PoolStep
<1>2. ASSUME UNCHANGED << reg, settled, kube, posts >> PROVE PoolStep
  BY <1>2, SameSlots, SameRunning DEF PoolStep, Occupied
<1>3. ASSUME NEW o \in Owners, ChangeMembership(o) PROVE PoolStep
  BY <1>2, <1>3 DEF ChangeMembership
<1>4. ASSUME NEW c \in Creators, NEW o \in Owners, CreatorStep(c, o) PROVE PoolStep
  BY <1>4, CreatorIsPoolStep
<1>5. ASSUME NEW c \in Creators, Abandon(c) PROVE PoolStep
  BY <1>2, <1>5 DEF Abandon
<1>6. ASSUME NEW o \in Owners, Reconcile(o) PROVE PoolStep
  <2>1. /\ UNCHANGED << settled, kube, posts, sent >> /\ Bind(o, kube[o].uid)
        /\ kube[o] # NoObject /\ reg[o].phase = "provisioning"
    BY <1>6 DEF Reconcile, Matches
  <2> QED BY <2>1, AdoptionKeepsSlot DEF PoolStep
<1>7. ASSUME NEW o \in Owners, ClusterStep(o) PROVE PoolStep
  BY <1>7, PostArrivalIsPoolStep, ObjectGoneIsPoolStep DEF ClusterStep
<1>8. ASSUME NEW o \in Owners, StopStep(o) PROVE PoolStep
  BY <1>8, QuiesceIsPoolStep, BeginDeletionIsPoolStep, ReleaseReturns DEF StopStep
<1>9. CASE UNCHANGED vars
  BY <1>2, <1>9 DEF vars
<1> QED BY <1>1, <1>3, <1>4, <1>5, <1>6, <1>7, <1>8, <1>9 DEF Next

(* Nobody holds a slot and nothing runs at the start.                      *)
LEMMA InitIsPoolInit == Init => Pool!Init
<1> SUFFICES ASSUME Init PROVE Pool!Init
  OBVIOUS
<1>1. ASSUME NEW o \in Owners PROVE ~Occupied(o) /\ ~ClusterHolds(o)
  BY DEF Init, Occupied, ClusterHolds, NewRow, NoPod
<1> QED BY <1>1 DEF Pool!Init, Slots, Running

(* The protocol takes, keeps and returns slots as the abstract pool allows,*)
(* with racing and dying creators, lost answers and late POSTs.            *)
THEOREM ImplementsPool == Spec => PoolSpec
<1>1. Inv /\ [Next]_vars => [Pool!Next]_<< Slots, Running >>
  BY NextIsPoolStep DEF PoolStep
<1> QED BY <1>1, InitIsPoolInit, InvHolds, PTL DEF Spec, PoolSpec, Pool!Spec

(* The pool never hands out more slots than its limit, and so the protocol *)
(* never exceeds MaxPods.                                                  *)
THEOREM SlotLimit == Spec => []SlotsBounded
<1>1. Pool!Init => SlotsBounded
  BY CreationAssumption, FS_EmptySet DEF Pool!Init, SlotsBounded, CreationAssumption
<1>2. SlotsBounded /\ PoolStep => SlotsBounded'
  <2> SUFFICES ASSUME SlotsBounded, PoolStep PROVE SlotsBounded'
    OBVIOUS
  <2>1. IsFiniteSet(Slots) /\ Cardinality(Slots) \in Nat /\ MaxPods \in Nat
    BY SlotsAreFinite, FS_CardinalityType, CreationAssumption DEF CreationAssumption
  <2>2. ASSUME NEW m \in Owners, Pool!Acquire(m) PROVE SlotsBounded'
    <3>1. Slots' = Slots \cup {m} /\ Cardinality(Slots) < MaxPods /\ m \notin Slots
      BY <2>2, PoolCounts DEF Pool!Acquire
    <3>2. Cardinality(Slots') = Cardinality(Slots) + 1
      BY <2>1, <3>1, FS_AddElement
    <3> QED BY <2>1, <3>1, <3>2 DEF SlotsBounded
  <2>3. ASSUME NEW m \in Owners, Pool!Return(m) PROVE SlotsBounded'
    <3>1. Slots' \in SUBSET Slots
      BY <2>3 DEF Pool!Return
    <3>2. Cardinality(Slots') <= Cardinality(Slots) /\ Cardinality(Slots') \in Nat
      BY <2>1, <3>1, FS_Subset, FS_CardinalityType
    <3> QED BY <2>1, <3>2 DEF SlotsBounded
  <2>4. CASE UNCHANGED Slots
    BY <2>4 DEF SlotsBounded
  <2> QED BY <2>2, <2>3, <2>4 DEF PoolStep, Pool!Next, Pool!Start, Pool!Finish
<1>3. Inv /\ [Next]_vars => PoolStep
  BY NextIsPoolStep
<1> QED BY <1>1, <1>2, <1>3, InitIsPoolInit, InvHolds, PTL DEF Spec

-----------------------------------------------------------------------------
(* Generations                                                             *)
KeepsGenerations == receipts' = receipts /\ \A p \in Owners : reg'[p].gen = reg[p].gen

(* No decision but an entry touches a generation.                          *)
LEMMA StopKeepsGenerations ==
  ASSUME Inv, NEW o \in Owners, Quiesce(o) \/ Release(o)
  PROVE  KeepsGenerations
<1>1. CASE Quiesce(o)
  <2>1. Row(Drained(reg[o])) /\ Drained(reg[o]).gen = reg[o].gen
    BY <1>1, DrainedSound, RowFacts DEF Inv, Quiesce
  <2>2. receipts' = receipts /\ reg' = [reg EXCEPT ![o] = Drained(reg[o])]
    BY <1>1 DEF Quiesce
  <2> QED BY <2>1, <2>2, RowReplaced DEF Inv, KeepsGenerations
<1>2. CASE Release(o)
  <2>1. Row(Stopped(reg[o])) /\ Stopped(reg[o]).gen = reg[o].gen
    BY <1>2, StoppedSound, RowFacts DEF Inv, Release, CanFinishStop
  <2>2. receipts' = receipts /\ reg' = [reg EXCEPT ![o] = Stopped(reg[o])]
    BY <1>2 DEF Release
  <2> QED BY <2>1, <2>2, RowReplaced DEF Inv, KeepsGenerations
<1> QED BY <1>1, <1>2

(* No step of Controller.ensure begins a generation or uses a key.         *)
LEMMA CreatorKeepsGenerations ==
  ASSUME Inv, NEW c \in Creators, NEW o \in Owners, CreatorStep(c, o)
  PROVE  KeepsGenerations
<1>1. receipts' = receipts
  BY DEF CreatorStep, TakeFence, ReserveIssued, ReserveWaits, ReserveAdmits, Adopt, Create,
         CreateUnanswered, Refused
<1>2. CASE UNCHANGED reg
  BY <1>1, <1>2 DEF KeepsGenerations
<1>3. CASE ReserveWaits(c, o)
  BY <1>1, <1>3, CapacityKeepsRow DEF ReserveWaits, KeepsGenerations
<1>4. CASE ReserveAdmits(c, o)
  BY <1>1, <1>4, CapacityKeepsRow DEF ReserveAdmits, KeepsGenerations
<1>5. CASE Adopt(c, o)
  <2>1. /\ reg[o].phase = "provisioning" /\ kube[o].uid \in Nat \ {0} /\ Bind(o, kube[o].uid)
    BY <1>5, ObjectFacts DEF Adopt, Ensurable, Matches
  <2> QED BY <1>1, <2>1, BindKeepsRow DEF KeepsGenerations
<1>6. CASE Create(c, o) /\ Bind(o, born[o] + 1)
  <2>1. reg[o].phase = "provisioning" /\ born[o] + 1 \in Nat \ {0}
    BY <1>6, CreatableFacts DEF Create, Inv, TypeOK
  <2> QED BY <1>1, <1>6, <2>1, BindKeepsRow DEF KeepsGenerations
<1>7. \/ UNCHANGED reg \/ ReserveWaits(c, o) \/ ReserveAdmits(c, o) \/ Adopt(c, o)
      \/ Create(c, o) /\ Bind(o, born[o] + 1)
  BY DEF CreatorStep, TakeFence, ReserveIssued, Create, CreateUnanswered, Refused
<1> QED BY <1>2, <1>3, <1>4, <1>5, <1>6, <1>7

(* A generation begins only in Registry.enter, under a key of its own.     *)
LEMMA OnlyEntriesBegin ==
  ASSUME Inv, [Next]_vars
  PROVE  KeepsGenerations \/ \E o \in Owners, k \in Keys : Enter(o, k)
<1>1. ASSUME UNCHANGED << reg, receipts >> PROVE KeepsGenerations
  BY <1>1 DEF KeepsGenerations
<1>2. ASSUME NEW o \in Owners, ChangeMembership(o) PROVE KeepsGenerations
  BY <1>1, <1>2 DEF ChangeMembership
<1>3. ASSUME NEW c \in Creators, NEW o \in Owners, CreatorStep(c, o) PROVE KeepsGenerations
  BY <1>3, CreatorKeepsGenerations
<1>4. ASSUME NEW c \in Creators, Abandon(c) PROVE KeepsGenerations
  BY <1>1, <1>4 DEF Abandon
<1>5. ASSUME NEW o \in Owners, Reconcile(o) PROVE KeepsGenerations
  <2>1. /\ receipts' = receipts /\ Bind(o, kube[o].uid)
        /\ kube[o].uid \in Nat \ {0} /\ reg[o].phase = "provisioning"
    BY <1>5, ObjectFacts DEF Reconcile, Matches
  <2> QED BY <2>1, BindKeepsRow DEF KeepsGenerations
<1>6. ASSUME NEW o \in Owners, ClusterStep(o) PROVE KeepsGenerations
  BY <1>1, <1>6 DEF ClusterStep, PostArrives, ObjectGone
<1>7. ASSUME NEW o \in Owners, StopStep(o) PROVE KeepsGenerations
  BY <1>1, <1>7, StopKeepsGenerations DEF StopStep, BeginDeletion
<1>8. CASE UNCHANGED vars
  BY <1>1, <1>8 DEF vars
<1> QED BY <1>2, <1>3, <1>4, <1>5, <1>6, <1>7, <1>8 DEF Next

(* A generation follows another only when no Pod is bound, no object is    *)
(* left and no POST is on the way.                                         *)
THEOREM GenerationsAreFresh == Spec => FreshGeneration
<1>1. Inv /\ [Next]_vars =>
        \A o \in Owners :
          reg'[o].gen # reg[o].gen => reg[o].pod = NoPod /\ ~ClusterHolds(o)
  <2> SUFFICES ASSUME Inv, [Next]_vars, NEW o \in Owners, reg'[o].gen # reg[o].gen
               PROVE  reg[o].pod = NoPod /\ ~ClusterHolds(o)
    OBVIOUS
  <2>1. PICK p \in Owners, k \in Keys : Enter(p, k)
    BY OnlyEntriesBegin DEF KeepsGenerations
  <2>2. PICK r : /\ Row(r) /\ reg' = [reg EXCEPT ![p] = r]
                 /\ r.pod = reg[p].pod
                 /\ \/ r.gen = reg[p].gen /\ r.phase = reg[p].phase
                    \/ r.pod = NoPod /\ ~ClusterHolds(p)
    BY <2>1, EntryIsFresh
  <2>3. reg'[p] = r /\ \A q \in Owners \ {p} : reg'[q] = reg[q]
    BY <2>2, RowReplaced DEF Inv
  <2> QED BY <2>2, <2>3
<1> QED BY <1>1, InvHolds, PTL DEF Spec, FreshGeneration

(* Every generation has an entry key of its own: replaying a key never     *)
(* begins one.                                                             *)
THEOREM KeysBeginGenerations == Spec => []EveryGenerationHasItsKey
<1>1. Init => EveryGenerationHasItsKey
  <2> SUFFICES ASSUME Init, NEW o \in Owners PROVE 1..reg[o].gen = {}
    BY DEF EveryGenerationHasItsKey
  <2>1. reg[o].gen = 0
    BY DEF Init, NewRow
  <2> QED BY <2>1
<1>2. Inv /\ EveryGenerationHasItsKey /\ [Next]_vars => EveryGenerationHasItsKey'
  <2> SUFFICES ASSUME Inv, EveryGenerationHasItsKey, [Next]_vars,
                      NEW o \in Owners, NEW gen \in 1..reg'[o].gen
               PROVE  \E k \in Keys : receipts'[o][k] = gen
    BY DEF EveryGenerationHasItsKey
  <2>1. CASE KeepsGenerations
    BY <2>1 DEF KeepsGenerations, EveryGenerationHasItsKey
  <2>2. ASSUME NEW p \in Owners, NEW k \in Keys, Enter(p, k)
        PROVE  \E j \in Keys : receipts'[o][j] = gen
    <3>1. PICK r : /\ Row(r) /\ reg' = [reg EXCEPT ![p] = r]
                   /\ r.gen = reg[p].gen \/ r.gen = reg[p].gen + 1
      BY <2>2, EntryIsFresh
    <3>2. reg'[p] = r /\ \A q \in Owners \ {p} : reg'[q] = reg[q]
      BY <3>1, RowReplaced DEF Inv
    <3>3. reg[o].gen \in Nat /\ receipts \in [Owners -> [Keys -> Nat]]
      BY RowFacts DEF Inv, TypeOK
    <3>4. CASE gen \in 1..reg[o].gen
      <4>1. PICK j \in Keys : receipts[o][j] = gen
        BY <3>4 DEF EveryGenerationHasItsKey
      <4>2. receipts' = receipts
            \/ (~Replayed(p, k) /\ receipts' = [receipts EXCEPT ![p][k] = reg'[p].gen])
        BY <2>2, <3>3, <3>2 DEF Enter, Inv, TypeOK
      <4>3. receipts'[o][j] = gen
        BY <3>3, <3>4, <4>1, <4>2 DEF Replayed
      <4> QED BY <4>3
    <3>5. CASE gen \notin 1..reg[o].gen
      <4>1. o = p
        BY <3>2, <3>5
      <4>2. reg'[o] = r /\ gen \in 1..r.gen
        BY <3>2, <4>1
      <4>3. r.gen = reg[o].gen + 1 /\ gen = r.gen
        BY <3>1, <3>3, <3>5, <4>1, <4>2
      <4>4. ~Replayed(p, k)
        <5>1. Replayed(p, k) => reg' = [reg EXCEPT ![p] = reg[p]]
          BY <2>2 DEF Enter
        <5>2. Replayed(p, k) => reg'[p] = reg[p]
          BY <5>1 DEF Inv, TypeOK
        <5> QED BY <3>3, <4>1, <4>2, <4>3, <5>2
      <4>5. reg' = [reg EXCEPT ![p] = Entered(reg[p])]
            /\ receipts' = [receipts EXCEPT ![p][k] = Entered(reg[p]).gen]
        BY <2>2, <4>4 DEF Enter
      <4>6. Entered(reg[p]) = r
        BY <3>2, <4>5 DEF Inv, TypeOK
      <4>7. receipts'[o][k] = gen
        BY <3>3, <4>1, <4>3, <4>5, <4>6
      <4> QED BY <4>7
    <3> QED BY <3>4, <3>5
  <2> QED BY <2>1, <2>2, OnlyEntriesBegin
<1> QED BY <1>1, <1>2, InvHolds, PTL DEF Spec

-----------------------------------------------------------------------------
(* The browser tab.  Who it is and what it asks for are records of known   *)
(* shapes.                                                                 *)
Identities == [account : Accounts \cup {Tab!Nobody}, nonce : 0..MaxSession,
               rights : {"none", "research", "prepare"}]
Inquiries == [valid : BOOLEAN, state : {Tab!Waiting, "taken", Tab!Lost},
              who : Identities, after : BOOLEAN]
Preparations == [epoch : 0..MaxEpoch, nonce : 0..MaxSession, id : Nat,
                 answer : Tab!States \cup Tab!Refusals \cup {Tab!Waiting, Tab!Lost}]
Queries == [epoch : 1..MaxEpoch, latest : BOOLEAN, early : BOOLEAN,
            answer : Tab!States \cup {"401", Tab!Waiting, Tab!Lost}]

ServerHolds ==
  /\ cookie \in [account : Accounts \cup {Tab!Nobody}, nonce : 0..MaxSession]
  /\ sessions \in 0..MaxSession
  /\ rights \in [Accounts -> {"none", "research", "prepare"}]
  /\ env \in [Accounts -> Tab!States]

(* Until its logout is confirmed, no valid query of the tab was answered   *)
(* before an earlier one was.                                              *)
LoginHolds ==
  /\ user \in Identities /\ confirmed \in BOOLEAN
  /\ mes \subseteq Inquiries
  /\ out \in {"no", "sent", "done", "csrf", Tab!Lost}
  /\ epoch \in 0..MaxEpoch
  /\ epoch = 0 => user.rights = "none"
  /\ out \in {"no", "sent", "csrf"} =>
       /\ \A m \in mes : m.valid => m.after
       /\ user # Tab!NoUser => confirmed

(* Preparations are sent in the order of the epochs.                       *)
EntryHolds ==
  /\ entrySent \in 0..epoch /\ pressed \in 0..MaxPress
  /\ entries \in Seq(0..MaxEpoch)
  /\ \A i \in 1..Len(entries) : entries[i] <= entrySent
  /\ \A i, j \in 1..Len(entries) : entries[i] = entries[j] => i = j
  /\ prepares \subseteq Preparations

(* One query of the current epoch at a time, and within its loop.          *)
LoadHolds ==
  /\ inflight \in [epoch : 0..MaxEpoch, again : BOOLEAN]
  /\ loads \subseteq Queries
  /\ \A l \in loads :
       /\ l.epoch <= epoch
       /\ l.latest => ~l.early
       /\ l.epoch = epoch => inflight.epoch = epoch
  /\ \A k, l \in loads : k.epoch = epoch /\ l.epoch = epoch => k = l

ShownHolds ==
  /\ data \in [epoch : 0..MaxEpoch, early : {FALSE},
               result : Tab!States \cup Tab!Refusals \cup {"none", Tab!Lost}]
  /\ timer \in BOOLEAN /\ panel \in {"never", "open", "closed", "hidden"}
  /\ lost \in 0..MaxLost

TabInv == ServerHolds /\ LoginHolds /\ EntryHolds /\ LoadHolds /\ ShownHolds

(* What the bounds are.                                                    *)
LEMMA TabBounds ==
  /\ MaxSession \in Nat \ {0} /\ MaxEpoch \in Nat /\ MaxPress \in Nat /\ MaxLost \in Nat
  BY TabAssumption DEF Tab!StatusAssumption

(* Which steps move the server's part of the tab, and who it is.           *)
LEMMA ServerMoves ==
  ASSUME Tab!Next
  PROVE  \/ UNCHANGED Tab!serverVars
         \/ \E a \in Accounts : Tab!OtherTab(a) \/ Tab!RightsChange(a) \/ Tab!EnvironmentMoves(a)
         \/ Tab!SignOutTaken
         \/ \E p \in prepares : Tab!PrepareTaken(p)
<1>1. ASSUME NEW l \in loads, Tab!LoadTaken(l) \/ Tab!LoadLost(l) \/ Tab!LoadArrives(l)
      PROVE  UNCHANGED Tab!serverVars
  BY <1>1 DEF Tab!LoadTaken, Tab!LoadLost, Tab!LoadArrives
<1>2. ASSUME Tab!RefusedElsewhere \/ Tab!Retry \/ Tab!SignOut \/ Tab!SignOutLost \/ Tab!SignOutArrives
      PROVE  UNCHANGED Tab!serverVars
  BY <1>2 DEF Tab!RefusedElsewhere, Tab!Retry, Tab!SignOut, Tab!SignOutLost, Tab!SignOutArrives
<1>3. ASSUME NEW m \in mes, Tab!MeTaken(m) \/ Tab!MeLost(m) \/ Tab!MeArrives(m)
      PROVE  UNCHANGED Tab!serverVars
  BY <1>3 DEF Tab!MeTaken, Tab!MeLost, Tab!MeArrives
<1>4. ASSUME Tab!EntryEffect \/ Tab!Press
      PROVE  UNCHANGED Tab!serverVars
  BY <1>4 DEF Tab!EntryEffect, Tab!Press
<1>5. ASSUME NEW p \in prepares, Tab!PrepareLost(p) \/ Tab!PrepareArrives(p)
      PROVE  UNCHANGED Tab!serverVars
  BY <1>5 DEF Tab!PrepareLost, Tab!PrepareArrives
<1>6. ASSUME Tab!OpenPanel \/ Tab!LeavePanel \/ Tab!HideTab \/ Tab!ShowTab \/ Tab!EpochEffect \/ Tab!Poll
      PROVE  UNCHANGED Tab!serverVars
  BY <1>6 DEF Tab!OpenPanel, Tab!LeavePanel, Tab!HideTab, Tab!ShowTab, Tab!PanelGoes, Tab!EpochEffect, Tab!Poll
<1> QED BY <1>1, <1>2, <1>3, <1>4, <1>5, <1>6 DEF Tab!Next

LEMMA LoginMoves ==
  ASSUME Tab!Next
  PROVE  \/ UNCHANGED Tab!loginVars
         \/ Tab!RefusedElsewhere \/ Tab!Retry
         \/ \E m \in mes : Tab!MeTaken(m) \/ Tab!MeLost(m) \/ Tab!MeArrives(m)
         \/ Tab!SignOut \/ Tab!SignOutTaken \/ Tab!SignOutLost \/ Tab!SignOutArrives
         \/ \E p \in prepares : Tab!PrepareArrives(p)
<1>1. ASSUME NEW l \in loads, Tab!LoadTaken(l) \/ Tab!LoadLost(l) \/ Tab!LoadArrives(l)
      PROVE  UNCHANGED Tab!loginVars
  BY <1>1 DEF Tab!LoadTaken, Tab!LoadLost, Tab!LoadArrives
<1>2. ASSUME NEW a \in Accounts, Tab!OtherTab(a) \/ Tab!RightsChange(a) \/ Tab!EnvironmentMoves(a)
      PROVE  UNCHANGED Tab!loginVars
  BY <1>2 DEF Tab!OtherTab, Tab!RightsChange, Tab!EnvironmentMoves
<1>3. ASSUME Tab!EntryEffect \/ Tab!Press
      PROVE  UNCHANGED Tab!loginVars
  BY <1>3 DEF Tab!EntryEffect, Tab!Press
<1>4. ASSUME NEW p \in prepares, Tab!PrepareTaken(p) \/ Tab!PrepareLost(p)
      PROVE  UNCHANGED Tab!loginVars
  BY <1>4 DEF Tab!PrepareTaken, Tab!PrepareLost
<1>5. ASSUME Tab!OpenPanel \/ Tab!LeavePanel \/ Tab!HideTab \/ Tab!ShowTab \/ Tab!EpochEffect \/ Tab!Poll
      PROVE  UNCHANGED Tab!loginVars
  BY <1>5 DEF Tab!OpenPanel, Tab!LeavePanel, Tab!HideTab, Tab!ShowTab, Tab!PanelGoes, Tab!EpochEffect, Tab!Poll
<1> QED BY <1>1, <1>2, <1>3, <1>4, <1>5 DEF Tab!Next

(* The epoch moves with answers to the tab only, forwards.                 *)
LEMMA EpochMoves ==
  ASSUME TabInv, Tab!Next
  PROVE  /\ epoch' \in epoch..epoch + 1
         /\ epoch' # epoch => UNCHANGED << Tab!entryVars, Tab!loadVars, data, panel, lost >>
<1>1. epoch \in Nat
  BY TabBounds DEF TabInv, LoginHolds
<1>2. CASE UNCHANGED Tab!loginVars
  BY <1>1, <1>2 DEF Tab!loginVars
<1>3. ASSUME NEW m \in mes, Tab!MeArrives(m) PROVE epoch' \in epoch..epoch + 1 /\ UNCHANGED << Tab!entryVars, Tab!loadVars, data, panel, lost >>
  BY <1>1, <1>3 DEF Tab!MeArrives, Tab!Becomes, Tab!panelVars
<1>4. ASSUME Tab!SignOutArrives PROVE epoch' \in epoch..epoch + 1 /\ UNCHANGED << Tab!entryVars, Tab!loadVars, data, panel, lost >>
  BY <1>1, <1>4 DEF Tab!SignOutArrives, Tab!SignedOut, Tab!StaysIn, Tab!Becomes, Tab!panelVars
<1>5. ASSUME NEW m \in mes, Tab!MeTaken(m) \/ Tab!MeLost(m) PROVE epoch' = epoch
  BY <1>5 DEF Tab!MeTaken, Tab!MeLost
<1>6. ASSUME Tab!RefusedElsewhere \/ Tab!Retry \/ Tab!SignOut \/ Tab!SignOutTaken \/ Tab!SignOutLost PROVE epoch' = epoch
  BY <1>6 DEF Tab!RefusedElsewhere, Tab!Retry, Tab!SignOut, Tab!SignOutTaken, Tab!SignOutLost
<1>7. ASSUME NEW p \in prepares, Tab!PrepareArrives(p) PROVE epoch' = epoch
  BY <1>7 DEF Tab!PrepareArrives
<1> QED BY <1>1, <1>2, <1>3, <1>4, <1>5, <1>6, <1>7, LoginMoves

LEMMA EntryMoves ==
  ASSUME Tab!Next
  PROVE  \/ UNCHANGED Tab!entryVars
         \/ Tab!EntryEffect \/ Tab!Press
         \/ \E p \in prepares : Tab!PrepareTaken(p) \/ Tab!PrepareLost(p) \/ Tab!PrepareArrives(p)
<1>1. ASSUME NEW l \in loads, Tab!LoadTaken(l) \/ Tab!LoadLost(l) \/ Tab!LoadArrives(l)
      PROVE  UNCHANGED Tab!entryVars
  BY <1>1 DEF Tab!LoadTaken, Tab!LoadLost, Tab!LoadArrives
<1>2. ASSUME NEW a \in Accounts, Tab!OtherTab(a) \/ Tab!RightsChange(a) \/ Tab!EnvironmentMoves(a)
      PROVE  UNCHANGED Tab!entryVars
  BY <1>2 DEF Tab!OtherTab, Tab!RightsChange, Tab!EnvironmentMoves
<1>3. ASSUME Tab!RefusedElsewhere \/ Tab!Retry \/ Tab!SignOut \/ Tab!SignOutTaken \/ Tab!SignOutLost \/ Tab!SignOutArrives
      PROVE  UNCHANGED Tab!entryVars
  BY <1>3 DEF Tab!RefusedElsewhere, Tab!Retry, Tab!SignOut, Tab!SignOutTaken, Tab!SignOutLost, Tab!SignOutArrives
<1>4. ASSUME NEW m \in mes, Tab!MeTaken(m) \/ Tab!MeLost(m) \/ Tab!MeArrives(m)
      PROVE  UNCHANGED Tab!entryVars
  BY <1>4 DEF Tab!MeTaken, Tab!MeLost, Tab!MeArrives
<1>5. ASSUME Tab!OpenPanel \/ Tab!LeavePanel \/ Tab!HideTab \/ Tab!ShowTab \/ Tab!EpochEffect \/ Tab!Poll
      PROVE  UNCHANGED Tab!entryVars
  BY <1>5 DEF Tab!OpenPanel, Tab!LeavePanel, Tab!HideTab, Tab!ShowTab, Tab!PanelGoes, Tab!EpochEffect, Tab!Poll
<1> QED BY <1>1, <1>2, <1>3, <1>4, <1>5 DEF Tab!Next

(* The queries of the status move within an epoch: a query is taken, lost  *)
(* or answered, a preparation's answer overtakes it, or reload is called.  *)
LEMMA LoadMoves ==
  ASSUME Tab!Next
  PROVE  \/ UNCHANGED Tab!loadVars
         \/ epoch' = epoch /\ \E l \in loads : Tab!LoadTaken(l) \/ Tab!LoadLost(l) \/ Tab!LoadArrives(l)
         \/ epoch' = epoch /\ \E p \in prepares : Tab!PrepareArrives(p)
         \/ epoch' = epoch /\ UNCHANGED data /\ Tab!Reload
<1>1. ASSUME NEW l \in loads, Tab!LoadTaken(l) \/ Tab!LoadLost(l) \/ Tab!LoadArrives(l)
      PROVE  epoch' = epoch
  BY <1>1 DEF Tab!LoadTaken, Tab!LoadLost, Tab!LoadArrives, Tab!loginVars
<1>2. ASSUME NEW a \in Accounts, Tab!OtherTab(a) \/ Tab!RightsChange(a) \/ Tab!EnvironmentMoves(a)
      PROVE  UNCHANGED Tab!loadVars
  BY <1>2 DEF Tab!OtherTab, Tab!RightsChange, Tab!EnvironmentMoves
<1>3. ASSUME Tab!RefusedElsewhere \/ Tab!Retry \/ Tab!SignOut \/ Tab!SignOutTaken \/ Tab!SignOutLost \/ Tab!SignOutArrives
      PROVE  UNCHANGED Tab!loadVars
  BY <1>3 DEF Tab!RefusedElsewhere, Tab!Retry, Tab!SignOut, Tab!SignOutTaken, Tab!SignOutLost, Tab!SignOutArrives
<1>4. ASSUME NEW m \in mes, Tab!MeTaken(m) \/ Tab!MeLost(m) \/ Tab!MeArrives(m)
      PROVE  UNCHANGED Tab!loadVars
  BY <1>4 DEF Tab!MeTaken, Tab!MeLost, Tab!MeArrives
<1>5. ASSUME Tab!EntryEffect \/ Tab!Press
      PROVE  UNCHANGED Tab!loadVars
  BY <1>5 DEF Tab!EntryEffect, Tab!Press
<1>6. ASSUME NEW p \in prepares, Tab!PrepareTaken(p) \/ Tab!PrepareLost(p)
      PROVE  UNCHANGED Tab!loadVars
  BY <1>6 DEF Tab!PrepareTaken, Tab!PrepareLost
<1>7. ASSUME NEW p \in prepares, Tab!PrepareArrives(p)
      PROVE  epoch' = epoch
  BY <1>7 DEF Tab!PrepareArrives
<1>8. ASSUME Tab!OpenPanel \/ Tab!ShowTab \/ Tab!EpochEffect \/ Tab!Poll
      PROVE  UNCHANGED Tab!loadVars \/ (epoch' = epoch /\ UNCHANGED data /\ Tab!Reload)
  BY <1>8 DEF Tab!OpenPanel, Tab!ShowTab, Tab!PanelGoes, Tab!EpochEffect, Tab!Poll, Tab!loginVars, Tab!shownVars
<1>9. ASSUME Tab!LeavePanel \/ Tab!HideTab
      PROVE  UNCHANGED Tab!loadVars
  BY <1>9 DEF Tab!LeavePanel, Tab!HideTab
<1> QED BY <1>1, <1>2, <1>3, <1>4, <1>5, <1>6, <1>7, <1>8, <1>9 DEF Tab!Next

LEMMA ServerStays ==
  ASSUME TabInv, Tab!Next
  PROVE  ServerHolds'
<1>1. ServerHolds /\ MaxSession \in Nat \ {0}
  BY TabBounds DEF TabInv
<1>2. CASE UNCHANGED Tab!serverVars
  BY <1>1, <1>2 DEF ServerHolds, Tab!serverVars
<1>3. ASSUME NEW a \in Accounts, Tab!OtherTab(a) PROVE ServerHolds'
  BY <1>1, <1>3 DEF Tab!OtherTab, ServerHolds
<1>4. ASSUME NEW a \in Accounts, Tab!RightsChange(a) PROVE ServerHolds'
  BY <1>1, <1>4 DEF Tab!RightsChange, ServerHolds
<1>5. ASSUME NEW a \in Accounts, Tab!EnvironmentMoves(a) PROVE ServerHolds'
  BY <1>1, <1>5 DEF Tab!EnvironmentMoves, ServerHolds, Tab!States
<1>6. ASSUME Tab!SignOutTaken PROVE ServerHolds'
  BY <1>1, <1>6 DEF Tab!SignOutTaken, ServerHolds
<1>7. ASSUME NEW p \in prepares, Tab!PrepareTaken(p) PROVE ServerHolds'
  <2>1. PICK b \in {"401", "csrf", "403", "ready", "provisioning"} :
          env' = IF b = "provisioning" THEN [env EXCEPT ![cookie.account] = b] ELSE env
    BY <1>7 DEF Tab!PrepareTaken
  <2>2. UNCHANGED << cookie, sessions, rights >>
    BY <1>7 DEF Tab!PrepareTaken
  <2>3. env' \in [Accounts -> Tab!States]
    BY <1>1, <2>1 DEF ServerHolds, Tab!States
  <2> QED BY <1>1, <2>2, <2>3 DEF ServerHolds
<1> QED BY <1>2, <1>3, <1>4, <1>5, <1>6, <1>7, ServerMoves

(* Whoever a query finds is an identity.                                   *)
LEMMA HolderIsKnown ==
  ASSUME ServerHolds
  PROVE  Tab!Holder \in Identities /\ Tab!NoUser \in Identities /\ Tab!Inquiry \in Inquiries
         /\ Tab!NoUser.rights = "none" /\ Tab!Inquiry.after
  BY TabBounds DEF ServerHolds, Tab!Holder, Tab!NoUser, Tab!Inquiry, Identities, Inquiries

(* The tab becomes somebody.                                               *)
LEMMA BecomesSomebody ==
  ASSUME LoginHolds, NEW who \in Identities, Tab!Becomes(who), epoch < MaxEpoch
  PROVE  /\ user' \in Identities /\ epoch' \in 0..MaxEpoch
         /\ epoch' = 0 => user'.rights = "none"
  BY TabBounds DEF LoginHolds, Tab!Becomes, Identities

LEMMA LoginStays ==
  ASSUME TabInv, Tab!Next
  PROVE  LoginHolds'
<1>1. LoginHolds /\ ServerHolds
  BY DEF TabInv
<1>2. CASE UNCHANGED Tab!loginVars
  BY <1>1, <1>2 DEF LoginHolds, Tab!loginVars
<1>3. ASSUME Tab!AskMe, UNCHANGED << user, confirmed, out, epoch >> PROVE LoginHolds'
  <2>1. mes' = mes \/ mes' = mes \cup {Tab!Inquiry}
    BY <1>3 DEF Tab!AskMe
  <2> QED BY <1>1, <1>3, <2>1, HolderIsKnown DEF LoginHolds
<1>4. ASSUME Tab!RefusedElsewhere \/ Tab!Retry PROVE LoginHolds'
  BY <1>3, <1>4 DEF Tab!RefusedElsewhere, Tab!Retry
<1>5. ASSUME NEW m \in mes, Tab!MeTaken(m) PROVE LoginHolds'
  <2>1. m \in Inquiries /\ Tab!Holder \in Identities
    BY <1>1, HolderIsKnown DEF LoginHolds
  <2>2. PICK n : n = [m EXCEPT !.state = "taken", !.who = Tab!Holder]
    OBVIOUS
  <2>3. n \in Inquiries /\ n.valid = m.valid /\ n.after = m.after
    BY <2>1, <2>2 DEF Inquiries
  <2>4. mes' = (mes \ {m}) \cup {n} /\ UNCHANGED << user, confirmed, out, epoch >>
    BY <1>5, <2>2 DEF Tab!MeTaken
  <2> QED BY <1>1, <2>3, <2>4 DEF LoginHolds
<1>6. ASSUME NEW m \in mes, Tab!MeLost(m) PROVE LoginHolds'
  <2>1. m \in Inquiries /\ Tab!NoUser \in Identities
    BY <1>1, HolderIsKnown DEF LoginHolds
  <2>2. PICK n : n = [m EXCEPT !.state = Tab!Lost, !.who = Tab!NoUser]
    OBVIOUS
  <2>3. n \in Inquiries /\ n.valid = m.valid /\ n.after = m.after
    BY <2>1, <2>2 DEF Inquiries
  <2>4. mes' = (mes \ {m}) \cup {n} /\ UNCHANGED << user, confirmed, out, epoch >>
    BY <1>6, <2>2 DEF Tab!MeLost
  <2> QED BY <1>1, <2>3, <2>4 DEF LoginHolds
<1>7. ASSUME NEW m \in mes, Tab!MeArrives(m) PROVE LoginHolds'
  <2>1. m \in Inquiries /\ m.who \in Identities /\ m.after \in BOOLEAN /\ m.valid \in BOOLEAN
    BY <1>1 DEF LoginHolds, Inquiries
  <2>2. mes' = mes \ {m} /\ out' = out
    BY <1>7 DEF Tab!MeArrives
  <2>3. CASE m.valid
    <3>1. Tab!Becomes(m.who) /\ epoch < MaxEpoch /\ confirmed' = m.after
      BY <1>7, <2>3 DEF Tab!MeArrives
    <3> QED BY <1>1, <2>1, <2>2, <2>3, <3>1, BecomesSomebody DEF LoginHolds
  <2>4. CASE ~m.valid
    <3>1. UNCHANGED << user, epoch, confirmed >>
      BY <1>7, <2>4 DEF Tab!MeArrives
    <3> QED BY <1>1, <2>2, <3>1 DEF LoginHolds
  <2> QED BY <2>1, <2>3, <2>4
<1>8. \A m \in Inquiries : [m EXCEPT !.valid = FALSE] \in Inquiries /\ ~[m EXCEPT !.valid = FALSE].valid
                           /\ [m EXCEPT !.valid = FALSE].after = m.after
  BY DEF Inquiries
<1>9. Tab!Voided(mes) \subseteq Inquiries /\ \A m \in Tab!Voided(mes) : ~m.valid
  BY <1>1, <1>8 DEF Tab!Voided, LoginHolds
<1>10. ASSUME Tab!SignOut PROVE LoginHolds'
  <2>1. mes' = Tab!Voided(mes) /\ out = "no" /\ out' = "sent" /\ UNCHANGED << user, confirmed, epoch >>
    BY <1>10 DEF Tab!SignOut, Tab!Voided
  <2> QED BY <1>1, <1>9, <2>1 DEF LoginHolds
<1>11. ASSUME Tab!SignOutTaken PROVE LoginHolds'
  <2>1. UNCHANGED << user, confirmed, epoch >> /\ out = "sent"
    BY <1>11 DEF Tab!SignOutTaken
  <2>2. CASE cookie.nonce = user.nonce
    <3>1. out' = "done" /\ mes' = { [m EXCEPT !.after = m.state # "taken"] : m \in mes }
      BY <1>11, <2>2 DEF Tab!SignOutTaken
    <3>2. \A m \in Inquiries : [m EXCEPT !.after = m.state # "taken"] \in Inquiries
      BY DEF Inquiries
    <3>3. mes' \subseteq Inquiries
      BY <1>1, <3>1, <3>2 DEF LoginHolds
    <3> QED BY <1>1, <2>1, <3>1, <3>3 DEF LoginHolds, Tab!Lost
  <2>3. CASE cookie.nonce # user.nonce
    <3>1. out' = "csrf" /\ mes' = mes
      BY <1>11, <2>3 DEF Tab!SignOutTaken
    <3> QED BY <1>1, <2>1, <3>1 DEF LoginHolds
  <2> QED BY <2>2, <2>3
<1>12. ASSUME Tab!SignOutLost PROVE LoginHolds'
  BY <1>1, <1>12 DEF Tab!SignOutLost, LoginHolds, Tab!Lost
<1>13. ASSUME Tab!SignOutArrives PROVE LoginHolds'
  <2>1. out' = "no"
    BY <1>13 DEF Tab!SignOutArrives
  <2>2. CASE Tab!SignedOut
    <3>1. Tab!Becomes(Tab!NoUser) /\ mes' = Tab!Voided(mes) /\ confirmed' = TRUE /\ epoch < MaxEpoch
      BY <2>2 DEF Tab!SignedOut
    <3> QED BY <1>1, <1>9, <2>1, <3>1, HolderIsKnown, BecomesSomebody DEF LoginHolds
  <2>3. CASE out = "csrf" /\ mes' = Tab!Voided(mes) \cup {Tab!Inquiry} /\ UNCHANGED << user, epoch, timer, confirmed >>
    BY <1>1, <1>9, <2>1, <2>3, HolderIsKnown DEF LoginHolds
  <2>4. CASE /\ mes' = { [m EXCEPT !.after = TRUE] : m \in Tab!Voided(mes) }
             /\ confirmed' = TRUE /\ UNCHANGED << user, epoch, timer >>
    <3>1. \A m \in Inquiries : [m EXCEPT !.after = TRUE] \in Inquiries /\ [m EXCEPT !.after = TRUE].after
      BY DEF Inquiries
    <3>2. mes' \subseteq Inquiries /\ \A m \in mes' : m.after
      BY <1>9, <2>4, <3>1
    <3> QED BY <1>1, <2>1, <2>4, <3>2 DEF LoginHolds
  <2> QED BY <1>13, <2>2, <2>3, <2>4 DEF Tab!SignOutArrives, Tab!StaysIn
<1>14. ASSUME NEW p \in prepares, Tab!PrepareArrives(p) PROVE LoginHolds'
  <2>1. UNCHANGED << user, confirmed, out, epoch >> /\ (Tab!AskMe \/ UNCHANGED mes)
    BY <1>14 DEF Tab!PrepareArrives
  <2>2. CASE Tab!AskMe
    BY <1>3, <2>1, <2>2
  <2>3. CASE UNCHANGED mes
    BY <1>1, <2>1, <2>3 DEF LoginHolds
  <2> QED BY <2>1, <2>2, <2>3
<1> QED BY <1>2, <1>4, <1>5, <1>6, <1>7, <1>10, <1>11, <1>12, <1>13, <1>14, LoginMoves

LEMMA EntryStays ==
  ASSUME TabInv, Tab!Next
  PROVE  EntryHolds'
<1>1. EntryHolds /\ LoginHolds /\ ServerHolds
  BY DEF TabInv
<1>2. epoch \in 0..MaxEpoch /\ epoch \in Nat /\ epoch' \in Nat /\ epoch' >= epoch /\ entrySent \in Nat
  BY <1>1, EpochMoves DEF LoginHolds, EntryHolds
<1>3. CASE UNCHANGED Tab!entryVars
  BY <1>1, <1>2, <1>3 DEF EntryHolds, Tab!entryVars
<1>4. ASSUME Tab!Send, user.nonce \in 0..MaxSession, Len(entries') + pressed' \in Nat
      PROVE  prepares' \subseteq Preparations
  BY <1>1, <1>2, <1>4 DEF Tab!Send, EntryHolds, Preparations
<1>5. user.nonce \in 0..MaxSession
  BY <1>1 DEF LoginHolds, Identities
<1>6. ASSUME Tab!EntryEffect PROVE EntryHolds'
  <2>1. UNCHANGED << epoch, user >>
    BY <1>6 DEF Tab!EntryEffect, Tab!loginVars
  <2>2. CASE Tab!Enters
    <3>1. entrySent # epoch /\ entrySent' = epoch /\ entries' = Append(entries, epoch)
          /\ pressed' = pressed /\ Tab!Send
      BY <1>6, <2>2 DEF Tab!EntryEffect, Tab!Enters
    <3>2. epoch > entrySent
      BY <1>1, <1>2, <3>1 DEF EntryHolds
    <3>3. entries' \in Seq(0..MaxEpoch) /\ Len(entries') = Len(entries) + 1
          /\ \A i \in 1..Len(entries') : entries'[i] = IF i = Len(entries) + 1 THEN epoch ELSE entries[i]
      BY <1>1, <1>2, <3>1 DEF EntryHolds
    <3>4. Len(entries) \in Nat /\ pressed \in Nat /\ \A i \in 1..Len(entries) : entries[i] \in Nat /\ entries[i] < epoch
      <4>1. Len(entries) \in Nat /\ \A i \in 1..Len(entries) : entries[i] \in 0..MaxEpoch
        <5>1. entries \in Seq(0..MaxEpoch)
          BY <1>1 DEF EntryHolds
        <5>2. PICK S : S = 0..MaxEpoch
          OBVIOUS
        <5>3. entries \in Seq(S)
          BY <5>1, <5>2
        <5>4. Len(entries) \in Nat /\ \A i \in 1..Len(entries) : entries[i] \in S
          BY <5>3
        <5> QED BY <5>2, <5>4
      <4>2. pressed \in Nat
        BY <1>1, TabBounds DEF EntryHolds
      <4>3. \A i \in 1..Len(entries) : entries[i] <= entrySent
        BY <1>1 DEF EntryHolds
      <4> QED BY <1>2, <3>2, <4>1, <4>2, <4>3, TabBounds
    <3>5. prepares' \subseteq Preparations
      BY <1>4, <1>5, <3>1, <3>3, <3>4
    <3>6. \A i \in 1..Len(entries') : entries'[i] <= epoch
      BY <1>2, <3>3, <3>4
    <3>7. \A i, j \in 1..Len(entries') : entries'[i] = entries'[j] => i = j
      BY <1>1, <1>2, <3>3, <3>4 DEF EntryHolds
    <3> QED BY <1>1, <1>2, <2>1, <3>1, <3>3, <3>5, <3>6, <3>7 DEF EntryHolds
  <2>3. CASE ~Tab!Enters
    <3>1. UNCHANGED << entrySent, entries, pressed, prepares >>
      BY <1>6, <2>3 DEF Tab!EntryEffect
    <3> QED BY <1>1, <2>1, <3>1 DEF EntryHolds
  <2> QED BY <2>2, <2>3
<1>7. ASSUME Tab!Press PROVE EntryHolds'
  <2>1. UNCHANGED << epoch, user, entrySent, entries >> /\ pressed < MaxPress /\ pressed' = pressed + 1 /\ Tab!Send
    BY <1>7 DEF Tab!Press, Tab!loginVars
  <2>2. Len(entries') + pressed' \in Nat /\ pressed' \in 0..MaxPress
    BY <1>1, <2>1, TabBounds DEF EntryHolds
  <2> QED BY <1>1, <1>4, <1>5, <2>1, <2>2 DEF EntryHolds
<1>8. ASSUME NEW p \in prepares, NEW q \in Preparations, prepares' = (prepares \ {p}) \cup {q},
             UNCHANGED << epoch, entrySent, entries, pressed >>
      PROVE  EntryHolds'
  BY <1>1, <1>8 DEF EntryHolds
<1>9. ASSUME NEW p \in prepares, Tab!PrepareTaken(p) PROVE EntryHolds'
  <2>1. PICK b \in {"401", "csrf", "403", "ready", "provisioning"} :
          prepares' = (prepares \ {p}) \cup { [p EXCEPT !.answer = b] }
    BY <1>9 DEF Tab!PrepareTaken
  <2>2. [p EXCEPT !.answer = b] \in Preparations
    BY <1>1 DEF EntryHolds, Preparations, Tab!States, Tab!Refusals
  <2> QED BY <1>8, <1>9, <2>1, <2>2 DEF Tab!PrepareTaken, Tab!loginVars
<1>10. ASSUME NEW p \in prepares, Tab!PrepareLost(p) PROVE EntryHolds'
  <2>1. [p EXCEPT !.answer = Tab!Lost] \in Preparations
    BY <1>1 DEF EntryHolds, Preparations
  <2> QED BY <1>8, <1>10, <2>1 DEF Tab!PrepareLost, Tab!loginVars
<1>11. ASSUME NEW p \in prepares, Tab!PrepareArrives(p) PROVE EntryHolds'
  BY <1>1, <1>11 DEF Tab!PrepareArrives, EntryHolds
<1> QED BY <1>3, <1>6, <1>7, <1>9, <1>10, <1>11, EntryMoves

(* A query sent, and the queries it makes old.                             *)
LEMMA QuerySent ==
  ASSUME LoginHolds, epoch # 0
  PROVE  Tab!Query \in Queries
  BY TabBounds DEF LoginHolds, Tab!Query, Queries, Tab!States

LEMMA NumberedQueries ==
  ASSUME NEW ls \in SUBSET Queries
  PROVE  /\ Tab!Numbered(ls) \subseteq Queries
         /\ \A n \in Tab!Numbered(ls) : ~n.latest /\ \E l \in ls : n = [l EXCEPT !.latest = FALSE] /\ n.epoch = l.epoch
  BY DEF Tab!Numbered, Queries

(* Who calls for the status is somebody, so that its epoch is not the      *)
(* first; a second call of an epoch is remembered, not sent.               *)
LEMMA ReloadKeeps ==
  ASSUME LoadHolds, LoginHolds, epoch' = epoch, Tab!Reload
  PROVE  LoadHolds'
<1>1. CASE ~Tab!Researches(user)
  BY <1>1 DEF Tab!Reload, Tab!loadVars, LoadHolds
<1>2. CASE Tab!Researches(user)
  <2>1. epoch # 0
    BY <1>2 DEF LoginHolds, Tab!Researches
  <2>2. CASE inflight # Tab!NoLoop /\ inflight.epoch = epoch
    BY <1>2, <2>2 DEF Tab!Reload, LoadHolds
  <2>3. CASE ~(inflight # Tab!NoLoop /\ inflight.epoch = epoch)
    <3>1. inflight' = [ epoch |-> epoch, again |-> FALSE ] /\ loads' = Tab!Numbered(loads) \cup {Tab!Query}
      BY <1>2, <2>3 DEF Tab!Reload
    <3>2. \A l \in loads : l.epoch # epoch
      <4>1. inflight.epoch # epoch
        BY <2>1, <2>3 DEF Tab!NoLoop
      <4> QED BY <4>1 DEF LoadHolds
    <3>3. Tab!Query \in Queries /\ Tab!Query.epoch = epoch /\ ~Tab!Query.early
      BY <2>1, QuerySent DEF Tab!Query
    <3>4. epoch \in 0..MaxEpoch /\ epoch \in Nat
      BY TabBounds DEF LoginHolds
    <3>5. \A n \in Tab!Numbered(loads) : n \in Queries /\ ~n.latest /\ n.epoch # epoch /\ n.epoch <= epoch
      BY <3>2, NumberedQueries DEF LoadHolds
    <3> QED BY <3>1, <3>3, <3>4, <3>5 DEF LoadHolds
  <2> QED BY <2>2, <2>3
<1> QED BY <1>1, <1>2

(* A query of this epoch that is answered is the only one of the epoch.    *)
LEMMA AnswerKeeps ==
  ASSUME LoadHolds, LoginHolds, epoch' = epoch, NEW l \in loads, Tab!LoadArrives(l)
  PROVE  LoadHolds'
<1>1. l \in Queries /\ epoch \in Nat /\ l.epoch \in Nat \ {0}
  BY TabBounds DEF LoadHolds, LoginHolds, Queries
<1>2. Tab!NoLoop \in [epoch : 0..MaxEpoch, again : BOOLEAN]
  BY TabBounds DEF Tab!NoLoop
<1>3. CASE l.epoch # epoch
  <2>1. loads' = loads \ {l} /\ inflight' = IF inflight.epoch = l.epoch THEN Tab!NoLoop ELSE inflight
    BY <1>3 DEF Tab!LoadArrives, Tab!Dropped
  <2> QED BY <1>2, <1>3, <2>1 DEF LoadHolds
<1>4. CASE l.epoch = epoch
  <2>1. \A k \in loads \ {l} : k.epoch # epoch
    BY <1>4 DEF LoadHolds
  <2>2. CASE inflight.again
    <3>1. inflight' = [inflight EXCEPT !.again = FALSE] /\ loads' = Tab!Numbered(loads \ {l}) \cup {Tab!Query}
      BY <1>4, <2>2 DEF Tab!LoadArrives, Tab!Dropped, Tab!Loops
    <3>2. Tab!Query \in Queries /\ Tab!Query.epoch = epoch /\ ~Tab!Query.early
      BY <1>1, <1>4, QuerySent DEF Tab!Query
    <3>3. \A n \in Tab!Numbered(loads \ {l}) : n \in Queries /\ ~n.latest /\ n.epoch # epoch /\ n.epoch <= epoch
      BY <2>1, NumberedQueries DEF LoadHolds
    <3>4. inflight' \in [epoch : 0..MaxEpoch, again : BOOLEAN] /\ inflight'.epoch = epoch
      BY <1>4, <3>1 DEF LoadHolds
    <3>5. \A k \in loads' : k = Tab!Query \/ (k \in Queries /\ ~k.latest /\ k.epoch # epoch /\ k.epoch <= epoch)
      BY <3>1, <3>3
    <3>6. loads' \subseteq Queries /\ \A k \in loads' : k.epoch <= epoch /\ (k.latest => ~k.early)
      BY <1>1, <3>2, <3>5
    <3>7. \A j, k \in loads' : j.epoch = epoch /\ k.epoch = epoch => j = k
      BY <3>5
    <3> QED BY <3>4, <3>6, <3>7 DEF LoadHolds
  <2>3. CASE ~inflight.again
    <3>1. inflight' = Tab!NoLoop /\ loads' = loads \ {l}
      BY <1>4, <2>3 DEF Tab!LoadArrives, Tab!Dropped, Tab!Loops
    <3> QED BY <1>2, <2>1, <3>1 DEF LoadHolds
  <2> QED BY <2>2, <2>3
<1> QED BY <1>3, <1>4

LEMMA LoadStays ==
  ASSUME TabInv, Tab!Next
  PROVE  LoadHolds'
<1>1. LoadHolds /\ LoginHolds
  BY DEF TabInv
<1>2. CASE UNCHANGED Tab!loadVars
  <2>1. epoch \in Nat /\ epoch' \in Nat /\ epoch' >= epoch /\ \A l \in loads : l.epoch \in Nat
    BY <1>1, EpochMoves DEF LoginHolds, LoadHolds, Queries
  <2>2. \A l \in loads : l.epoch = epoch' => epoch' = epoch
    BY <1>1, <2>1 DEF LoadHolds
  <2> QED BY <1>1, <1>2, <2>1, <2>2 DEF LoadHolds, Tab!loadVars
<1>3. ASSUME epoch' = epoch, NEW l \in loads, NEW n \in Queries, loads' = (loads \ {l}) \cup {n},
             n.epoch = l.epoch, n.latest = l.latest, n.early = l.early, inflight' = inflight
      PROVE  LoadHolds'
  BY <1>1, <1>3 DEF LoadHolds
<1>4. ASSUME epoch' = epoch, NEW l \in loads, Tab!LoadTaken(l) PROVE LoadHolds'
  <2>1. PICK b \in Tab!States \cup {"401"} : loads' = (loads \ {l}) \cup { [l EXCEPT !.answer = b] }
    BY <1>4 DEF Tab!LoadTaken, TabInv, ServerHolds
  <2>2. PICK n : n = [l EXCEPT !.answer = b]
    OBVIOUS
  <2>3. n \in Queries /\ n.epoch = l.epoch /\ n.latest = l.latest /\ n.early = l.early
    BY <1>1, <2>2 DEF LoadHolds, Queries
  <2> QED BY <1>3, <1>4, <2>1, <2>2, <2>3 DEF Tab!LoadTaken
<1>5. ASSUME epoch' = epoch, NEW l \in loads, Tab!LoadLost(l) PROVE LoadHolds'
  <2>1. PICK n : n = [l EXCEPT !.answer = Tab!Lost]
    OBVIOUS
  <2>2. n \in Queries /\ n.epoch = l.epoch /\ n.latest = l.latest /\ n.early = l.early
    BY <1>1, <2>1 DEF LoadHolds, Queries
  <2> QED BY <1>3, <1>5, <2>1, <2>2 DEF Tab!LoadLost
<1>6. ASSUME epoch' = epoch, NEW p \in prepares, Tab!PrepareArrives(p) PROVE LoadHolds'
  <2>1. CASE UNCHANGED Tab!loadVars
    BY <1>2, <2>1
  <2>2. CASE Tab!Reload
    BY <1>1, <1>6, <2>2, ReloadKeeps
  <2>3. CASE loads' = { [l EXCEPT !.early = TRUE] : l \in Tab!Numbered(loads) } /\ inflight' = inflight
    <3>1. \A n \in Tab!Numbered(loads) : n \in Queries /\ ~n.latest /\ \E l \in loads : n = [l EXCEPT !.latest = FALSE] /\ n.epoch = l.epoch
      BY <1>1, NumberedQueries DEF LoadHolds
    <3>2. \A q \in Queries : /\ [q EXCEPT !.early = TRUE] \in Queries
                             /\ [q EXCEPT !.early = TRUE].latest = q.latest /\ [q EXCEPT !.early = TRUE].epoch = q.epoch
      BY DEF Queries
    <3>3. \A n \in loads' : /\ n \in Queries /\ ~n.latest
                            /\ \E l \in loads : n = [[l EXCEPT !.latest = FALSE] EXCEPT !.early = TRUE] /\ n.epoch = l.epoch
      <4> SUFFICES ASSUME NEW n \in loads'
                   PROVE  /\ n \in Queries /\ ~n.latest
                          /\ \E l \in loads : n = [[l EXCEPT !.latest = FALSE] EXCEPT !.early = TRUE] /\ n.epoch = l.epoch
        OBVIOUS
      <4>1. PICK o \in Tab!Numbered(loads) : n = [o EXCEPT !.early = TRUE]
        BY <2>3
      <4>2. PICK l \in loads : o = [l EXCEPT !.latest = FALSE] /\ o.epoch = l.epoch
        BY <3>1
      <4>3. n = [[l EXCEPT !.latest = FALSE] EXCEPT !.early = TRUE]
        BY <4>1, <4>2
      <4>4. o \in Queries /\ ~o.latest
        BY <3>1
      <4>5. n \in Queries /\ n.latest = o.latest /\ n.epoch = o.epoch
        BY <3>2, <4>1, <4>4
      <4> QED BY <4>2, <4>3, <4>4, <4>5
    <3>4. loads' \subseteq Queries /\ \A k \in loads' : k.epoch <= epoch /\ ~k.latest /\ (k.epoch = epoch => inflight.epoch = epoch)
      BY <1>1, <3>3 DEF LoadHolds
    <3>5. \A j, k \in loads' : j.epoch = epoch /\ k.epoch = epoch => j = k
      <4> SUFFICES ASSUME NEW j \in loads', NEW k \in loads', j.epoch = epoch, k.epoch = epoch
                   PROVE  j = k
        OBVIOUS
      <4>1. PICK a \in loads : j = [[a EXCEPT !.latest = FALSE] EXCEPT !.early = TRUE] /\ j.epoch = a.epoch
        BY <3>3
      <4>2. PICK b \in loads : k = [[b EXCEPT !.latest = FALSE] EXCEPT !.early = TRUE] /\ k.epoch = b.epoch
        BY <3>3
      <4>3. a = b
        BY <1>1, <4>1, <4>2 DEF LoadHolds
      <4> QED BY <4>1, <4>2, <4>3
    <3> QED BY <1>1, <1>6, <2>3, <3>4, <3>5 DEF LoadHolds
  <2> QED BY <1>6, <2>1, <2>2, <2>3 DEF Tab!PrepareArrives
<1>7. ASSUME epoch' = epoch, Tab!Reload PROVE LoadHolds'
  BY <1>1, <1>7, ReloadKeeps
<1>8. ASSUME epoch' = epoch, NEW l \in loads, Tab!LoadArrives(l) PROVE LoadHolds'
  BY <1>1, <1>8, AnswerKeeps
<1> QED BY <1>2, <1>4, <1>5, <1>6, <1>7, <1>8, LoadMoves

(* What is shown is typed, and has not been overtaken.                     *)
LEMMA AnswerShown ==
  ASSUME ShownHolds, LoginHolds, NEW e \in 0..MaxEpoch, NEW early \in {FALSE},
         NEW result \in Tab!States \cup Tab!Refusals \cup {Tab!Lost}, Tab!Apply(e, result, early)
  PROVE  /\ data' \in [epoch : 0..MaxEpoch, early : {FALSE},
                       result : Tab!States \cup Tab!Refusals \cup {"none", Tab!Lost}]
         /\ timer' \in BOOLEAN
         /\ e = epoch /\ epoch' = epoch /\ Tab!Shown # "none" => Tab!Shown' # "none"
<1>1. data' = IF result = Tab!Lost /\ Tab!Shown \in Tab!States THEN Tab!Current
              ELSE [ epoch |-> e, result |-> result, early |-> early ]
  BY DEF Tab!Apply
<1>2. timer' \in BOOLEAN
  BY DEF Tab!Apply, Tab!PollsWith
<1>3. Tab!Current \in [epoch : 0..MaxEpoch, early : {FALSE},
                       result : Tab!States \cup Tab!Refusals \cup {"none", Tab!Lost}]
  BY DEF ShownHolds, LoginHolds, Tab!Current
<1>4. [ epoch |-> e, result |-> result, early |-> early ] \in [epoch : 0..MaxEpoch, early : {FALSE},
                       result : Tab!States \cup Tab!Refusals \cup {"none", Tab!Lost}]
  OBVIOUS
<1>5. ASSUME e = epoch, epoch' = epoch, Tab!Shown # "none"
      PROVE  Tab!Shown' # "none"
  <2>1. data'.epoch = epoch' /\ data'.result # "none"
    BY <1>1, <1>5 DEF Tab!Shown, Tab!Current, Tab!States, Tab!Refusals, Tab!Lost
  <2> QED BY <2>1 DEF Tab!Shown, Tab!Current
<1> QED BY <1>1, <1>2, <1>3, <1>4, <1>5

(* Which steps move what is shown.                                         *)
LEMMA ShownMoves ==
  ASSUME TabInv, Tab!Next
  PROVE  /\ \/ UNCHANGED data
            \/ \E e \in 0..MaxEpoch, result \in Tab!States \cup Tab!Refusals \cup {Tab!Lost}, early \in {FALSE} :
                 Tab!Apply(e, result, early) /\ e = epoch
         /\ timer' \in BOOLEAN
         /\ panel' \in {"never", "open", "closed", "hidden"}
         /\ lost' \in 0..MaxLost
<1> DEFINE Answered == \E e \in 0..MaxEpoch, result \in Tab!States \cup Tab!Refusals \cup {Tab!Lost}, early \in {FALSE} :
                         Tab!Apply(e, result, early) /\ e = epoch
           Fine == (UNCHANGED data \/ Answered) /\ timer' \in BOOLEAN
                   /\ panel' \in {"never", "open", "closed", "hidden"} /\ lost' \in 0..MaxLost
<1>1. ShownHolds /\ LoadHolds /\ LoginHolds /\ EntryHolds /\ MaxLost \in Nat
  BY TabBounds DEF TabInv
<1>2. CASE UNCHANGED << Tab!shownVars, Tab!panelVars, lost >>
  BY <1>1, <1>2 DEF ShownHolds, Tab!shownVars, Tab!panelVars
<1>3. CASE UNCHANGED << Tab!shownVars, Tab!panelVars >> /\ lost < MaxLost /\ lost' = lost + 1
  BY <1>1, <1>3 DEF ShownHolds, Tab!shownVars, Tab!panelVars
<1>4. CASE UNCHANGED << data, lost >> /\ timer' \in BOOLEAN /\ panel' \in {"never", "open", "closed", "hidden"}
  BY <1>1, <1>4 DEF ShownHolds
<1>5. ASSUME NEW a \in Accounts, Tab!OtherTab(a) \/ Tab!RightsChange(a) \/ Tab!EnvironmentMoves(a) PROVE Fine
  BY <1>2, <1>5 DEF Tab!OtherTab, Tab!RightsChange, Tab!EnvironmentMoves
<1>6. ASSUME NEW l \in loads, Tab!LoadTaken(l) \/ Tab!LoadLost(l) PROVE Fine
  BY <1>2, <1>3, <1>6 DEF Tab!LoadTaken, Tab!LoadLost
<1>7. ASSUME NEW l \in loads, Tab!LoadArrives(l) PROVE Fine
  <2>1. l \in Queries /\ l.answer # Tab!Waiting /\ UNCHANGED << Tab!panelVars, lost >>
    BY <1>1, <1>7 DEF Tab!LoadArrives, LoadHolds
  <2>2. CASE UNCHANGED Tab!shownVars
    BY <1>2, <2>1, <2>2
  <2>3. CASE ~UNCHANGED Tab!shownVars
    <3>1. Tab!Apply(l.epoch, l.answer, l.early) /\ l.epoch = epoch /\ l.latest
      BY <1>7, <2>3 DEF Tab!LoadArrives, Tab!Dropped, Tab!Latest
    <3>2. l.early = FALSE /\ l.epoch \in 0..MaxEpoch
      BY <1>1, <2>1, <3>1 DEF LoadHolds, Queries
    <3>3. l.answer \in Tab!States \cup Tab!Refusals \cup {Tab!Lost}
      BY <2>1 DEF Queries, Tab!Refusals
    <3>4. timer' \in BOOLEAN
      BY <3>1 DEF Tab!Apply, Tab!PollsWith
    <3>5. panel' \in {"never", "open", "closed", "hidden"} /\ lost' \in 0..MaxLost
      BY <1>1, <2>1 DEF ShownHolds, Tab!panelVars
    <3>6. Tab!Apply(l.epoch, l.answer, FALSE)
      BY <3>1, <3>2
    <3> QED BY <3>1, <3>2, <3>3, <3>4, <3>5, <3>6
  <2> QED BY <2>2, <2>3
<1>8. ASSUME Tab!RefusedElsewhere \/ Tab!Retry \/ Tab!SignOut \/ Tab!SignOutTaken \/ Tab!SignOutLost PROVE Fine
  BY <1>2, <1>3, <1>8 DEF Tab!RefusedElsewhere, Tab!Retry, Tab!SignOut, Tab!SignOutTaken, Tab!SignOutLost
<1>9. ASSUME NEW who, Tab!Becomes(who) PROVE timer' \in BOOLEAN
  BY <1>9 DEF Tab!Becomes, Tab!PollsWith
<1>10. ASSUME Tab!SignOutArrives PROVE Fine
  <2>1. timer' \in BOOLEAN /\ UNCHANGED << data, Tab!panelVars, lost >>
    BY <1>1, <1>9, <1>10 DEF Tab!SignOutArrives, Tab!SignedOut, Tab!StaysIn, ShownHolds
  <2> QED BY <1>1, <1>4, <2>1 DEF ShownHolds, Tab!panelVars
<1>11. ASSUME NEW m \in mes, Tab!MeTaken(m) \/ Tab!MeLost(m) PROVE Fine
  BY <1>2, <1>3, <1>11 DEF Tab!MeTaken, Tab!MeLost
<1>12. ASSUME NEW m \in mes, Tab!MeArrives(m) PROVE Fine
  <2>1. timer' \in BOOLEAN /\ UNCHANGED << data, Tab!panelVars, lost >>
    BY <1>1, <1>9, <1>12 DEF Tab!MeArrives, ShownHolds
  <2> QED BY <1>1, <1>4, <2>1 DEF ShownHolds, Tab!panelVars
<1>13. ASSUME Tab!EntryEffect \/ Tab!Press PROVE Fine
  BY <1>2, <1>13 DEF Tab!EntryEffect, Tab!Press
<1>14. ASSUME NEW p \in prepares, Tab!PrepareTaken(p) \/ Tab!PrepareLost(p) PROVE Fine
  BY <1>2, <1>3, <1>14 DEF Tab!PrepareTaken, Tab!PrepareLost
<1>15. ASSUME NEW p \in prepares, Tab!PrepareArrives(p) PROVE Fine
  <2>1. UNCHANGED << Tab!panelVars, lost >>
    BY <1>15 DEF Tab!PrepareArrives
  <2>2. CASE UNCHANGED Tab!shownVars
    BY <1>2, <2>1, <2>2
  <2>3. CASE ~UNCHANGED Tab!shownVars
    <3>1. Tab!Apply(p.epoch, p.answer, FALSE) /\ p.epoch = epoch /\ p.answer \in Tab!States
      BY <1>15, <2>3 DEF Tab!PrepareArrives, Tab!Dropped
    <3>2. epoch \in 0..MaxEpoch
      BY <1>1 DEF LoginHolds
    <3>3. timer' \in BOOLEAN
      BY <3>1 DEF Tab!Apply, Tab!PollsWith
    <3>4. panel' \in {"never", "open", "closed", "hidden"} /\ lost' \in 0..MaxLost
      BY <1>1, <2>1 DEF ShownHolds, Tab!panelVars
    <3> QED BY <3>1, <3>2, <3>3, <3>4
  <2> QED BY <2>2, <2>3
<1>16. ASSUME NEW p \in {"open", "closed", "hidden"}, Tab!PanelGoes(p) PROVE Fine
  BY <1>4, <1>16 DEF Tab!PanelGoes, Tab!PollsWith
<1>17. ASSUME Tab!OpenPanel \/ Tab!LeavePanel \/ Tab!HideTab \/ Tab!ShowTab PROVE Fine
  BY <1>16, <1>17 DEF Tab!OpenPanel, Tab!LeavePanel, Tab!HideTab, Tab!ShowTab
<1>18. ASSUME Tab!EpochEffect \/ Tab!Poll PROVE Fine
  BY <1>1, <1>4, <1>18 DEF Tab!EpochEffect, Tab!Poll, ShownHolds, Tab!shownVars, Tab!panelVars
<1> HIDE DEF Fine
<1>19. Fine
  BY <1>5, <1>6, <1>7, <1>8, <1>10, <1>11, <1>12, <1>13, <1>14, <1>15, <1>17, <1>18 DEF Tab!Next
<1> QED BY <1>19 DEF Fine

LEMMA TabInitially ==
  ASSUME Tab!Init
  PROVE  TabInv
<1>1. MaxSession \in Nat \ {0} /\ MaxEpoch \in Nat /\ MaxPress \in Nat /\ MaxLost \in Nat
  BY TabBounds
<1>2. ServerHolds
  <2>1. PICK a \in Accounts \cup {Tab!Nobody} : cookie = [ account |-> a, nonce |-> IF a = Tab!Nobody THEN 0 ELSE 1 ]
    BY DEF Tab!Init
  <2>2. cookie \in [account : Accounts \cup {Tab!Nobody}, nonce : 0..MaxSession]
    BY <1>1, <2>1
  <2> QED BY <1>1, <2>2 DEF Tab!Init, ServerHolds, Tab!States
<1>3. LoginHolds
  <2>1. Tab!NoUser \in Identities /\ Tab!Inquiry \in Inquiries /\ Tab!NoUser.rights = "none" /\ Tab!Inquiry.after
    BY <1>2, HolderIsKnown
  <2> QED BY <1>1, <2>1 DEF Tab!Init, LoginHolds
<1>4. EntryHolds
  <2>1. entries = << >> /\ entrySent = 0 /\ epoch = 0 /\ pressed = 0 /\ prepares = {}
    BY DEF Tab!Init
  <2>2. entries \in Seq(0..MaxEpoch) /\ Len(entries) = 0
    BY <2>1
  <2> QED BY <1>1, <2>1, <2>2 DEF EntryHolds
<1>5. LoadHolds
  BY <1>1 DEF Tab!Init, LoadHolds, Tab!NoLoop
<1>6. ShownHolds
  <2>1. data = [ epoch |-> 0, result |-> "none", early |-> FALSE ] /\ timer = FALSE /\ panel = "never" /\ lost = 0
    BY DEF Tab!Init
  <2>2. data \in [epoch : 0..MaxEpoch, early : {FALSE},
                  result : Tab!States \cup Tab!Refusals \cup {"none", Tab!Lost}]
    BY <1>1, <2>1
  <2>3. timer \in BOOLEAN
    BY <2>1, Zenon
  <2>4. panel \in {"never", "open", "closed", "hidden"} /\ lost \in 0..MaxLost
    <3>1. panel = "never" /\ lost = 0
      BY <2>1
    <3> QED BY <1>1, <3>1
  <2> QED BY <2>2, <2>3, <2>4 DEF ShownHolds
<1> QED BY <1>2, <1>3, <1>4, <1>5, <1>6 DEF TabInv

(* A part that rests stays in order.                                       *)
LEMMA TabRests ==
  ASSUME TabInv, UNCHANGED tabVars
  PROVE  TabInv'
<1>1. ServerHolds'
  BY DEF TabInv, tabVars, ServerHolds
<1>2. LoginHolds'
  BY DEF TabInv, tabVars, LoginHolds
<1>3. EntryHolds'
  BY DEF TabInv, tabVars, EntryHolds
<1>4. LoadHolds'
  BY DEF TabInv, tabVars, LoadHolds
<1>5. ShownHolds'
  BY DEF TabInv, tabVars, ShownHolds
<1> QED BY <1>1, <1>2, <1>3, <1>4, <1>5 DEF TabInv

LEMMA TabStays ==
  ASSUME TabInv, Tab!Next
  PROVE  TabInv'
<1>1. ShownHolds'
  <2>1. ShownHolds /\ LoginHolds
    BY DEF TabInv
  <2>2. data' \in [epoch : 0..MaxEpoch, early : {FALSE},
                   result : Tab!States \cup Tab!Refusals \cup {"none", Tab!Lost}]
    <3>1. CASE UNCHANGED data
      BY <2>1, <3>1 DEF ShownHolds
    <3>2. CASE ~UNCHANGED data
      <4>1. PICK e \in 0..MaxEpoch, result \in Tab!States \cup Tab!Refusals \cup {Tab!Lost}, early \in {FALSE} :
              Tab!Apply(e, result, early)
        BY <3>2, ShownMoves
      <4> QED BY <2>1, <4>1, AnswerShown
    <3> QED BY <3>1, <3>2
  <2> QED BY <2>2, ShownMoves DEF ShownHolds
<1> QED BY <1>1, ServerStays, LoginStays, EntryStays, LoadStays DEF TabInv

(* What the invariant says of each state.                                  *)
LEMMA TabIsTyped ==
  ASSUME TabInv
  PROVE  Tab!TypeOK /\ Tab!OneEntryPerEpoch /\ Tab!LoggedOutStaysOut
<1>1. Tab!TypeOK
  <2>1. cookie.account \in Accounts \cup {Tab!Nobody} /\ cookie.nonce \in 0..MaxSession
        /\ sessions \in 0..MaxSession
        /\ rights \in [Accounts -> {"none", "research", "prepare"}] /\ env \in [Accounts -> Tab!States]
    BY DEF TabInv, ServerHolds
  <2>2. user.account \in Accounts \cup {Tab!Nobody} /\ confirmed \in BOOLEAN
        /\ (\A m \in mes : m.valid \in BOOLEAN /\ m.after \in BOOLEAN)
        /\ out \in {"no", "sent", "done", "csrf", Tab!Lost} /\ epoch \in 0..MaxEpoch
    BY DEF TabInv, LoginHolds, Identities, Inquiries
  <2>3. entrySent \in 0..MaxEpoch /\ entries \in Seq(0..MaxEpoch) /\ pressed \in 0..MaxPress
    BY <2>2, TabBounds DEF TabInv, EntryHolds
  <2>4. inflight.again \in BOOLEAN /\ \A l \in loads : l.epoch \in 0..MaxEpoch
    BY TabBounds DEF TabInv, LoadHolds, Queries
  <2>5. data.epoch \in 0..MaxEpoch /\ data.result \in Tab!States \cup Tab!Refusals \cup {"none", Tab!Lost}
        /\ timer \in BOOLEAN /\ panel \in {"never", "open", "closed", "hidden"} /\ lost \in 0..MaxLost
    BY DEF TabInv, ShownHolds
  <2> QED BY <2>1, <2>2, <2>3, <2>4, <2>5 DEF Tab!TypeOK
<1>2. Tab!OneEntryPerEpoch
  <2>1. entries \in Seq(0..MaxEpoch) /\ \A i, j \in 1..Len(entries) : entries[i] = entries[j] => i = j
    BY DEF TabInv, EntryHolds
  <2>2. DOMAIN entries = 1..Len(entries)
    BY <2>1
  <2> QED BY <2>1, <2>2 DEF Tab!OneEntryPerEpoch, Tab!IsInjective
<1>3. Tab!LoggedOutStaysOut
  BY DEF TabInv, LoginHolds, Tab!LoggedOutStaysOut
<1> QED BY <1>1, <1>2, <1>3

(* What is shown of an epoch stays shown in it: a step that shows an       *)
(* answer leaves the epoch as it is.                                       *)
LEMMA ShownIsKept ==
  ASSUME TabInv, Tab!Next, epoch' = epoch, Tab!Shown # "none"
  PROVE  Tab!Shown' # "none"
<1>1. CASE UNCHANGED data
  BY <1>1 DEF Tab!Shown, Tab!Current
<1>2. CASE ~UNCHANGED data
  <2>1. PICK e \in 0..MaxEpoch, result \in Tab!States \cup Tab!Refusals \cup {Tab!Lost}, early \in {FALSE} :
          Tab!Apply(e, result, early) /\ e = epoch
    BY <1>2, ShownMoves
  <2> QED BY <2>1, AnswerShown DEF TabInv
<1> QED BY <1>1, <1>2

(* A call that came while a query was under way has its query: the loop of *)
(* this epoch forgets it only to send one, and the query that was answered *)
(* was the only one.                                                       *)
LEMMA LoopAsksAgain ==
  ASSUME TabInv, Tab!Next, inflight.again, inflight.epoch = epoch', ~inflight'.again
  PROVE  \E l \in loads' \ loads : l.epoch = epoch /\ l.answer = Tab!Waiting
<1>1. LoadHolds /\ LoginHolds
  BY DEF TabInv
<1>2. inflight' # inflight
  OBVIOUS
<1>3. inflight # Tab!NoLoop
  BY DEF Tab!NoLoop
<1>4. epoch' = epoch
  BY <1>2, LoadMoves DEF Tab!loadVars
<1>5. ASSUME Tab!Reload PROVE FALSE
  BY <1>1, <1>3, <1>4, <1>5 DEF Tab!Reload, Tab!loadVars, LoadHolds
<1>6. ASSUME NEW p \in prepares, Tab!PrepareArrives(p) PROVE FALSE
  BY <1>2, <1>5, <1>6 DEF Tab!PrepareArrives, Tab!loadVars
<1>7. PICK l \in loads : Tab!LoadArrives(l)
  <2>1. ASSUME NEW l \in loads, Tab!LoadTaken(l) \/ Tab!LoadLost(l) PROVE FALSE
    BY <1>2, <2>1 DEF Tab!LoadTaken, Tab!LoadLost
  <2> QED BY <1>2, <1>5, <1>6, <2>1, LoadMoves DEF Tab!loadVars
<1>8. l.epoch = epoch
  BY <1>2, <1>4, <1>7 DEF Tab!LoadArrives, Tab!Dropped
<1>9. l.answer # Tab!Waiting /\ loads' = Tab!Numbered(loads \ {l}) \cup {Tab!Query}
  BY <1>7, <1>8 DEF Tab!LoadArrives, Tab!Dropped, Tab!Loops
<1>10. Tab!Query.epoch = epoch /\ Tab!Query.answer = Tab!Waiting
  BY DEF Tab!Query
<1>11. Tab!Query \notin loads
  BY <1>1, <1>8, <1>9, <1>10 DEF LoadHolds
<1> QED BY <1>9, <1>10, <1>11

(* The tab by itself, with none of the run's bounds on what happens in it. *)
TabSpec == Tab!Init /\ [][Tab!Next]_tabVars

LEMMA TabHolds == TabSpec => []TabInv
<1>1. Tab!Init => TabInv
  BY TabInitially
<1>2. TabInv /\ [Tab!Next]_tabVars => TabInv'
  BY TabRests, TabStays
<1> QED BY <1>1, <1>2, PTL DEF TabSpec

(* Whatever logs in and out and becomes ready around it, a tab prepares an *)
(* environment once for each identity it has, stays logged out, and shows  *)
(* what it asked for last, as who it is (MCPodCreation.TabIsWhoItShows).   *)
THEOREM TabShowsItself == TabSpec => TabIsWhoItShows
<1>1. TabInv /\ [Tab!Next]_tabVars => TabInv'
  BY TabRests, TabStays
<1>2. TabInv /\ [Tab!Next]_tabVars =>
        [Tab!TypeOK' /\ Tab!OneEntryPerEpoch' /\ Tab!LoggedOutStaysOut']_tabVars
  <2>1. TabInv' => Tab!TypeOK' /\ Tab!OneEntryPerEpoch' /\ Tab!LoggedOutStaysOut'
    BY TabIsTyped, PTL
  <2> QED BY <1>1, <2>1
<1>3. TabInv /\ [Tab!Next]_tabVars =>
        [ /\ ~data'.early
          /\ epoch' = epoch /\ Tab!Shown # "none" => Tab!Shown' # "none"
          /\ inflight.again /\ inflight.epoch = epoch' /\ ~inflight'.again =>
               \E l \in loads' \ loads : l.epoch = epoch /\ l.answer = Tab!Waiting ]_(Tab!vars)
  <2> SUFFICES ASSUME TabInv, [Tab!Next]_tabVars, ~UNCHANGED Tab!vars
               PROVE  /\ ~data'.early
                      /\ epoch' = epoch /\ Tab!Shown # "none" => Tab!Shown' # "none"
                      /\ inflight.again /\ inflight.epoch = epoch' /\ ~inflight'.again =>
                           \E l \in loads' \ loads : l.epoch = epoch /\ l.answer = Tab!Waiting
    OBVIOUS
  <2>1. Tab!Next
    <3>1. UNCHANGED tabVars => UNCHANGED Tab!vars
      BY DEF tabVars, Tab!vars, Tab!serverVars, Tab!loginVars, Tab!entryVars, Tab!loadVars, Tab!shownVars, Tab!panelVars
    <3> QED BY <3>1
  <2>2. ~data'.early
    BY <1>1 DEF TabInv, ShownHolds
  <2> QED BY <2>1, <2>2, ShownIsKept, LoopAsksAgain
<1> QED BY <1>2, <1>3, TabHolds, PTL DEF TabSpec, TabIsWhoItShows, Tab!ShownIsCurrent

(* The same of the composed system: each of its behaviours is one of the   *)
(* tab, or the tab rests.                                                  *)
THEOREM TabsAreWhoTheyShow == AllSpec => TabIsWhoItShows
<1>1. AllInit => Tab!Init
  BY DEF AllInit
<1>2. [AllNext]_<< part, vars, tabVars >> => [Tab!Next]_tabVars
  BY DEF AllNext
<1>3. AllSpec => TabSpec
  BY <1>1, <1>2, PTL DEF AllSpec, TabSpec
<1> QED BY <1>3, TabShowsItself, PTL
=============================================================================
