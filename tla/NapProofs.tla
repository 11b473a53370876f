------------------------------- MODULE NapProofs -------------------------------
(***************************************************************************)
(* Proofs about NapAdmission and NapControlOwner, for any number of peers, *)
(* sessions, owner instances, networks and capability snapshots.           *)
(***************************************************************************)
EXTENDS NapControlOwner, FiniteSetTheorems, TLAPS

\* Tickets name the network of the instance that issued them, and an instance
\* issues tickets only once it exists (so `new` changes no issued ticket).
TicketsNameTheirOwner ==
  \A t \in issued : t.owner \in created /\ t.network = network[t.owner]

\* The inductive invariant.  OneSlotPerPeer is needed for SlotsAreRetirable:
\* otherwise retire could clear one of two slots held with the same ticket.
NapIInv ==
  /\ NapTypeOK
  /\ OneSlotPerPeer
  /\ SlotsAreRetirable
  /\ GenerationsAreUnique
  /\ ClosedIsEmpty
  /\ TicketsNameTheirOwner

USE DEF NoGeneration

\* The ledger of a new NAP instance (NapAdmissionLedger::new).
LEMMA NewLedgerType ==
  ASSUME NEW host \in Capabilities
  PROVE  NewLedger(host) \in Ledger
BY NapConstants DEF NewLedger, Ledger

\* The initial state satisfies the invariant.
LEMMA NapInitInv == NapInit => NapIInv
<1> SUFFICES ASSUME NapInit PROVE NapIInv
  OBVIOUS
<1> USE DEF NapInit
<1>1. UnknownHost \in Capabilities
  BY DEF UnknownHost, Capabilities
<1>2. NapTypeOK
  BY <1>1, NewLedgerType, NapConstants DEF NapTypeOK
<1>3. \A o \in Owners : Active(o) = {} /\ Pending(o) = {}
  BY DEF Active, Pending, NewLedger
<1>4. OneSlotPerPeer /\ ClosedIsEmpty
  BY <1>3 DEF OneSlotPerPeer, ClosedIsEmpty, Occupied
<1>5. SlotsAreRetirable
  BY DEF SlotsAreRetirable, NewLedger
<1>6. GenerationsAreUnique /\ TicketsNameTheirOwner
  BY DEF GenerationsAreUnique, TicketsNameTheirOwner
<1> QED
  BY <1>2, <1>4, <1>5, <1>6 DEF NapIInv

\* Each operation preserves the type invariant.
LEMMA NapTypeStep == NapTypeOK /\ [NapNext]_napVars => NapTypeOK'
<1> SUFFICES ASSUME NapTypeOK, [NapNext]_napVars PROVE NapTypeOK'
  OBVIOUS
<1> USE NapConstants DEF NapTypeOK
<1>1. ASSUME NEW o \in Owners, NEW net \in Networks, NEW host \in Hosts, New(o, net, host)
      PROVE  NapTypeOK'
  BY <1>1, NewLedgerType DEF New, Capabilities
<1>2. ASSUME NEW o \in Owners, NEW c \in Nodes \cup {ZeroNode}, Reserve(o, c)
      PROVE  NapTypeOK'
  <2>1. c \in Nodes
    BY <1>2 DEF Reserve, Reservable, Admits
  <2>2. ledger[o].next + 1 \in 1 .. MaxGeneration
    BY <1>2 DEF Reserve, Reservable, Ledger
  <2> DEFINE l == [ledger[o] EXCEPT !.next = ledger[o].next + 1,
                                    !.pending[c] = ledger[o].next + 1]
  <2>a. l \in Ledger
    <3>1. ledger[o] \in Ledger
      OBVIOUS
    <3>2. [ledger[o].pending EXCEPT ![c] = ledger[o].next + 1] \in [Nodes -> Nat]
      BY <3>1, <2>1, <2>2 DEF Ledger
    <3>3. [ledger[o] EXCEPT !.next = ledger[o].next + 1] \in Ledger
      BY <3>1, <2>2 DEF Ledger
    <3>4. l = [[ledger[o] EXCEPT !.next = ledger[o].next + 1]
                 EXCEPT !.pending = [ledger[o].pending EXCEPT ![c] = ledger[o].next + 1]]
      BY <3>1 DEF Ledger
    <3> HIDE DEF l
    <3> QED
      BY Zenon, <3>2, <3>3, <3>4 DEF Ledger
  <2>3. ledger' \in [Owners -> Ledger]
    BY <1>2, <2>a DEF Reserve, Reservable
  <2>4. issued' \subseteq Ticket
    BY <1>2, <2>1, <2>2 DEF Reserve, Reservable, Ticket
  <2> QED
    BY <1>2, <2>3, <2>4 DEF Reserve, Reservable
<1>3. ASSUME NEW o \in Owners, NEW t \in issued, Activate(o, t)
      PROVE  NapTypeOK'
  BY <1>3 DEF Activate, Activatable, Ledger, Ticket
<1>4. ASSUME NEW o \in Owners, NEW t \in issued, Retire(o, t)
      PROVE  NapTypeOK'
  <2>1. t.candidate \in Nodes /\ ledger[o] \in Ledger
    BY DEF Ticket
  <2>2. [ledger[o] EXCEPT !.pending[t.candidate] = 0] \in Ledger
    BY Zenon, <2>1 DEF Ledger
  <2>3. [ledger[o] EXCEPT !.active[t.candidate] = 0] \in Ledger
    BY SMTT(20), <2>1 DEF Ledger
  <2> QED
    BY <1>4, <2>2, <2>3 DEF Retire, Retirable
<1>5. ASSUME NEW o \in Owners, NEW host \in Hosts, UpdateCapabilities(o, host)
      PROVE  NapTypeOK'
  BY Zenon, <1>5 DEF UpdateCapabilities, Ledger, Capabilities
<1>6. ASSUME NEW o \in Owners, Close(o)
      PROVE  NapTypeOK'
  BY Zenon, <1>6 DEF Close, Ledger
<1>7. CASE UNCHANGED napVars
  BY <1>7 DEF napVars
<1> QED
  BY <1>1, <1>2, <1>3, <1>4, <1>5, <1>6, <1>7 DEF NapNext

\* OneSlotPerPeer and ClosedIsEmpty in terms of the two maps.
LEMMA SlotsAsMaps ==
  /\ OneSlotPerPeer <=>
       \A o \in Owners, n \in Nodes : ledger[o].active[n] = 0 \/ ledger[o].pending[n] = 0
  /\ ClosedIsEmpty <=>
       \A o \in Owners, n \in Nodes :
         ledger[o].closed => ledger[o].active[n] = 0 /\ ledger[o].pending[n] = 0
<1>1. ASSUME NEW o \in Owners
      PROVE  Active(o) \cap Pending(o) = {} <=>
               \A n \in Nodes : ledger[o].active[n] = 0 \/ ledger[o].pending[n] = 0
  BY DEF Active, Pending
<1>2. ASSUME NEW o \in Owners
      PROVE  Occupied(o) = {} <=>
               \A n \in Nodes : ledger[o].active[n] = 0 /\ ledger[o].pending[n] = 0
  BY DEF Active, Pending, Occupied
<1> QED
  BY <1>1, <1>2 DEF OneSlotPerPeer, ClosedIsEmpty

\* What each operation does to the two maps, slot by slot.
LEMMA ReserveEffect ==
  ASSUME NapTypeOK, NEW o \in Owners, NEW c \in Nodes, Reserve(o, c)
  PROVE  /\ \A p \in Owners, n \in Nodes :
              /\ ledger'[p].active[n] = ledger[p].active[n]
              /\ ledger'[p].pending[n] =
                   IF p = o /\ n = c THEN ledger[o].next + 1 ELSE ledger[p].pending[n]
         /\ \A p \in Owners :
              /\ ledger'[p].closed = ledger[p].closed
              /\ ledger'[p].host = ledger[p].host
              /\ ledger'[p].next = IF p = o THEN ledger[o].next + 1 ELSE ledger[p].next
BY DEF Reserve, Reservable, NapTypeOK, Ledger

\* activate turns the pending slot of its ticket into an active one.
LEMMA ActivateEffect ==
  ASSUME NapTypeOK, NEW o \in Owners, NEW t \in issued, Activate(o, t)
  PROVE  /\ \A p \in Owners, n \in Nodes :
              /\ ledger'[p].active[n] =
                   IF p = o /\ n = t.candidate THEN t.generation ELSE ledger[p].active[n]
              /\ ledger'[p].pending[n] =
                   IF p = o /\ n = t.candidate THEN 0 ELSE ledger[p].pending[n]
         /\ \A p \in Owners :
              /\ ledger'[p].closed = ledger[p].closed
              /\ ledger'[p].host = ledger[p].host
              /\ ledger'[p].next = ledger[p].next
BY DEF Activate, Activatable, NapTypeOK, Ledger, Ticket

\* retire vacates the slot, pending or active, that has the ticket's generation.
LEMMA RetireEffect ==
  ASSUME NapTypeOK, NEW o \in Owners, NEW t \in issued, Retire(o, t)
  PROVE  /\ \/ /\ ledger[o].pending[t.candidate] = t.generation
               /\ \A p \in Owners, n \in Nodes :
                    /\ ledger'[p].active[n] = ledger[p].active[n]
                    /\ ledger'[p].pending[n] =
                         IF p = o /\ n = t.candidate THEN 0 ELSE ledger[p].pending[n]
            \/ /\ ledger[o].active[t.candidate] = t.generation
               /\ \A p \in Owners, n \in Nodes :
                    /\ ledger'[p].active[n] =
                         IF p = o /\ n = t.candidate THEN 0 ELSE ledger[p].active[n]
                    /\ ledger'[p].pending[n] = ledger[p].pending[n]
         /\ \A p \in Owners :
              /\ ledger'[p].closed = ledger[p].closed
              /\ ledger'[p].host = ledger[p].host
              /\ ledger'[p].next = ledger[p].next
<1>1. t.candidate \in Nodes /\ ledger \in [Owners -> Ledger]
  BY DEF NapTypeOK, Ticket
<1>2. CASE ledger[o].pending[t.candidate] = t.generation
  BY <1>1, <1>2 DEF Retire, Retirable, Ledger
<1>3. CASE ledger[o].pending[t.candidate] # t.generation
  BY <1>1, <1>3 DEF Retire, Retirable, Ledger
<1> QED
  BY <1>2, <1>3

\* close vacates every slot.
LEMMA CloseEffect ==
  ASSUME NapTypeOK, NEW o \in Owners, Close(o)
  PROVE  /\ \A p \in Owners, n \in Nodes :
              /\ ledger'[p].active[n] = IF p = o THEN 0 ELSE ledger[p].active[n]
              /\ ledger'[p].pending[n] = IF p = o THEN 0 ELSE ledger[p].pending[n]
         /\ \A p \in Owners :
              /\ ledger'[p].closed = IF p = o THEN TRUE ELSE ledger[p].closed
              /\ ledger'[p].host = ledger[p].host
              /\ ledger'[p].next = ledger[p].next
BY Zenon DEF Close, NapTypeOK, Ledger

\* A new instance starts with empty slots.
LEMMA NewEffect ==
  ASSUME NapTypeOK, NEW o \in Owners, NEW net \in Networks, NEW host \in Hosts,
         New(o, net, host)
  PROVE  /\ \A p \in Owners, n \in Nodes :
              /\ ledger'[p].active[n] = IF p = o THEN 0 ELSE ledger[p].active[n]
              /\ ledger'[p].pending[n] = IF p = o THEN 0 ELSE ledger[p].pending[n]
         /\ \A p \in Owners \ {o} : ledger'[p] = ledger[p] /\ network'[p] = network[p]
         /\ ledger'[o].closed = FALSE
BY DEF New, NewLedger, NapTypeOK, Ledger

\* update_capabilities touches no slot.
LEMMA UpdateEffect ==
  ASSUME NapTypeOK, NEW o \in Owners, NEW host \in Hosts, UpdateCapabilities(o, host)
  PROVE  \A p \in Owners :
           /\ ledger'[p].active = ledger[p].active
           /\ ledger'[p].pending = ledger[p].pending
           /\ ledger'[p].closed = ledger[p].closed
           /\ ledger'[p].next = ledger[p].next
BY DEF UpdateCapabilities, NapTypeOK, Ledger

\* Every operation preserves the inductive invariant.
LEMMA NapStepInv == NapIInv /\ [NapNext]_napVars => NapIInv'
<1> SUFFICES ASSUME NapIInv, [NapNext]_napVars PROVE NapIInv'
  OBVIOUS
<1>t. NapTypeOK /\ NapTypeOK'
  BY NapTypeStep DEF NapIInv
<1>m. /\ \A o \in Owners, n \in Nodes : ledger[o].active[n] = 0 \/ ledger[o].pending[n] = 0
      /\ \A o \in Owners, n \in Nodes :
           ledger[o].closed => ledger[o].active[n] = 0 /\ ledger[o].pending[n] = 0
  BY SlotsAsMaps DEF NapIInv
\* It is enough to restore the conjuncts, the first two read as maps.
<1>q. ASSUME \A o \in Owners, n \in Nodes : ledger'[o].active[n] = 0 \/ ledger'[o].pending[n] = 0,
             \A o \in Owners, n \in Nodes :
               ledger'[o].closed => ledger'[o].active[n] = 0 /\ ledger'[o].pending[n] = 0,
             SlotsAreRetirable', GenerationsAreUnique', TicketsNameTheirOwner'
      PROVE  NapIInv'
  <2>1. OneSlotPerPeer' /\ ClosedIsEmpty'
    <3>1. \A o \in Owners : Active(o)' \cap Pending(o)' = {}
      BY <1>q DEF Active, Pending
    <3>2. \A o \in Owners : ledger'[o].closed => Occupied(o)' = {}
      BY <1>q DEF Active, Pending, Occupied
    <3> QED
      BY <3>1, <3>2 DEF OneSlotPerPeer, ClosedIsEmpty
  <2> QED
    BY <1>q, <1>t, <2>1 DEF NapIInv
<1>1. ASSUME NEW o \in Owners, NEW net \in Networks, NEW host \in Hosts, New(o, net, host)
      PROVE  NapIInv'
  <2>e. /\ \A p \in Owners \ {o}, n \in Nodes :
             /\ ledger'[p].active[n] = ledger[p].active[n]
             /\ ledger'[p].pending[n] = ledger[p].pending[n]
             /\ ledger'[p].closed = ledger[p].closed
        /\ \A n \in Nodes : ledger'[o].active[n] = 0 /\ ledger'[o].pending[n] = 0
    BY Zenon, <1>1, <1>t, NewEffect
  <2>1. SlotsAreRetirable'
    <3> SUFFICES ASSUME NEW p \in Owners, NEW n \in Nodes,
                        NEW g \in {ledger'[p].active[n], ledger'[p].pending[n]} \ {0}
                 PROVE  SlotTicket(p, n, g)' \in issued' \ retired'
      BY DEF SlotsAreRetirable
    <3>1. p # o
      BY <2>e
    <3>2. g \in {ledger[p].active[n], ledger[p].pending[n]} \ {0}
      BY <3>1, <2>e
    <3> QED
      BY <3>1, <3>2, <1>1, <1>t, NewEffect DEF NapIInv, SlotsAreRetirable, SlotTicket, New
  <2>2. \A t \in issued : t.owner # o
    BY <1>1 DEF NapIInv, TicketsNameTheirOwner, New
  <2>3. GenerationsAreUnique' /\ TicketsNameTheirOwner'
    BY <1>1, <1>t, <2>2, NewEffect
    DEF NapIInv, GenerationsAreUnique, TicketsNameTheirOwner, New, NapTypeOK, Ticket
  <2>4. \A p \in Owners, n \in Nodes : ledger'[p].active[n] = 0 \/ ledger'[p].pending[n] = 0
    BY <1>m, <2>e
  <2>5. \A p \in Owners, n \in Nodes :
          ledger'[p].closed => ledger'[p].active[n] = 0 /\ ledger'[p].pending[n] = 0
    BY <1>m, <2>e
  <2> QED
    BY <1>q, <2>1, <2>3, <2>4, <2>5
<1>2. ASSUME NEW o \in Owners, NEW c \in Nodes \cup {ZeroNode}, Reserve(o, c)
      PROVE  NapIInv'
  <2>1. c \in Nodes
    BY <1>2 DEF Reserve, Reservable, Admits
  <2>e. ledger[o].active[c] = 0 /\ ledger[o].pending[c] = 0 /\ ~ledger[o].closed
    BY <1>2, <2>1 DEF Reserve, Reservable, Active, Pending
  <2> DEFINE fresh == SlotTicket(o, c, ledger[o].next + 1)
  <2>n. /\ issued' = issued \cup {fresh} /\ retired' = retired /\ network' = network
        /\ created' = created /\ o \in created
    BY <1>2 DEF Reserve, Reservable, SlotTicket
  <2>f. fresh \notin issued /\ ledger[o].next \in Nat
    BY <1>t DEF NapIInv, GenerationsAreUnique, SlotTicket, NapTypeOK, Ledger
  <2>2. SlotsAreRetirable'
    BY <2>1, <2>n, <2>f, <1>2, <1>t, ReserveEffect
    DEF NapIInv, SlotsAreRetirable, SlotTicket, NapTypeOK
  <2>3. GenerationsAreUnique' /\ TicketsNameTheirOwner'
    BY <2>1, <2>n, <2>f, <1>2, <1>t, ReserveEffect
    DEF NapIInv, GenerationsAreUnique, TicketsNameTheirOwner, SlotTicket, NapTypeOK, Ticket, Ledger
  <2> QED
    BY <1>2, <1>q, <1>m, <1>t, <2>1, <2>e, <2>2, <2>3, ReserveEffect
<1>3. ASSUME NEW o \in Owners, NEW t \in issued, Activate(o, t)
      PROVE  NapIInv'
  <2>n. UNCHANGED <<network, created, issued, retired>>
    BY <1>3 DEF Activate, Activatable
  <2>e. /\ ledger[o].pending[t.candidate] = t.generation /\ ~ledger[o].closed
        /\ t.candidate \in Nodes /\ t.generation # 0
    BY <1>3, <1>t DEF Activate, Activatable, NapTypeOK, Ticket, NapIInv, GenerationsAreUnique
  <2>2. SlotsAreRetirable'
    BY <2>n, <2>e, <1>3, <1>t, ActivateEffect
    DEF NapIInv, SlotsAreRetirable, SlotTicket, NapTypeOK
  <2>3. GenerationsAreUnique' /\ TicketsNameTheirOwner'
    BY <2>n, <1>3, <1>t, ActivateEffect
    DEF NapIInv, GenerationsAreUnique, TicketsNameTheirOwner, NapTypeOK, Ticket
  <2> QED
    BY <1>3, <1>q, <1>m, <1>t, <2>e, <2>2, <2>3, ActivateEffect
<1>4. ASSUME NEW o \in Owners, NEW t \in issued, Retire(o, t)
      PROVE  NapIInv'
  <2>n. UNCHANGED <<network, created, issued>> /\ retired' = retired \cup {t}
    BY <1>4 DEF Retire, Retirable
  <2>e. t.candidate \in Nodes /\ t.generation # 0 /\ t.owner = o
    BY <1>4, <1>t DEF Retire, Retirable, Owns, NapTypeOK, Ticket, NapIInv, GenerationsAreUnique
  <2>2. SlotsAreRetirable'
    BY <2>n, <2>e, <1>4, <1>t, <1>m, RetireEffect
    DEF NapIInv, SlotsAreRetirable, SlotTicket, NapTypeOK
  <2>3. GenerationsAreUnique' /\ TicketsNameTheirOwner'
    BY <2>n, <1>4, <1>t, RetireEffect
    DEF NapIInv, GenerationsAreUnique, TicketsNameTheirOwner, NapTypeOK, Ticket
  <2> QED
    BY <1>4, <1>q, <1>m, <1>t, <2>e, <2>2, <2>3, RetireEffect
<1>5. ASSUME NEW o \in Owners, NEW host \in Hosts, UpdateCapabilities(o, host)
      PROVE  NapIInv'
  <2>n. UNCHANGED <<network, created, issued, retired>>
    BY <1>5 DEF UpdateCapabilities
  <2>2. SlotsAreRetirable' /\ GenerationsAreUnique' /\ TicketsNameTheirOwner'
    BY <2>n, <1>5, <1>t, UpdateEffect
    DEF NapIInv, SlotsAreRetirable, SlotTicket, GenerationsAreUnique, TicketsNameTheirOwner,
        NapTypeOK, Ticket
  <2> QED
    BY <1>5, <1>q, <1>m, <1>t, <2>2, UpdateEffect
<1>6. ASSUME NEW o \in Owners, Close(o)
      PROVE  NapIInv'
  <2>e. /\ \A p \in Owners \ {o}, n \in Nodes :
             /\ ledger'[p].active[n] = ledger[p].active[n]
             /\ ledger'[p].pending[n] = ledger[p].pending[n]
             /\ ledger'[p].closed = ledger[p].closed
        /\ \A n \in Nodes : ledger'[o].active[n] = 0 /\ ledger'[o].pending[n] = 0
    BY Zenon, <1>6, <1>t, CloseEffect
  <2>n. UNCHANGED <<network, created, issued, retired>>
    BY <1>6 DEF Close
  <2>2. SlotsAreRetirable'
    <3> SUFFICES ASSUME NEW p \in Owners, NEW n \in Nodes,
                        NEW g \in {ledger'[p].active[n], ledger'[p].pending[n]} \ {0}
                 PROVE  SlotTicket(p, n, g)' \in issued' \ retired'
      BY DEF SlotsAreRetirable
    <3>1. p # o
      BY <2>e
    <3>2. g \in {ledger[p].active[n], ledger[p].pending[n]} \ {0}
      BY <3>1, <2>e
    <3> QED
      BY <3>1, <3>2, <2>n DEF NapIInv, SlotsAreRetirable, SlotTicket
  <2>3. GenerationsAreUnique' /\ TicketsNameTheirOwner'
    BY Zenon, <2>n, <1>6, <1>t, CloseEffect
    DEF NapIInv, GenerationsAreUnique, TicketsNameTheirOwner, NapTypeOK, Ticket
  <2>4. \A p \in Owners, n \in Nodes : ledger'[p].active[n] = 0 \/ ledger'[p].pending[n] = 0
    BY <1>m, <2>e
  <2>5. \A p \in Owners, n \in Nodes :
          ledger'[p].closed => ledger'[p].active[n] = 0 /\ ledger'[p].pending[n] = 0
    BY <1>m, <2>e
  <2> QED
    BY <1>q, <2>2, <2>3, <2>4, <2>5
<1>7. CASE UNCHANGED napVars
  BY <1>7
  DEF napVars, NapIInv, NapTypeOK, OneSlotPerPeer, SlotsAreRetirable, GenerationsAreUnique,
      ClosedIsEmpty, TicketsNameTheirOwner, Active, Pending, Occupied, SlotTicket
<1> QED
  BY <1>1, <1>2, <1>3, <1>4, <1>5, <1>6, <1>7 DEF NapNext

-----------------------------------------------------------------------------
\* The ledgers, tickets and owner instances keep their types; in particular
\* next_generation never passes u64::MAX (nap_admission_ledger.rs:133).
THEOREM NapTypeCorrect == NapSpec => []NapTypeOK
<1>1. NapInit => NapTypeOK
  BY NapInitInv DEF NapIInv
<1> QED
  BY <1>1, NapTypeStep, PTL DEF NapSpec

\* The inductive invariant holds in every reachable state.
THEOREM NapInvariant == NapSpec => []NapIInv
BY NapInitInv, NapStepInv, PTL DEF NapSpec

\* No peer holds two slots, every occupied slot can be retired with a ticket
\* that was issued and never retired, and generations identify reservations:
\* reserve, activate, retire and close in any order, with any stale ticket.
THEOREM SlotsSafe == NapSpec => []SlotsAreSound
<1>1. NapIInv => SlotsAreSound
  BY DEF NapIInv, SlotsAreSound
<1> QED
  BY <1>1, NapInvariant, PTL

\* A slot leaves the occupied set only with the retirement of its own ticket or
\* with the close of its own owner (retire of nap_admission_ledger.rs:188-204).
THEOREM VacatedOnlyByTicket == NapSpec => SlotVacatedOnlyByItsTicket
<1>1. ASSUME NapIInv, [NapNext]_napVars, NEW o \in Owners, NEW n \in Nodes,
             n \in Occupied(o) \ Occupied(o)'
      PROVE  \/ SlotTicket(o, n, ledger[o].active[n] + ledger[o].pending[n]) \in retired'
             \/ ledger'[o].closed
  <2>t. NapTypeOK
    BY <1>1 DEF NapIInv
  <2>o. /\ ledger[o].active[n] # 0 \/ ledger[o].pending[n] # 0
        /\ ledger'[o].active[n] = 0 /\ ledger'[o].pending[n] = 0
    BY <1>1 DEF Occupied, Active, Pending
  <2>m. /\ ledger[o].active[n] = 0 \/ ledger[o].pending[n] = 0
        /\ ledger[o].active[n] \in Nat /\ ledger[o].pending[n] \in Nat
    BY <1>1, <2>t, SlotsAsMaps DEF NapIInv, NapTypeOK, Ledger
  <2>s. \A g \in {ledger[o].active[n], ledger[o].pending[n]} \ {0} :
          SlotTicket(o, n, g) \in issued
    BY <1>1 DEF NapIInv, SlotsAreRetirable
  <2>1. ASSUME NEW p \in Owners, NEW net \in Networks, NEW host \in Hosts, New(p, net, host)
        PROVE  FALSE
    <3>a. \E g : SlotTicket(o, n, g) \in issued
      BY <2>o, <2>s
    <3>0. o \in created
      BY <1>1, <3>a DEF NapIInv, TicketsNameTheirOwner, SlotTicket
    <3>1. p # o
      BY <2>1, <3>0 DEF New
    <3> QED
      BY Zenon, <3>1, <2>1, <2>o, <2>t, NewEffect
  <2>2. ASSUME NEW p \in Owners, NEW c \in Nodes \cup {ZeroNode}, Reserve(p, c)
        PROVE  FALSE
    <3>1. c \in Nodes
      BY <2>2 DEF Reserve, Reservable, Admits
    <3> QED
      BY <3>1, <2>2, <2>o, <2>t, ReserveEffect DEF NapTypeOK, Ledger
  <2>3. ASSUME NEW p \in Owners, NEW t \in issued, Activate(p, t)
        PROVE  FALSE
    <3>1. t.generation # 0
      BY <1>1, <2>t DEF NapTypeOK, Ticket, NapIInv, GenerationsAreUnique
    <3> QED
      BY <3>1, <2>3, <2>o, <2>t, ActivateEffect
  <2>4. ASSUME NEW p \in Owners, NEW t \in issued, Retire(p, t)
        PROVE  SlotTicket(o, n, ledger[o].active[n] + ledger[o].pending[n]) \in retired'
    <3>1. p = o /\ n = t.candidate
      BY <2>4, <2>o, <2>t, RetireEffect
    <3>2. t.generation # 0 /\ t.owner = o /\ t.network = network[o] /\ t \in retired'
      BY <1>1, <2>4, <2>t, <3>1
      DEF Retire, Retirable, Owns, NapTypeOK, Ticket, NapIInv, GenerationsAreUnique
    <3>3. ledger[o].active[n] + ledger[o].pending[n] = t.generation
      BY <2>4, <2>t, <2>o, <2>m, <3>1, <3>2, RetireEffect
    <3>4. t = SlotTicket(o, n, t.generation)
      BY <3>1, <3>2, <2>t DEF SlotTicket, NapTypeOK, Ticket
    <3> QED
      BY <3>2, <3>3, <3>4
  <2>5. ASSUME NEW p \in Owners, NEW host \in Hosts, UpdateCapabilities(p, host)
        PROVE  FALSE
    BY <2>5, <2>o, <2>t, UpdateEffect
  <2>6. ASSUME NEW p \in Owners, Close(p)
        PROVE  ledger'[o].closed
    BY Zenon, <2>6, <2>o, <2>t, CloseEffect
  <2>7. CASE UNCHANGED napVars
    BY <2>7, <2>o DEF napVars
  <2> QED
    BY <1>1, <2>1, <2>2, <2>3, <2>4, <2>5, <2>6, <2>7 DEF NapNext
<1>2. NapIInv /\ [NapNext]_napVars =>
        [\A o \in Owners, n \in Nodes :
           LET g == ledger[o].active[n] + ledger[o].pending[n]
           IN n \in Occupied(o) \ Occupied(o)'
                => SlotTicket(o, n, g) \in retired' \/ ledger[o].closed']_napVars
  BY <1>1
<1> QED
  BY <1>2, NapInvariant, PTL DEF NapSpec, SlotVacatedOnlyByItsTicket

\* A peer gets or keeps a slot only while the current capability snapshot
\* allows it, and never beyond its ceiling (plan_nap_client_admission as
\* called by reserve and, again, by activate).
THEOREM AdmissionWithinPolicy == NapSpec => AdmissionRespectsPolicy
<1>1. ASSUME NapIInv, [NapNext]_napVars, NEW o \in Owners,
             Occupied(o)' \ Occupied(o) # {} \/ Active(o)' \ Active(o) # {}
      PROVE  WithinPolicy(o)
  <2>t. NapTypeOK
    BY <1>1 DEF NapIInv
  <2>f. IsFiniteSet(Occupied(o)) /\ Cardinality(Occupied(o)) \in Nat
    <3>1. Occupied(o) \subseteq Nodes
      BY DEF Occupied, Active, Pending
    <3> QED
      BY <3>1, NapConstants, FS_Subset, FS_CardinalityType
  <2>h. ledger[o].host.ceiling \in Nat \cup {UnknownCeiling}
    BY <2>t DEF NapTypeOK, Ledger, Capabilities
  \* Some peer becomes occupied or active.
  <2>n. \E n \in Nodes :
          \/ /\ ledger[o].active[n] = 0 /\ ledger[o].pending[n] = 0
             /\ ledger'[o].active[n] # 0 \/ ledger'[o].pending[n] # 0
          \/ ledger[o].active[n] = 0 /\ ledger'[o].active[n] # 0
    BY <1>1 DEF Occupied, Active, Pending
  <2>1. ASSUME NEW p \in Owners, NEW net \in Networks, NEW host \in Hosts, New(p, net, host)
        PROVE  FALSE
    <3>1. \A n \in Nodes : \/ ledger'[o].active[n] = 0 /\ ledger'[o].pending[n] = 0
                           \/ /\ ledger'[o].active[n] = ledger[o].active[n]
                              /\ ledger'[o].pending[n] = ledger[o].pending[n]
      BY Zenon, <2>1, <2>t, NewEffect
    <3> QED
      BY <2>n, <3>1
  <2>2. ASSUME NEW p \in Owners, NEW c \in Nodes \cup {ZeroNode}, Reserve(p, c)
        PROVE  WithinPolicy(o)
    <3>1. c \in Nodes
      BY <2>2 DEF Reserve, Reservable, Admits
    <3>e. \A n \in Nodes :
            /\ ledger'[o].active[n] = ledger[o].active[n]
            /\ p = o /\ n = c => ledger'[o].pending[n] # 0
            /\ ~(p = o /\ n = c) => ledger'[o].pending[n] = ledger[o].pending[n]
      BY <2>2, <3>1, <2>t, ReserveEffect DEF NapTypeOK, Ledger
    <3>2. p = o
      BY <2>n, <3>e
    <3>3. Occupied(o)' = Occupied(o) \cup {c}
      BY <3>1, <3>2, <3>e DEF Occupied, Active, Pending
    <3>4. /\ c \notin Occupied(o) /\ Admits(o, c) /\ ~ledger[o].closed
      BY <2>2, <3>2 DEF Reserve, Reservable, Occupied
    <3>5. Cardinality(Occupied(o)') = Cardinality(Occupied(o)) + 1
      BY Zenon, <3>3, <3>4, <2>f, FS_AddElement
    <3> QED
      BY <3>4, <3>5, <2>f, <2>h DEF WithinPolicy, Admits
  <2>3. ASSUME NEW p \in Owners, NEW t \in issued, Activate(p, t)
        PROVE  WithinPolicy(o)
    <3>1. t.candidate \in Nodes /\ t.generation # 0
      BY <1>1, <2>t DEF NapTypeOK, Ticket, NapIInv, GenerationsAreUnique
    <3>e. \A n \in Nodes :
            /\ p = o /\ n = t.candidate =>
                 ledger'[o].active[n] # 0 /\ ledger'[o].pending[n] = 0
            /\ ~(p = o /\ n = t.candidate) =>
                 /\ ledger'[o].active[n] = ledger[o].active[n]
                 /\ ledger'[o].pending[n] = ledger[o].pending[n]
      BY <2>3, <3>1, <2>t, ActivateEffect
    <3>2. p = o
      BY <2>n, <3>e
    <3>3. /\ ledger[o].pending[t.candidate] # 0 /\ Admits(o, t.candidate) /\ ~ledger[o].closed
      BY <2>3, <3>1, <3>2 DEF Activate, Activatable
    <3>4. Occupied(o)' = Occupied(o)
      BY <3>1, <3>2, <3>3, <3>e DEF Occupied, Active, Pending
    <3> QED
      BY <3>3, <3>4, <2>f, <2>h DEF WithinPolicy, Admits
  <2>4. ASSUME NEW p \in Owners, NEW t \in issued, Retire(p, t)
        PROVE  FALSE
    BY <2>4, <2>n, <2>t, RetireEffect
  <2>5. ASSUME NEW p \in Owners, NEW host \in Hosts, UpdateCapabilities(p, host)
        PROVE  FALSE
    BY <2>5, <2>n, <2>t, UpdateEffect
  <2>6. ASSUME NEW p \in Owners, Close(p)
        PROVE  FALSE
    BY Zenon, <2>6, <2>n, <2>t, CloseEffect
  <2>7. CASE UNCHANGED napVars
    BY <2>7, <2>n DEF napVars
  <2> QED
    BY <1>1, <2>1, <2>2, <2>3, <2>4, <2>5, <2>6, <2>7 DEF NapNext
<1>2. NapIInv /\ [NapNext]_napVars =>
        [\A o \in Owners :
           Occupied(o)' \ Occupied(o) # {} \/ Active(o)' \ Active(o) # {}
             => WithinPolicy(o)]_napVars
  BY <1>1
<1> QED
  BY <1>2, NapInvariant, PTL DEF NapSpec, AdmissionRespectsPolicy

-----------------------------------------------------------------------------
\* Proof that session owners keep their slots, for any number of sessions.

\* A ticket that was issued and not retired holds its slot, unless its owner was
\* closed.
UnretiredHold ==
  \A t \in issued \ retired : Retirable(t.owner, t) \/ ledger[t.owner].closed

OwnTyped ==
  /\ ownPc \in [Sessions -> Points]
  /\ ownSocket \in [Sessions -> BOOLEAN]
  /\ registry \in [Nodes -> Sessions \cup {NoOwner}]
  /\ approvedPeers \subseteq Nodes /\ links \subseteq Nodes
  /\ leased \in [Sessions -> SUBSET Ticket]
  /\ ticketOf \in [Sessions -> SUBSET Ticket]
  /\ attached \in [Sessions -> BOOLEAN]
  /\ kept \subseteq issued
  /\ holder \in [Nodes -> Sessions \cup {NoOwner}]
  /\ detaches \subseteq Sessions /\ echoes \subseteq Sessions

\* A session has one ticket at most.  Until it is retired or its NAP closed, the
\* lease or the daemon's copy has it, never both; and an event that comes again
\* finds nothing to detach.
SessionOK(s) ==
  /\ ticketOf[s] \subseteq issued
  /\ \A t, u \in ticketOf[s] : t = u
  /\ leased[s] \subseteq ticketOf[s] \ (retired \cup kept)
  /\ ownPc[s] \in {"authenticated", "registered", "rechecked"} => ticketOf[s] = {} /\ ~attached[s]
  /\ ticketOf[s] \cap kept # {} => ownPc[s] = "dropped"
  /\ \A t \in ticketOf[s] : t \in leased[s] \cup kept \cup retired \/ ledger[t.owner].closed
  /\ s \in echoes => \/ ownPc[s] = "dropped"
                     \/ ownPc[s] = "owned" /\ ~ownSocket[s] /\ ~attached[s]

\* The session that observed the link of p is attached, has its ticket, and its
\* detach event is still to come.
LinkOK(p) ==
  holder[p] # NoOwner =>
    /\ PeerOf(holder[p]) = p /\ holder[p] \notin detaches /\ attached[holder[p]]
    /\ ticketOf[holder[p]] # {} /\ ticketOf[holder[p]] \cap retired = {}

TicketsDiffer ==
  \A s, r \in Sessions : s # r => ticketOf[s] \cap ticketOf[r] = {}

\* The inductive invariant of the owners.
OwnIInv ==
  /\ NapIInv /\ UnretiredHold /\ OwnTyped /\ OpenSocketIsRegistered
  /\ \A s \in Sessions : SessionOK(s)
  /\ TicketsDiffer
  /\ \A p \in Nodes : LinkOK(p)

\* A slot that can be retired belongs to a ticket that was not: no slot is given
\* back twice.
LEMMA HeldIsUnretired ==
  ASSUME NapIInv, NEW t \in issued, Retirable(t.owner, t)
  PROVE  t \notin retired /\ ~ledger[t.owner].closed
<1>1. t \in Ticket /\ t.generation # 0 /\ t.owner \in Owners /\ t.candidate \in Nodes
  BY DEF NapIInv, NapTypeOK, Ticket, GenerationsAreUnique
<1>2. t.generation \in {ledger[t.owner].active[t.candidate], ledger[t.owner].pending[t.candidate]} \ {0}
  BY <1>1 DEF Retirable
<1>3. SlotTicket(t.owner, t.candidate, t.generation) = t
  BY <1>1 DEF Retirable, Owns, SlotTicket, Ticket
<1>4. t \notin retired
  BY <1>1, <1>2, <1>3 DEF NapIInv, SlotsAreRetirable
<1>5. ~ledger[t.owner].closed
  BY <1>1, <1>2, SlotsAsMaps DEF NapIInv
<1> QED BY <1>4, <1>5

\* Two retirable tickets of one owner are one or have different generations; so
\* an operation on one slot leaves the others, and a close is for good.
LEMMA LedgerStep ==
  ASSUME NapIInv, UnretiredHold, [NapNext]_napVars
  PROVE  /\ NapIInv' /\ UnretiredHold' /\ issued \subseteq issued'
         /\ \A t \in issued : ledger[t.owner].closed => ledger'[t.owner].closed
<1>t. NapIInv' /\ NapTypeOK /\ NapTypeOK'
  BY NapStepInv DEF NapIInv
<1>i. \A t \in issued : /\ t \in Ticket /\ t.owner \in created /\ t.generation # 0 /\ t.generation \in Nat
                        /\ t.owner \in Owners /\ t.candidate \in Nodes /\ t.network = network[t.owner]
  BY <1>t DEF NapIInv, NapTypeOK, Ticket, GenerationsAreUnique, TicketsNameTheirOwner
<1>h. \A t \in issued \ retired :
        \/ ledger[t.owner].closed
        \/ t.generation \in {ledger[t.owner].pending[t.candidate], ledger[t.owner].active[t.candidate]}
  BY DEF UnretiredHold, Retirable
<1>m. \A o \in Owners, n \in Nodes : ledger[o].active[n] = 0 \/ ledger[o].pending[n] = 0
  BY SlotsAsMaps DEF NapIInv
\* It is enough to follow the issued tickets and to look at a new one.
<1>q. ASSUME issued \subseteq issued', created \subseteq created', retired \subseteq retired',
             \A t \in issued : network'[t.owner] = network[t.owner],
             \A t \in issued : ledger[t.owner].closed => ledger'[t.owner].closed,
             \A t \in issued \ retired' :
               ~ledger[t.owner].closed =>
                 \/ ledger'[t.owner].closed
                 \/ t.generation \in {ledger'[t.owner].pending[t.candidate], ledger'[t.owner].active[t.candidate]},
             \A t \in issued' \ issued : Retirable(t.owner, t)'
      PROVE  /\ UnretiredHold' /\ issued \subseteq issued'
             /\ \A t \in issued : ledger[t.owner].closed => ledger'[t.owner].closed
  <2>1. ASSUME NEW t \in issued' \ retired'
        PROVE  Retirable(t.owner, t)' \/ ledger'[t.owner].closed
    <3>1. CASE t \in issued' \ issued
      BY <3>1, <1>q
    <3>2. CASE t \in issued /\ ledger[t.owner].closed
      BY <3>2, <1>q
    <3>3. CASE t \in issued /\ ~ledger[t.owner].closed
      BY <2>1, <3>3, <1>q, <1>i DEF Retirable, Owns
    <3> QED BY <2>1, <3>1, <3>2, <3>3
  <2> QED BY <1>q, <2>1 DEF UnretiredHold
<1>1. ASSUME NEW o \in Owners, NEW net \in Networks, NEW host \in Hosts, New(o, net, host)
      PROVE  /\ UnretiredHold' /\ issued \subseteq issued'
             /\ \A t \in issued : ledger[t.owner].closed => ledger'[t.owner].closed
  <2>1. \A t \in issued : t.owner # o
    BY <1>1, <1>i DEF New
  <2>2. \A t \in issued : ledger'[t.owner] = ledger[t.owner] /\ network'[t.owner] = network[t.owner]
    BY <1>1, <1>i, <1>t, <2>1 DEF New, NapTypeOK
  <2>3. issued' = issued /\ retired' = retired /\ created \subseteq created'
    BY <1>1 DEF New
  <2> QED BY <1>h, <1>q, <2>2, <2>3
<1>2. ASSUME NEW o \in Owners, NEW c \in Nodes \cup {ZeroNode}, Reserve(o, c)
      PROVE  /\ UnretiredHold' /\ issued \subseteq issued'
             /\ \A t \in issued : ledger[t.owner].closed => ledger'[t.owner].closed
  <2>1. c \in Nodes /\ o \in created
    BY <1>2 DEF Reserve, Reservable, Admits
  <2>2. ledger[o].active[c] = 0 /\ ledger[o].pending[c] = 0
    BY <1>2, <2>1 DEF Reserve, Reservable, Active, Pending
  <2>3. /\ issued' = issued \cup {SlotTicket(o, c, ledger[o].next + 1)}
        /\ retired' = retired /\ created' = created /\ network' = network
    BY <1>2 DEF Reserve, SlotTicket
  <2>4. ASSUME NEW u, u = SlotTicket(o, c, ledger[o].next + 1)
        PROVE  Retirable(u.owner, u)'
    <3>1. u.owner = o /\ u.network = network[o] /\ u.candidate = c /\ u.generation = ledger[o].next + 1
      BY <2>4 DEF SlotTicket
    <3> QED BY <1>2, <1>t, <2>1, <2>3, <3>1, ReserveEffect DEF Retirable, Owns
  <2>5. \A t \in issued' \ issued : Retirable(t.owner, t)'
    BY <2>3, <2>4
  <2>6. \A t \in issued \ retired' : ~ledger[t.owner].closed =>
          t.generation \in {ledger'[t.owner].pending[t.candidate], ledger'[t.owner].active[t.candidate]}
    BY <1>2, <1>h, <1>i, <1>t, <2>1, <2>2, <2>3, ReserveEffect
  <2>7. \A t \in issued : ledger[t.owner].closed => ledger'[t.owner].closed
    BY <1>2, <1>i, <1>t, <2>1, ReserveEffect
  <2> QED BY <1>q, <2>3, <2>5, <2>6, <2>7
<1>3. ASSUME NEW o \in Owners, NEW u \in issued, Activate(o, u)
      PROVE  /\ UnretiredHold' /\ issued \subseteq issued'
             /\ \A t \in issued : ledger[t.owner].closed => ledger'[t.owner].closed
  <2>1. UNCHANGED <<network, created, issued, retired>> /\ ledger[o].pending[u.candidate] = u.generation
    BY <1>3 DEF Activate, Activatable
  <2>2. \A t \in issued \ retired' : ~ledger[t.owner].closed =>
          t.generation \in {ledger'[t.owner].pending[t.candidate], ledger'[t.owner].active[t.candidate]}
    BY <1>3, <1>h, <1>i, <1>m, <1>t, <2>1, ActivateEffect
  <2>3. \A t \in issued : ledger[t.owner].closed => ledger'[t.owner].closed
    BY <1>3, <1>i, <1>t, ActivateEffect
  <2> QED BY <1>q, <2>1, <2>2, <2>3
<1>4. ASSUME NEW o \in Owners, NEW u \in issued, Retire(o, u)
      PROVE  /\ UnretiredHold' /\ issued \subseteq issued'
             /\ \A t \in issued : ledger[t.owner].closed => ledger'[t.owner].closed
  <2>1. UNCHANGED <<network, created, issued>> /\ retired' = retired \cup {u} /\ u.owner = o
    BY <1>4 DEF Retire, Retirable, Owns
  <2>2. \A t \in issued \ {u} : t.owner = o => t.generation # u.generation
    BY <2>1 DEF NapIInv, GenerationsAreUnique
  <2>3. \A t \in issued \ retired' : ~ledger[t.owner].closed =>
          t.generation \in {ledger'[t.owner].pending[t.candidate], ledger'[t.owner].active[t.candidate]}
    BY <1>4, <1>h, <1>i, <1>t, <2>1, <2>2, RetireEffect
  <2>4. \A t \in issued : ledger[t.owner].closed => ledger'[t.owner].closed
    BY <1>4, <1>i, <1>t, RetireEffect
  <2> QED BY <1>q, <2>1, <2>3, <2>4
<1>5. ASSUME NEW o \in Owners, NEW host \in Hosts, UpdateCapabilities(o, host)
      PROVE  /\ UnretiredHold' /\ issued \subseteq issued'
             /\ \A t \in issued : ledger[t.owner].closed => ledger'[t.owner].closed
  <2>1. UNCHANGED <<network, created, issued, retired>>
    BY <1>5 DEF UpdateCapabilities
  <2> QED BY <1>5, <1>h, <1>i, <1>q, <1>t, <2>1, UpdateEffect
<1>6. ASSUME NEW o \in Owners, Close(o)
      PROVE  /\ UnretiredHold' /\ issued \subseteq issued'
             /\ \A t \in issued : ledger[t.owner].closed => ledger'[t.owner].closed
  <2>1. UNCHANGED <<network, created, issued, retired>>
    BY <1>6 DEF Close
  <2>2. \A t \in issued : t.owner # o =>
          /\ ledger'[t.owner].active[t.candidate] = ledger[t.owner].active[t.candidate]
          /\ ledger'[t.owner].pending[t.candidate] = ledger[t.owner].pending[t.candidate]
          /\ ledger'[t.owner].closed = ledger[t.owner].closed
    BY Zenon, <1>6, <1>i, <1>t, CloseEffect
  <2>3. ledger'[o].closed
    BY Zenon, <1>6, <1>t, CloseEffect
  <2> QED BY <1>h, <1>q, <2>1, <2>2, <2>3
<1>7. CASE UNCHANGED napVars
  BY <1>t, <1>h, <1>q, <1>7 DEF napVars
<1> QED
  BY <1>t, <1>1, <1>2, <1>3, <1>4, <1>5, <1>6, <1>7 DEF NapNext

-----------------------------------------------------------------------------
\* One session moves: the others, and the tickets of the others, stay.
Alone(s) ==
  /\ \A t \in issued \ ticketOf[s] : (t \in kept' <=> t \in kept) /\ (t \in retired' <=> t \in retired)
  /\ \A t \in ticketOf'[s] : t \in ticketOf[s] \/ t \notin issued
  /\ \A r \in Sessions \ {s} :
       /\ ownPc'[r] = ownPc[r] /\ ownSocket'[r] = ownSocket[r] /\ leased'[r] = leased[r]
       /\ attached'[r] = attached[r] /\ ticketOf'[r] = ticketOf[r] /\ (r \in echoes' <=> r \in echoes)

\* A step that leaves the other sessions and their tickets alone keeps what holds of them.
LEMMA OthersRest ==
  ASSUME OwnIInv, [NapNext]_napVars, NEW s \in Sessions, Alone(s), SessionOK(s)'
  PROVE  (\A r \in Sessions : SessionOK(r)') /\ TicketsDiffer'
<1>1. /\ issued \subseteq issued'
      /\ \A t \in issued : ledger[t.owner].closed => ledger'[t.owner].closed
  BY LedgerStep DEF OwnIInv
<1>2. ASSUME NEW r \in Sessions \ {s} PROVE SessionOK(r)'
  <2>1. \A t \in ticketOf[r] : t \in issued \ ticketOf[s]
    BY DEF OwnIInv, SessionOK, TicketsDiffer
  <2>2. SessionOK(r)
    BY DEF OwnIInv
  <2>3. \A t \in ticketOf[r] : (t \in kept' <=> t \in kept) /\ (t \in retired' <=> t \in retired)
    BY <2>1 DEF Alone
  <2>4. /\ ownPc'[r] = ownPc[r] /\ ownSocket'[r] = ownSocket[r] /\ leased'[r] = leased[r]
        /\ attached'[r] = attached[r] /\ ticketOf'[r] = ticketOf[r] /\ (r \in echoes' <=> r \in echoes)
    BY DEF Alone
  <2> QED BY <1>1, <2>1, <2>2, <2>3, <2>4 DEF SessionOK
<1>3. TicketsDiffer'
  <2>1. \A r \in Sessions \ {s} : ticketOf'[r] = ticketOf[r] /\ ticketOf[r] \subseteq issued
    BY DEF Alone, OwnIInv, SessionOK
  <2> QED BY <2>1 DEF Alone, OwnIInv, TicketsDiffer
<1> QED BY <1>2, <1>3

\* A link that another session observed keeps its cover.
LEMMA OtherLinksRest ==
  ASSUME OwnIInv, NEW s \in Sessions, Alone(s), NEW p \in Nodes,
         holder'[p] = holder[p], holder[p] # s, detaches' \subseteq detaches
  PROVE  LinkOK(p)'
<1> SUFFICES ASSUME holder[p] # NoOwner PROVE LinkOK(p)'
  BY DEF LinkOK
<1>1. holder[p] \in Sessions \ {s}
  BY DEF OwnIInv, OwnTyped
<1>2. LinkOK(p) /\ SessionOK(holder[p])
  BY <1>1 DEF OwnIInv
<1>3. attached'[holder[p]] = attached[holder[p]] /\ ticketOf'[holder[p]] = ticketOf[holder[p]]
  BY <1>1 DEF Alone
<1>4. \A t \in ticketOf[holder[p]] : t \in issued \ ticketOf[s]
  BY <1>1, <1>2 DEF OwnIInv, SessionOK, TicketsDiffer
<1>5. ticketOf[holder[p]] \cap retired' = {}
  BY <1>2, <1>4 DEF Alone, LinkOK
<1> QED BY <1>2, <1>3, <1>5 DEF LinkOK

\* What a method of session s has to restore when it leaves registry and links.
LEMMA SessionMoves ==
  ASSUME OwnIInv, NEW s \in Sessions, [NapNext]_napVars, OwnTyped', Alone(s), SessionOK(s)',
         registry' = registry, holder' = holder, detaches' \subseteq detaches,
         ownPc'[s] # "authenticated" /\ ownSocket'[s] => ownPc[s] # "authenticated" /\ ownSocket[s],
         \A p \in Nodes : holder[p] = s => LinkOK(p)'
  PROVE  OwnIInv'
<1>1. NapIInv' /\ UnretiredHold'
  BY LedgerStep DEF OwnIInv
<1>2. (\A r \in Sessions : SessionOK(r)') /\ TicketsDiffer'
  BY OthersRest
<1>3. \A p \in Nodes : LinkOK(p)'
  BY OtherLinksRest
<1>4. OpenSocketIsRegistered'
  BY DEF Alone, OwnIInv, OpenSocketIsRegistered, Registered
<1> QED BY <1>1, <1>2, <1>3, <1>4 DEF OwnIInv

\* reserve rechecks the registration, and drops the session when it fails.
LEMMA RecheckKeeps ==
  ASSUME OwnIInv, NEW s \in Sessions, RecheckForReserve(s)
  PROVE  OwnIInv'
<1> USE DEF RecheckForReserve, At, CloseSocket, panuVars, napVars
<1>1. OwnTyped'
  BY Zenon DEF OwnIInv, OwnTyped, Points
<1>2. Alone(s)
  BY DEF Alone, OwnIInv, OwnTyped
<1>3. SessionOK(s)'
  BY DEF OwnIInv, OwnTyped, SessionOK
<1>4. \A p \in Nodes : holder[p] = s => LinkOK(p)'
  BY DEF OwnIInv, LinkOK
<1>5. ownPc[s] # "authenticated" /\ (ownSocket'[s] => ownSocket[s])
  BY DEF OwnIInv, OwnTyped
<1> QED BY <1>1, <1>2, <1>3, <1>4, <1>5, SessionMoves

\* A socket may be lost at any time.
LEMMA LoseKeeps ==
  ASSUME OwnIInv, NEW s \in Sessions, LoseTransport(s) \/ OnTransportLoss(s)
  PROVE  OwnIInv'
<1> USE DEF LoseTransport, OnTransportLoss, At, CloseSocket, panuVars, napVars
<1>1. OwnTyped'
  BY Zenon DEF OwnIInv, OwnTyped, Points
<1>2. Alone(s)
  BY DEF Alone, OwnIInv, OwnTyped
<1>3. SessionOK(s)'
  BY DEF OwnIInv, OwnTyped, SessionOK
<1>4. \A p \in Nodes : holder[p] = s => LinkOK(p)'
  BY DEF OwnIInv, LinkOK
<1>5. ~ownSocket'[s] /\ UNCHANGED <<registry, holder, detaches>> /\ UNCHANGED napVars
  BY DEF OwnIInv, OwnTyped
<1> QED BY <1>1, <1>2, <1>3, <1>4, <1>5, SessionMoves

\* reserve takes a fresh ticket, which becomes the lease, or drops the session.
LEMMA ReserveKeeps ==
  ASSUME OwnIInv, NEW s \in Sessions, NEW o \in Owners, ReserveSlot(s, o)
  PROVE  OwnIInv'
<1>0. PeerOf(s) \in Nodes /\ ownPc[s] = "rechecked" /\ ticketOf[s] = {} /\ ~attached[s] /\ s \notin echoes
  BY OwnerConstants DEF ReserveSlot, At, OwnIInv, SessionOK
<1>h. \A p \in Nodes : holder[p] # s
  BY SMTT(20), <1>0, OwnerConstants DEF OwnIInv, LinkOK
<1>1. CASE Reserve(o, PeerOf(s)) /\ leased' = [leased EXCEPT ![s] = issued' \ issued]
           /\ ticketOf' = [ticketOf EXCEPT ![s] = issued' \ issued]
           /\ ownPc' = [ownPc EXCEPT ![s] = "owned"] /\ ownSocket' = ownSocket
  <2>t. NapTypeOK /\ NapTypeOK' /\ GenerationsAreUnique
    BY <1>1, <1>0, NapTypeStep DEF NapNext, OwnIInv, NapIInv
  <2> DEFINE t == SlotTicket(o, PeerOf(s), ledger[o].next + 1)
  <2>1. issued' = issued \cup {t} /\ retired' = retired /\ ledger[o].next \in Nat
    BY SMTT(20), <1>1, <2>t DEF Reserve, SlotTicket, NapTypeOK, Ledger
  <2>2. t \notin issued
    BY SMTT(20), <2>t, <2>1 DEF GenerationsAreUnique, SlotTicket
  <2>3. issued' \ issued = {t} /\ t \in Ticket /\ t \notin retired /\ t \notin kept
    BY <2>1, <2>2, <2>t DEF NapTypeOK, OwnIInv, OwnTyped
  <2> HIDE DEF t
  <2>4. /\ UNCHANGED <<registry, approvedPeers, attached, kept, links, holder, detaches, echoes>>
    BY DEF ReserveSlot, panuVars
  <2>5. OwnTyped'
    BY <1>1, <2>1, <2>3, <2>4 DEF OwnIInv, OwnTyped, Points
  <2>6. Alone(s)
    BY <1>1, <2>1, <2>3, <2>4 DEF Alone, OwnIInv, OwnTyped
  <2>7. SessionOK(s)'
    <3>1. ticketOf'[s] = {t} /\ leased'[s] = {t} /\ ownPc'[s] = "owned"
      BY <1>1, <2>3 DEF OwnIInv, OwnTyped
    <3> QED BY <1>0, <2>1, <2>3, <2>4, <3>1 DEF SessionOK
  <2>8. [NapNext]_napVars
    BY SMTT(20), <1>0, <1>1 DEF NapNext
  <2> QED BY Zenon, <1>0, <1>1, <1>h, <2>4, <2>5, <2>6, <2>7, <2>8, SessionMoves DEF OwnIInv, OwnTyped
<1>2. CASE CloseSocket(s) /\ ownPc' = [ownPc EXCEPT ![s] = "dropped"]
           /\ UNCHANGED <<leased, ticketOf, napVars>>
  <2> USE <1>2 DEF ReserveSlot, CloseSocket, panuVars, napVars
  <2>1. OwnTyped'
    BY DEF OwnIInv, OwnTyped, Points
  <2>2. Alone(s)
    BY SMTT(20) DEF Alone, OwnIInv, OwnTyped
  <2>3. SessionOK(s)'
    BY SMTT(20) DEF OwnIInv, OwnTyped, SessionOK
  <2> QED BY Zenon, <1>h, <2>1, <2>2, <2>3, SessionMoves DEF OwnIInv, OwnTyped
<1> QED BY <1>1, <1>2 DEF ReserveSlot

\* activate turns the slot active, or closes the socket.
LEMMA ActivateKeeps ==
  ASSUME OwnIInv, NEW s \in Sessions, ActivateSlot(s)
  PROVE  OwnIInv'
<1>1. PICK t \in leased[s] :
        \/ Activate(t.owner, t) /\ UNCHANGED ownSocket
        \/ CloseSocket(s) /\ UNCHANGED napVars
  BY SMTT(20) DEF ActivateSlot
<1>2. t \in issued /\ t.owner \in Owners
  <2>1. SessionOK(s) /\ issued \subseteq Ticket
    BY Zenon DEF OwnIInv, NapIInv, NapTypeOK
  <2>2. t \in issued
    BY <2>1 DEF SessionOK
  <2> QED BY <2>1, <2>2 DEF Ticket
<1>3. [NapNext]_napVars
  BY Zenon, <1>1, <1>2 DEF NapNext
<1>4. UNCHANGED <<issued, retired>>
  BY <1>1 DEF Activate, napVars
<1>5. /\ ownPc[s] = "activating" /\ ownPc' = [ownPc EXCEPT ![s] = "owned"]
      /\ UNCHANGED <<registry, approvedPeers, leased, attached, kept, ticketOf, links, holder, detaches, echoes>>
      /\ ownSocket' = ownSocket \/ ownSocket' = [ownSocket EXCEPT ![s] = FALSE]
  BY <1>1 DEF ActivateSlot, panuVars, CloseSocket
<1>6. OwnTyped'
  BY Zenon, <1>4, <1>5 DEF OwnIInv, OwnTyped, Points
<1>7. Alone(s)
  BY <1>4, <1>5 DEF Alone, OwnIInv, OwnTyped
<1>8. SessionOK(s)'
  <2>1. SessionOK(s) /\ ownPc'[s] = "owned" /\ \A u \in issued : ledger[u.owner].closed => ledger'[u.owner].closed
    BY <1>3, <1>5, LedgerStep DEF OwnIInv, OwnTyped
  <2> QED BY <1>4, <1>5, <2>1 DEF SessionOK
<1>9. \A p \in Nodes : holder[p] = s => LinkOK(p)'
  BY <1>4, <1>5 DEF OwnIInv, LinkOK
<1> QED BY Zenon, <1>3, <1>5, <1>6, <1>7, <1>8, <1>9, SessionMoves DEF OwnIInv, OwnTyped

\* The retirement of one ticket, or a refusal because its NAP was closed.
LEMMA RetirementOf ==
  ASSUME OwnIInv, NEW t \in issued,
         Retire(t.owner, t) \/ (~Retirable(t.owner, t) /\ UNCHANGED napVars)
  PROVE  /\ [NapNext]_napVars /\ issued' = issued
         /\ retired' = retired \cup {t} \/ (retired' = retired /\ (t \in retired \/ ledger'[t.owner].closed))
         /\ \A u \in issued : ledger[u.owner].closed => ledger'[u.owner].closed
<1>1. t.owner \in Owners
  BY DEF OwnIInv, NapIInv, NapTypeOK, Ticket
<1>2. [NapNext]_napVars
  BY <1>1 DEF NapNext
<1>3. issued' = issued
  BY DEF Retire, napVars
<1>4. retired' = retired \cup {t} \/ (retired' = retired /\ (t \in retired \/ ledger'[t.owner].closed))
  BY DEF Retire, napVars, OwnIInv, UnretiredHold
<1>5. \A u \in issued : ledger[u.owner].closed => ledger'[u.owner].closed
  BY <1>2, LedgerStep DEF OwnIInv
<1> QED BY <1>2, <1>3, <1>4, <1>5

\* A lease that no link was observed for is retired when it is dropped.
LEMMA DropLeaseKeeps ==
  ASSUME OwnIInv, NEW s \in Sessions, DropLease(s)
  PROVE  OwnIInv'
<1>1. PICK t \in leased[s] : Retire(t.owner, t) \/ (~Retirable(t.owner, t) /\ UNCHANGED napVars)
  BY SMTT(20) DEF DropLease
<1>2. t \in issued /\ t \in ticketOf[s] /\ t \notin kept /\ t \notin retired /\ \A u \in ticketOf[s] : u = t
  BY SMTT(20) DEF OwnIInv, SessionOK
<1>3. /\ ~ownSocket[s] /\ ~attached[s] /\ leased' = [leased EXCEPT ![s] = {}]
      /\ UNCHANGED <<ownPc, ownSocket, registry, approvedPeers, attached, kept, ticketOf, links, holder, detaches, echoes>>
  BY Zenon DEF DropLease, panuVars
<1>4. /\ [NapNext]_napVars /\ issued' = issued
      /\ retired' = retired \cup {t} \/ (retired' = retired /\ ledger'[t.owner].closed)
      /\ \A u \in issued : ledger[u.owner].closed => ledger'[u.owner].closed
  BY <1>1, <1>2, RetirementOf
<1>5. OwnTyped'
  BY <1>3, <1>4 DEF OwnIInv, OwnTyped
<1>6. Alone(s)
  BY <1>2, <1>3, <1>4 DEF Alone, OwnIInv, OwnTyped
<1>7. SessionOK(s)'
  <2>1. SessionOK(s) /\ leased'[s] = {}
    BY <1>3 DEF OwnIInv, OwnTyped
  <2> QED BY <1>2, <1>3, <1>4, <2>1 DEF SessionOK
<1>8. \A p \in Nodes : holder[p] # s
  BY <1>3, OwnerConstants DEF OwnIInv, LinkOK
<1> QED BY <1>3, <1>4, <1>5, <1>6, <1>7, <1>8, SessionMoves

\* The daemon retires a ticket that it kept.
LEMMA RetireKeptKeeps ==
  ASSUME OwnIInv, NEW s \in Sessions, RetireKept(s)
  PROVE  OwnIInv'
<1>1. PICK t \in kept \cap ticketOf[s] :
        /\ Retire(t.owner, t) \/ (~Retirable(t.owner, t) /\ UNCHANGED napVars)
        /\ kept' = kept \ {t}
  BY DEF RetireKept
<1>2. t \in issued /\ (\A u \in ticketOf[s] : u = t) /\ leased[s] = {} /\ ownPc[s] = "dropped"
  BY DEF OwnIInv, SessionOK
<1>3. /\ s \in detaches /\ detaches' = detaches \ {s} /\ echoes' = echoes \cup {s}
      /\ UNCHANGED <<ownPc, ownSocket, registry, approvedPeers, leased, attached, ticketOf, links, holder>>
  BY DEF RetireKept
<1>4. /\ [NapNext]_napVars /\ issued' = issued
      /\ retired' = retired \cup {t} \/ (retired' = retired /\ (t \in retired \/ ledger'[t.owner].closed))
      /\ \A u \in issued : ledger[u.owner].closed => ledger'[u.owner].closed
  BY SMTT(20), <1>1, <1>2, RetirementOf
<1>5. OwnTyped'
  BY SMTT(20), <1>1, <1>3, <1>4 DEF OwnIInv, OwnTyped
<1>6. Alone(s)
  BY <1>1, <1>2, <1>3, <1>4 DEF Alone, OwnIInv, OwnTyped
<1>7. SessionOK(s)'
  <2>1. SessionOK(s)
    BY DEF OwnIInv
  <2> QED BY <1>1, <1>2, <1>3, <1>4, <2>1 DEF SessionOK
<1>8. \A p \in Nodes : holder[p] # s
  BY <1>3, OwnerConstants DEF OwnIInv, LinkOK
<1> QED BY <1>3, <1>4, <1>5, <1>6, <1>7, <1>8, SessionMoves

\* The owner goes away, and leaves an attached lease with the daemon.
LEMMA DropOwnerKeeps ==
  ASSUME OwnIInv, NEW s \in Sessions, DropOwner(s)
  PROVE  OwnIInv'
<1>1. /\ ownPc[s] = "owned" /\ ownPc' = [ownPc EXCEPT ![s] = "dropped"]
      /\ ownSocket' = [ownSocket EXCEPT ![s] = FALSE]
      /\ \/ kept' = kept \cup leased[s] /\ leased' = [leased EXCEPT ![s] = {}]
         \/ kept' = kept /\ leased' = leased
      /\ UNCHANGED <<registry, approvedPeers, attached, ticketOf, links, holder, detaches, echoes>>
      /\ UNCHANGED napVars
  BY DEF DropOwner, At, CloseSocket, panuVars
<1>2. UNCHANGED <<issued, retired, ledger>>
  BY SMTT(20), <1>1 DEF napVars
<1>3. leased[s] \subseteq ticketOf[s] /\ ticketOf[s] \subseteq issued
  BY DEF OwnIInv, SessionOK
<1>4. OwnTyped'
  BY <1>1, <1>2, <1>3 DEF OwnIInv, OwnTyped, Points
<1>5. Alone(s)
  BY <1>1, <1>2, <1>3 DEF Alone, OwnIInv, OwnTyped
<1>6. SessionOK(s)'
  <2>1. SessionOK(s) /\ ownPc'[s] = "dropped"
    BY <1>1 DEF OwnIInv, OwnTyped
  <2>2. \/ leased'[s] = {} /\ kept' = kept \cup leased[s]
        \/ leased'[s] = leased[s] /\ kept' = kept
    BY <1>1 DEF OwnIInv, OwnTyped
  <2> QED BY <1>1, <1>2, <2>1, <2>2 DEF SessionOK
<1>7. \A p \in Nodes : holder[p] = s => LinkOK(p)'
  BY <1>1, <1>2 DEF OwnIInv, LinkOK
<1>8. ~ownSocket'[s]
  BY <1>1 DEF OwnIInv, OwnTyped
<1> QED BY <1>1, <1>4, <1>5, <1>6, <1>7, <1>8, SessionMoves

\* A detach event retires the ticket of its session, once.
LEMMA ConfirmKeeps ==
  ASSUME OwnIInv, NEW s \in Sessions, NEW e \in detaches \cup echoes, ConfirmDetach(s, e)
  PROVE  OwnIInv'
<1>1. /\ ownPc[s] = "owned" /\ attached[s] /\ e = s
      /\ ownSocket' = [ownSocket EXCEPT ![s] = FALSE] /\ attached' = [attached EXCEPT ![s] = FALSE]
      /\ detaches' = detaches \ {s} /\ echoes' = echoes \cup {s}
      /\ UNCHANGED <<ownPc, registry, approvedPeers, leased, kept, ticketOf, links, holder>>
      /\ UNCHANGED napVars
  BY DEF ConfirmDetach, Detached, At, CloseSocket
<1>2. UNCHANGED <<issued, retired, ledger>>
  BY <1>1 DEF napVars
\* An event that comes again does not get here.
<1>3. s \in detaches
  BY <1>1 DEF OwnIInv, SessionOK
<1>4. \A p \in Nodes : holder[p] # s
  BY <1>3, OwnerConstants DEF OwnIInv, LinkOK
<1>5. OwnTyped'
  BY <1>1, <1>2 DEF OwnIInv, OwnTyped
<1>6. Alone(s)
  BY <1>1, <1>2 DEF Alone, OwnIInv, OwnTyped
<1>7. SessionOK(s)'
  <2>1. SessionOK(s) /\ ~attached'[s] /\ ~ownSocket'[s]
    BY <1>1 DEF OwnIInv, OwnTyped
  <2> QED BY <1>1, <1>2, <2>1 DEF SessionOK
<1>8. ~ownSocket'[s]
  BY <1>1 DEF OwnIInv, OwnTyped
<1> QED BY <1>1, <1>4, <1>5, <1>6, <1>7, <1>8, SessionMoves

\* admit: registry, sockets and states only; a peer's slot is taken when no open
\* session of that peer is registered.
LEMMA AdmitKeeps ==
  ASSUME OwnIInv, NEW s \in Sessions, Admit(s)
  PROVE  OwnIInv'
<1>1. /\ UNCHANGED <<approvedPeers, leased, attached, kept, ticketOf, links, holder, detaches, echoes>>
      /\ UNCHANGED napVars /\ UNCHANGED <<issued, retired, ledger>>
      /\ ownPc[s] = "authenticated" /\ ticketOf[s] = {} /\ PeerOf(s) \in Nodes
      /\ ownPc' = [ownPc EXCEPT ![s] = "registered"] \/ ownPc' = [ownPc EXCEPT ![s] = "dropped"]
      /\ ownSocket' = ownSocket \/ ownSocket' = [ownSocket EXCEPT ![s] = FALSE]
      /\ registry' = registry \/ registry' = [registry EXCEPT ![PeerOf(s)] = s]
  BY OwnerConstants DEF Admit, CloseSocket, panuVars, napVars, OwnIInv, SessionOK
<1>2. OwnTyped'
  <2>1. ownPc' \in [Sessions -> Points]
    BY <1>1 DEF OwnIInv, OwnTyped, Points
  <2>2. ownSocket' \in [Sessions -> BOOLEAN]
    BY Zenon, <1>1 DEF OwnIInv, OwnTyped
  <2>3. registry' \in [Nodes -> Sessions \cup {NoOwner}]
    BY <1>1 DEF OwnIInv, OwnTyped
  <2> QED BY <1>1, <2>1, <2>2, <2>3 DEF OwnIInv, OwnTyped
<1>3. Alone(s)
  BY <1>1 DEF Alone, OwnIInv, OwnTyped
<1>4. SessionOK(s)'
  BY <1>1 DEF OwnIInv, OwnTyped, SessionOK
<1>5. NapIInv' /\ UnretiredHold' /\ (\A r \in Sessions : SessionOK(r)') /\ TicketsDiffer'
  BY Zenon, <1>1, <1>3, <1>4, OthersRest, LedgerStep DEF OwnIInv
<1>6. \A p \in Nodes : LinkOK(p)'
  BY Zenon, <1>1 DEF OwnIInv, LinkOK
<1>7. OpenSocketIsRegistered'
  <2>1. CASE registry[PeerOf(s)] = NoOwner /\ registry' = [registry EXCEPT ![PeerOf(s)] = s]
    <3>1. \A r \in Sessions \ {s} : ownPc[r] # "authenticated" /\ ownSocket[r] => PeerOf(r) # PeerOf(s)
      BY SMTT(20), <2>1, OwnerConstants DEF OwnIInv, OpenSocketIsRegistered, Registered
    <3> QED BY SMTT(20), <1>1, <1>3, <2>1, <3>1, OwnerConstants
            DEF Alone, OwnIInv, OwnTyped, OpenSocketIsRegistered, Registered
  <2>2. CASE ownSocket' = [ownSocket EXCEPT ![s] = FALSE] /\ registry' = registry
    BY <1>3, <2>2 DEF Alone, OwnIInv, OwnTyped, OpenSocketIsRegistered, Registered
  <2> QED BY <2>1, <2>2 DEF Admit, CloseSocket
<1> QED BY <1>2, <1>5, <1>6, <1>7 DEF OwnIInv

\* The registration is freed once its socket is shut.
LEMMA RetireRegistrationKeeps ==
  ASSUME OwnIInv, NEW s \in Sessions, RetireRegistration(s)
  PROVE  OwnIInv'
<1>1. /\ UNCHANGED <<ownPc, ownSocket, approvedPeers, leased, attached, kept, ticketOf, links, holder, detaches, echoes>>
      /\ UNCHANGED napVars /\ UNCHANGED <<issued, retired, ledger>> /\ PeerOf(s) \in Nodes
      /\ ~ownSocket[s] /\ registry[PeerOf(s)] = s /\ registry' = [registry EXCEPT ![PeerOf(s)] = NoOwner]
  BY OwnerConstants DEF RetireRegistration, Registered, panuVars, napVars
<1>2. OwnTyped'
  BY SMTT(20), <1>1 DEF OwnIInv, OwnTyped
<1>3. \A r \in Sessions : SessionOK(r)'
  BY Zenon, <1>1 DEF OwnIInv, SessionOK
<1>4. NapIInv' /\ UnretiredHold'
  BY Zenon, <1>1, LedgerStep DEF OwnIInv
<1>5. TicketsDiffer' /\ \A p \in Nodes : LinkOK(p)'
  BY Zenon, <1>1 DEF OwnIInv, LinkOK, TicketsDiffer
<1>6. OpenSocketIsRegistered'
  <2> SUFFICES ASSUME NEW r \in Sessions, ownPc[r] # "authenticated", ownSocket[r]
               PROVE  registry'[PeerOf(r)] = r
    BY <1>1 DEF OpenSocketIsRegistered, Registered
  <2>1. registry[PeerOf(r)] = r /\ r # s
    BY <1>1 DEF OwnIInv, OpenSocketIsRegistered, Registered
  <2> QED BY SMTT(20), <1>1, <2>1, OwnerConstants DEF OwnIInv, OwnTyped
<1> QED BY <1>2, <1>3, <1>4, <1>5, <1>6 DEF OwnIInv

\* The observation that makes s the cover of its link: s still has its lease.
LEMMA ObserveKeeps ==
  ASSUME OwnIInv, NEW s \in Sessions, ObserveAttachment(s)
  PROVE  OwnIInv'
<1>1. /\ ownPc[s] = "owned" /\ leased[s] # {} /\ s \notin detaches /\ PeerOf(s) \in Nodes
      /\ attached' = [attached EXCEPT ![s] = TRUE] /\ holder' = [holder EXCEPT ![PeerOf(s)] = s]
      /\ \/ ownPc' = [ownPc EXCEPT ![s] = "activating"] /\ ownSocket' = ownSocket
         \/ ownPc' = ownPc /\ ownSocket' = [ownSocket EXCEPT ![s] = FALSE]
      /\ UNCHANGED <<registry, approvedPeers, leased, kept, ticketOf, links, detaches, echoes>>
      /\ UNCHANGED napVars /\ UNCHANGED <<issued, retired, ledger>>
      /\ ownSocket[s] \/ attached[s]
  BY OwnerConstants DEF ObserveAttachment, At, Closing, InOrder, CloseSocket, napVars
<1>2. OwnTyped'
  BY Zenon, <1>1 DEF OwnIInv, OwnTyped, Points
<1>3. Alone(s)
  BY <1>1 DEF Alone, OwnIInv, OwnTyped
<1>4. s \notin echoes
  BY <1>1 DEF OwnIInv, SessionOK
<1>5. SessionOK(s)'
  <2>1. SessionOK(s) /\ ownPc'[s] \in {"owned", "activating"}
    BY SMTT(20), <1>1 DEF OwnIInv, OwnTyped
  <2> QED BY <1>1, <1>4, <2>1 DEF SessionOK
<1>6. NapIInv' /\ UnretiredHold' /\ (\A r \in Sessions : SessionOK(r)') /\ TicketsDiffer'
  BY <1>1, <1>3, <1>5, OthersRest, LedgerStep DEF OwnIInv
<1>7. LinkOK(PeerOf(s))'
  <2>1. ticketOf[s] # {} /\ ticketOf[s] \cap retired = {}
    BY <1>1 DEF OwnIInv, SessionOK
  <2>2. holder'[PeerOf(s)] = s /\ attached'[s]
    BY <1>1 DEF OwnIInv, OwnTyped
  <2> QED BY <1>1, <2>1, <2>2 DEF LinkOK
<1>8. ASSUME NEW p \in Nodes, p # PeerOf(s) PROVE LinkOK(p)'
  <2>1. holder'[p] = holder[p] /\ holder[p] # s
    BY <1>1, <1>8, OwnerConstants DEF OwnIInv, OwnTyped, LinkOK
  <2> QED BY Zenon, <1>1, <1>3, <2>1, OtherLinksRest
<1>9. OpenSocketIsRegistered'
  BY <1>1, <1>3 DEF Alone, OwnIInv, OwnTyped, OpenSocketIsRegistered, Registered
<1> QED BY <1>2, <1>6, <1>7, <1>8, <1>9 DEF OwnIInv

\* Approval, links and NAP instances change under the sessions.
LEMMA EnvironmentKeeps ==
  ASSUME OwnIInv,
         (\E p \in Nodes : ChangeApproval(p) \/ PanuUp(p) \/ PanuDown(p)) \/ NapStep
  PROVE  OwnIInv'
<1>1. /\ UNCHANGED <<ownPc, ownSocket, registry, leased, attached, kept, ticketOf, echoes, retired, issued>>
      /\ [NapNext]_napVars
  BY Zenon DEF ChangeApproval, PanuUp, PanuDown, NapStep, sessionVars, panuVars, napVars, NapNext,
         New, UpdateCapabilities, Close
<1>2. NapIInv' /\ UnretiredHold' /\ \A t \in issued : ledger[t.owner].closed => ledger'[t.owner].closed
  BY SMTT(20), <1>1, LedgerStep DEF OwnIInv
<1>3. \A s \in Sessions : SessionOK(s)'
  BY <1>1, <1>2 DEF OwnIInv, SessionOK
<1>4. OpenSocketIsRegistered' /\ TicketsDiffer'
  BY Zenon, <1>1 DEF OwnIInv, OpenSocketIsRegistered, Registered, TicketsDiffer
<1>5. OwnTyped' /\ \A q \in Nodes : LinkOK(q)'
  <2>1. ASSUME NEW p \in Nodes, PanuDown(p) PROVE OwnTyped' /\ \A q \in Nodes : LinkOK(q)'
    <3>1. /\ links' = links \ {p} /\ detaches' = detaches \cup ({holder[p]} \ {NoOwner})
          /\ holder' = [holder EXCEPT ![p] = NoOwner] /\ approvedPeers' = approvedPeers
      BY <2>1 DEF PanuDown, sessionVars
    <3>2. OwnTyped'
      BY <1>1, <3>1 DEF OwnIInv, OwnTyped
    <3>3. ASSUME NEW q \in Nodes, q # p PROVE LinkOK(q)'
      BY <1>1, <3>1, <3>3 DEF OwnIInv, OwnTyped, LinkOK
    <3>4. LinkOK(p)'
      BY Zenon, <3>1 DEF OwnIInv, OwnTyped, LinkOK
    <3> QED BY <3>2, <3>3, <3>4
  <2>2. ASSUME NEW p \in Nodes, ChangeApproval(p) \/ PanuUp(p)
        PROVE  OwnTyped' /\ \A q \in Nodes : LinkOK(q)'
    BY <1>1, <2>2 DEF ChangeApproval, PanuUp, sessionVars, panuVars, OwnIInv, OwnTyped, LinkOK
  <2>3. CASE NapStep
    BY SMTT(20), <1>1, <2>3 DEF NapStep, sessionVars, panuVars, OwnIInv, OwnTyped, LinkOK
  <2> QED BY <2>1, <2>2, <2>3
<1> QED BY Zenon, <1>2, <1>3, <1>4, <1>5 DEF OwnIInv

\* Nothing is issued, registered or observed in the beginning.
LEMMA OwnInitInv == OwnInit => OwnIInv
<1> SUFFICES ASSUME OwnInit PROVE OwnIInv
  OBVIOUS
<1>1. NapIInv /\ issued = {}
  BY NapInitInv DEF OwnInit, NapInit
<1>2. OwnTyped
  BY DEF OwnInit, OwnTyped, Points
<1> QED BY Zenon, <1>1, <1>2 DEF OwnInit, OwnIInv, UnretiredHold, OpenSocketIsRegistered, SessionOK,
         TicketsDiffer, LinkOK

\* The inductive invariant gives the properties.
LEMMA OwnIInvSuffices == OwnIInv => OwnersAreSound
<1> SUFFICES ASSUME OwnIInv PROVE OwnersAreSound
  OBVIOUS
<1>1. OwnTypeOK
  <2>1. ASSUME NEW s \in Sessions
        PROVE  leased[s] \subseteq issued /\ leased[s] \subseteq ticketOf[s] /\ Cardinality(leased[s]) <= 1
    <3>1. leased[s] \subseteq ticketOf[s] /\ ticketOf[s] \subseteq issued /\ \A t, u \in leased[s] : t = u
      BY DEF OwnIInv, SessionOK
    <3>2. CASE leased[s] = {}
      BY <3>1, <3>2, FS_EmptySet
    <3>3. CASE leased[s] # {}
      <4>1. PICK t \in leased[s] : TRUE
        BY <3>3
      <4>2. leased[s] = {t}
        BY <3>1, <4>1
      <4>3. Cardinality(leased[s]) = 1
        BY <4>2, FS_Singleton, Zenon
      <4> QED BY <3>1, <4>3
    <3> QED BY <3>2, <3>3
  <2> QED BY <2>1 DEF OwnIInv, NapIInv, OwnTyped, OwnTypeOK
<1>2. CapacityCoversObservedLinks
  <2> SUFFICES ASSUME NEW p \in Nodes, holder[p] # NoOwner
               PROVE  HoldsSlot(holder[p]) \/ \E t \in ticketOf[holder[p]] : ledger[t.owner].closed
    BY DEF CapacityCoversObservedLinks
  <2>1. holder[p] \in Sessions /\ LinkOK(p)
    BY SMTT(20) DEF OwnIInv, OwnTyped
  <2>2. PICK t \in ticketOf[holder[p]] : t \in issued \ retired
    BY <2>1 DEF LinkOK, OwnIInv, SessionOK
  <2> QED BY <2>2 DEF OwnIInv, UnretiredHold, HoldsSlot
<1>3. NoStrandedSlot
  <2> SUFFICES ASSUME NEW s \in Sessions, NEW t \in ticketOf[s], Retirable(t.owner, t)
               PROVE  t \in leased[s] \cup kept
    BY Zenon DEF NoStrandedSlot, HoldsSlot
  <2>1. SessionOK(s) /\ t \in issued
    BY Zenon DEF OwnIInv, SessionOK
  <2>2. t \notin retired /\ ~ledger[t.owner].closed
    BY Zenon, <2>1, HeldIsUnretired DEF OwnIInv
  <2> QED BY Zenon, <2>1, <2>2 DEF SessionOK
<1> QED BY <1>1, <1>2, <1>3 DEF OwnersAreSound, OwnIInv

\* Whatever sessions, links, approvals and NAP instances do in between: an open
\* session past admission is the registered one, an observed link keeps its slot
\* until the NAP closes, and every slot can still be given back
\* (registered_transport.rs, nap_control_admission.rs).
THEOREM OwnersStaySound == OwnSpec => []OwnersAreSound
<1>1. OwnIInv /\ [OwnNext]_ownVars => OwnIInv'
  <2> SUFFICES ASSUME OwnIInv, [OwnNext]_ownVars PROVE OwnIInv'
    OBVIOUS
  <2>1. ASSUME NEW s \in Sessions,
               \/ Admit(s) \/ RecheckForReserve(s) \/ ObserveAttachment(s) \/ ActivateSlot(s)
               \/ LoseTransport(s) \/ OnTransportLoss(s) \/ RetireRegistration(s) \/ DropLease(s)
               \/ DropOwner(s) \/ RetireKept(s)
               \/ \E o \in Owners : ReserveSlot(s, o)
               \/ \E e \in detaches \cup echoes : ConfirmDetach(s, e)
        PROVE  OwnIInv'
    BY SMTT(20), <2>1, AdmitKeeps, RecheckKeeps, ObserveKeeps, ActivateKeeps, LoseKeeps, RetireRegistrationKeeps,
       DropLeaseKeeps, DropOwnerKeeps, RetireKeptKeeps, ReserveKeeps, ConfirmKeeps
  <2>2. CASE UNCHANGED ownVars
    <3>1. [NapNext]_napVars /\ UNCHANGED <<issued, retired, ledger>>
      BY SMTT(20), <2>2 DEF ownVars, napVars
    <3>2. NapIInv' /\ UnretiredHold'
      BY <3>1, LedgerStep DEF OwnIInv
    <3> QED
      BY Zenon, <2>2, <3>1, <3>2 DEF ownVars, sessionVars, panuVars, OwnIInv, OwnTyped, OpenSocketIsRegistered,
         Registered, SessionOK, TicketsDiffer, LinkOK
  <2> QED BY <2>1, <2>2, EnvironmentKeeps DEF OwnNext
<1> QED BY <1>1, OwnInitInv, OwnIInvSuffices, PTL DEF OwnSpec
===============================================================================
