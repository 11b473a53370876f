---------------------------- MODULE NapAdmission ----------------------------
(***************************************************************************)
(* Capacity reservations of a NAP host: the policy check of                *)
(* nap_admission.rs, the reservation ledger of nap_admission_ledger.rs and *)
(* the network- and instance-scoped owner of nap_admission_scope.rs.       *)
(*                                                                         *)
(* Every operation runs under the ledger's mutex, so each one is a single  *)
(* action.  Callers (sessions, PANU attachment callbacks, teardown tasks)  *)
(* keep clones of the tickets they were given and may present any of them, *)
(* to any owner, at any later time and any number of times: an operation   *)
(* takes its ticket from the whole set of issued tickets.                  *)
(*                                                                         *)
(* A call that returns an error or Ok(false) changes nothing; it is a      *)
(* stuttering step and has no action of its own.                           *)
(***************************************************************************)
EXTENDS Naturals, FiniteSets

CONSTANTS
  Nodes,          \* nonzero identities of candidate peers
  ZeroNode,       \* the all-zero NodeId, which no operation accepts
  Networks,       \* nonzero network identities
  Owners,         \* NetworkNapAdmission instances; each has its own Arc token
  Hosts,          \* capability snapshots (NodeCapabilities) the host may publish
  UnknownCeiling, \* the absent (None) ceiling
  MaxGeneration   \* u64::MAX: where next_generation.checked_add(1) fails

ASSUME NapConstants ==
  /\ IsFiniteSet(Nodes)
  /\ ZeroNode \notin Nodes
  /\ Networks # {}
  /\ UnknownCeiling \notin Nat
  /\ Hosts \subseteq [usable: BOOLEAN, nap: BOOLEAN, ceiling: Nat \cup {UnknownCeiling}]
  /\ MaxGeneration \in Nat

VARIABLES
  network,  \* network[o]: the network instance o was created for
  created,  \* instances constructed so far
  ledger,   \* ledger[o]: the mutex-protected State of instance o
  issued,   \* every ticket handed out by reserve
  retired   \* tickets whose retirement returned Ok(true) (history)

napVars == <<network, created, ledger, issued, retired>>

\* Generations start at 1, so 0 stands for an absent map entry.
NoGeneration == 0

Capabilities ==
  [usable: BOOLEAN, nap: BOOLEAN, ceiling: Nat \cup {UnknownCeiling}]

Ledger ==
  [host: Capabilities, active: [Nodes -> Nat], pending: [Nodes -> Nat],
   next: 0 .. MaxGeneration, closed: BOOLEAN]

Ticket == [owner: Owners, network: Networks, candidate: Nodes, generation: Nat]

Active(o) == {n \in Nodes : ledger[o].active[n] # NoGeneration}

Pending(o) == {n \in Nodes : ledger[o].pending[n] # NoGeneration}

Occupied(o) == Active(o) \cup Pending(o)

-----------------------------------------------------------------------------
\* Mutant of Admits: pending reservations do not count against the ceiling.
AdmitsIgnoringPending(o, candidate) ==
  LET host == ledger[o].host
      before == Cardinality(Active(o))
  IN /\ candidate # ZeroNode
     /\ host.usable /\ host.nap
     /\ host.ceiling # UnknownCeiling
     /\ host.ceiling # 0
     /\ before <= host.ceiling
     /\ candidate \notin Active(o) => before # host.ceiling

\* plan_nap_client_admission returns Ok.  The observed identities are the keys
\* of `active` followed by those of `pending`; an identity in both is the
\* duplicate the function refuses.
Admits(o, candidate) ==
  LET host == ledger[o].host
      before == Cardinality(Occupied(o))
  IN /\ candidate # ZeroNode
     /\ host.usable /\ host.nap
     /\ host.ceiling # UnknownCeiling
     /\ host.ceiling # 0
     /\ Active(o) \cap Pending(o) = {}
     /\ before <= host.ceiling
     /\ candidate \notin Occupied(o) => before # host.ceiling

NewLedger(host) ==
  [host |-> host,
   active |-> [n \in Nodes |-> NoGeneration],
   pending |-> [n \in Nodes |-> NoGeneration],
   next |-> 0, closed |-> FALSE]

\* The private Arc token and the network both have to match.
Owns(o, t) == t.network = network[o] /\ t.owner = o

-----------------------------------------------------------------------------
\* Mutants of the operations below.

\* Mutant of Activatable: a ticket that is no longer pending is accepted.
ActivatableStale(o, t) ==
  /\ o \in created /\ Owns(o, t) /\ ~ledger[o].closed
  /\ ledger[o].active[t.candidate] # t.generation
  /\ Admits(o, t.candidate)

\* Mutant of Retire: the peer identity decides, not the exact generation.
RetireByPeer(o, t) ==
  /\ o \in created /\ Owns(o, t)
  /\ t.candidate \in Occupied(o)
  /\ ledger' = [ledger EXCEPT ![o].pending[t.candidate] = NoGeneration,
                              ![o].active[t.candidate] = NoGeneration]
  /\ retired' = retired \cup {t}
  /\ UNCHANGED <<network, created, issued>>

-----------------------------------------------------------------------------
\* NetworkNapAdmission::new: a fresh owner token over an empty ledger.
New(o, net, host) ==
  /\ o \notin created
  /\ created' = created \cup {o}
  /\ network' = [network EXCEPT ![o] = net]
  /\ ledger' = [ledger EXCEPT ![o] = NewLedger(host)]
  /\ UNCHANGED <<issued, retired>>

\* reserve returns Ok: the candidate holds no slot, the policy admits it and
\* next_generation.checked_add(1) succeeds.
Reservable(o, candidate) ==
  /\ o \in created
  /\ ~ledger[o].closed
  /\ candidate \notin Pending(o)
  /\ candidate \notin Active(o)
  /\ Admits(o, candidate)
  /\ ledger[o].next < MaxGeneration

\* reserve: one slot for `candidate` against active and pending peers.
Reserve(o, candidate) ==
  /\ Reservable(o, candidate)
  /\ LET generation == ledger[o].next + 1
     IN /\ ledger' = [ledger EXCEPT ![o].next = generation,
                                    ![o].pending[candidate] = generation]
        /\ issued' = issued \cup
             {[owner |-> o, network |-> network[o],
               candidate |-> candidate, generation |-> generation]}
  /\ UNCHANGED <<network, created, retired>>

\* activate returns Ok(true): the ticket is the pending one (not yet active),
\* and the policy, checked again under the lock, still admits the peer.
Activatable(o, t) ==
  /\ o \in created
  /\ Owns(o, t)
  /\ ~ledger[o].closed
  /\ ledger[o].active[t.candidate] # t.generation
  /\ ledger[o].pending[t.candidate] = t.generation
  /\ Admits(o, t.candidate)

\* activate: the pending slot of exactly this ticket is promoted.
Activate(o, t) ==
  /\ Activatable(o, t)
  /\ ledger' = [ledger EXCEPT ![o].pending[t.candidate] = NoGeneration,
                              ![o].active[t.candidate] = t.generation]
  /\ UNCHANGED <<network, created, issued, retired>>

\* retire returns Ok(true): the ticket is this owner's and a slot has exactly
\* its generation.  A closed ledger is not refused here.
Retirable(o, t) ==
  /\ o \in created
  /\ Owns(o, t)
  /\ t.generation \in {ledger[o].pending[t.candidate], ledger[o].active[t.candidate]}

\* retire: a pending entry goes first, an active one otherwise.
Retire(o, t) ==
  /\ Retirable(o, t)
  /\ \/ /\ ledger[o].pending[t.candidate] = t.generation
        /\ ledger' = [ledger EXCEPT ![o].pending[t.candidate] = NoGeneration]
     \/ /\ ledger[o].pending[t.candidate] # t.generation
        /\ ledger[o].active[t.candidate] = t.generation
        /\ ledger' = [ledger EXCEPT ![o].active[t.candidate] = NoGeneration]
  /\ retired' = retired \cup {t}
  /\ UNCHANGED <<network, created, issued>>

\* update_capabilities: the policy snapshot changes, the tickets stay.
UpdateCapabilities(o, host) ==
  /\ o \in created
  /\ ~ledger[o].closed
  /\ ledger' = [ledger EXCEPT ![o].host = host]
  /\ UNCHANGED <<network, created, issued, retired>>

\* close: permanent, and it drops every reservation.
Close(o) ==
  /\ o \in created
  /\ ledger' = [ledger EXCEPT
                  ![o].closed = TRUE,
                  ![o].active = [n \in Nodes |-> NoGeneration],
                  ![o].pending = [n \in Nodes |-> NoGeneration]]
  /\ UNCHANGED <<network, created, issued, retired>>

\* NodeCapabilities::default(): nothing is known about the host.
UnknownHost == [usable |-> FALSE, nap |-> FALSE, ceiling |-> UnknownCeiling]

NapInit ==
  /\ network = [o \in Owners |-> CHOOSE net \in Networks : TRUE]
  /\ created = {}
  /\ ledger = [o \in Owners |-> NewLedger(UnknownHost)]
  /\ issued = {}
  /\ retired = {}

NapNext ==
  \E o \in Owners :
    \/ \E net \in Networks, host \in Hosts : New(o, net, host)
    \/ \E c \in Nodes \cup {ZeroNode} : Reserve(o, c)
    \/ \E t \in issued : Activate(o, t)
    \/ \E t \in issued : Retire(o, t)
    \/ \E host \in Hosts : UpdateCapabilities(o, host)
    \/ Close(o)

NapSpec == NapInit /\ [][NapNext]_napVars

-----------------------------------------------------------------------------
\* Type invariant of the ledgers and of the tickets callers hold.
NapTypeOK ==
  /\ network \in [Owners -> Networks]
  /\ created \subseteq Owners
  /\ ledger \in [Owners -> Ledger]
  /\ issued \subseteq Ticket
  /\ retired \subseteq issued

\* The ticket a slot of owner o was reserved with.
SlotTicket(o, n, generation) ==
  [owner |-> o, network |-> network[o], candidate |-> n, generation |-> generation]

\* A peer never occupies two slots: reserve refuses a peer that is pending or
\* active and activate moves the entry (nap_admission_ledger.rs:114-125, 182-183).
\* Were it to fail, the duplicate check of plan_nap_client_admission would
\* refuse every later admission of that host.
OneSlotPerPeer == \A o \in Owners : Active(o) \cap Pending(o) = {}

\* Every occupied slot can still be retired: the ticket with exactly its
\* generation was issued and has not been retired.  A ticket retired once
\* never occupies a slot again, whatever delayed activate or retire calls
\* arrive later, and from whichever owner instance (nap_admission_ledger.rs:150-204).
SlotsAreRetirable ==
  \A o \in Owners, n \in Nodes :
    \A g \in {ledger[o].active[n], ledger[o].pending[n]} \ {NoGeneration} :
      SlotTicket(o, n, g) \in issued \ retired

\* Two reservations of one owner never share a generation, so a delayed
\* callback can be matched against its own slot only (nap_admission_ledger.rs:133-140).
GenerationsAreUnique ==
  /\ \A t, u \in issued :
       t.owner = u.owner /\ t.generation = u.generation => t = u
  /\ \A t \in issued : t.generation \in 1 .. ledger[t.owner].next

\* The three together: whatever callbacks arrive, a slot belongs to one
\* reservation of one peer and can be given back (nap_admission_ledger.rs:96-204).
SlotsAreSound == OneSlotPerPeer /\ SlotsAreRetirable /\ GenerationsAreUnique

\* A closed owner holds nothing (nap_admission_ledger.rs:54-65, and the closed
\* checks of reserve and activate that keep it so).
ClosedIsEmpty == \A o \in Owners : ledger[o].closed => Occupied(o) = {}

\* A peer is let in only while the capability snapshot in force allows it, and
\* never beyond that snapshot's ceiling.  This covers an occupancy that grows
\* (reserve) and a pending slot promoted after a downgrade (activate,
\* nap_admission_ledger.rs:170-181); occupancy above the ceiling is possible
\* only by lowering the ceiling.
WithinPolicy(o) ==
  LET host == ledger[o].host
  IN /\ host.usable /\ host.nap /\ ~ledger[o].closed
     /\ host.ceiling \in Nat \ {0}
     /\ Cardinality(Occupied(o)') <= host.ceiling

AdmissionRespectsPolicy ==
  [][\A o \in Owners :
        Occupied(o)' \ Occupied(o) # {} \/ Active(o)' \ Active(o) # {}
          => WithinPolicy(o)]_napVars

\* A slot is vacated by the retirement of its own ticket or by closing its own
\* owner, never by a ticket of a predecessor generation, another peer or
\* another instance (nap_admission_scope.rs:92-97, 113-115).
SlotVacatedOnlyByItsTicket ==
  [][\A o \in Owners, n \in Nodes :
        LET g == ledger[o].active[n] + ledger[o].pending[n]
        IN n \in Occupied(o) \ Occupied(o)'
             => SlotTicket(o, n, g) \in retired' \/ ledger[o].closed']_napVars
====
