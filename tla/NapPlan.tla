------------------------------- MODULE NapPlan -------------------------------
(***************************************************************************)
(* diff_nap_topology of topology_plan.rs as a run of its loop, from every  *)
(* active topology and every desired one that link_set accepts.            *)
(***************************************************************************)
EXTENDS NapLinks, FiniteSetTheorems, TLAPS

VARIABLES
  active,       \* link_set(active)
  target,       \* link_set(desired)
  current,      \* links after the steps planned so far
  opened,       \* links of the Connect steps
  retired,      \* links of the Disconnect steps
  interrupted   \* reconnect_interruptions

planVars == <<active, target, current, opened, retired, interrupted>>

\* Mutant of Retire: interruptions are recorded for every retired client.
RetireInterrupting(l) ==
  /\ current' = current \ {l}
  /\ retired' = retired \cup {l}
  /\ interrupted' = interrupted \cup {l.client}
  /\ UNCHANGED <<active, target, opened>>

\* What link_set demands of the active and of the desired topology; which
\* nodes are neighbours is left to the choice of the desired links.
Observable == {ls \in SUBSET Links : SingleAttachment(ls)}
Desirable == {ls \in Observable : WithinCapacity(ls)}

PlanInit ==
  /\ active \in Observable /\ target \in Desirable
  /\ current = active
  /\ opened = {} /\ retired = {} /\ interrupted = {}

\* result.steps.push(Connect)
Connect(l) ==
  /\ current' = current \cup {l}
  /\ opened' = opened \cup {l}
  /\ UNCHANGED <<active, target, retired, interrupted>>

\* result.steps.push(Disconnect); inside the loop a client that has a new hub
\* is recorded as interrupted.
Retire(l) ==
  /\ current' = current \ {l}
  /\ retired' = retired \cup {l}
  /\ interrupted' = IF ~(target \subseteq current) /\ AttachedTo(target, l.client) # {}
                    THEN interrupted \cup {l.client} ELSE interrupted
  /\ UNCHANGED <<active, target, opened>>

PlanNext ==
  \/ \E l \in ToConnect(current, target) : Connect(l)
  \/ \E l \in ToDisconnect(current, target) : Retire(l)

PlanSpec == PlanInit /\ [][PlanNext]_planVars

\* The loop runs until it returns.
FairPlanSpec == PlanSpec /\ WF_planVars(PlanNext)

-----------------------------------------------------------------------------
\* Type invariant.
PlanTypeOK ==
  /\ active \subseteq Links /\ target \subseteq Links /\ current \subseteq Links
  /\ opened \subseteq Links /\ retired \subseteq Links /\ interrupted \subseteq Nodes

\* No intermediate topology attaches a client to two hubs
\* (topology_plan.rs:113-114, 131-141).
NeverTwoHubs == SingleAttachment(current)

\* No intermediate topology gives a hub more clients than its capacity, or
\* than it already had (topology_plan.rs:133-141).
NeverOverCapacity ==
  \A h \in Nodes :
    \/ Cardinality(HostedBy(current, h)) <= Capacity[h]
    \/ HostedBy(current, h) \subseteq HostedBy(active, h)

\* The plan touches the difference only, each link once: links that stay are
\* never torn down (topology_plan.rs:109-116, 149-151).
OnlyTheDifference ==
  /\ opened \subseteq target \ active
  /\ retired \subseteq active \ target
  /\ current = (active \ retired) \cup opened

\* Every blocked addition has an obsolete link to free: the error "topology
\* transition cannot free a safe slot" is never returned
\* (topology_plan.rs:149-164).
NeverStuck ==
  current # target => ToConnect(current, target) \cup ToDisconnect(current, target) # {}

\* The four together: what holds of the topology after every operation of a
\* plan, and that there is a next one (topology_plan.rs:109-174).
EveryStepIsSafe == NeverTwoHubs /\ NeverOverCapacity /\ OnlyTheDifference /\ NeverStuck

\* At the end exactly the clients that move between hubs are reported as
\* interrupted (topology_plan.rs:25-27, 166-168).
InterruptionsAreMoves ==
  current = target =>
    interrupted = {c \in Nodes : /\ AttachedTo(active, c) # {} /\ AttachedTo(target, c) # {}
                                 /\ AttachedTo(active, c) # AttachedTo(target, c)}

\* The loop has ended with the desired topology (topology_plan.rs:128-174).
PlanEnded == current = target

-----------------------------------------------------------------------------
\* Proof, for every set of candidates, every capacity and every pair of
\* topologies.

\* There are finitely many links between finitely many candidates.
LEMMA LinksFinite == IsFiniteSet(Links)
<1>1. IsFiniteSet(Nodes \X Nodes)
  BY NapLinksConstants, FS_Product
<1> DEFINE All == [hub: Nodes, client: Nodes]
           f == [p \in Nodes \X Nodes |-> Link(p[1], p[2])]
<1>2. f \in [Nodes \X Nodes -> All]
  BY DEF Link
<1>3. ASSUME NEW l \in All PROVE \E p \in Nodes \X Nodes : f[p] = l
  <2>1. <<l.hub, l.client>> \in Nodes \X Nodes
    OBVIOUS
  <2>2. f[<<l.hub, l.client>>] = l
    BY <2>1 DEF Link
  <2> QED BY <2>1, <2>2
<1>4. f \in Surjection(Nodes \X Nodes, All)
  BY <1>2, <1>3 DEF Surjection
<1>5. IsFiniteSet(All)
  BY <1>1, <1>4, FS_Surjection
<1> QED BY <1>5, FS_Subset DEF Links

\* Every set of links is finite and has a natural number of clients per hub.
LEMMA HostedFinite ==
  ASSUME NEW ls \in SUBSET Links, NEW h
  PROVE  /\ IsFiniteSet(HostedBy(ls, h))
         /\ Cardinality(HostedBy(ls, h)) \in Nat
<1>1. HostedBy(ls, h) \in SUBSET Links
  BY DEF HostedBy
<1>2. IsFiniteSet(HostedBy(ls, h))
  BY <1>1, LinksFinite, FS_Subset
<1> QED BY <1>2, FS_CardinalityType

\* The inductive invariant: the topologies are well formed, the steps planned
\* are exactly the difference so far, and no client has two hubs.
PlanIInv ==
  /\ PlanTypeOK
  /\ SingleAttachment(active) /\ SingleAttachment(target) /\ WithinCapacity(target)
  /\ OnlyTheDifference
  /\ NeverTwoHubs
  /\ NeverOverCapacity

\* A topology one starts from satisfies the invariant.
LEMMA PlanInitIInv == PlanInit => PlanIInv
<1> SUFFICES ASSUME PlanInit PROVE PlanIInv
  OBVIOUS
<1>1. /\ active \subseteq Links /\ SingleAttachment(active)
      /\ target \subseteq Links /\ SingleAttachment(target) /\ WithinCapacity(target)
  BY DEF PlanInit, Observable, Desirable
<1>2. current = active /\ opened = {} /\ retired = {} /\ interrupted = {}
  BY DEF PlanInit
<1> QED BY <1>1, <1>2 DEF PlanIInv, PlanTypeOK, OnlyTheDifference, NeverTwoHubs, NeverOverCapacity

\* Connecting a ready link keeps the invariant.
LEMMA ConnectKeepsIInv ==
  ASSUME PlanIInv, NEW l \in ToConnect(current, target), Connect(l)
  PROVE  PlanIInv'
<1>1. /\ l \in target \ current /\ l \in Links
      /\ AttachedTo(current, l.client) = {}
      /\ Cardinality(HostedBy(current, l.hub)) < Capacity[l.hub]
  BY DEF ToConnect, Ready, PlanIInv, PlanTypeOK
<1>2. /\ current' = current \cup {l} /\ opened' = opened \cup {l}
      /\ active' = active /\ target' = target /\ retired' = retired /\ interrupted' = interrupted
  BY DEF Connect
<1>3. PlanTypeOK'
  BY <1>1, <1>2 DEF PlanIInv, PlanTypeOK
<1>4. OnlyTheDifference'
  <2>1. l \notin active
    BY <1>1 DEF PlanIInv, OnlyTheDifference
  <2>2. opened' \subseteq target' \ active'
    BY <1>1, <1>2, <2>1 DEF PlanIInv, OnlyTheDifference
  <2>3. current' = (active' \ retired') \cup opened'
    BY <1>2 DEF PlanIInv, OnlyTheDifference
  <2> QED BY <1>2, <2>2, <2>3 DEF PlanIInv, OnlyTheDifference
<1>5. NeverTwoHubs'
  <2> SUFFICES ASSUME NEW j \in current', NEW k \in current', j.client = k.client
               PROVE  j = k
    BY DEF NeverTwoHubs, SingleAttachment
  <2>1. \A i \in current : i.client # l.client
    BY <1>1 DEF AttachedTo
  <2> QED BY <1>2, <2>1 DEF PlanIInv, NeverTwoHubs, SingleAttachment
<1>6. NeverOverCapacity'
  <2> SUFFICES ASSUME NEW h \in Nodes
               PROVE  \/ Cardinality(HostedBy(current', h)) <= Capacity[h]
                      \/ HostedBy(current', h) \subseteq HostedBy(active', h)
    BY DEF NeverOverCapacity, HostedBy
  <2>1. CASE h = l.hub
    <3>1. HostedBy(current', h) = HostedBy(current, h) \cup {l}
      BY <1>2, <2>1 DEF HostedBy
    <3>2. IsFiniteSet(HostedBy(current, h)) /\ Cardinality(HostedBy(current, h)) \in Nat
      BY HostedFinite DEF PlanIInv, PlanTypeOK
    <3>3. Cardinality(HostedBy(current', h)) = Cardinality(HostedBy(current, h)) + 1
      <4>1. l \notin HostedBy(current, h)
        BY <1>1 DEF HostedBy
      <4> QED BY <3>1, <3>2, <4>1, FS_AddElement
    <3>4. Capacity[h] \in Nat
      BY NapLinksConstants
    <3> QED BY <1>1, <2>1, <3>2, <3>3, <3>4
  <2>2. CASE h # l.hub
    <3>1. HostedBy(current', h) = HostedBy(current, h)
      BY <1>2, <2>2 DEF HostedBy
    <3> QED BY <1>2, <3>1 DEF PlanIInv, NeverOverCapacity
  <2> QED BY <2>1, <2>2
<1> QED BY <1>2, <1>3, <1>4, <1>5, <1>6 DEF PlanIInv, SingleAttachment, WithinCapacity, HostedBy

\* What is disconnected is obsolete.
LEMMA DisconnectsObsolete ==
  ASSUME NEW l \in ToDisconnect(current, target)
  PROVE  l \in current \ target
BY DEF ToDisconnect, Blocking

\* Disconnecting an obsolete link keeps the invariant.
LEMMA RetireKeepsIInv ==
  ASSUME PlanIInv, NEW l \in ToDisconnect(current, target), Retire(l)
  PROVE  PlanIInv'
<1>1. l \in current \ target /\ l \in Links
  BY DisconnectsObsolete DEF PlanIInv, PlanTypeOK
<1>2. /\ current' = current \ {l} /\ retired' = retired \cup {l}
      /\ active' = active /\ target' = target /\ opened' = opened
      /\ interrupted' \subseteq interrupted \cup {l.client}
  BY DEF Retire
<1>3. PlanTypeOK'
  <2>1. l.client \in Nodes
    BY <1>1 DEF Links
  <2> QED BY <1>1, <1>2, <2>1 DEF PlanIInv, PlanTypeOK
<1>4. OnlyTheDifference'
  <2>1. l \in active /\ l \notin opened
    BY <1>1 DEF PlanIInv, OnlyTheDifference
  <2>2. retired' \subseteq active' \ target'
    BY <1>1, <1>2, <2>1 DEF PlanIInv, OnlyTheDifference
  <2>3. current' = (active' \ retired') \cup opened'
    BY <1>2, <2>1 DEF PlanIInv, OnlyTheDifference
  <2> QED BY <1>2, <2>2, <2>3 DEF PlanIInv, OnlyTheDifference
<1>5. NeverTwoHubs'
  BY <1>2 DEF PlanIInv, NeverTwoHubs, SingleAttachment
<1>6. NeverOverCapacity'
  <2> SUFFICES ASSUME NEW h \in Nodes
               PROVE  \/ Cardinality(HostedBy(current', h)) <= Capacity[h]
                      \/ HostedBy(current', h) \subseteq HostedBy(active', h)
    BY DEF NeverOverCapacity, HostedBy
  <2>1. HostedBy(current', h) \subseteq HostedBy(current, h)
    BY <1>2 DEF HostedBy
  <2>2. CASE HostedBy(current, h) \subseteq HostedBy(active, h)
    BY <1>2, <2>1, <2>2
  <2>3. CASE Cardinality(HostedBy(current, h)) <= Capacity[h]
    <3>1. /\ IsFiniteSet(HostedBy(current, h)) /\ Cardinality(HostedBy(current, h)) \in Nat
          /\ Cardinality(HostedBy(current', h)) \in Nat
      BY <1>3, HostedFinite DEF PlanIInv, PlanTypeOK
    <3>2. Cardinality(HostedBy(current', h)) <= Cardinality(HostedBy(current, h))
      BY <2>1, <3>1, FS_Subset
    <3>3. Capacity[h] \in Nat
      BY NapLinksConstants
    <3> QED BY <2>3, <3>1, <3>2, <3>3
  <2> QED BY <2>2, <2>3 DEF PlanIInv, NeverOverCapacity
<1> QED BY <1>2, <1>3, <1>4, <1>5, <1>6 DEF PlanIInv, SingleAttachment, WithinCapacity, HostedBy

\* The invariant holds in every state of every plan.
THEOREM PlanInvariant == PlanSpec => []PlanIInv
<1>1. PlanInit => PlanIInv
  BY PlanInitIInv
<1>2. PlanIInv /\ [PlanNext]_planVars => PlanIInv'
  <2> SUFFICES ASSUME PlanIInv, [PlanNext]_planVars PROVE PlanIInv'
    OBVIOUS
  <2>1. CASE UNCHANGED planVars
    BY <2>1 DEF planVars, PlanIInv, PlanTypeOK, SingleAttachment, WithinCapacity, HostedBy,
                OnlyTheDifference, NeverTwoHubs, NeverOverCapacity
  <2>2. ASSUME NEW l \in ToConnect(current, target), Connect(l) PROVE PlanIInv'
    BY <2>2, ConnectKeepsIInv
  <2>3. ASSUME NEW l \in ToDisconnect(current, target), Retire(l) PROVE PlanIInv'
    BY <2>3, RetireKeepsIInv
  <2> QED BY <2>1, <2>2, <2>3 DEF PlanNext
<1> QED BY <1>1, <1>2, PTL DEF PlanSpec

\* A blocked addition always has an obsolete link in its way: were its hub full
\* of links that stay, the desired topology would exceed the hub's capacity.
LEMMA IInvNeverStuck == PlanIInv => NeverStuck
<1> SUFFICES ASSUME PlanIInv, current # target,
                    ToConnect(current, target) = {}, ToDisconnect(current, target) = {}
             PROVE  FALSE
  BY DEF NeverStuck
<1>1. CASE target \subseteq current
  <2>1. current \ target = {}
    BY <1>1 DEF ToDisconnect
  <2> QED BY <1>1, <2>1
<1>2. CASE ~(target \subseteq current)
  <2>1. PICK l \in target : l \notin current
    BY <1>2
  <2>2. Ready(current, target) = {} /\ Blocking(current, target) = {}
    BY <1>2 DEF ToConnect, ToDisconnect
  <2>3. l \in Links /\ l.hub \in Nodes
    BY DEF PlanIInv, PlanTypeOK, Links
  <2>4. \A old \in current \ target : old.client # l.client
    BY <2>1, <2>2 DEF Blocking
  <2>5. \A old \in current \ target : old.hub # l.hub
    BY <2>1, <2>2, <2>4 DEF Blocking
  <2>6. AttachedTo(current, l.client) = {}
    <3> SUFFICES ASSUME NEW k \in current, k.client = l.client PROVE FALSE
      BY DEF AttachedTo
    <3>1. k \in target
      BY <2>4
    <3>2. k = l
      BY <3>1 DEF PlanIInv, SingleAttachment
    <3> QED BY <3>2, <2>1
  <2>7. ~(Cardinality(HostedBy(current, l.hub)) < Capacity[l.hub])
    BY <2>1, <2>2, <2>6 DEF Ready
  <2>8. HostedBy(current, l.hub) \subseteq HostedBy(target, l.hub)
    BY <2>5 DEF HostedBy
  <2>9. l \in HostedBy(target, l.hub) /\ l \notin HostedBy(current, l.hub)
    BY <2>1 DEF HostedBy
  <2>10. /\ IsFiniteSet(HostedBy(target, l.hub)) /\ Cardinality(HostedBy(target, l.hub)) \in Nat
         /\ Cardinality(HostedBy(current, l.hub)) \in Nat
    BY HostedFinite DEF PlanIInv, PlanTypeOK
  <2>11. /\ Cardinality(HostedBy(current, l.hub)) <= Cardinality(HostedBy(target, l.hub))
         /\ Cardinality(HostedBy(current, l.hub)) # Cardinality(HostedBy(target, l.hub))
    BY <2>8, <2>9, <2>10, FS_Subset
  <2>12. Cardinality(HostedBy(target, l.hub)) <= Capacity[l.hub] /\ Capacity[l.hub] \in Nat
    BY <2>3, NapLinksConstants DEF PlanIInv, WithinCapacity
  <2> QED BY <2>7, <2>10, <2>11, <2>12
<1> QED BY <1>1, <1>2

\* diff_nap_topology never passes through a topology with a client on two hubs
\* or with a hub beyond its capacity, touches the difference only, and never
\* returns "topology transition cannot free a safe slot".
THEOREM DiffIsSafe == PlanSpec => []EveryStepIsSafe
<1>1. PlanIInv => EveryStepIsSafe
  BY IInvNeverStuck DEF PlanIInv, EveryStepIsSafe
<1> QED BY <1>1, PlanInvariant, PTL
===============================================================================
