------------------------------- MODULE NapLinks -------------------------------
(***************************************************************************)
(* PAN links between hubs and clients, and one iteration of the loop of    *)
(* diff_nap_topology (topology_plan.rs).  The loop takes the first link in *)
(* the order of BTreeSet; here any link with the same standing may be      *)
(* taken, so what holds here holds for every order of the identities.      *)
(***************************************************************************)
EXTENDS Naturals, FiniteSets

CONSTANTS
  Nodes,     \* nonzero NodeIds of the candidates
  Capacity   \* connection_policy_ceiling of each node that can host, else 0

ASSUME NapLinksConstants ==
  /\ IsFiniteSet(Nodes)
  /\ Capacity \in [Nodes -> Nat]

Link(h, c) == [hub |-> h, client |-> c]

Links == {l \in [hub: Nodes, client: Nodes] : l.hub # l.client}

AttachedTo(links, c) == {l \in links : l.client = c}

HostedBy(links, h) == {l \in links : l.hub = h}

\* Every client has at most one hub.
SingleAttachment(links) ==
  \A k, l \in links : k.client = l.client => k = l

\* No hub has more clients than its capacity.
WithinCapacity(links) == \A h \in Nodes : Cardinality(HostedBy(links, h)) <= Capacity[h]

\* Mutant of Ready: the hub's capacity is not consulted.
ReadyBeyondCapacity(current, target) ==
  {l \in target \ current : AttachedTo(current, l.client) = {}}

\* Additions that need nothing to be retired first.
Ready(current, target) ==
  {l \in target \ current :
     /\ AttachedTo(current, l.client) = {}
     /\ Cardinality(HostedBy(current, l.hub)) < Capacity[l.hub]}

\* Mutant of Blocking: only the moving client's own link is considered.
BlockingByClient(current, target) ==
  {old \in current \ target : \E l \in target \ current : old.client = l.client}

\* Obsolete links in the way of an addition: of its client, else of its hub.
Blocking(current, target) ==
  {old \in current \ target : \E l \in target \ current :
     \/ old.client = l.client
     \/ /\ old.hub = l.hub
        /\ \A other \in current \ target : other.client # l.client}

\* The next step connects one of these links ...
ToConnect(current, target) == Ready(current, target)

\* ... or, when none is ready, disconnects one of these.
ToDisconnect(current, target) ==
  IF target \subseteq current THEN current \ target
  ELSE IF Ready(current, target) = {} THEN Blocking(current, target) ELSE {}
====
