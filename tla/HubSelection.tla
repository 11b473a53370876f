---------------------------- MODULE HubSelection ----------------------------
(***************************************************************************)
(* select_nap_hubs of topology_policy.rs: one action is one iteration of   *)
(* its loop.  Once it has returned, Reselect calls it again with the       *)
(* selected hubs as the hosting ones, as a later planning round does.      *)
(***************************************************************************)
EXTENDS Integers, FiniteSets, FiniteSetsExt

CONSTANTS
  N,           \* NodeIds 1..N, in the order of BTreeMap
  Capacities,  \* connection_policy_ceiling, 0: no affirmed NAP support or capacity
  Joiners,     \* sets of nodes with affirmed PANU support
  Metric,      \* CandidateLink of an observed neighbour: [cost, quality, stable]
  AcPowered,   \* nodes on mains power
  Gateways,    \* gateway_preferred
  Rounds       \* number of planning rounds

Everyone == 1 .. N
Pairs == {p \in Everyone \X Everyone : p[1] # p[2]}

\* What an instance must satisfy.
SelectionConstants ==
  /\ N \in Nat /\ Rounds \in Nat
  /\ Capacities \subseteq [Everyone -> Nat] /\ Joiners \subseteq SUBSET Everyone
  /\ Metric \in [Pairs -> [cost: Nat \ {0}, quality: 0 .. 100, stable: {0, 1}]]

VARIABLES
  heard,      \* <<a, b>>: b is in the neighbors of a
  capacity, joins, hosting,
  unserved, stars,   \* the locals of the loop; a star is [hub, clients]
  round, origin,     \* planning round, and hosting in the first one
  previous           \* stars of the round before

vars == <<heard, capacity, joins, hosting, unserved, stars, round, origin, previous>>

Init ==
  /\ heard \in SUBSET Pairs /\ capacity \in Capacities /\ joins \in Joiners
  /\ hosting \in {{}} \cup {{n} : n \in Everyone}
  /\ unserved = Everyone /\ stars = {}
  /\ round = 1 /\ origin = hosting /\ previous = {}

Indicator(b) == IF b THEN 1 ELSE 0
Smaller(a, b) == IF a < b THEN a ELSE b
Larger(a, b) == IF a < b THEN b ELSE a

\* The order of tuples.
Above(s, t) ==
  \E i \in DOMAIN s : s[i] > t[i] /\ \A j \in 1 .. i - 1 : s[j] = t[j]

\* The worse of what both ends report of the link.
Joint(h, c) ==
  [cost |-> Larger(Metric[<<h, c>>].cost, Metric[<<c, h>>].cost),
   quality |-> Smaller(Metric[<<h, c>>].quality, Metric[<<c, h>>].quality),
   stable |-> Smaller(Metric[<<h, c>>].stable, Metric[<<c, h>>].stable)]

\* Mutant of Eligible: what the hub alone hears is enough.
EligibleOneSided(h) == {c \in unserved \cap joins : <<h, c>> \in heard}

Eligible(h) == {c \in unserved \cap joins : {<<h, c>>, <<c, h>>} \subseteq heard}

ClientRank(h, c) == <<Joint(h, c).stable, Joint(h, c).quality, -Joint(h, c).cost, -c>>

\* Mutant of ClientsOf: the cut takes one client less than the hub can have.
ClientsOfShort(h) ==
  {c \in Eligible(h) :
     Cardinality({d \in Eligible(h) : Above(ClientRank(h, d), ClientRank(h, c))}) + 1
       < capacity[h]}

\* sort_by_key, then truncate(capacity).
ClientsOf(h) ==
  {c \in Eligible(h) :
     Cardinality({d \in Eligible(h) : Above(ClientRank(h, d), ClientRank(h, c))}) < capacity[h]}

\* Mutant of Score: a hub that is not hosting yet is preferred.
ScoreChurning(h) ==
  LET clients == ClientsOf(h)
      Total(f(_)) == MapThenSumSet(f, clients)
  IN  <<Cardinality(clients), Indicator(h \notin hosting),
        Total(LAMBDA c : Joint(h, c).stable), Total(LAMBDA c : Joint(h, c).quality),
        Indicator(h \in AcPowered), Indicator(h \in Gateways),
        -Total(LAMBDA c : Joint(h, c).cost), -h>>

Score(h) ==
  LET clients == ClientsOf(h)
      Total(f(_)) == MapThenSumSet(f, clients)
  IN  <<Cardinality(clients), Indicator(h \in hosting),
        Total(LAMBDA c : Joint(h, c).stable), Total(LAMBDA c : Joint(h, c).quality),
        Indicator(h \in AcPowered), Indicator(h \in Gateways),
        -Total(LAMBDA c : Joint(h, c).cost), -h>>

Hubs == {s.hub : s \in stars}

\* Hosts with at least one client to take; capacity 0 leaves none.
Proposals == {h \in Everyone \ Hubs : ClientsOf(h) # {}}

\* Mutant of Select: a selected hub may still become a client.
SelectKeepingHub ==
  \E h \in Proposals :
    /\ \A other \in Proposals \ {h} : Above(Score(h), Score(other))
    /\ stars' = stars \cup {[hub |-> h, clients |-> ClientsOf(h)]}
    /\ unserved' = unserved \ ClientsOf(h)
    /\ UNCHANGED <<heard, capacity, joins, hosting, round, origin, previous>>

\* One iteration: the best proposal becomes a star.
Select ==
  \E h \in Proposals :
    /\ \A other \in Proposals \ {h} : Above(Score(h), Score(other))
    /\ stars' = stars \cup {[hub |-> h, clients |-> ClientsOf(h)]}
    /\ unserved' = unserved \ ({h} \cup ClientsOf(h))
    /\ UNCHANGED <<heard, capacity, joins, hosting, round, origin, previous>>

\* The next planning round, once the selected hubs host.
Reselect ==
  /\ Proposals = {} /\ round < Rounds
  /\ round' = round + 1 /\ previous' = stars /\ hosting' = Hubs
  /\ unserved' = Everyone /\ stars' = {}
  /\ UNCHANGED <<heard, capacity, joins, origin>>

Next == Select \/ Reselect

Spec == Init /\ [][Next]_vars

-----------------------------------------------------------------------------
Served == Hubs \cup UNION {s.clients : s \in stars}

\* Every proposal passes link_set, the validation diff_nap_topology applies to
\* a desired topology: hubs once, clients once, capable and reciprocal ends,
\* capacity kept, and unserved the exact rest (topology_plan.rs:34-107).
SelectionIsAccepted ==
  /\ \A s, t \in stars : (s.hub = t.hub \/ s.clients \cap t.clients # {}) => s = t
  /\ \A s \in stars :
       /\ s.clients # {} /\ s.hub \notin s.clients
       /\ Cardinality(s.clients) <= capacity[s.hub]
       /\ \A c \in s.clients : c \in joins /\ {<<s.hub, c>>, <<c, s.hub>>} \subseteq heard
  /\ Served \cap unserved = {} /\ Served \cup unserved = Everyone

\* A served client may become the hub of a further star, but the stars never
\* close a cycle of links: whichever hubs are taken, one of them is not a
\* client of the others (topology_policy.rs:198-206).
StarsFormAForest ==
  \A S \in SUBSET Hubs : S # {} =>
    \E h \in S : \A s \in stars : s.hub \in S => h \notin s.clients

\* A candidate stays unserved only when every capable neighbour that hears it
\* is full (topology_policy.rs:84-87, 117-148).
UnservedOnlyWhenFull ==
  Proposals = {} =>
    \A c \in unserved \cap joins, h \in Everyone :
      ({<<h, c>>, <<c, h>>} \subseteq heard /\ capacity[h] > 0) =>
        \E s \in stars : s.hub = h /\ Cardinality(s.clients) = capacity[h]

\* A proposal made with nothing hosting yet is its own successor: planning
\* again once its hubs host moves no client (topology_policy.rs:176-178).
ReselectionIsStable ==
  (Proposals = {} /\ round > 1 /\ origin = {}) => stars = previous
====
