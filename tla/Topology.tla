------------------------------ MODULE Topology ------------------------------
(***************************************************************************)
(* The graph of PAN links (topology.rs), the routes a node derives from it *)
(* (route_planner.rs) and the decision to forward IPv4 between segments    *)
(* (forwarding_policy.rs).  The graph is edited one call at a time; every  *)
(* node computes its routes from it alone.                                 *)
(***************************************************************************)
EXTENDS Naturals, FiniteSets, FiniteSetsExt, SequencesExt

CONSTANTS
  Nodes,        \* node identities, ordered as the identifiers are
  NodeChoices,  \* pairs <<node, routing capability>> that may be added
  LinkChoices,  \* links that may be added: [id, seg, nap, panu, state, health, cost]
  MetricMax     \* largest value of a route metric

\* What an instance must satisfy.
TopologyConstants ==
  /\ Nodes \subseteq Nat \ {0} /\ IsFiniteSet(Nodes) /\ MetricMax \in Nat
  /\ NodeChoices \subseteq Nodes \X {"yes", "no", "unknown"}
  /\ \A l \in LinkChoices : {l.nap, l.panu} \subseteq Nodes /\ l.cost \in Nat

DegradedPenalty == 100

VARIABLE graph   \* [nodes: capabilities of a node, links, segments: of an id]

EmptyGraph == [nodes |-> <<>>, links |-> <<>>, segments |-> <<>>]

Without(f, S) == Restrict(f, DOMAIN f \ S)

LinksOf(g) == {g.links[i] : i \in DOMAIN g.links}
ForwardingCandidate(l) == l.state = "active" /\ l.health # "failed"
Live(g) == {l \in LinksOf(g) : ForwardingCandidate(l)}
Ends(l) == {l.nap, l.panu}
CanRoute(g, n) == g.nodes[n] = "yes"   \* an unknown capability is a denial

-----------------------------------------------------------------------------
AddNode(n, routing) == graph' = [graph EXCEPT !.nodes = (n :> routing) @@ @]

RemoveNode(n) ==
  /\ n \in DOMAIN graph.nodes
  /\ LET led == {s \in DOMAIN graph.segments : graph.segments[s].nap = n}
     IN graph' = [nodes |-> Without(graph.nodes, {n}),
                  links |-> Without(graph.links,
                              {i \in DOMAIN graph.links : n \in Ends(graph.links[i])}),
                  segments |-> [s \in DOMAIN graph.segments \ led |->
                                 [graph.segments[s] EXCEPT !.members = @ \ {n}]]]

\* PanSegment::new, and its registration: a known id is replaced.
AddSegment(s, n) ==
  /\ n \in DOMAIN graph.nodes
  /\ graph' = [graph EXCEPT !.segments = (s :> [nap |-> n, members |-> {n}]) @@ @]

AddLink(l) ==
  /\ l.nap # l.panu /\ Ends(l) \subseteq DOMAIN graph.nodes
  /\ l.seg \in DOMAIN graph.segments /\ graph.segments[l.seg].nap = l.nap
  /\ graph' = [graph EXCEPT !.segments[l.seg].members = @ \cup {l.panu},
                            !.links = (l.id :> l) @@ @]

RemoveLink(i) ==
  /\ i \in DOMAIN graph.links
  /\ LET l == graph.links[i]
         rest == Without(graph.links, {i})
         attached == \E j \in DOMAIN rest : rest[j].seg = l.seg /\ rest[j].panu = l.panu
     IN graph' = [graph EXCEPT
          !.links = rest,
          !.segments = IF l.seg \notin DOMAIN @ \/ attached THEN @
                       ELSE [@ EXCEPT ![l.seg].members = @ \ {l.panu}]]

-----------------------------------------------------------------------------
Neighbors(g, n) == UNION {Ends(l) \ {n} : l \in {x \in Live(g) : n \in Ends(x)}}

\* Breadth-first levels of shortest_path: the number of nodes on the path,
\* 0 when there is none.
PathLength(g, a, b) ==
  LET level[k \in 0 .. Cardinality(Nodes)] ==
        IF k = 0 THEN {a} ELSE level[k - 1] \cup UNION {Neighbors(g, n) : n \in level[k - 1]}
      hops == {k \in 0 .. Cardinality(Nodes) : b \in level[k]}
  IN IF {a, b} \subseteq DOMAIN g.nodes /\ hops # {} THEN Min(hops) + 1 ELSE 0

ActiveIn(g, n, s) ==
  \/ n = g.segments[s].nap
  \/ \E l \in Live(g) : l.seg = s /\ l.panu = n

Reachability(g, a, b) ==
  LET length == PathLength(g, a, b)
  IN CASE length = 0 -> "unreachable"
       [] length = 1 -> "local"
       [] length = 2 -> "direct"
       [] OTHER -> IF \E s \in DOMAIN g.segments : ActiveIn(g, a, s) /\ ActiveIn(g, b, s)
                   THEN "segment" ELSE "routed"

-----------------------------------------------------------------------------
\* Tuples <<cost, hops, first hop, ...>> in the order of the priority queue.
Precedes(x, y) ==
  \E k \in 1 .. Len(x) : x[k] < y[k] /\ \A j \in 1 .. (k - 1) : x[j] = y[j]
Least(S) == CHOOSE x \in S : \A y \in S \ {x} : Precedes(x, y)

Edge(l) == Max({l.cost, 1}) + (IF l.health = "degraded" THEN DegradedPenalty ELSE 0)

\* Mutant of Relays: every node carries the traffic of others.
RelaysAlways(g, source, n) == TRUE

\* Routes are continued through the source and through routing nodes.
Relays(g, source, n) == n = source \/ CanRoute(g, n)

\* The candidates a popped entry <<cost, hops, first hop, node>> offers.
Offers(g, source, e) ==
  LET next(l) == IF l.nap = e[4] THEN l.panu ELSE l.nap
  IN {<<e[1] + Edge(l), e[2] + 1, IF e[4] = source THEN next(l) ELSE e[3], next(l)>> :
        l \in {x \in Live(g) : e[4] \in Ends(x)}}

\* Mutant of Improves: the first path found is kept.
ImprovesNew(best, o) == o[4] \notin DOMAIN best

Improves(best, o) == o[4] \notin DOMAIN best \/ Precedes(SubSeq(o, 1, 3), best[o[4]])

\* The loop over the priority queue: best tuple of every node reached.
RECURSIVE Settle(_, _, _, _)
Settle(g, source, best, queue) ==
  IF queue = {} THEN best
  ELSE LET e == Least(queue)
           rest == queue \ {e}
           stale == best[e[4]] # SubSeq(e, 1, 3)
           better == {o \in Offers(g, source, e) : Improves(best, o)}
           least == [n \in {o[4] : o \in better} |-> Least({o \in better : o[4] = n})]
       IN IF stale \/ ~Relays(g, source, e[4]) THEN Settle(g, source, best, rest)
          ELSE Settle(g, source,
                 [n \in DOMAIN least |-> SubSeq(least[n], 1, 3)] @@ best,
                 rest \cup {least[n] : n \in DOMAIN least})

\* Routes of one source, or an error when a metric does not fit.
DesiredNodeRoutes(g, source) ==
  LET start == <<0, 0, source>>
      best == Settle(g, source, (source :> start), {Append(start, source)})
  IN [ok |-> source \in DOMAIN g.nodes /\ \A n \in DOMAIN best : best[n][1] <= MetricMax,
      routes |-> {[dest |-> n, hop |-> best[n][3], cost |-> best[n][1]] :
                    n \in DOMAIN best \ {source}}]

\* A routing node with live links in two segments forwards between them.
DesiredForwarding(g, n) ==
  CanRoute(g, n) /\ Cardinality({l.seg : l \in {x \in Live(g) : n \in Ends(x)}}) >= 2

-----------------------------------------------------------------------------
SegmentIds == {l.seg : l \in LinkChoices}
Edit ==
  \/ \E c \in NodeChoices : AddNode(c[1], c[2])
  \/ \E n \in Nodes : RemoveNode(n)
  \/ \E l \in LinkChoices : AddSegment(l.seg, l.nap) \/ AddLink(l) \/ RemoveLink(l.id)

-----------------------------------------------------------------------------
\* Paths without a repeated node, and the least metric of a hop between neighbours.
Tours == {p \in UNION {[1 .. k -> Nodes] : k \in 2 .. Cardinality(Nodes)} : IsInjective(p)}
Hop(g, a, b) == {Edge(l) : l \in {x \in Live(g) : Ends(x) = {a, b}}}
Travels(g, p) == \A k \in 1 .. (Len(p) - 1) : Hop(g, p[k], p[k + 1]) # {}
Relayed(g, p) == \A k \in 2 .. (Len(p) - 1) : CanRoute(g, p[k])
Rank(g, p) ==
  <<SumFunction([k \in 1 .. (Len(p) - 1) |-> Min(Hop(g, p[k], p[k + 1]))]), Len(p) - 1, p[2]>>

\* What a node plans is exact: for every destination that some path of live
\* links and routing nodes reaches, and for no other, the route of least cost,
\* then fewest hops, then lowest first hop; and the class topology.rs reports
\* tells apart the same way who is reached over no, one or more links
\* (route_planner.rs:17-23, topology.rs:176-250).
PlansAreShortestPaths ==
  \A a \in DOMAIN graph.nodes :
    LET plan == DesiredNodeRoutes(graph, a)
        paths == {p \in Tours : p[1] = a /\ Travels(graph, p)}
        rank == [p \in {x \in paths : Relayed(graph, x)} |-> Rank(graph, p)]
        reached == {Last(p) : p \in DOMAIN rank}
        best == [b \in reached |-> Least({rank[p] : p \in {x \in DOMAIN rank : Last(x) = b}})]
    IN /\ plan.ok => plan.routes =
            {[dest |-> b, hop |-> best[b][3], cost |-> best[b][1]] : b \in reached}
       /\ plan.ok <=> \A b \in reached : best[b][1] <= MetricMax
       /\ \A b \in DOMAIN graph.nodes \ {a} :
            LET class == Reachability(graph, a, b)
            IN /\ class = "unreachable" <=> \A p \in paths : Last(p) # b
               /\ class = "direct" <=> Hop(graph, a, b) # {}

\* Nodes plan alone, yet their routes agree hop by hop: the next hop of a route
\* is the destination, or it has a cheaper route of its own there and carries
\* the packet on, within one segment or by forwarding between two
\* (route_planner.rs:24-27, forwarding_policy.rs:10-15).
RoutesDeliver ==
  LET plan == [n \in DOMAIN graph.nodes |-> DesiredNodeRoutes(graph, n)]
      segs(a, b) == {l.seg : l \in {x \in Live(graph) : Ends(x) = {a, b}}}
  IN \A n \in DOMAIN graph.nodes :
       plan[n].ok => \A r \in plan[n].routes :
         \/ r.hop = r.dest
         \/ ~plan[r.hop].ok
         \/ \E q \in plan[r.hop].routes :
              /\ q.dest = r.dest /\ q.cost < r.cost
              /\ \/ segs(n, r.hop) \cap segs(r.hop, q.hop) # {}
                 \/ DesiredForwarding(graph, r.hop)
====
