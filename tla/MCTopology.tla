------------------------------ MODULE MCTopology ------------------------------
(***************************************************************************)
(* How a network is shaped: hub selection, the plan between two topologies, *)
(* recovery from a lost hub, the node graph and its routes, the execution   *)
(* of routes, forwarding, the segments' addresses, the candidates and the   *)
(* gate on changes.  `which` names the component that runs in a behaviour,  *)
(* the others rest in an initial state.                                     *)
(***************************************************************************)
EXTENDS NapPlan, ForwardingLease, TLC

CONSTANTS
  n1, n2, n3, n4,
  Chain   \* the stars recovery starts from are a chain

VARIABLES
  which,
  heard, capacity, joins, hosting, unserved, stars, round, origin, previous,
  links, clock, faults, routes, lastSample, seen, missing, lost, failures, lastFailure,
  recPc, began, recObserved, desired, expected, opFailed, recOutcome, present, gone,
  graph,
  planned, kernel, caller, pc, events, wanted, first, observed, upserts, removals, step, outcome,
  pool, reservations, host,
  candidates, now, newest,
  chosen, cost, viable, dwelt, waited, fails, drifts, left

(* ------------------------------ instances ------------------------------ *)

\* The plan: three hubs of capacity 1, 2 and 1 and a node that cannot host.
MCNodes == {n1, n2, n3, n4}
MCCapacity == n1 :> 1 @@ n2 :> 2 @@ n3 :> 1 @@ n4 :> 0

\* Selection: four nodes, any two of which hear each other, not at all, or one-sidedly
\* (then the lower one hears the higher one).
Good == [cost |-> 1, quality |-> 80, stable |-> 1]
Fair == [cost |-> 2, quality |-> 80, stable |-> 0]
Bad == [cost |-> 3, quality |-> 0, stable |-> 0]
MCMetric ==
  [p \in {q \in (1 .. 4) \X (1 .. 4) : q[1] # q[2]} |->
     CASE p[1] + p[2] = 5 -> Good [] p[1] < p[2] -> Fair [] OTHER -> Bad]
MCCapacities == {<<1, 2, 0, 1>>, <<2, 1, 2, 1>>}
Selection == INSTANCE HubSelection WITH
  N <- 4, Rounds <- 2, Capacities <- MCCapacities, Joiners <- {1 .. 4},
  Metric <- MCMetric, AcPowered <- {2, 4}, Gateways <- {3}

\* Recovery: a hub with a client, and a second hub that can take it over; or a
\* chain of two hubs next to a third, where n2 hosts n1 and n1 can host only one
\* of its neighbours.
RecNodes == IF Chain THEN MCNodes ELSE {n1, n2, n4}
RecCapacity == n1 :> 1 @@ n2 :> 1 @@ n4 :> 0 @@ n3 :> 1
RecNeighbors == IF Chain THEN {{n1, n2}, {n1, n4}, {n1, n3}} ELSE {{n1, n2}, {n1, n4}, {n2, n4}}
RecPlacements ==
  IF Chain THEN {{Link(n2, n1), Link(n1, n4)}, {Link(n3, n1)}}
  ELSE {{Link(n1, n4)}, {Link(n1, n4), Link(n2, n1)}}
Recovery == INSTANCE HubRecovery WITH
  Nodes <- RecNodes, Capacity <- RecCapacity, Neighbors <- RecNeighbors, Placements <- RecPlacements,
  MinAbsence <- 1, RetryBase <- 2, RetryMax <- 3, MaxTime <- 7, MaxFaults <- 3,
  pc <- recPc, observed <- recObserved, outcome <- recOutcome, retired <- gone

\* The graph: four nodes and links between them that are edited freely.
L(i, s, n, p, h, c) ==
  [id |-> i, seg |-> s, nap |-> n, panu |-> p, state |-> "active", health |-> h, cost |-> c]
MCLinks ==
  {L("a", "s1", 1, 2, "good", 1), L("b", "s2", 2, 3, "good", 0), L("b", "s2", 2, 3, "degraded", 1),
   L("c", "s1", 1, 4, "good", 2), L("d", "s4", 4, 3, "good", 150)}
MCNodeChoices == {<<1, "yes">>, <<2, "yes">>, <<2, "unknown">>, <<3, "no">>, <<4, "yes">>}
Graph == INSTANCE Topology WITH
  Nodes <- 1 .. 4, LinkChoices <- MCLinks, MetricMax <- 200, NodeChoices <- MCNodeChoices

\* Execution: node 1 reconciles, for plans of three topologies, at both layers.
G(ids) ==
  LET ls == {l \in MCLinks : l.health = "good" /\ l.id \in ids}
  IN [nodes |-> <<"yes", "yes", "no", "yes">>,
      links |-> [i \in ids |-> CHOOSE l \in ls : l.id = i],
      segments |-> <<>>]
MCPlans == {Graph!DesiredNodeRoutes(g, 1) : g \in {G({"a"}), G({"a", "b"}), G({"c", "d"})}}
R(d, v, c, o) == [dest |-> d, via |-> v, cost |-> c, owner |-> o]
Addr(n) == <<"prefix", 3 + n, 3>>
Planned(layer) ==
  [layer |-> layer, planned |-> TRUE, request |-> {},
   dests |-> {<<n, Addr(n)>> : n \in 1 .. 4}, hops |-> {<<n, 3 + n>> : n \in {2, 4}}]
Asks(layer, S) == [Planned(layer) EXCEPT !.planned = FALSE, !.request = S]
MCCallers ==
  {Planned("core"), Planned("linux"),
   [Planned("linux") EXCEPT !.hops = {<<2, 5>>, <<4, 5>>}],
   Asks("core", {R(<<"node", 2>>, 2, 1, "us"), R(<<"prefix", 4, 2>>, 2, 1, "us")}),
   Asks("core", {R(<<"prefix", 5, 2>>, 2, 1, "us")}),
   Asks("linux", {R(<<"prefix", 4, 2>>, 6, 1, "us"), R(<<"prefix", 6, 3>>, 8, 1, "us")}),
   Asks("linux", {R(<<"prefix", 4, 2>>, 6, 0, "us")})}
MCForeign == {R(<<"node", 3>>, 4, 9, "other"), R(<<"prefix", 5, 2>>, 8, 9, "other")}
MCTables ==
  {{}, {R(<<"node", 2>>, 4, 7, "us"), R(<<"node", 4>>, 4, 7, "us")},
   {R(Addr(2), 6, 7, "us"), R(Addr(4), 6, 7, "us")},
   {R(<<"prefix", 4, 2>>, 7, 1, "us"), R(<<"internet">>, 1, 1, "other")}}
Execution == INSTANCE RouteExecution WITH
  Callers <- MCCallers, Plans <- MCPlans, Tables <- MCTables, Foreign <- MCForeign, Width <- 3, MaxEvents <- 2

\* Addresses: pools of several sizes, segments and networks that collide.
P(n, a, b) == [network |-> n, poolLen |-> a, segLen |-> b]
MCPools == {P(32, 1, 3), P(32, 2, 4), P(48, 3, 4), P(56, 3, 3), P(0, 0, 2), P(36, 2, 4), P(48, 3, 5)}
MCHost == {<<0, 0>>, <<32, 3>>, <<41, 6>>, <<48, 4>>, <<56, 3>>}
Addresses == INSTANCE SegmentAddresses WITH
  Width <- 6, Pools <- MCPools, Private <- {<<32, 1>>}, Segments <- {0, 1, 3},
  MaxReserved <- 3, MaxProbes <- 4, HostPrefixes <- MCHost

\* The candidates; and three topologies with costs around the margin, at three
\* failures in a row.
Near == INSTANCE LocalTopology WITH
  Local <- n1, Others <- {n2, n3, n4}, LIFETIME <- 2, MAX_CANDIDATES <- 2, U64Max <- 6,
  Topologies <- {1, 2, 3}, Costs <- {0, 2, 3, 6}, MIN_DWELL <- 2, MIN_GAIN <- 2,
  RETRY_BASE <- 1, RETRY_MAX <- 3, MaxDrifts <- 2, MaxFailures <- 3

ASSUME /\ Near!TableConstants /\ Near!GateConstants
ASSUME /\ Selection!SelectionConstants /\ Recovery!RecoveryConstants /\ Graph!TopologyConstants
       /\ Execution!ExecutionConstants /\ Addresses!AddressConstants

(* ---------------------------- specification ---------------------------- *)

select == <<heard, capacity, joins, hosting, unserved, stars, round, origin, previous>>
plan == <<active, target, current, opened, retired, interrupted>>
recover == <<links, clock, faults, routes, lastSample, seen, missing, lost, failures, lastFailure,
             recPc, began, recObserved, desired, expected, opFailed, recOutcome, present, gone>>
execute == <<planned, kernel, caller, pc, events, wanted, first, observed, upserts, removals, step, outcome>>
address == <<pool, reservations, host>>
table == <<candidates, now, newest>>
gate == <<chosen, cost, viable, dwelt, waited, fails, drifts, left>>

\* Everything rests but the one that runs.
MCInit ==
  /\ which \in {"select", "plan", "recover", "graph", "execute", "forward", "address", "table", "gate"}
  /\ IF which = "select"
     THEN /\ Selection!Init /\ (\A p \in heard : p[1] < p[2] \/ <<p[2], p[1]>> \in heard)
          /\ capacity[3] = 2 => hosting = {}
     ELSE /\ heard = {} /\ capacity = <<1, 2, 0, 1>> /\ joins = 1 .. 4 /\ hosting = {}
          /\ unserved = 1 .. 4 /\ stars = {} /\ round = 1 /\ origin = {} /\ previous = {}
  /\ IF which = "plan" THEN PlanInit
     ELSE active = {} /\ target = {} /\ current = {} /\ opened = {} /\ retired = {} /\ interrupted = {}
  /\ Recovery!Init /\ (which # "recover" => links = IF Chain THEN {Link(n3, n1)} ELSE {Link(n1, n4)})
  /\ graph = Graph!EmptyGraph
  /\ Execution!ExecInit
  /\ which # "execute" =>
       kernel = {} /\ caller = Planned("core") /\ planned = Graph!DesiredNodeRoutes(G({"a"}), 1)
  /\ FwdInit /\ (which # "forward" => ~switch)
  /\ Addresses!Init /\ (which # "address" => pool = P(32, 1, 3))
  /\ Near!NeighborInit
  /\ Near!GateInit /\ (which # "gate" => chosen = 1 /\ cost = <<0, 0, 0>>)

MCNext ==
  /\ \/ which = "select" /\ Selection!Next /\ UNCHANGED <<plan, recover, graph, execute, fwdVars, address, table, gate>>
     \/ which = "plan" /\ PlanNext /\ UNCHANGED <<select, recover, graph, execute, fwdVars, address, table, gate>>
     \/ which = "recover" /\ Recovery!Next /\ UNCHANGED <<select, plan, graph, execute, fwdVars, address, table, gate>>
     \/ which = "graph" /\ Graph!Edit /\ UNCHANGED <<select, plan, recover, execute, fwdVars, address, table, gate>>
     \/ which = "execute" /\ Execution!ExecNext /\ UNCHANGED <<select, plan, recover, graph, fwdVars, address, table, gate>>
     \/ which = "forward" /\ FwdNext /\ UNCHANGED <<select, plan, recover, graph, execute, address, table, gate>>
     \/ which = "address" /\ Addresses!Next /\ UNCHANGED <<select, plan, recover, graph, execute, fwdVars, table, gate>>
     \/ which = "table" /\ Near!NeighborNext /\ UNCHANGED <<select, plan, recover, graph, execute, fwdVars, address, gate>>
     \/ which = "gate" /\ Near!GateNext /\ UNCHANGED <<select, plan, recover, graph, execute, fwdVars, address, table>>
  /\ UNCHANGED which

\* The planning loop runs until it returns, and the owner of the routes keeps
\* retrying.
MCSpec ==
  /\ MCInit /\ [][MCNext]_<<which, select, plan, recover, graph, execute, fwdVars, address, table, gate>>
  /\ WF_plan(which = "plan" /\ PlanNext)
  /\ WF_gate(which = "gate" /\ Near!GateStep)
  /\ WF_execute(which = "execute" /\ Execution!Execute)

(* ------------------------------ properties ----------------------------- *)

\* The candidates are the nodes last heard of; a selection is accepted by the
\* planner, its stars close no cycle, it leaves nobody out that could be served,
\* and planning again moves no client; the gate on changes goes back to no topology
\* it left (neighbor.rs, topology_policy.rs, topology_plan.rs,
\* topology_stability.rs).
SelectionIsSound ==
  /\ Near!CandidatesAreTheLatest /\ Near!NoFlap
  /\ which = "select" =>
       /\ Selection!SelectionIsAccepted /\ Selection!StarsFormAForest
       /\ Selection!UnservedOnlyWhenFull /\ Selection!ReselectionIsStable

\* Recovery confirms only real losses, plans around them, and changes links only
\* while the routes stand for the links last observed (topology_loss.rs,
\* topology_recovery.rs, topology_recovery_flow.rs).
RecoveryIsSound ==
  [][which = "recover" =>
       /\ (/\ Recovery!TypeOK /\ Recovery!ConfirmedLossIsAbsence
           /\ Recovery!PlansAvoidLostHubs /\ Recovery!RoutesPrecedeChanges)'
       /\ Recovery!RoutesFollowObservation]_recover

\* What each node plans is a shortest path, and the plans of the nodes agree hop
\* by hop (route_planner.rs, topology.rs, forwarding_policy.rs).
RoutesDeliver == which = "graph" => Graph!PlansAreShortestPaths /\ Graph!RoutesDeliver

\* Executing a plan harms no route at any step, and success is exact
\* (route_executor.rs).
ExecutionIsExact == [][which = "execute" => Execution!ChangesAreSafe /\ Execution!SuccessIsExact]_execute

\* Segments share no address with one another or with the host, and a free one
\* is found (segment_allocator.rs, addressing.rs).
SegmentsAreDisjoint ==
  [][which = "address" =>
       (Addresses!SegmentsAreDisjoint /\ Addresses!ProbeIsComplete)' /\ Addresses!ReservedIsUnused]_address

\* The planning loop ends with the desired topology, having reported exactly the
\* clients that move; a topology better by the policy's margin is taken up in the
\* end; and once the table and the topology are left alone the
\* owned routes become and stay the wanted ones (topology_plan.rs:109-174,
\* topology_stability.rs:35-89, route_recovery.rs:10-13).
ChangesSettle ==
  <>[](/\ PlanEnded /\ InterruptionsAreMoves
       /\ which = "gate" => Near!Settled
       /\ which = "execute" => Execution!Converged)

\* A hub that recovery itself took down is not reported as lost: forget_hub "must
\* be called before the corresponding deliberate disconnect becomes observable"
\* (topology_loss.rs:118-119).
RetiredHubIsNotLost == which = "recover" => Recovery!RetiredHubIsNotLost
===============================================================================
