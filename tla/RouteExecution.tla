--------------------------- MODULE RouteExecution ---------------------------
(***************************************************************************)
(* One node brings the routes it owns in the kernel to the routes it wants *)
(* (route_executor.rs, route_reconciliation.rs and route_recovery.rs of    *)
(* the core, the executor, the plan and the projection of the Linux crate).*)
(* The kernel's table changes under it: other owners, dropped interfaces.  *)
(* A call of the operator fails, takes effect and fails, or does nothing   *)
(* and succeeds.  Addresses have Width bits; half of them are private.     *)
(***************************************************************************)
EXTENDS Naturals, FiniteSets

CONSTANTS
  Callers,    \* [layer, planned, request, dests, hops]: who asks, for what
  Plans,      \* results of the route planner, one per topology: [ok, routes]
  Tables,     \* kernel tables to start from
  Foreign,    \* routes of other owners that come and go
  Width,      \* bits of an address
  MaxEvents   \* bound on changes from outside and on failures together

\* What an instance must satisfy.
ExecutionConstants == Width \in Nat \ {0} /\ MaxEvents \in Nat

VARIABLES
  planned,    \* what the planner makes of the topology now
  kernel,     \* the routing table: [dest, via, cost, owner]
  caller,     \* the one caller of this network (serialised by its owner)
  pc, events,
  wanted, first, observed,   \* locals: desired routes, first and last observation
  upserts, removals, step,   \* what is left of the plan, and the change under way
  outcome

request == <<wanted, first, observed, upserts, removals, step>>
execVars == <<planned, kernel, caller, pc, events, request, outcome>>

Us == "us"
NoVia == 2 ^ Width
NoStep == [kind |-> "none", route |-> [dest |-> <<"none">>, via |-> 0, cost |-> 0, owner |-> "none"]]
Owned(table) == {r \in table : r.owner = Us}
DestsOf(table) == {r.dest : r \in table}

-----------------------------------------------------------------------------
\* Destinations are <<"node", n>>, <<"internet">> or <<"prefix", address, length>>.
HasPrefix(d) == d[1] = "prefix"
HostBits(d) == 2 ^ (Width - d[3])
CanonicalDest(d) == IF HasPrefix(d) THEN <<"prefix", d[2] - (d[2] % HostBits(d)), d[3]>> ELSE d
WellFormed(d) == HasPrefix(d) => d[3] <= Width

\* private_prefix: canonical, not default, wholly inside the private half.
PrivatePrefix(d) ==
  /\ HasPrefix(d) /\ d[3] \in 1 .. Width
  /\ CanonicalDest(d) = d /\ d[2] >= 2 ^ (Width - 1)

ValidDesired(r) ==
  /\ r.owner = Us /\ r.via # 0 /\ r.cost # 0
  /\ r.dest # <<"internet">> /\ r.dest # <<"node", 0>>
  /\ HasPrefix(r.dest) => r.dest[3] \in 1 .. Width /\ CanonicalDest(r.dest) = r.dest

ValidOwned(r) ==
  /\ r.owner = Us /\ PrivatePrefix(r.dest) /\ r.cost # 0
  /\ r.via # NoVia => /\ PrivatePrefix(<<"prefix", r.via, Width>>)
                      /\ r.dest # <<"prefix", r.via, Width>>

Unambiguous(table) == \A r, q \in table : r.dest = q.dest => r = q

\* A foreign route has the effective destination of a wanted or of an owned one.
Collides(desired, table) ==
  \E f \in table \ Owned(table) :
    CanonicalDest(f.dest) \in DestsOf(desired) \cup DestsOf(Owned(table))

\* Mutant of PlanRoutes: a destination with another next hop or cost counts as done.
PlanRoutesByDest(desired, table) ==
  [ok |-> Unambiguous(desired) /\ Unambiguous(Owned(table)) /\ ~Collides(desired, table),
   upsert |-> {r \in desired : r.dest \notin DestsOf(table)},
   remove |-> {r \in Owned(table) : r.dest \notin DestsOf(desired)}]

PlanRoutes(desired, table) ==
  [ok |-> /\ \A r \in desired : ValidDesired(r)
          /\ \A r \in table : WellFormed(r.dest)
          /\ Unambiguous(desired) /\ Unambiguous(Owned(table))
          /\ \A r \in Owned(table) : CanonicalDest(r.dest) = r.dest
          /\ ~Collides(desired, table),
   upsert |-> desired \ table,
   remove |-> {r \in Owned(table) : r.dest \notin DestsOf(desired)}]

PlanLinuxRoutes(desired, table) ==
  [ok |-> /\ \A r \in desired \cup Owned(table) : ValidOwned(r)
          /\ \A r \in table : WellFormed(r.dest)
          /\ Unambiguous(desired) /\ Unambiguous(Owned(table))
          /\ ~Collides(desired, table),
   upsert |-> desired \ table,
   remove |-> {r \in Owned(table) : r.dest \notin DestsOf(desired)}]

\* Logical routes as kernel routes, through the addresses bound to destinations
\* and to observed next hops: sets of pairs <<node, prefix>> and <<node, address>>.
Project(routes, dests, hops) ==
  LET addressOf(n) == (CHOOSE b \in hops : b[1] = n)[2]
      prefixOf(n) == (CHOOSE b \in dests : b[1] = n)[2]
      host(a) == <<"prefix", a, Width>>
      injective(B) == \A b, c \in B : b[1] = c[1] \/ b[2] = c[2] => b = c
  IN [ok |-> /\ \A b \in dests : PrivatePrefix(b[2]) /\ b[2][3] = Width
             /\ \A b \in hops : PrivatePrefix(host(b[2]))
             /\ injective(dests) /\ injective(hops)
             /\ \A b \in dests, h \in hops : b[1] = h[1] <=> b[2] = host(h[2])
             /\ \A r \in routes : /\ r.cost # 0
                                  /\ \E b \in dests : b[1] = r.dest
                                  /\ \E b \in hops : b[1] = r.hop,
      routes |-> {[dest |-> prefixOf(r.dest), cost |-> r.cost, owner |-> Us,
                   via |-> IF r.dest = r.hop THEN NoVia ELSE addressOf(r.hop)] : r \in routes}]

-----------------------------------------------------------------------------
ExecInit ==
  /\ planned \in Plans /\ kernel \in Tables /\ caller \in Callers
  /\ pc = "idle" /\ events = 0 /\ outcome = "none"
  /\ wanted = {} /\ first = {} /\ observed = {}
  /\ upserts = {} /\ removals = {} /\ step = NoStep

\* reconcile_observed_topology_routes, or a caller with routes of its own.
Desired ==
  CASE ~caller.planned -> [ok |-> TRUE, routes |-> caller.request]
    [] caller.planned /\ caller.layer = "linux" ->
         LET p == Project(planned.routes, caller.dests, caller.hops)
         IN [ok |-> planned.ok /\ p.ok, routes |-> p.routes]
    [] OTHER ->
         [ok |-> planned.ok, routes |-> {[dest |-> <<"node", r.dest>>, via |-> r.hop,
                                          cost |-> r.cost, owner |-> Us] : r \in planned.routes}]

Plan(desired, table) ==
  IF caller.layer = "linux" THEN PlanLinuxRoutes(desired, table) ELSE PlanRoutes(desired, table)

Accepted == Desired.ok /\ Plan(Desired.routes, kernel).ok

Return(result) ==
  /\ pc' = "idle" /\ outcome' = result
  /\ wanted' = {} /\ first' = {} /\ observed' = {}
  /\ upserts' = {} /\ removals' = {} /\ step' = NoStep

Refuse ==
  /\ pc = "idle" /\ ~Accepted
  /\ Return("refused") /\ UNCHANGED <<planned, kernel, caller, events>>

\* First observation and the plan.
Begin ==
  /\ pc = "idle" /\ Accepted
  /\ LET plan == Plan(Desired.routes, kernel)
     IN IF plan.upsert \cup plan.remove = {} THEN Return("ok")
        ELSE /\ pc' = "fresh" /\ outcome' = "running" /\ step' = NoStep
             /\ wanted' = Desired.routes /\ first' = kernel /\ observed' = kernel
             /\ upserts' = plan.upsert /\ removals' = plan.remove
  /\ UNCHANGED <<planned, kernel, caller, events>>

\* Mutant of Turn: routes are removed before others are installed.
TurnRemovals ==
  IF removals # {} THEN {[kind |-> "remove", route |-> r] : r \in removals}
  ELSE {[kind |-> "upsert", route |-> r] : r \in upserts}

\* The changes whose turn it is: all upserts, then the removals.
Turn ==
  IF upserts # {} THEN {[kind |-> "upsert", route |-> r] : r \in upserts}
  ELSE {[kind |-> "remove", route |-> r] : r \in removals}

\* Observation before a change.
Fresh ==
  /\ pc = "fresh"
  /\ IF kernel = observed
     THEN pc' = "mutate" /\ step' \in Turn /\ UNCHANGED <<wanted, first, observed, upserts, removals, outcome>>
     ELSE Return("stale")
  /\ UNCHANGED <<planned, kernel, caller, events>>

\* The owned route a change replaces or removes, as last observed.
Previous == {r \in Owned(observed) : r.dest = step.route.dest}

\* The table after the change under way.
Changed(table) ==
  (table \ Previous) \cup (IF step.kind = "upsert" THEN {step.route} ELSE {})

\* The operator's comparison at the mutation: exactly the previous route is there.
Current ==
  IF step.kind = "upsert" THEN {r \in kernel : CanonicalDest(r.dest) = step.route.dest} = Previous
  ELSE step.route \in kernel

Fault == events < MaxEvents /\ events' = events + 1

\* replace_owned_route, remove_owned_route.
Mutate ==
  /\ pc = "mutate"
  /\ \/ /\ Current /\ kernel' = Changed(kernel) /\ pc' = "verify"
        /\ UNCHANGED <<events, request, outcome>>
     \/ ~Current /\ Return("failed") /\ UNCHANGED <<kernel, events>>
     \/ Current /\ Fault /\ kernel' \in {kernel, Changed(kernel)} /\ Return("failed")
     \/ Current /\ Fault /\ kernel' = kernel /\ pc' = "verify" /\ UNCHANGED <<request, outcome>>
  /\ UNCHANGED <<planned, caller>>

\* Mutant of Verify: the request stands for its effect.
VerifyByRequest ==
  /\ pc = "verify"
  /\ LET todo == (upserts \cup removals) \ {step.route}
     IN IF todo = {} THEN Return("ok")
        ELSE /\ observed' = kernel /\ pc' = "fresh" /\ step' = NoStep
             /\ upserts' = upserts \ {step.route} /\ removals' = removals \ {step.route}
             /\ UNCHANGED <<wanted, first, outcome>>
  /\ UNCHANGED <<planned, kernel, caller, events>>

\* Observation after a change: the whole table is as expected.
Verify ==
  /\ pc = "verify"
  /\ LET todo == (upserts \cup removals) \ {step.route}
     IN IF kernel # Changed(observed) THEN Return("failed")
        ELSE IF todo = {} THEN Return("ok")
        ELSE /\ observed' = kernel /\ pc' = "fresh" /\ step' = NoStep
             /\ upserts' = upserts \ {step.route} /\ removals' = removals \ {step.route}
             /\ UNCHANGED <<wanted, first, outcome>>
  /\ UNCHANGED <<planned, kernel, caller, events>>

ObserveFails ==
  /\ pc \in {"fresh", "verify"} /\ Fault /\ Return("failed")
  /\ UNCHANGED <<planned, kernel, caller>>

Execute == Refuse \/ Begin \/ Fresh \/ Mutate \/ Verify

-----------------------------------------------------------------------------
\* Another owner adds or removes a route; an interface takes its routes along.
TableChange ==
  /\ Fault
  /\ \/ \E r \in Foreign : kernel' = IF r \in kernel THEN kernel \ {r} ELSE kernel \cup {r}
     \/ \E r \in Owned(kernel) : kernel' = kernel \ {r}
  /\ UNCHANGED <<planned, caller, pc, request, outcome>>

TopologyChange ==
  /\ caller.planned /\ Fault /\ planned' \in Plans \ {planned}
  /\ UNCHANGED <<kernel, caller, pc, request, outcome>>

ExecNext == Execute \/ ObserveFails \/ TableChange \/ TopologyChange

-----------------------------------------------------------------------------
\* What the executor itself does to the table is safe at every single step:
\* routes of others stay; a destination that is still wanted never loses its
\* route; and nothing is removed before all wanted routes were observed in
\* place (route_executor.rs:41-49 of the core, 71-77 of the Linux crate).
ChangesAreSafe ==
  pc = "mutate" /\ pc' # "mutate" =>
    /\ kernel' \ Owned(kernel') = kernel \ Owned(kernel)
    /\ \A d \in DestsOf(Owned(kernel)) \ DestsOf(Owned(kernel')) :
         d \notin DestsOf(wanted) /\ wanted \subseteq observed

\* Success is exact: when a reconciliation reports it, the table it last
\* observed held the wanted routes and no other owned one, and the routes of
\* others as they were at its start (route_executor.rs:45-47).
SuccessIsExact ==
  pc = "verify" /\ outcome' = "ok" =>
    /\ Owned(kernel) = wanted
    /\ kernel \ Owned(kernel) = first \ Owned(first)

\* The owned routes are the wanted ones, unless the caller's routes or a
\* foreign route are refused: what retrying converges to, however often it was
\* interrupted part-way (route_recovery.rs:10-13).
Converged == ~Accepted \/ Owned(kernel) = Desired.routes
====
