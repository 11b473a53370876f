---------------------------- MODULE LocalTopology ----------------------------
(***************************************************************************)
(* What a node knows of the others, and when it acts on it.                *)
(*                                                                         *)
(* NeighborObservations (neighbor.rs): the candidates a node has discovered *)
(* or heard of.  Observations carry the local monotonic time they were made *)
(* at, and may be applied late, in any order, after the table was swept.    *)
(*                                                                         *)
(* decide_topology_change (topology_stability.rs): whether a node leaves the *)
(* topology it has for a proposed one.  The caller of the gate, which keeps  *)
(* the history of its changes and failures, and the costs are external.      *)
(* Times are the ages of that history, counted no further than the policy    *)
(* looks.                                                                    *)
(***************************************************************************)
EXTENDS Naturals, FiniteSets

-----------------------------------------------------------------------------
\* The table of candidates.

CONSTANTS
  Local, Others,   \* this node, and the nodes it may hear of
  LIFETIME,        \* CANDIDATE_LIFETIME_MS
  MAX_CANDIDATES,
  U64Max           \* the largest timestamp

TableConstants ==
  /\ Local \notin Others /\ IsFiniteSet(Others) /\ LIFETIME \in Nat \ {0}
  /\ MAX_CANDIDATES \in Nat \ {0} /\ U64Max \in Nat \ {0}

VARIABLES
  candidates,   \* [node in the table -> observed_at_ms, expires_at_ms]
  now,
  newest        \* time of the latest observation that was not refused (history)

neighborVars == <<candidates, now, newest>>

Never == U64Max + 1
Later(p, at) == IF newest[p] = Never \/ newest[p] < at THEN at ELSE newest[p]
Put(p, at, expires) ==
  [q \in DOMAIN candidates \cup {p} |->
     IF q = p THEN [at |-> at, expires |-> expires] ELSE candidates[q]]

\* Mutant of Refused: the sum may wrap around.
RefusedUnchecked(p, at) ==
  \/ p = Local
  \/ p \notin DOMAIN candidates /\ Cardinality(DOMAIN candidates) >= MAX_CANDIDATES
\* observe returns an error: this node itself, an expiry past the largest
\* timestamp, or a new node while the table is full, of expired entries even.
Refused(p, at) ==
  \/ p = Local \/ at + LIFETIME > U64Max
  \/ p \notin DOMAIN candidates /\ Cardinality(DOMAIN candidates) >= MAX_CANDIDATES

\* Mutant of IsNews: the last observation applied wins.
AlwaysNews(p, at) == TRUE
IsNews(p, at) == p \in DOMAIN candidates => at > candidates[p].at

\* An observation made at `at` is applied now.
Observe(p, at) ==
  /\ at <= now /\ ~Refused(p, at)
  /\ candidates' = IF IsNews(p, at) THEN Put(p, at, (at + LIFETIME) % (U64Max + 1)) ELSE candidates
  /\ newest' = [newest EXCEPT ![p] = Later(p, at)]
  /\ UNCHANGED now

CandidatesAt(t) == {p \in DOMAIN candidates : t < candidates[p].expires}

\* Mutant of Expire: an entry goes a tick early.
ExpireEarly ==
  /\ candidates' = [p \in CandidatesAt(now + 1) |-> candidates[p]]
  /\ UNCHANGED <<now, newest>>
Expire ==
  /\ candidates' = [p \in CandidatesAt(now) |-> candidates[p]]
  /\ UNCHANGED <<now, newest>>

TableTick == now < U64Max /\ now' = now + 1 /\ UNCHANGED <<candidates, newest>>

NeighborInit == candidates = <<>> /\ now = 0 /\ newest = [p \in Others |-> Never]
NeighborNext == (\E p \in Others \cup {Local}, at \in 0 .. U64Max : Observe(p, at)) \/ Expire \/ TableTick
NeighborSpec == NeighborInit /\ [][NeighborNext]_neighborVars

\* Whatever the order in which observations are applied and the table is swept,
\* a node is a candidate exactly while its latest accepted observation is young
\* enough, and with that observation (observe, candidates_at, expire).
CandidatesAreTheLatest ==
  /\ Cardinality(DOMAIN candidates) <= MAX_CANDIDATES
  /\ CandidatesAt(now) = {p \in Others : newest[p] # Never /\ now < newest[p] + LIFETIME}
  /\ \A p \in CandidatesAt(now) : candidates[p].at = newest[p]

-----------------------------------------------------------------------------
\* The gate on changes.

CONSTANTS
  Topologies, Costs,
  MIN_DWELL, MIN_GAIN, RETRY_BASE, RETRY_MAX,   \* TopologyStabilityPolicy
  MaxDrifts, MaxFailures                       \* bounds

\* The policies the gate accepts.
GateConstants ==
  /\ IsFiniteSet(Topologies) /\ Costs \subseteq Nat /\ MaxDrifts \in Nat /\ MaxFailures \in Nat
  /\ MIN_DWELL \in Nat \ {0} /\ MIN_GAIN \in Nat \ {0}
  /\ RETRY_BASE \in Nat \ {0} /\ RETRY_MAX \in Nat /\ RETRY_MAX >= RETRY_BASE

VARIABLES
  chosen, cost, viable,     \* the current topology; what is observed of all of them
  dwelt, waited,        \* since last_change_ms and last_failure_ms
  fails,                \* consecutive_failures
  drifts,
  left                  \* viable topologies left since the last drift (history)

gateVars == <<chosen, cost, viable, dwelt, waited, fails, drifts, left>>

Least(a, b) == IF a < b THEN a ELSE b
SaturatingSub(a, b) == IF a > b THEN a - b ELSE 0

\* Mutant of Delay: the backoff grows past its maximum.
DelayUnbounded == IF fails = 0 THEN 0 ELSE RETRY_MAX * 2 ^ (fails - 1)
Delay == IF fails = 0 THEN 0 ELSE Least(RETRY_BASE * 2 ^ (fails - 1), RETRY_MAX)

\* Mutant of Decide: any proposal that is no worse is taken.
DecideNoWorse(p) ==
  IF p \notin viable THEN "none"
  ELSE IF chosen \in viable /\ cost[p] > cost[chosen] THEN "keep"
  ELSE IF waited < Delay \/ (chosen \in viable /\ dwelt < MIN_DWELL) THEN "defer"
  ELSE "apply"
\* A lost current topology bypasses dwell and gain, never the backoff.
Decide(p) ==
  IF p \notin viable THEN "none"
  ELSE IF chosen \in viable /\ SaturatingSub(cost[chosen], cost[p]) < MIN_GAIN THEN "keep"
  ELSE IF waited < Delay \/ (chosen \in viable /\ dwelt < MIN_DWELL) THEN "defer"
  ELSE "apply"

ChangeSucceeds(p) ==
  /\ p # chosen /\ Decide(p) = "apply"
  /\ chosen' = p /\ dwelt' = 0 /\ fails' = 0 /\ waited' = 0
  /\ left' = IF chosen \in viable THEN left \cup {chosen} ELSE left
  /\ UNCHANGED <<cost, viable, drifts>>
ChangeFails(p) ==
  /\ p # chosen /\ Decide(p) = "apply" /\ fails < MaxFailures
  /\ fails' = fails + 1 /\ waited' = 0
  /\ UNCHANGED <<chosen, cost, viable, dwelt, drifts, left>>
GateTick ==
  /\ dwelt' = Least(dwelt + 1, MIN_DWELL) /\ waited' = Least(waited + 1, RETRY_MAX)
  /\ <<dwelt, waited>>' # <<dwelt, waited>>
  /\ UNCHANGED <<chosen, cost, viable, fails, drifts, left>>
Drift ==
  /\ drifts < MaxDrifts /\ drifts' = drifts + 1 /\ left' = {}
  /\ \E t \in Topologies :
       \/ \E c \in Costs : cost' = [cost EXCEPT ![t] = c] /\ UNCHANGED viable
       \/ viable' \in {viable \cup {t}, viable \ {t}} /\ UNCHANGED cost
  /\ UNCHANGED <<chosen, dwelt, waited, fails>>

GateInit ==
  /\ chosen \in Topologies /\ cost \in [Topologies -> Costs] /\ viable = Topologies
  /\ dwelt = 0 /\ waited = 0 /\ fails = 0 /\ drifts = 0 /\ left = {}
GateStep == GateTick \/ \E p \in Topologies : ChangeSucceeds(p) \/ ChangeFails(p)
GateNext == GateStep \/ Drift
GateSpec == GateInit /\ [][GateNext]_gateVars

\* While costs and viability stay as they are, no topology that was given up for
\* a better one is taken up again.
NoFlap == chosen \notin left

\* Nothing that is better by the policy's margin is left unused, and a lost
\* topology is replaced when one can be.
Settled ==
  IF chosen \in viable THEN \A p \in viable : SaturatingSub(cost[chosen], cost[p]) < MIN_GAIN ELSE viable = {}
=============================================================================
