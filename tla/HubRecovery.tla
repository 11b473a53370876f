----------------------------- MODULE HubRecovery -----------------------------
(***************************************************************************)
(* Confirmed hub-loss recovery: HubLossTracker (topology_loss.rs),         *)
(* HubRecoveryRetryState and the recovery flow (topology_recovery_flow.rs, *)
(* topology_stability.rs), the planner (topology_recovery.rs) and          *)
(* execute_nap_plan (topology_executor.rs).  An attempt stops at every     *)
(* call of the NapTopologyOperator, and PAN links may change in between.   *)
(* The proposal of select_nap_hubs is any topology with the properties     *)
(* HubSelection checks of it; the steps of the diff are those of NapLinks. *)
(***************************************************************************)
EXTENDS NapLinks

CONSTANTS
  Neighbors,    \* unordered pairs of candidates that hear each other
  Placements,   \* observed topologies to start from
  MinAbsence, RetryBase, RetryMax,
  MaxTime,      \* bound on the clock
  MaxFaults     \* bound on link changes and failed calls together

\* What an instance must satisfy.
RecoveryConstants ==
  /\ Neighbors \subseteq SUBSET Nodes /\ Placements \subseteq SUBSET Links
  /\ MinAbsence \in Nat \ {0} /\ RetryBase \in Nat \ {0} /\ RetryMax \in Nat
  /\ RetryMax >= RetryBase /\ MaxTime \in Nat /\ MaxFaults \in Nat

VARIABLES
  links, clock, faults,        \* the radio side: links that are really up
  routes,                      \* links the installed routes stand for
  lastSample, seen, missing, lost,   \* HubLossTracker; time 0 is None
  failures, lastFailure,       \* HubRecoveryRetryState
  pc, began, observed, desired, expected, opFailed,   \* the running attempt
  outcome,                     \* of the last attempt since the retry history was reset
  present,                     \* last sample in which a node had a link
  retired                      \* hubs whose last link recovery has taken down

tracker == <<lastSample, seen, missing, lost>>
retry == <<failures, lastFailure>>
radio == <<links, clock, faults>>
attempt == <<began, observed, desired, expected, opFailed>>
history == <<present, retired>>
vars == <<radio, routes, tracker, retry, pc, attempt, outcome, history>>

HubsOf(ls) == {l.hub : l \in ls}
ClientsOf(ls) == {l.client : l \in ls}
NodesOf(ls) == HubsOf(ls) \cup ClientsOf(ls)

Init ==
  /\ links \in Placements /\ clock = 1 /\ faults = 0
  /\ routes = links
  /\ lastSample = 0 /\ seen = {} /\ missing = [n \in Nodes |-> 0] /\ lost = {}
  /\ failures = 0 /\ lastFailure = 0
  /\ pc = "idle" /\ began = 0 /\ opFailed = FALSE
  /\ observed = {} /\ desired = {} /\ expected = {}
  /\ outcome = "none" /\ present = [n \in Nodes |-> 0] /\ retired = {}

\* Mutant of Absent: a hub that became a client counts as absent.
AbsentAsHub == (seen \cup HubsOf(links)) \ HubsOf(links)

\* Hubs once seen that have no link in this sample: not active, not demoted.
Absent == seen \ NodesOf(links)

\* Mutant of Confirmed: one sample without the hub is enough.
ConfirmedAtOnce == {h \in Absent : h \in lost \/ missing[h] = 0}

Confirmed ==
  {h \in Absent : h \in lost \/ (missing[h] # 0 /\ clock - missing[h] >= MinAbsence)}

\* Delay after the failures so far; the exponent stays far below its cap of 63.
Backoff ==
  IF failures = 0 THEN 0
  ELSE IF RetryBase * 2 ^ (failures - 1) < RetryMax THEN RetryBase * 2 ^ (failures - 1)
  ELSE RetryMax

IsDue == clock >= lastFailure + Backoff

\* What select_nap_hubs may propose once the lost hubs and their edges are gone.
Selections(gone) ==
  {ls \in SUBSET {l \in Links : {l.hub, l.client} \in Neighbors /\ {l.hub, l.client} \cap gone = {}} :
     /\ SingleAttachment(ls) /\ WithinCapacity(ls)
     /\ \A c \in Nodes \ (gone \cup NodesOf(ls)), h \in Nodes \ gone :
          ({h, c} \in Neighbors /\ Capacity[h] > 0) => Cardinality(HostedBy(ls, h)) = Capacity[h]}

\* HubLossTracker::observe.
Track ==
  /\ clock > lastSample /\ SingleAttachment(links)
  /\ lastSample' = clock
  /\ seen' = Absent \cup HubsOf(links)
  /\ lost' = Confirmed
  /\ missing' = [h \in Nodes |-> IF h \notin Absent \/ h \in Confirmed THEN 0
                                 ELSE IF missing[h] = 0 THEN clock ELSE missing[h]]
  /\ present' = [n \in Nodes |-> IF n \in NodesOf(links) THEN clock ELSE present[n]]
  /\ retired' = retired \ NodesOf(links)

\* No loss is confirmed: the retry history is reset.
SampleQuiet ==
  /\ pc = "idle" /\ Track /\ lost' = {}
  /\ failures' = 0 /\ lastFailure' = 0 /\ outcome' = "none"
  /\ UNCHANGED <<radio, routes, pc, attempt>>

\* A loss is confirmed, but a failed attempt is still in backoff.
SampleDeferred ==
  /\ pc = "idle" /\ Track /\ lost' # {} /\ ~IsDue
  /\ UNCHANGED <<radio, routes, retry, pc, attempt, outcome>>

\* The attempt starts with a plan made from this sample.
SampleRecover ==
  /\ pc = "idle" /\ Track /\ lost' # {} /\ IsDue
  /\ desired' \in Selections(lost')
  /\ observed' = links /\ began' = clock /\ pc' = "recheck"
  /\ expected' = {} /\ opFailed' = FALSE
  /\ UNCHANGED <<radio, routes, retry, outcome>>

\* The owner removes a hub on purpose.
ForgetHub(h) ==
  /\ pc = "idle" /\ h \in seen
  /\ seen' = seen \ {h} /\ lost' = lost \ {h} /\ missing' = [missing EXCEPT ![h] = 0]
  /\ UNCHANGED <<radio, routes, lastSample, retry, pc, attempt, outcome, history>>

\* Locals of a call that has returned.
Drop == observed' = {} /\ desired' = {} /\ expected' = {} /\ opFailed' = FALSE

\* retry.failed(now_ms) with the time the attempt began.
Fail ==
  /\ failures' = failures + 1 /\ lastFailure' = began
  /\ pc' = "idle" /\ outcome' = "failed" /\ Drop
  /\ UNCHANGED <<tracker, began>>

Succeed ==
  /\ failures' = 0 /\ lastFailure' = 0
  /\ pc' = "idle" /\ outcome' = "ok" /\ Drop
  /\ UNCHANGED <<tracker, began>>

\* A call of the operator returns an error.
Fault == faults < MaxFaults /\ faults' = faults + 1 /\ UNCHANGED <<links, clock>>

\* reconcile_routes either succeeds or stops short of its result.
Reconciled(ls) == routes' = ls
ReconcileFails(ls) == Fault /\ routes' \in {routes, ls}

\* observe_links fails, or shows something else than the attempt stands on.
ObservationFails ==
  /\ pc \in {"recheck", "execute"}
  /\ \/ Fault
     \/ links # observed /\ UNCHANGED radio
  /\ Fail /\ UNCHANGED <<routes, history>>

\* Mutant of Recheck: the routes are left as they were.
RecheckSilently ==
  /\ pc = "recheck" /\ links = observed
  /\ pc' = "execute"
  /\ UNCHANGED <<radio, routes, tracker, retry, attempt, outcome, history>>

\* Second observation of recover_from_observation, and its routes.
Recheck ==
  /\ pc = "recheck" /\ links = observed
  /\ \/ Reconciled(links) /\ pc' = "execute"
        /\ UNCHANGED <<radio, tracker, retry, attempt, outcome>>
     \/ ReconcileFails(links) /\ Fail
  /\ UNCHANGED history

\* Third observation, by execute_nap_plan.
Execute ==
  /\ pc = "execute" /\ links = observed
  /\ IF observed # desired
     THEN pc' = "step" /\ UNCHANGED <<radio, routes, tracker, retry, attempt, outcome>>
     ELSE \/ Reconciled(links) /\ Succeed /\ UNCHANGED radio
          \/ ReconcileFails(links) /\ Fail
  /\ UNCHANGED history

\* The links once a step from the observed topology to another has its effect.
Applied(to) == (links \ (observed \ to)) \cup (to \ observed)

\* The operator carries a step out, or reports an error; an error may have
\* had its effect, and a success may have had none.
Operate(to) ==
  /\ pc = "step" /\ pc' = "verify"
  /\ expected' = to
  /\ \/ opFailed' = FALSE /\ links' = Applied(to) /\ faults' = faults
     \/ opFailed' = FALSE /\ links' = links /\ faults < MaxFaults /\ faults' = faults + 1
     \/ opFailed' = TRUE /\ links' \in {links, Applied(to)} /\ faults < MaxFaults /\ faults' = faults + 1
  /\ UNCHANGED <<clock, routes, tracker, retry, began, observed, desired, outcome, present>>

ConnectStep ==
  \E l \in ToConnect(observed, desired) : Operate(observed \cup {l}) /\ UNCHANGED retired

DisconnectStep ==
  \E l \in ToDisconnect(observed, desired) :
    /\ Operate(observed \ {l})
    /\ retired' = IF l.hub \in NodesOf(observed \ {l}) THEN retired ELSE retired \cup {l.hub}

\* Mutant of VerifyStep: the routes follow the expected topology.
VerifyStepExpected ==
  /\ pc = "verify" /\ ~opFailed
  /\ Reconciled(expected) /\ UNCHANGED radio
  /\ IF expected = desired THEN Succeed
     ELSE /\ observed' = expected /\ pc' = "step" /\ expected' = {}
          /\ UNCHANGED <<tracker, retry, began, desired, opFailed, outcome>>
  /\ UNCHANGED history

\* The step is observed as expected: routes, then the next step.
VerifyStep ==
  /\ pc = "verify" /\ ~opFailed /\ links = expected
  /\ \/ /\ Reconciled(links) /\ UNCHANGED radio
        /\ IF expected = desired THEN Succeed
           ELSE /\ observed' = links /\ pc' = "step" /\ expected' = {}
                /\ UNCHANGED <<tracker, retry, began, desired, opFailed, outcome>>
     \/ ReconcileFails(links) /\ Fail
  /\ UNCHANGED history

\* The operation failed or was observed to have done something else: the
\* routes are repaired from what is observed, and the attempt fails.
Repair ==
  /\ pc = "verify" /\ (opFailed \/ links # expected)
  /\ \/ Reconciled(links) /\ UNCHANGED radio
     \/ ReconcileFails(links)
  /\ Fail /\ UNCHANGED history

\* The observation after the step fails.
Unverified ==
  /\ pc = "verify" /\ Fault /\ Fail /\ UNCHANGED <<routes, history>>

-----------------------------------------------------------------------------
\* A PAN link comes up or goes down by itself.
LinkChange ==
  /\ faults < MaxFaults /\ faults' = faults + 1
  /\ \E l \in Links : {l.hub, l.client} \in Neighbors /\
       links' = IF l \in links THEN links \ {l} ELSE links \cup {l}
  /\ UNCHANGED <<clock, routes, tracker, retry, pc, attempt, outcome, history>>

\* All links of a node go down with it.
NodeDown ==
  /\ faults < MaxFaults /\ faults' = faults + 1
  /\ \E n \in NodesOf(links) : links' = {l \in links : n \notin {l.hub, l.client}}
  /\ UNCHANGED <<clock, routes, tracker, retry, pc, attempt, outcome, history>>

Tick ==
  /\ clock < MaxTime /\ clock' = clock + 1
  /\ UNCHANGED <<links, faults, routes, tracker, retry, pc, attempt, outcome, history>>

Next ==
  \/ SampleQuiet \/ SampleDeferred \/ SampleRecover \/ \E h \in Nodes : ForgetHub(h)
  \/ ObservationFails \/ Recheck \/ Execute
  \/ ConnectStep \/ DisconnectStep \/ VerifyStep \/ Repair \/ Unverified
  \/ LinkChange \/ NodeDown \/ Tick

Spec == Init /\ [][Next]_vars

-----------------------------------------------------------------------------
\* Type invariant; a hub is pending or confirmed as lost, never both.
TypeOK ==
  /\ links \subseteq Links /\ routes \subseteq Links
  /\ clock \in 1 .. MaxTime /\ faults \in 0 .. MaxFaults
  /\ lastSample \in 0 .. clock /\ missing \in [Nodes -> 0 .. clock]
  /\ seen \subseteq Nodes /\ lost \subseteq seen
  /\ \A h \in Nodes : missing[h] # 0 => h \in seen \ lost
  /\ failures \in 0 .. MaxTime /\ lastFailure \in 0 .. clock
  /\ pc \in {"idle", "recheck", "execute", "step", "verify"}
  /\ observed \subseteq Links /\ desired \subseteq Links /\ expected \subseteq Links
  /\ began \in 0 .. clock /\ opFailed \in BOOLEAN
  /\ outcome \in {"none", "failed", "ok"}
  /\ present \in [Nodes -> 0 .. clock] /\ retired \subseteq Nodes

\* A confirmed loss is a real absence: the hub was seen, and then, as hub or as
\* client, in no sample for longer than the confirmation interval
\* (topology_loss.rs:42-46, 80-113).
ConfirmedLossIsAbsence ==
  \A h \in lost : present[h] # 0 /\ lastSample > present[h] + MinAbsence

\* A planned attempt never counts on a lost hub: neither the observation it
\* stands on nor its proposal names one, so the planner never rejects what the
\* tracker reports (topology_recovery.rs:41-57).
PlansAvoidLostHubs ==
  pc # "idle" => NodesOf(observed \cup desired \cup expected) \cap lost = {}

\* Links are changed only while the routes stand for exactly the links last
\* observed (topology_recovery_flow.rs:134-140, 175-177; topology_executor.rs:91-93).
RoutesPrecedeChanges == pc \in {"step", "verify"} => routes = observed

\* Routes are installed from observed links only, never from what a request was
\* expected to do (topology_executor.rs:71-93).
RoutesFollowObservation == routes' # routes => routes' = links

\* A hub that recovery itself has retired is not reported as lost: "this must
\* be called before the corresponding deliberate disconnect becomes observable"
\* (topology_loss.rs:118-119).
RetiredHubIsNotLost == lost \cap retired = {}
====
