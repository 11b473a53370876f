# A TLA+ model of BlueRoute

BlueRoute builds IP networks over Bluetooth PAN: a daemon hosts a star (a NAP
with its bridge), admits authenticated control sessions, joins other stars,
plans which nodes act as hubs, repairs the topology when a hub is lost, and keeps
NetworkManager, BlueZ and the kernel in step with all of that. This directory
models the stateful parts of the daemon, its libraries and its front ends. TLC
checks the models on small instances; TLAPS proves theorems about fifteen of
them for every value of the constants.

What makes the system hard: calls that take effect and report failure; callbacks
that arrive late, twice, or for a generation that is gone; state read before a
call and used after it; several writers of one file; services that restart
between two calls; a crash between two saves; and limits (slots, windows,
attempts, capacities, queues) reached while something is pending.

## Parts, modules, state and actions

Control sessions:

| module | code | state | one action is |
|---|---|---|---|
| `NapAdmission` | `nap_admission*.rs` | slots per host, tickets | one ledger call under its lock |
| `NapControlOwner` | `nap_control_admission.rs`, `registered_transport.rs` | leases, owners, sockets, PAN links | one critical section of a session's thread, or one event |
| `SessionRegistry` | `session.rs` | entry per peer, replay window | one call |
| `HandshakeRetry` | `session.rs`, `attempt_socket.rs` | retry slots, sockets, clock | one call, or a tick |
| `OutboundControl` | `outbound_control.rs`, `tcp_connect.rs` | the dialling worker and what it observed | one backend call |
| `PeerHandshake` | `handshake.rs`, `control_tls.rs`, `enrollment_transport.rs`, `peer_trust.rs` | two ends, what is in flight between them, their trust files | one write, read or deadline of an end |
| `ControlStream` | `session_writer.rs`, `control_io.rs`, `control_stream.rs`, `session_stream.rs`, `session_activity.rs` | writer, bytes on the wire, decoder, sequence, deadline | one write or read of any number of bytes |
| `OrderedDelivery` | (what `ControlStream` promises) | frames sent and delivered | a frame sent, a batch delivered, an end |
| `ControlPlane` | `control_worker.rs`, `control_listener.rs`, `approved_transport.rs`, `pinned_ingress.rs`, `peer_trust.rs`, `peer_pin.rs` | listener, owned sessions, registry, membership and pin files | the worker's work between two reads, lock releases or backend calls; one save of a D-Bus call |

Membership and what outlives a process:

| module | code | state | one action is |
|---|---|---|---|
| `StarHost` | `single_star.rs`, `lib.rs`, `main.rs` | host slot, transition flag, membership, status | one awaited call of a request or of startup |
| `JoinNetwork` | `join_network.rs` | guard, link, lease, session, membership | one awaited call of a join, or its cancellation |
| `DaemonApi` | `lib.rs`, `main.rs`, `authorization.rs`, `membership.rs`, `membership_store.rs`, `id.rs` | requests, mutation guard, the membership file with its parser and writer | the part of a request between two awaits |
| `PinStore` | `peer_pin_store.rs`, `peer_trust.rs`, `secret_store.rs` | pin file, mutex, directory lock | one lock, read or save |
| `IdentityFiles` | `identity.rs`, `secret_store.rs`, `control_tls.rs` | two files, several starts | one system call |
| `DurableFile` | (external: a POSIX file) | what a power loss may leave | |
| `ApiClient` | `blueroute-client`, `apps/cli` | commands, the daemon on the bus | one call |
| `RuntimeHealth` | `capability_report.rs`, `runtime_health.rs`, `apps/tui`, `platform_check.rs` | machine, report, published status, screen | one read of the report, one lock |

Topology and routes:

| module | code | state | one action is |
|---|---|---|---|
| `LocalTopology` | `neighbor.rs`, `topology_stability.rs` | candidates and their ages; current topology, dwell, failures | one observation or sweep; a change that succeeds or fails, time |
| `HubSelection` | `topology_policy.rs` | the selection under construction | one iteration of its loop |
| `NapLinks`, `NapPlan` | `topology_plan.rs` | two topologies, the plan | one operation appended to the plan |
| `HubRecovery` | `topology_loss.rs`, `topology_recovery*.rs`, `topology_executor.rs` | tracker, retry state, links, routes | one call of the operator, or a link change |
| `Topology` | `topology.rs`, `route_planner.rs`, `forwarding_policy.rs` | the graph | one edit; all nodes' routes are operators of it |
| `RouteExecution` | `route_reconciliation.rs`, `route_executor.rs`, `route_recovery.rs` of core and linux | kernel table, the run in progress | one observation or one route operation |
| `ForwardingLease` | `forwarding.rs`, `forwarding_reconciliation.rs` | kernel switch, lease file | one file operation |
| `SegmentAddresses` | `segment_allocator.rs`, `addressing.rs`, `config.rs` | pool, reservations, the host's prefixes | one allocation or release |

The host underneath:

| module | code | state | one action is |
|---|---|---|---|
| `PanLinks` | `pan.rs` | registrations, bridges, BNEP devices, subscriptions | the part of a call between two awaits |
| `BluezPairing` | `bluez.rs` | windows, agent, adapter settings | one D-Bus call |
| `BluezWatch` | `bluez.rs` | signals, subscriptions, reported view | one signal or one read |
| `BluezDiscovery` | `single_star.rs`, `bluez.rs`, `network_discovery.rs` | discovery slot, advertisement, BlueZ | one D-Bus call |
| `NmProfiles`, `NmWatch` | `networkmanager.rs` | profiles, device, calls; queue of changes | one D-Bus call |
| `HostAddresses` | `kernel_address.rs`, `ipv4_observation.rs` and its users | kernel addresses, leases; devices, the survey in progress | one netlink exchange; one property read |

How they fit together. `NapControlOwner` extends `NapAdmission`: the ledger it
reserves from is the ledger that is proved about. `NapPlan` and `HubRecovery`
extend `NapLinks`, so recovery executes the steps whose order `NapPlan` checks;
what `HubRecovery` assumes of a proposal is what `HubSelection` checks of
`select_nap_hubs`. `RouteExecution` runs plans that `Topology` computed, in
prefixes of the shape `SegmentAddresses` allocates. `DaemonApi`, `IdentityFiles`
and `PinStore` use `DurableFile` for a file under power loss. `ControlStream`
implements `OrderedDelivery`. `ControlPlane` reduces the host to the network it serves, with
the transition flag and the failures that `StarHost` has in detail, and the
registry to its entries, whose replay window is in `SessionRegistry`.

Operators named after another one with a suffix (`ReadyBeyondCapacity`,
`RegisterKeepsObject`) are plausible mistakes in that piece of code; the property
they are paired with in `PROJECT.json` catches them.

Abstractions common to all: identifiers, keys and addresses are model values or
small numbers; an error is the fact that a call failed, without its kind, unless
the code branches on the kind; a lock is a step that nothing interrupts, or a
variable where the code keeps it over a wait; a save is done, failed before its
rename, or failed after it (the new file is visible and the caller is told
otherwise, `membership_store.rs:150-153`). A call of a service succeeds, fails,
or fails after it took effect.

## How TLC runs them

An `MC*` module gives a group of components their constants and runs them one at
a time: the variable `which` names the component of a behaviour, the others rest
in an initial state. The groups follow the questions: everything that happens to
a control session, everything between the choice of a hub and the kernel's routes,
everything the host's services are told. A property of such a run is the
conjunction, over its components, of what they promise together; the conjuncts
are the properties defined in the component modules, where each has its own
comment. Every run explores its instance completely. Bounds that come from the
model and not from the code are constants called `Max...`.

| run | components | states | what it shows |
|---|---|---|---|
| `sessions` | `HandshakeRetry`, `OutboundControl`, `PeerHandshake`, `ControlStream`, `NapControlOwner` | 655,771 | Attempts are counted once and respect their backoff, a socket exists exactly for an attempt in flight, the dialling worker acts only on checks made after its authorization; active ends agree about each other and only a proven, confirmed key is enrolled; frames are delivered once and in order (`OrderedDelivery`), nothing faulty is, and a peer that fell silent is not heard again; a slot covers every observed link and none is stranded. Everything that waits for a peer ends, and what is due happens. |
| `control_plane` | `ControlPlane` | 1,031,521 | Registry entries and session owners coincide; the worker relies on a network only after an instant at which it was durable and hosted; a revoked key returns only by enrollment; frames come from peers approved at that moment; obsolete sessions end. |
| `topology` | `LocalTopology`, `HubSelection`, `NapPlan`, `HubRecovery`, `Topology`, `RouteExecution`, `ForwardingLease`, `SegmentAddresses` | 634,908 | Candidates are the nodes last heard of; selections are accepted, form a forest, leave nobody out that could be served and are stable; each step of a plan is a valid topology and the planner's error is unreachable; a confirmed loss is an absence and recovery keeps the routes in step; plans are shortest paths against a reference definition, and followed hop by hop they deliver; execution harms no route and its success is exact; the forwarding switch returns to the host's setting; segments are disjoint and a free one is found. Planning, changes and routes settle. |
| `host_state` | `HostAddresses`, `NmProfiles`, `BluezWatch`, `BluezDiscovery` | 1,613,599 | Acknowledged NetworkManager changes are in force and no call takes an interface from somebody else; a reader of BlueZ events knows what there is; nothing stays on the air that the daemon could not end; addresses follow leases; hosting starts only clear of the addresses in use throughout its survey. |
| `bluetooth` | `PanLinks`, `BluezPairing`, `NmWatch`, `RuntimeHealth` | 835,458 | The recorded NAP server is the one BlueZ holds, and a cleanup takes down no replacement link; pairing leaves neither claim nor changed setting behind; what is published and shown is one report; events, losses and permits get through; readers end with what is there once the machine settles. |
| `stores` | `IdentityFiles`, `DaemonApi`, `PinStore`, `ApiClient` | 1,052,907 | Node and key stay what they once were; acknowledged changes of memberships and pins survive other requests, threads, daemons and power losses; what a finished command says happened, happened. |
| `star` | `NapAdmission`, `StarHost`, `JoinNetwork`, `SessionRegistry` | 651,191 | One slot per peer, vacated only by its ticket, its activation or a close, within the policy; observers see no half-built host, membership and host agree between calls, what a failed join leaves behind blocks joins and nothing else does; no session id is used twice within the replay window. |
| `star_leave`, `hub_retired`, `own_address`, `nm_removal`, `api_version` | one component of the above | violated | see Findings |

Exceptions are part of the properties, as history variables, and each is something
the code does not handle:

- `StarHost`: what a crash, a torn save or a failing backend leaves behind.
- `PanLinks` (`straddled`): a call that a BlueZ restart cuts in two clears or
  restores the entry of the call after it.
- `BluezPairing` (`overlapped`, `unrestored`): a window whose settings were read
  while another one was open, and a refused call to restore them.
- `NmProfiles` (`shared`): two calls for one network at a time, of which the second
  writes back a copy it read before the first one's change.
- `DaemonApi` (`overtaken`): a migration that replaces a file which another daemon
  changed since it was read.
- `NmWatch` (`overflowed`): a comparison with more differences than the queue
  holds, which ends in an error.

### Bounds, and why they are enough

- `sessions`. Retry: two peers for one slot, delays 1 and 2 around the cap and
  three attempts, so the last permitted attempt and a late callback of each earlier
  one occur within seven ticks. Stream: frames of three bytes in chunks of any size
  over a connection that holds two, so a frame is cut at every byte and the
  connection fills; one frame, of every kind, that no writer would produce. Handshake: servers that match, differ in one of
  node, key or network, or answer with one field of their frame wrong. Dial:
  another use of the address on the same and another interface, one failing check.
  Owners: two sessions of one peer and one of another compete for a single slot.
- `control_plane`: two peers, two keys and two networks; two handshakes so a peer
  can come back; two mutations, of which one may be a forget and one an
  enrollment of the same key for the other peer, over any files of earlier
  runs; one crash. The initial states are taken up to renaming.
- `topology`: capacities 1, 2, 1, 0 have swaps, chains and cycles of moves;
  selection sees four nodes of which any two hear each other, not at all or on one side
  only; routing every graph that edits of five
  links make, with equal and unequal paths; two hubs, a client,
  seven ticks and three faults allow a confirmed loss, a failed attempt, its delay
  and a second attempt; two foreign changes of the kernel table around plans of
  three topologies; four failures, crashes or administrators' changes of the
  forwarding switch; pools of six address bits, aligned and not, whose four probes
  are exhausted; two topologies given up and one more to go back to.
- `host_state`: two NetworkManager callers for two networks on one interface, one
  failing call; two adapters and four events; a network of ours and one
  heard of across a BlueZ restart; a survey of four interfaces in a space of
  sixteen addresses, with two changes of the machine during it.
- `bluetooth`: two calls naming two bridges over two BlueZ instances; two links and
  two device names, so a freed name comes back on another link; two pairing callers
  for one device; a queue of two for three changes, so that it overflows; one change
  of the machine and one restart of the daemon.
- `stores`: two starts and two kills leave every partial file there is to find; two
  daemons with two requests over an unused, an old, a current and a newer file; a
  full and an empty pin store shared by two threads and another daemon; two
  commands while the daemon is replaced.
- `star`: two peers and two owners over ceilings 0, 1, 2 and unknown; two requests,
  startup, one observer, one crash and two networks, so the retry loop after an
  address conflict reaches its limit and finds no id left; three joins, so a third one meets what two left
  behind; three peers for two entries and a window of two ids that turns over.

The theorems below remove the bounds of the components they are about. Symmetry
is used in the runs without liveness, over values that are interchangeable in every
component. Deadlock is not checked where the bounds, or an idle daemon with nothing
to do, end a behaviour; that work does not get stuck is what the liveness
properties and `NeverStuck`, a part of `EveryStepIsSafe`, say.

### Fairness

Each `MCSpec` states, per component, the fairness the code's scheduling justifies.
Nothing is assumed of peers, users, administrators or other programs.

- `HandshakeRetry`: time passes, and the owner of the scheduler calls the watchdog
  and begins due attempts; that is its documented polling duty.
- `OutboundControl`, `ControlPlane`: the worker threads keep looping (their reads,
  handshakes and parks have time limits), and a D-Bus call, once begun, ends.
- `PeerHandshake`: an end that can read or write does, and its deadline fires.
  `ControlStream`: time passes, the owner of a session polls it, and a read ends by
  its time limit.
- `NapControlOwner`: a thread inside a method finishes it, a dropped value's `Drop`
  runs, and the PAN monitor delivers the detach of an observed link.
- `NapPlan`, the gate of `LocalTopology`, `RouteExecution`: a loop that can go on goes on, and their
  callers call again, as `route_recovery.rs` documents.
- `PanLinks`, `NmWatch`: the reader of a subscription keeps calling
  `next_event`, and NetworkManager comes back. `BluezPairing`: a call proceeds to its
  next await, where its own timeout limits the wait.
- `RuntimeHealth`: the daemon's thread and the terminal's poll keep running; the
  status lock is strongly fair, because it is held for an instant between two such
  waits. systemd restarts a daemon that died.

## What is proved

For every value of the constants that satisfies the named assumptions of the
module (`NapConstants`, `OwnerConstants`, `RegistryConstants`, `JoinConstants`,
`StarConstants`, `ControlConstants`, `RetryConstants`, `NapLinksConstants`,
`GateConstants`, `TableConstants`, `SurveyConstants`, `AddrConstants`, `PowersOfTwo`;
the runs evaluate them on their instances). They say that bounds are natural numbers, that
the values standing for "none" are no members of the sets they complete, and what
the capacities, delays and address plan of the code satisfy; `PowersOfTwo` is
arithmetic the provers lack. `BluezDiscovery`, `BluezPairing`,
`RuntimeHealth` and `ApiClient` need no assumption. The proofs about `NapPlan` and
`HostAddresses` are at the end of these modules, the others in modules of their
own. Every property named in parentheses is checked by a run as well.

- **`NapProofs`**, about `NapAdmission`: `SlotsSafe` (`SlotsAreSound`),
  `VacatedOnlyByTicket` (`SlotVacatedOnlyByItsTicket`), `AdmissionWithinPolicy`
  (`AdmissionRespectsPolicy`), `NapTypeCorrect`. Invariant `NapIInv`. That a peer has
  one slot does not carry itself: a retire or an activation removes the slot *its
  ticket names*, so the induction also needs that every slot is found by its
  generation, that generations are unique and below the counter, that a closed
  ledger is empty and that a ticket names the ledger it was issued by. The
  `...Effect` lemmas say once what each ledger operation does to the slots seen
  as maps; the step lemma then has one case per action.
- **`NapProofs`**, about `NapControlOwner`: `OwnersStaySound` (`OwnersAreSound`: the
  type invariant; an open session past admission is the registered one; an observed
  link has its slot until the NAP closes; no slot is stranded). A slot stays as long
  as its ticket is not retired (`UnretiredHold`), so the rest is about where a ticket
  is. `SessionOK`: the lease has it, or the daemon's copy, or it is retired or its
  NAP closed; never two of them, and no two sessions have the same (`TicketsDiffer`).
  `LinkOK`: who observed a link is attached, its ticket is not retired and its detach
  event is still to come. A detach event that is delivered again is harmless because
  its session has no attached lease any more. The ledger's part of each step is
  `LedgerStep`, from the `...Effect` lemmas; there is one lemma per critical section
  of the owner, and `SessionMoves` reduces each to the session that moved.
- **`SessionProofs`**, about `SessionRegistry`: `SessionIdsStayFresh`
  (`SessionIdsAreFresh`). `RegistryIInv` adds `Mirrored`: the set of remembered ids is
  the contents of the queue, each once; without it the eviction of the oldest id
  could drop from the set an id the queue still holds. And `Windowed`: the queue is
  the end of the history of admissions, element by element, which an admission
  shifts by one when the queue is full.
- **`OperatorProofs`**, about `JoinNetwork`: `JoinsStayBacked` (`MembershipIsBacked`, an
  action property with an invariant in it). `JoinIInv`: the flag is taken exactly
  while one call holds it, by running or because it ended without proof that its
  resources are gone; each await finds exactly the resources of the awaits before it
  (`Acquired`); and as long as every undo step worked, the steps that are left cover
  the resources that are left (`UndoCovers`). The last fact makes it right to give
  the flag back after a rollback without an error, at any of its entry points. That
  a commit is backed follows in the step that commits.
- **`StarHostProofs`**: `HostStaysSound` (`HostIsSound`, which has the type invariant
  and four promises: observers see a whole host, nothing is orphaned, membership and
  host agree, what was acknowledged is done). None of the four is inductive: each is
  about a moment at which nobody is in the middle of something. `HostIInv` says what
  holds in the middle. `Serial`: the mutation flag lets one request run and startup
  none, and who is inside `start_host` or `stop_host` holds the transition. `Doing`:
  what a process has done when it is at a given call. `Building`, as long as no
  cleanup failed: nothing exists of its network but what its steps so far made, or,
  on the way back, what the rest of its rollback will remove (`Left`). `Agreeing`, as
  long as no save was torn and no repair failed: how slot and file differ in
  between. There is one lemma per call of the code, and `StepKeeps` reduces each of
  them to the facts about the process that moved.
- **`NapPlan`**: `DiffIsSafe` (`EveryStepIsSafe`). Invariant `PlanIInv`: the two
  validated topologies, the bounds on the current one, and that links outside the
  difference are untouched. The loop is never stuck because a blocked addition has
  either a client attached elsewhere, to an obsolete link, or a full hub; the
  target respects its capacity and wants one link more of that hub, so by counting
  one of the hub's links is not in the target.
- **`ControlPlaneProofs`**: `RevocationIsFinal` (`TrustIInv`): while membership
  of a forgotten peer is being changed its pin is already gone, because a failing
  pin store ends the call. `ObservationIsSound` (`OwnIInv`): a network id is
  generated once, so a network that stops being durable never becomes durable
  again; if membership still names the listener's network after the backend
  query, it did so at the query too. The invariant needs that a create in
  progress is for a network no listener has. Two facts of the code carry this:
  `unique_network_id` avoids every known network, and JoinNetwork, the other
  writer of membership, refuses in production (`single_star.rs:779-781`).
  `FramesNeedApproval` follows from the check made under the lock in which frames
  are parsed. `OwnersMatchRegistry` (`RegistryMatchesOwners`): `RegistryIInv` sees
  registered sessions and registry as a one-to-one map (`Matching`), and needs to
  know at each step of the worker where its candidate is: not yet registered, with
  an id the registry cannot have, or registered and no longer owned, and that it
  came this far only with room for one more session. That two approved
  sessions have different keys rests on `FileIInv`: no two peers of a network are
  pinned to one key.
- **`HostProofs`**, about `LocalTopology`: `LatestAreShown`. That the candidates are the latest young
  observations is not inductive, because after a sweep an old observation may
  enter the table again. `TableInv` says why that is harmless: what is in the table
  is the latest observation, or outlived by one that has expired too.
- **`HostProofs`**, about `LocalTopology`: `GateNeverFlaps`. `GateInv`: everything given up since the last
  drift costs at least `MIN_GAIN` more than where the node is now. A topology that
  was lost may be left at any cost, but its loss was a drift, after which nothing
  has been given up yet.
- **`HostProofs`**, about `ForwardingLease`: `PolicyReturns` (`HostPolicyReturns`).
  `LeaseInv` has what the running call knows of the lease file at each of its steps,
  and that BlueRoute's own value stands only under a lease that records "off". The lease is written before the switch is
  turned and dropped after it is turned back, so a crash between any two of these
  leaves a record or nothing to undo.
- **`SessionProofs`**, about `HandshakeRetry`: `RetriesStaySound` (`RetriesAreSound`).
  `RetryInv` states per peer how slot, socket, attempts begun and the time of the last
  failure agree (`PeerOK`): a waiting slot is due exactly one backoff after that failure, and it
  has been counted once more than attempts were begun. As no operation touches two
  peers (`OnePeer`), a step is checked on one. That no attempt begins before its
  delay has passed then follows in the step that begins it.
- **`HostProofs`**, about `BluezDiscovery`: `NothingStaysOnAir` (`NothingLeftOnAir`).
  `AirInv` adds `CallsMeetTheirState`: a call past its first await finds what the
  transition guard protected: an empty slot, a served object without its handle, or
  both. Without it the cleanup after a refused call could leave an object that has no
  handle, or a handle whose advertisement is still on the air.
- **`HostProofs`**, about `BluezPairing`: `PairingTakesItAllBack`
  (`PairingLeavesNoTrace`). `ClaimInv` says who holds the claim at each await, and that
  beside an open window there are only calls that need none. `SettingsInv`, as long as
  no two windows overlapped and no restoring call was refused: every window restores
  the settings at rest, and a setting that is on has a window, open, opening or
  closing, that still owes its restoration. A step moves one caller, so each is
  checked on that caller (`ClaimMoves`, `SettingsMove`), and the invariant of all
  follows by `StepKeeps`. That at most one caller holds the claim is a matter of
  cardinality, at the end (`NoTraceFollows`).
- **`OperatorProofs`**, about `RuntimeHealth`: `PublishedStaysOneReport`
  (`PublishedIsOneReport`). A report is six reads of a machine that changes between
  them, so it need not describe any one state of the machine. What makes it usable is
  `Consistent`: a later read looks at what an earlier one found (`ReadSoFar`). From
  that the lemmas derive what health, capabilities and offers are of one report;
  `HealthInv` then says that the status is that of the last report, that the adapters
  differ from it only while the publisher holds the lock, and that a screen of
  diagnostics took both of them under that lock.
- **`OperatorProofs`**, about `ApiClient`: `ExitsStayHonest` (`ExitsAreHonest`). `CliInv`
  has per command what was applied at each of its steps (`AppliedOnce`) and, for a
  local key, that each answer is of a daemon held during the command (`Observed`). The
  diagnostics, which name the key, do not name the node. Node numbers only grow, so
  the node behind them lies between those of the two status answers around them
  (`Snapshot`); as the code requires these to be equal, so is the one between.
- **`HostAddresses`**, the kernel's addresses: `AddressesStayLeased`
  (`AddressesFollowLeases`). `AddrInv` follows an address from both sides. From the
  kernel's: one that a caller added is its lease's, or its call deals with it, or an
  exchange failed (`Accounted`), and no IPv4 address is there twice, because it is
  added with `NLM_F_EXCL`. From the caller's: as long as the interface keeps its
  index, the address of its lease, or of its call once it has been added, is there or
  somebody removed it (`Kept`). A deletion names a prefix, not an owner; that it
  takes the caller's own address needs both sides.
- **`HostAddresses`**, the survey: `AddressesStayClear` (`AddressesAreClear`). `SurveyInv`:
  whatever has been in use since the survey began is either found already or at a
  device, or in the list of a device, that is still to be read; a device without a
  configuration object has nothing in use. The decision then compares the segment
  with everything that lasted. Found prefixes are normalised while the comparison is
  of networks, so the proof needs the arithmetic of host bits (`ModZero`,
  `NormalizedTwice`); that only the profile of the hosted network records the
  listener's address is what the bind itself checks, and no other step binds one
  (`ListenersAreOurs`).

Only model-checked: all liveness (fairness and `ENABLED` are out of the prover's
reach); what would need induction over data, namely that `ControlStream` implements
`OrderedDelivery` (a read folds the decoder over its bytes), `HubSelection` (a greedy
fold over scores), the shortest paths of `Topology` (recursive), the differences of
snapshots and signals `BluezWatch` adds up (`BluezEventsAddUp`) and the probe sequence
of `SegmentAddresses`; `PlanReachesTarget` and `InterruptionsAreMoves`; and the safety of
the modules without a theorem.

## Findings

- `star_leave`: when the save of CreateNetwork fails, its rollback calls
  `stop_host`, which is refused while an observer holds the transition flag. The
  host stays up and LeaveNetwork, which looks at membership only, answers Ok
  without stopping it. `docs/P6-001-CREATE-NETWORK.md:86` promises that a later
  cleanup "is not converted into a silent no-op".
- `hub_retired`: recovery disconnects links on purpose and never calls
  `forget_hub`, which `topology_loss.rs:118-119` requires before a deliberate
  disconnect becomes observable. A hub that loses its only client that way is
  confirmed as lost later, and further plans leave it out.
- `own_address`: `active_prefix_conflicts_after_restart` (`single_star.rs:923`)
  exempts the address of the network's own bridge, but compares a host address with
  a prefix the survey has normalised to its network address. The exemption never
  matches, and an own address that outlived the daemon blocks the restore that
  `docs/TODO.md:87` describes.
- `nm_removal`: a removal changes the profile and then calls Reapply. If that fails,
  the repeated removal finds the profile without the entry and returns Ok while
  the device keeps it (`networkmanager.rs:590` and `:690`);
  `docs/P4-008-ROUTES.md:13` wants repeated removals to be idempotent.
- `api_version`: the client checks the version and then sends the command, two
  calls to a bus name whose owner may be replaced between them;
  `blueroute-client/src/lib.rs:76-77` says that an incompatible daemon fails closed
  "before the command can be delivered".

Seen while modelling, stated by no run:

- A join whose save fails after the rename rolls everything back, and the file
  claims membership; `docs/P6-004-JOIN-ORCHESTRATION.md:69` says it "does not
  claim membership".
- `ensure_bridge` may fail after adding its profile; `start_host` then returns
  without rollback (`single_star.rs:322-324`).
- Selection is stable when no node hosts at first. With an incumbent it need not
  be: nodes 1-2 and 1-4 hear each other, capacities 1, 2, 0, 1, node 2 hosting.
- GetDiagnostics holds the transition flag while it queries the backend. A
  worker observation at that moment fails, so the listener is retired and every
  session dropped; they come back by reconnecting.
- The address survey reads one interface after another. A prefix that moves during
  it from an interface not yet read to one read already is missed; the property
  speaks of prefixes that stayed where they were.

## What is not modelled

| part | why |
|---|---|
| cryptography, TLS records, sockets | libraries; `PeerHandshake` has the exchange, the pins and the exporter binding, the rest are outcomes of steps |
| D-Bus and netlink encoding, BlueZ, NetworkManager and the kernel themselves | services; modelled as far as the code's calls read and change them, and marked external |
| encoding of an advertisement, payloads of control frames | formatting without state |
| the ring of recent errors, the mapping of error kinds and logging in the daemon | bookkeeping no other state depends on |
| the production `LinuxJoinRuntime` | its preflight refuses every join; `JoinNetwork` is checked over an arbitrary runtime |
| capabilities read once at startup (`main.rs:76-80`) | fixed for the life of the process; `RuntimeHealth` has the reports that follow |
| command-line parsing, the screens' layout, the desktop bridge, `examples/` | formatting and wiring of calls that `ApiClient` and `RuntimeHealth` have |
| backend traits, error and health types, `lib.rs` re-exports | declarations |
| the overflow of NetworkManager's event queue beyond the error it becomes | the subscription ends with it and its reader subscribes again |
