----------------------------- MODULE ControlPlane -----------------------------
(***************************************************************************)
(* The control worker of control_worker.rs with what it relies on: the     *)
(* guarded listener (control_listener.rs), pinned admission                *)
(* (approved_transport.rs, registered_transport.rs), the per-frame         *)
(* approval checks (pinned_ingress.rs, control_tls.rs) and durable peer    *)
(* trust (peer_trust.rs, peer_pin.rs).                                     *)
(*                                                                         *)
(* The worker is one thread; a step ends where another thread can get in   *)
(* between: at a file read, a lock release, a backend query, a socket      *)
(* call.  Beside it run one D-Bus mutation at a time (CreateNetwork,       *)
(* LeaveNetwork, TrustPeer, ForgetPeer) and key enrollment.  The host is   *)
(* reduced to the network it serves; StarHost has its details.             *)
(***************************************************************************)
EXTENDS Naturals, FiniteSets

CONSTANTS
  Networks, NoNetwork,
  Peers,
  Keys, NoKey,    \* SPKI fingerprints
  NoPeer,
  NoSession,
  MaxOwned,       \* MAX_OWNED_SESSIONS
  MaxIds,         \* bound of the model on completed TLS handshakes
  MaxMutations,   \* bound of the model on D-Bus mutations and enrollments
  MaxCrashes      \* bound of the model on crashes

ASSUME ControlConstants ==
  /\ NoNetwork \notin Networks /\ NoKey \notin Keys /\ NoPeer \notin Peers
  /\ NoSession \notin [net : Networks, peer : Peers, key : Keys, id : Nat]
  /\ MaxOwned \in Nat \ {0} /\ MaxIds \in Nat
  /\ MaxMutations \in Nat /\ MaxCrashes \in Nat

VARIABLES
  durable,    \* current_network of the membership file
  trusted,    \* approved <<network, peer>> of the membership file
  pins,       \* the pin file: pins[n][p]
  host,       \* network of LinuxStarHostRuntime.active
  used,       \* networks ever created: generated ids do not repeat
  call,       \* the D-Bus mutation in progress
  pc,         \* step of the worker
  gate,       \* which observe_durable_owned_endpoint is running
  listener,   \* network of the worker's listener, or NoNetwork
  live,       \* its socket is open (ObservedControlListener.listener)
  sessions,   \* registered sessions the worker owns
  todo,       \* sessions the current retain_mut has still to visit
  cur,        \* the session or candidate being worked on
  allowed,    \* pin snapshot of the handshake
  registry,   \* registry[n][p]: id of the entry, 0 if none
  nextId,     \* next TLS exporter id
  stop,       \* the stop flag
  spent,      \* mutations and enrollments so far
  crashes,    \* crashes so far
  confirmed,  \* keys enrolled and not revoked since (history)
  owned,      \* the network was durable and hosted when last observed (history)
  heard       \* session whose frames were last handed to the worker (history)

trustVars == <<durable, trusted, pins, host, used, call, spent, confirmed>>
workerVars == <<pc, gate, listener, live, sessions, todo, cur, allowed, registry, nextId,
                owned, heard>>
vars == <<trustVars, workerVars, stop, crashes>>

Session(n, p, k, id) == [net |-> n, peer |-> p, key |-> k, id |-> id]
Idle == [step |-> "idle", net |-> NoNetwork, peer |-> NoPeer]
Call(step, n, p) == [step |-> step, net |-> n, peer |-> p]

\* forget_peer holds the trust lock across its two saves.
Locked == call.step \in {"pin", "member"}

\* start_host and stop_host hold the transition flag.
Busy == call.step \in {"start", "stop", "undo", "restart"}

-----------------------------------------------------------------------------
\* Mutants of the operations below.

\* Mutant of Authorizes: approval of the node id is enough.
AuthorizesUnpinned(n, p, k) == durable = n /\ <<n, p>> \in trusted

\* Mutant of Receives: the check made before the read is not repeated.
ReceivesUnchecked(s) == TRUE

\* Mutant of StillDurable: the membership file is not read again.
StillDurableAssumed == TRUE

\* Mutant of AfterPinFailure: forgetting goes on although the pin was not removed.
AfterPinFailureContinues == [call EXCEPT !.step = "member"]

\* Mutant of Conflicts: another node may already have the key.
ConflictsOfNodeOnly(n, p, k) == pins[n][p] # NoKey

\* Mutant of Dropped: the sockets are closed and the entries left behind.
DroppedSilently(gone) == registry

-----------------------------------------------------------------------------
\* Durable approval.

\* require_peer_approved and PeerKeyPins::authorize, under the trust lock.
Authorizes(n, p, k) == durable = n /\ <<n, p>> \in trusted /\ pins[n][p] = k

\* with_approved_pinned_tls_peer by the worker: it waits for the lock; a failing
\* read or the process lock of another program denies a peer that is approved.
Checked(s, ok) ==
  /\ ~Locked
  /\ ok \in {FALSE, Authorizes(s.net, s.peer, s.key)}

\* PeerKeyPins::enroll_verified: no silent overwrite, no key under two nodes.  To
\* enroll the same key again succeeds and saves nothing: a step that changes nothing.
Conflicts(n, p, k) ==
  \/ pins[n][p] # NoKey
  \/ \E q \in Peers \ {p} : pins[n][q] = k

-----------------------------------------------------------------------------
\* D-Bus mutations.

MayCall == call = Idle /\ spent < MaxMutations

\* The revocation of a peer takes effect (history).
Unconfirm(n, p) == confirmed' = {c \in confirmed : <<c[1], c[2]>> # <<n, p>>}

BeginCreate(n) ==
  /\ MayCall /\ durable = NoNetwork /\ host = NoNetwork /\ n \notin used
  /\ call' = Call("start", n, NoPeer)
  /\ used' = used \cup {n}
  /\ spent' = spent + 1
  /\ UNCHANGED <<durable, trusted, pins, host, confirmed, workerVars, stop, crashes>>

BeginLeave ==
  /\ MayCall /\ durable # NoNetwork /\ host = durable
  /\ call' = Call("stop", durable, NoPeer)
  /\ spent' = spent + 1
  /\ UNCHANGED <<durable, trusted, pins, host, used, confirmed, workerVars, stop, crashes>>

\* start_host ends, for a create or for the repair of a failed leave.
HostStarted ==
  /\ call.step \in {"start", "restart"}
  /\ \/ /\ host' = call.net
        /\ call' = IF call.step = "start" THEN [call EXCEPT !.step = "create"] ELSE Idle
     \/ UNCHANGED host /\ call' = Idle
  /\ UNCHANGED <<durable, trusted, pins, used, spent, confirmed, workerVars, stop, crashes>>

\* stop_host ends, for a leave or for the rollback of a failed create.
HostStopped ==
  /\ call.step \in {"stop", "undo"}
  /\ \/ /\ host' = NoNetwork
        /\ call' = IF call.step = "stop" THEN [call EXCEPT !.step = "leave"] ELSE Idle
     \/ UNCHANGED host /\ call' = Idle
  /\ UNCHANGED <<durable, trusted, pins, used, spent, confirmed, workerVars, stop, crashes>>

\* store.save of a create or a leave: done, failed, or failed when visible.
SaveMembership ==
  /\ call.step \in {"create", "leave"}
  /\ LET next == IF call.step = "create" THEN call.net ELSE NoNetwork
         repair == [call EXCEPT !.step = IF call.step = "create" THEN "undo" ELSE "restart"]
     IN \/ durable' = next /\ call' \in {Idle, repair}
        \/ UNCHANGED durable /\ call' = repair
  /\ UNCHANGED <<trusted, pins, host, used, spent, confirmed, workerVars, stop, crashes>>

\* trust_peer: one save under the lock, which may fail unseen.
TrustPeer(p) ==
  /\ MayCall /\ durable # NoNetwork
  /\ trusted' \in {trusted, trusted \cup {<<durable, p>>}}
  /\ spent' = spent + 1
  /\ UNCHANGED <<durable, pins, host, used, call, confirmed, workerVars, stop, crashes>>

BeginForget(p) ==
  /\ MayCall /\ durable # NoNetwork
  /\ call' = Call("pin", durable, p)
  /\ spent' = spent + 1
  /\ UNCHANGED <<durable, trusted, pins, host, used, confirmed, workerVars, stop, crashes>>

\* forget_peer returns the error of the pin store.
AfterPinFailure == Idle

\* forget_peer: the pin goes first.
ForgetPin ==
  /\ call.step = "pin"
  /\ \/ /\ pins' = [pins EXCEPT ![call.net][call.peer] = NoKey]
        /\ Unconfirm(call.net, call.peer)
        /\ call' \in {[call EXCEPT !.step = "member"], AfterPinFailure}
     \/ UNCHANGED <<pins, confirmed>> /\ call' = AfterPinFailure
  /\ UNCHANGED <<durable, trusted, host, used, spent, workerVars, stop, crashes>>

\* forget_peer: then the approval of the node.
ForgetMember ==
  /\ call.step = "member"
  /\ \/ /\ trusted' = trusted \ {<<call.net, call.peer>>}
        /\ Unconfirm(call.net, call.peer)
     \/ UNCHANGED <<trusted, confirmed>>
  /\ call' = Idle
  /\ UNCHANGED <<durable, pins, host, used, spent, workerVars, stop, crashes>>

\* enroll_key_inner, after TLS proof and the operator's confirmation.
Enroll(n, p, k) ==
  /\ spent < MaxMutations /\ ~Locked
  /\ durable = n /\ <<n, p>> \in trusted
  /\ ~Conflicts(n, p, k)
  /\ pins' = [pins EXCEPT ![n][p] = k]
  /\ confirmed' = confirmed \cup {<<n, p, k>>}
  /\ spent' = spent + 1
  /\ UNCHANGED <<durable, trusted, host, used, call, workerVars, stop, crashes>>

-----------------------------------------------------------------------------
\* The worker: sessions.

\* Sessions are dropped: the sockets close, then exactly their entries go.
Dropped(gone) ==
  [n \in Networks |-> [p \in Peers |->
    IF \E s \in gone : s.net = n /\ s.peer = p /\ s.id = registry[n][p]
    THEN 0 ELSE registry[n][p]]]

\* The worker gives up its listener and every session.
Abandon(step) ==
  /\ pc' = step
  /\ listener' = NoNetwork /\ live' = FALSE
  /\ sessions' = {} /\ todo' = {} /\ cur' = NoSession /\ allowed' = {}
  /\ registry' = Dropped((sessions \cup {cur}) \ {NoSession})
  /\ UNCHANGED <<gate, nextId, owned, heard>>

\* The poll of this iteration ends without a new session; the worker parks.
\* A retired listener is noticed by the next supervision.
Park(open) ==
  /\ pc' = "top" /\ live' = open
  /\ cur' = NoSession /\ allowed' = {}
  /\ registry' = Dropped({cur} \ {NoSession})
  /\ UNCHANGED <<gate, listener, sessions, todo, nextId, owned, heard>>

\* The session visited by a retain_mut is removed, or kept.
Visit(s, keep) ==
  /\ todo' = todo \ {s}
  /\ sessions' = IF keep THEN sessions ELSE sessions \ {s}
  /\ registry' = IF keep THEN registry ELSE Dropped({s})

Observe(g) == pc' = "observe" /\ gate' = g

-----------------------------------------------------------------------------
\* The worker: binding.

\* The head of the loop.  Without durable membership there is no bind; a retired
\* listener fails its supervision at once.
Top ==
  /\ pc = "top"
  /\ IF stop THEN Abandon("done")
     ELSE IF listener = NoNetwork
     THEN /\ durable # NoNetwork
          /\ pc' = "bind"
          /\ UNCHANGED <<gate, listener, live, sessions, todo, cur, allowed, registry, nextId,
                         owned, heard>>
     ELSE IF ~live THEN Abandon("top")
     ELSE /\ Observe("supervise")
          /\ UNCHANGED <<listener, live, sessions, todo, cur, allowed, registry, nextId,
                         owned, heard>>
  /\ UNCHANGED <<trustVars, stop, crashes>>

\* bind_guarded_control_listener of the operations: the network it will bind for.
Bind ==
  /\ pc = "bind"
  /\ IF stop THEN Abandon("done")
     ELSE \/ /\ durable # NoNetwork
             /\ listener' = durable
             /\ pc' = "socket"
             /\ UNCHANGED <<gate, live, sessions, todo, cur, allowed, registry, nextId, owned,
                            heard>>
          \/ Abandon("top")
  /\ UNCHANGED <<trustVars, stop, crashes>>

\* bind_guarded_control_listener of the runtime, under the transition flag: the
\* socket is the host's, and must be of that network.
BindSocket ==
  /\ pc = "socket"
  /\ \/ /\ ~Busy /\ host = listener
        /\ live' = TRUE
        /\ pc' = "rebound"
        /\ UNCHANGED <<gate, listener, sessions, todo, cur, allowed, registry, nextId, owned,
                       heard>>
     \/ Abandon("top")
  /\ UNCHANGED <<trustVars, stop, crashes>>

\* The fresh membership reads after the bind, of the operations and, unless it was
\* stopped, of the worker.
Bound ==
  /\ pc \in {"rebound", "bound"}
  /\ IF pc = "bound" /\ stop THEN Abandon("done")
     ELSE \/ /\ durable = listener
             /\ IF pc = "bound" THEN Observe("supervise") ELSE pc' = "bound" /\ UNCHANGED gate
             /\ UNCHANGED <<listener, live, sessions, todo, cur, allowed, registry, nextId,
                            owned, heard>>
          \/ Abandon("top")
  /\ UNCHANGED <<trustVars, stop, crashes>>

-----------------------------------------------------------------------------
\* The worker: observe_durable_owned_endpoint, at four gates.

\* An observation that fails or does not match retires the listener.  Supervision
\* has taken the sessions and drops them all; at the other gates the socket or
\* the registered candidate is dropped.
Lost == IF gate = "supervise" THEN Abandon("top") ELSE Park(FALSE)

\* What follows a matching observation.
Matched ==
  /\ pc' = [supervise |-> "revalidate", accept |-> "accept", accepted |-> "snapshot",
            release |-> "release"][gate]
  /\ todo' = IF gate = "supervise" THEN sessions ELSE {}
  /\ UNCHANGED <<gate, listener, live, sessions, cur, allowed, registry, nextId, owned, heard>>

\* Two membership reads before the backend query, the observer's and the
\* operations'.
ReadBefore ==
  /\ pc \in {"observe", "load"}
  /\ \/ /\ durable = listener
        /\ pc' = IF pc = "observe" THEN "load" ELSE "endpoint"
        /\ UNCHANGED <<gate, listener, live, sessions, todo, cur, allowed, registry, nextId,
                       owned, heard>>
     \/ Lost
  /\ UNCHANGED <<trustVars, stop, crashes>>

\* observed_owned_control_endpoint of the runtime: refused during a transition.
ReadEndpoint ==
  /\ pc = "endpoint"
  /\ \/ /\ ~Busy /\ host = listener
        /\ pc' = "reload"
        /\ owned' = (durable = listener)
        /\ UNCHANGED <<gate, listener, live, sessions, todo, cur, allowed, registry, nextId,
                       heard>>
     \/ Lost
  /\ UNCHANGED <<trustVars, stop, crashes>>

\* Membership is still what it was before the backend query.
StillDurable == durable = listener

\* Two reads after it, the operations' and the observer's.
ReadAfter ==
  /\ pc \in {"reload", "reread"}
  /\ \/ /\ StillDurable
        /\ IF pc = "reread" THEN Matched
           ELSE /\ pc' = "reread"
                /\ UNCHANGED <<gate, listener, live, sessions, todo, cur, allowed, registry,
                               nextId, owned, heard>>
     \/ Lost
  /\ UNCHANGED <<trustVars, stop, crashes>>

-----------------------------------------------------------------------------
\* The worker: sessions in turn.  A retain_mut ends when it has visited all.

\* Supervision: one revoked peer does not close the others.
Revalidate(s) ==
  /\ pc = "revalidate" /\ s \in todo
  /\ \E ok \in BOOLEAN : Checked(s, ok) /\ Visit(s, ok)
  /\ UNCHANGED <<pc, gate, listener, live, cur, allowed, nextId, owned, heard, trustVars, stop,
                 crashes>>

EndRevalidate ==
  /\ pc = "revalidate" /\ todo = {}
  /\ IF stop THEN Abandon("done")
     ELSE /\ pc' = "read"
          /\ todo' = sessions
          /\ UNCHANGED <<gate, listener, live, sessions, cur, allowed, registry, nextId, owned,
                         heard>>
  /\ UNCHANGED <<trustVars, stop, crashes>>

\* receive_next_with_budget_at up to the blocking read: stop flag, idle deadline
\* and check_before_read.
Read(s) ==
  /\ pc = "read" /\ s \in todo
  /\ \/ /\ ~stop /\ Checked(s, TRUE)
        /\ pc' = "receive" /\ cur' = s
        /\ UNCHANGED <<sessions, todo, registry>>
     \/ /\ stop \/ Checked(s, FALSE)
        /\ Visit(s, FALSE)
        /\ UNCHANGED <<pc, cur>>
  /\ heard' = NoSession
  /\ UNCHANGED <<gate, listener, live, allowed, nextId, owned, trustVars, stop, crashes>>

\* receive_verified_plaintext repeats the approval check under the lock in which
\* the frames are parsed.
Receives(s) == Authorizes(s.net, s.peer, s.key)

\* The read ends: frames, a Goodbye among them or not; an idle slice; or the end
\* of the session (EOF, deadline, transport or framing error).
Receive ==
  /\ pc = "receive" /\ ~Locked
  /\ \/ /\ Receives(cur)
        /\ heard' \in {heard, cur}
        /\ pc' = "beat"
        /\ UNCHANGED <<sessions, todo, cur, registry>>
     \/ /\ heard' = IF Receives(cur) THEN cur ELSE heard
        /\ Visit(cur, FALSE)
        /\ pc' = "read" /\ cur' = NoSession
     \/ /\ UNCHANGED heard
        /\ Visit(cur, FALSE)
        /\ pc' = "read" /\ cur' = NoSession
  /\ UNCHANGED <<gate, listener, live, allowed, nextId, owned, trustVars, stop, crashes>>

\* A heartbeat, when due, needs approval again; a failed write ends the session.
Beat ==
  /\ pc = "beat"
  /\ \/ Visit(cur, TRUE)
     \/ \E ok \in BOOLEAN : Checked(cur, ok) /\ Visit(cur, ok)
  /\ pc' = "read" /\ cur' = NoSession
  /\ UNCHANGED <<gate, listener, live, allowed, nextId, owned, heard, trustVars, stop, crashes>>

-----------------------------------------------------------------------------
\* The worker: admission.

\* With room for a session, membership is read again: the handshake is set up for
\* that network, and a listener of another one is retired.
EndRead ==
  /\ pc = "read" /\ todo = {}
  /\ IF stop THEN Abandon("done")
     ELSE IF Cardinality(sessions) >= MaxOwned THEN Park(live)
     ELSE \/ /\ durable = listener
             /\ Observe("accept")
             /\ UNCHANGED <<listener, live, sessions, todo, cur, allowed, registry, nextId,
                            owned, heard>>
          \/ durable \notin {listener, NoNetwork} /\ Park(FALSE)
          \/ Abandon("top")
  /\ UNCHANGED <<trustVars, stop, crashes>>

\* accept_if_current: a socket, none, or a failing listener.
Accept ==
  /\ pc = "accept"
  /\ \/ /\ Observe("accepted")
        /\ UNCHANGED <<listener, live, sessions, todo, cur, allowed, registry, nextId, owned,
                       heard>>
     \/ \E open \in BOOLEAN : Park(open)
  /\ UNCHANGED <<trustVars, stop, crashes>>

\* approved_control_pins: approved peers with their keys, at one instant.
SnapshotPins ==
  /\ pc = "snapshot" /\ ~Locked
  /\ \/ /\ durable = listener
        /\ allowed' = {<<p, pins[listener][p]>> :
                          p \in {q \in Peers : /\ <<listener, q>> \in trusted
                                               /\ pins[listener][q] # NoKey}}
        /\ pc' = "filter"
        /\ UNCHANGED <<gate, listener, live, sessions, todo, cur, registry, nextId, owned, heard>>
     \/ Park(live)
  /\ UNCHANGED <<trustVars, stop, crashes>>

\* accept_approved_control_session: pins revoked meanwhile are left out, a failing
\* check ends the attempt.  The peers are checked one by one, here at once: a pin
\* revoked after its check is one revoked before the handshake.
FilterPins ==
  /\ pc = "filter" /\ ~Locked
  /\ LET kept == {a \in allowed : Authorizes(listener, a[1], a[2])}
     IN \/ /\ kept # {}
           /\ allowed' = kept
           /\ pc' = "handshake"
           /\ UNCHANGED <<gate, listener, live, sessions, todo, cur, registry, nextId, owned,
                          heard>>
        \/ Park(live)
  /\ UNCHANGED <<trustVars, stop, crashes>>

\* Mutual TLS with one of them and the Hello exchange, or no proof in time.
Handshake ==
  /\ pc = "handshake"
  /\ \/ /\ nextId <= MaxIds
        /\ \E a \in allowed : cur' = Session(listener, a[1], a[2], nextId)
        /\ nextId' = nextId + 1
        /\ allowed' = {}
        /\ pc' = "activate"
        /\ UNCHANGED <<gate, listener, live, sessions, todo, registry, owned, heard>>
     \/ Park(live)
  /\ UNCHANGED <<trustVars, stop, crashes>>

\* activate, after_verified_handshake: approval again before the session exists.
Activate ==
  /\ pc = "activate"
  /\ \/ /\ Checked(cur, TRUE)
        /\ pc' = "admit"
        /\ UNCHANGED <<gate, listener, live, sessions, todo, cur, allowed, registry, nextId,
                       owned, heard>>
     \/ Checked(cur, FALSE) /\ Park(live)
  /\ UNCHANGED <<trustVars, stop, crashes>>

\* RegisteredControlSession::admit: one active session per peer.
Admit ==
  /\ pc = "admit"
  /\ IF registry[cur.net][cur.peer] = 0
     THEN /\ registry' = [registry EXCEPT ![cur.net][cur.peer] = cur.id]
          /\ Observe("release")
          /\ UNCHANGED <<listener, live, sessions, todo, cur, allowed, nextId, owned, heard>>
     ELSE Park(live)
  /\ UNCHANGED <<trustVars, stop, crashes>>

\* release_registered_if_current: the worker becomes the owner of a session that
\* is still approved.
Release ==
  /\ pc = "release"
  /\ \/ /\ Checked(cur, TRUE)
        /\ sessions' = sessions \cup {cur}
        /\ pc' = "top" /\ cur' = NoSession
        /\ UNCHANGED <<gate, listener, live, todo, allowed, registry, nextId, owned, heard>>
     \/ Checked(cur, FALSE) /\ Park(live)
  /\ UNCHANGED <<trustVars, stop, crashes>>

-----------------------------------------------------------------------------
\* Stop and restart.

\* shutdown, or the drop of DaemonControlWorker.
RequestStop ==
  /\ ~stop /\ stop' = TRUE
  /\ UNCHANGED <<trustVars, workerVars, crashes>>

\* The daemon dies and starts again; reconciliation may restore the host.
Crash ==
  /\ crashes < MaxCrashes /\ crashes' = crashes + 1
  /\ call' = Idle
  /\ host' \in {durable, NoNetwork}
  /\ stop' = FALSE
  /\ Abandon("top")
  /\ UNCHANGED <<durable, trusted, pins, used, spent, confirmed>>

NoPins == [n \in Networks |-> [p \in Peers |-> NoKey]]

\* The worker starts over whatever files earlier runs left: for a network, any
\* approvals and any pins that enrollment can have made.
Init ==
  /\ durable \in Networks \cup {NoNetwork}
  /\ host \in {durable, NoNetwork}
  /\ used = {durable} \ {NoNetwork}
  /\ trusted \in SUBSET (used \X Peers)
  /\ pins \in {[NoPins EXCEPT ![n] = f] : n \in used, f \in [Peers -> Keys \cup {NoKey}]}
             \cup {NoPins}
  /\ \A n \in Networks, p, q \in Peers : p # q /\ pins[n][p] # NoKey => pins[n][p] # pins[n][q]
  /\ confirmed = {c \in Networks \X Peers \X Keys : pins[c[1]][c[2]] = c[3]}
  /\ call = Idle /\ spent = 0
  /\ pc = "top" /\ gate = "supervise"
  /\ listener = NoNetwork /\ live = FALSE
  /\ sessions = {} /\ todo = {} /\ cur = NoSession /\ allowed = {}
  /\ registry = [n \in Networks |-> [p \in Peers |-> 0]]
  /\ nextId = 1
  /\ owned = FALSE /\ heard = NoSession
  /\ stop = FALSE /\ crashes = 0

Worker ==
  \/ Top \/ Bind \/ BindSocket \/ Bound \/ ReadBefore \/ ReadEndpoint \/ ReadAfter
  \/ (\E s \in todo : Revalidate(s) \/ Read(s))
  \/ EndRevalidate \/ Receive \/ Beat \/ EndRead
  \/ Accept \/ SnapshotPins \/ FilterPins \/ Handshake \/ Activate \/ Admit \/ Release

\* A call once begun runs to its end.
CallStep == HostStarted \/ HostStopped \/ SaveMembership \/ ForgetPin \/ ForgetMember

Environment ==
  \/ \E n \in Networks : BeginCreate(n)
  \/ BeginLeave
  \/ \E p \in Peers : TrustPeer(p) \/ BeginForget(p)
  \/ \E n \in Networks, p \in Peers, k \in Keys : Enroll(n, p, k)
  \/ RequestStop \/ Crash

Next == Worker \/ CallStep \/ Environment

Spec == Init /\ [][Next]_vars /\ WF_vars(Worker) /\ WF_vars(CallStep)

-----------------------------------------------------------------------------
\* Properties.

Approved(s) ==
  durable = s.net /\ <<s.net, s.peer>> \in trusted /\ pins[s.net][s.peer] = s.key

\* Sessions with an entry: the worker's, and a candidate past admission.
Registered ==
  sessions \cup (IF gate = "release" /\ cur # NoSession
                    /\ pc \in {"observe", "load", "endpoint", "reload", "reread", "release"}
                 THEN {cur} ELSE {})

ControlTypeOK ==
  /\ durable \in Networks \cup {NoNetwork} /\ host \in Networks \cup {NoNetwork}
  /\ trusted \subseteq Networks \X Peers
  /\ pins \in [Networks -> [Peers -> Keys \cup {NoKey}]]
  /\ sessions \subseteq [net : Networks, peer : Peers, key : Keys, id : 1..MaxIds]
  /\ Cardinality(sessions) <= MaxOwned
  /\ registry \in [Networks -> [Peers -> 0..MaxIds]]

\* The registry has an entry exactly for the sessions that somebody owns, whatever
\* made the worker drop one: a peer whose session ended can come back, and no two
\* owners share an entry (control_worker.rs, registered_transport.rs). And two
\* sessions that are both approved have different peers and different keys.
RegistryMatchesOwners ==
  /\ ControlTypeOK
  /\ \A n \in Networks, p \in Peers :
       {s.id : s \in {r \in Registered : r.net = n /\ r.peer = p}}
         = IF registry[n][p] = 0 THEN {} ELSE {registry[n][p]}
  /\ \A s, t \in Registered :
       s # t /\ Approved(s) /\ Approved(t) => s.peer # t.peer /\ s.key # t.key

\* When the worker reads from sessions or admits one, its network was hosted and
\* was the durable one at one same instant of this observation: a leave or its
\* repair between the reads is never mistaken for ownership.
OwnershipWasReal ==
  pc \in {"revalidate", "read", "receive", "beat", "accept", "snapshot", "release"} => owned

\* A key that was revoked, even by a forget_peer that failed or crashed halfway,
\* is not approved again by anything but a new enrollment.
RevocationSticks ==
  \A n \in Networks, p \in Peers :
    pins[n][p] # NoKey /\ <<n, p>> \in trusted => <<n, p, pins[n][p]>> \in confirmed

\* Frames reach the worker only from a peer approved at that moment, also when it
\* was revoked while the read was blocked.
FramesAreApproved ==
  [][heard' # heard /\ heard' # NoSession => Approved(heard')]_vars

\* A session of a revoked peer, of a network that was left, or of a stopped worker
\* does not last, idle or not.
ObsoleteSessionsEnd ==
  \A id \in 1..MaxIds :
    (\E s \in sessions : s.id = id /\ (~Approved(s) \/ stop))
      ~> ~(\E s \in sessions : s.id = id /\ (~Approved(s) \/ stop))

=============================================================================
