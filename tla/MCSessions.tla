------------------------------ MODULE MCSessions ------------------------------
(***************************************************************************)
(* The life of a control session, one stage per behaviour: the retries of a *)
(* connection, the outbound supervisor, the handshake, the stream of frames *)
(* and the sessions that own NAP slots.  `which` names the component that   *)
(* runs, the others rest in an initial state.                               *)
(***************************************************************************)
EXTENDS ControlStream, HandshakeRetry, NapControlOwner

CONSTANTS
  OtherUses, Interval, MaxFailures,
  Challenges, ChannelCapacity,
  p1, p2, b1

VARIABLES
  which,
  owned, active, panu, trusted, dialExpired, stop, dialPc, socket, registered, age, lostAt, beats, failures,
  id, quirk, nodes, pins, goal, wanted, confirmed, fresh, pc, allowed, peer, mine, theirs, facts,
  chan, closed, expired, answered

(* ----------------------------- instances ------------------------------- *)

Use(length, interface, owner) ==
  [address |-> "a", length |-> length, interface |-> interface, owner |-> owner]
MCLease == Use(24, "bnep0", "net1")
MCOtherUses == {Use(24, "eth0", "net1"), Use(32, "bnep0", "net2")}

\* A client that connects to, or enrolls, a server of the same or of another
\* network that may have the client's node identity or another key than the
\* pinned, wanted or confirmed one. A server with a quirk is otherwise the
\* expected one.
Identity(node, key, net) == [node |-> node, key |-> key, network |-> net]
Pin(node, key) == [node |-> node, key |-> key]
MCPinnable == {Pin("n1", "k1"), Pin("n2", "k2"), Pin("n2", "k3")}
Expected == Identity("n2", "k2", "net1")
MCScenarios ==
  {s \in [client: {Identity("n1", "k1", "net1")},
          server: {Expected, Identity("n2", "k3", "net1"),
                   Identity("n2", "k2", "net2"), Identity("n1", "k2", "net1")},
          quirk: {"none", "session", "sequence", "claims", "network", "reflect", "blind"},
          clientPins: {{}, {Pin("n2", "k2")}},
          serverPins: {{Pin("n1", "k1")}, {Pin("n2", "k3")}},
          goal: {"connect", "enroll"},
          wanted: {Pin("n2", "k2"), Pin("n2", "k3")},
          confirmed: {"k2", "k3"}] :
     /\ s.goal = "connect" => s.clientPins # {} /\ s.confirmed = "k2" /\ s.wanted.key = "k2"
     /\ s.quirk # "none" =>
          /\ s.server = Expected /\ s.serverPins = {Pin("n1", "k1")}
          /\ s.wanted.key = "k2" /\ s.confirmed = "k2"
          /\ s.goal = "enroll" => s.clientPins = {}}

Dial == INSTANCE OutboundControl WITH Lease <- MCLease, expired <- dialExpired, pc <- dialPc
Shake == INSTANCE PeerHandshake WITH
  Pinnable <- MCPinnable, Scenarios <- MCScenarios, Capacity <- ChannelCapacity,
  approved <- nodes

\* Two control sessions of one peer, one of another, on a NAP whose ceiling lets
\* in one of them.
MCPeerOf(s) == IF s = b1 THEN p2 ELSE p1
MCHosts == {[usable |-> TRUE, nap |-> TRUE, ceiling |-> 1]}

stage == <<writer, out, writing, wire, ending, decoder, stream, deadline, activity, reading, approved,
           clock, faults, heardAt, sent, delivered, outcome>>
dial == <<owned, active, panu, trusted, dialExpired, stop, dialPc, socket, registered, age, lostAt,
          beats, failures>>
shake == <<id, quirk, nodes, pins, goal, wanted, confirmed, fresh, pc, allowed, peer, mine, theirs,
           facts, chan, closed, expired, answered>>

MCInit ==
  /\ which \in {"stream", "retry", "dial", "shake", "own"}
  /\ Init /\ RetryInit /\ Dial!Init /\ Shake!Init /\ OwnInit
  /\ which # "shake" =>
       /\ goal = "connect" /\ quirk["server"] = "none" /\ id["server"] = Expected
       /\ pins["server"] = {Pin("n1", "k1")}

MCNext ==
  /\ \/ which = "stream" /\ Next /\ UNCHANGED <<retryVars, dial, shake, ownVars>>
     \/ which = "retry" /\ RetryNext /\ UNCHANGED <<stage, dial, shake, ownVars>>
     \/ which = "dial" /\ Dial!Next /\ UNCHANGED <<stage, retryVars, shake, ownVars>>
     \/ which = "shake" /\ Shake!Next /\ UNCHANGED <<stage, retryVars, dial, ownVars>>
     \/ which = "own" /\ OwnNext /\ UNCHANGED <<stage, retryVars, dial, shake>>
  /\ UNCHANGED which

\* Each component with the fairness its own specification states.
MCSpec ==
  /\ MCInit /\ [][MCNext]_<<which, stage, retryVars, dial, shake, ownVars>>
  /\ WF_stage(which = "stream" /\ Tick) /\ WF_stage(which = "stream" /\ BeginRead(Slice))
  /\ WF_stage(which = "stream" /\ ReadTimesOut)
  /\ WF_retryVars(which = "retry" /\ RetryTick)
  /\ \A k \in RetryKeys, g \in Gens : /\ WF_retryVars(which = "retry" /\ Watchdog(k, g, retryClock))
                                 /\ WF_retryVars(which = "retry" /\ Begin(k, g, retryClock))
  /\ WF_dial(which = "dial" /\ Dial!Step)
  /\ \A e \in {"client", "server"} : /\ WF_shake(which = "shake" /\ Shake!Step(e))
                                     /\ WF_shake(which = "shake" /\ Shake!Expire(e))
  /\ WF_shake(which = "shake" /\ Shake!ClientHello) /\ WF_shake(which = "shake" /\ Shake!ServerFlight)
  /\ WF_shake(which = "shake" /\ Shake!Enroll)
  /\ \A s \in Sessions :
       /\ WF_ownVars(which = "own" /\ ActivateSlot(s)) /\ WF_ownVars(which = "own" /\ RetireRegistration(s))
       /\ WF_ownVars(which = "own" /\ DropLease(s)) /\ WF_ownVars(which = "own" /\ ConfirmDetach(s, s))
       /\ WF_ownVars(which = "own" /\ RetireKept(s))

(* ----------------------------- properties ------------------------------ *)
(* Each one includes the type invariant of its components.                  *)

\* The worker dials, hands over and speaks only on checks made after its
\* authorization, and leaves no socket behind (outbound_control.rs).
ConnectionsAreSound ==
  [][which = "dial" =>
       (Dial!TypeOK /\ Dial!NoSocketLeaks)' /\ Dial!ActsOnFreshChecks /\ Dial!HeartbeatsAreEarned]_dial

\* Active ends are right about each other, matching ends meet, and only a proven,
\* confirmed key is enrolled (handshake.rs, control_tls.rs, peer_trust.rs).
HandshakesAreSound ==
  [][which = "shake" =>
       (Shake!TypeOK /\ Shake!ActiveEndsAgree /\ Shake!MatchingEndsMeet)' /\ Shake!EnrolledKeysAreProven]_shake

\* No faulty frame is delivered nor anything after it, no writer is refused, and
\* a peer that fell silent is not heard again (session_stream.rs, control_tls.rs).
StreamsAreSound ==
  [][which = "stream" => (TypeOK /\ OnlyValidFrames /\ WritersAreUnderstood)' /\ SilenceIsFinal]_stage

\* Everything that waits for a peer ends though the peer may do nothing: attempts
\* give their socket up, handshakes finish, streams close, a dialled session ends
\* once it is stopped or has lost its address, link or approval, and the slot of a
\* lost session or of a link that is gone is freed (attempt_socket.rs,
\* control_tls.rs, control_worker.rs, outbound_control.rs, nap_control_admission.rs).
SessionsEnd ==
  []<>(/\ NoAttempt /\ Dial!EndedIfLost /\ SlotsAreInUse
       /\ which = "shake" => Shake!HandshakeEnded
       /\ which = "stream" => StreamEnded)

\* And what is due happens: a scheduled retry begins unless it is cancelled, and
\* a lasting session keeps its peer informed (session.rs, outbound_control.rs).
SessionsProceed == []<>(NoneWaits /\ Dial!PeerInformed)
===============================================================================
