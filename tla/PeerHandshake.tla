----------------------------- MODULE PeerHandshake -----------------------------
(***************************************************************************)
(* How two ends of one TCP connection become an authenticated control       *)
(* session: the certificate preface and its pin check, mutual TLS 1.3,      *)
(* Hello and HelloAck bound to the TLS exporter, and activation against the *)
(* durable trust files.  A client may instead use the connection to enroll  *)
(* the key of a candidate an operator has confirmed.                        *)
(*                                                                         *)
(* The server may be another implementation: a quirk says how its frames    *)
(* differ.  The ends may belong to different networks, carry the same node  *)
(* identity or a key that was replaced since it was pinned.  TLS (rustls)   *)
(* is external: an end gets past it only when the other end proves the key  *)
(* of the certificate it was configured with.                               *)
(***************************************************************************)
EXTENDS Naturals, Sequences, FiniteSets

CONSTANTS
  Pinnable,     \* (node, key) pairs the trust files may hold
  Scenarios,    \* identities, quirk, trust files and the goal of the client
  Challenges,   \* outcomes of getrandom; 0 is the all-zero challenge
  Capacity      \* messages one direction of the socket holds

VARIABLES
  id,         \* [end -> LocalControlTlsIdentity and network]
  quirk,      \* [end -> quirk]
  approved,   \* [end -> nodes approved in the membership file]
  pins,       \* [end -> enrolled (node, key) pairs]
  goal,       \* what the client wants: "connect" or "enroll"
  wanted,     \* the client's expected peer, or its candidate
  confirmed,  \* the fingerprint the operator confirmed
  fresh,      \* the candidate is younger than MAX_ENROLLMENT_CANDIDATE_AGE
  pc, allowed, peer, mine, theirs, facts,  \* the locals of each end
  chan,       \* [end -> messages under way to it]
  closed,     \* [end -> it shut its socket down]
  expired,    \* [end -> its handshake deadline has passed]
  answered    \* [end -> the challenge it read from the other end] (history)

inputs == <<id, quirk, goal, wanted, confirmed>>
trust == <<approved, pins>>
locals == <<allowed, peer, mine, theirs, facts>>
vars == <<inputs, trust, fresh, pc, locals, chan, closed, expired, answered>>

Ends == {"client", "server"}
Other(e) == IF e = "client" THEN "server" ELSE "client"
Nobody == [node |-> "nobody", key |-> "none"]
\* The certificate of an end: it names the node and holds the key of its identity.
Cert(e) == [node |-> id[e].node, key |-> id[e].key]
Undrawn == 1000  \* no challenge yet
Done == {"active", "enrolled", "failed", "foreign"}

\* tls_control_exporter_context and the exporter: equal at both ends exactly when
\* they agree on the network and on both node identities.
Session(network, nodes) == [network |-> network, nodes |-> nodes]

SessionOf(e) == Session(id[e].network, {id[e].node, peer[e].node})

Message(kind, cert, network, session, sequence, challenge, claims) ==
  [kind |-> kind, cert |-> cert, network |-> network, session |-> session,
   sequence |-> sequence, challenge |-> challenge, claims |-> claims]

Raw(kind, cert) == Message(kind, cert, "none", Session("none", {}), 0, 0, "none")

\* A ControlEnvelope of the handshake.
Envelope(e, kind, sequence, challenge) ==
  Message(kind, [Nobody EXCEPT !.node = id[e].node], id[e].network, SessionOf(e), sequence, challenge, e)

\* What another implementation makes of a frame.
Distorted(e, m) ==
  CASE quirk[e] = "session"  -> [m EXCEPT !.session.nodes = {}]
    [] quirk[e] = "sequence" -> [m EXCEPT !.sequence = @ + 1]
    [] quirk[e] = "claims" /\ m.kind = "ack" -> [m EXCEPT !.claims = "changed"]
    [] quirk[e] = "network"  -> [m EXCEPT !.network = "none"]
    [] quirk[e] = "reflect" /\ m.kind = "hello" /\ chan[e] # <<>> -> [m EXCEPT !.challenge = Head(chan[e]).challenge]
    [] OTHER -> m

-----------------------------------------------------------------------------
\* Reading and writing by the deadline, and giving up.

CanWrite(e) == ~expired[e] /\ ~closed[e] /\ Len(chan[Other(e)]) < Capacity

\* write_until, write_one_control_frame_with_deadline.
Send(e, m) == chan' = [chan EXCEPT ![Other(e)] = Append(@, m)]

CanRead(e) == ~expired[e] /\ ~closed[e] /\ chan[e] # <<>>

\* read_exact_until, read_one_control_frame_with_deadline.
Consume(e) == chan' = [chan EXCEPT ![e] = Tail(@)]

\* Every failure shuts the socket down.
GiveUp(e) ==
  /\ pc' = [pc EXCEPT ![e] = "failed"]
  /\ closed' = [closed EXCEPT ![e] = TRUE]
  /\ UNCHANGED <<locals, answered>>

Goto(e, label) == pc' = [pc EXCEPT ![e] = label] /\ UNCHANGED closed

\* Mutant of Fail: a blocking call ends only with the connection.
FailOnCloseOnly(e) ==
  /\ pc[e] \notin Done \cup {"authenticated"} /\ (closed[e] \/ closed[Other(e)])
  /\ GiveUp(e)
  /\ UNCHANGED <<inputs, trust, fresh, chan, expired>>

\* The deadline passes, the other end is gone, or the socket fails.
Fail(e) ==
  /\ pc[e] \notin Done \cup {"authenticated"}
  /\ expired[e] \/ closed[e] \/ closed[Other(e)]
  /\ GiveUp(e)
  /\ UNCHANGED <<inputs, trust, fresh, chan, expired>>

-----------------------------------------------------------------------------
\* Authorization before the handshake.

\* require_approved_pinned_tls_peer.
Authorized(e, p) == p.node \in approved[e] /\ p \in pins[e]

\* confirm_fingerprint.
Confirms == fresh /\ confirmed = wanted.key

\* connect_approved_control_session and enroll_confirmed_control_candidate check
\* the one expected peer; accept_approved_control_session keeps the pins that are
\* still authorized.
Start(e) ==
  /\ pc[e] = "start" /\ ~expired[e]
  /\ LET ok == CASE e = "server" -> {p \in pins[e] : Authorized(e, p)}
                 [] e = "client" /\ goal = "connect" -> {wanted} \cap {p \in pins[e] : Authorized(e, p)}
                 [] OTHER -> IF wanted.node \in approved[e] /\ Confirms THEN {wanted} ELSE {}
     IN IF ok = {} THEN GiveUp(e)
        ELSE allowed' = [allowed EXCEPT ![e] = ok] /\ Goto(e, "write_cert")
             /\ UNCHANGED <<peer, mine, theirs, facts, answered>>
  /\ UNCHANGED <<inputs, trust, fresh, chan, expired>>

-----------------------------------------------------------------------------
\* The certificate preface.

\* exchange_control_tls_certificate: an ambiguous allowlist is refused before a
\* byte is sent.
Unambiguous(e, ps) ==
  /\ \A p \in ps : p.node # id[e].node
  /\ \A p, q \in ps : (p.node = q.node) = (p.key = q.key)

\* Mutant of WriteCert: each end waits for the certificate of the other.
WriteCertSecond(e) ==
  /\ pc[e] = "write_cert" /\ CanWrite(e) /\ chan[e] # <<>>
  /\ Send(e, Raw("cert", Cert(e))) /\ Goto(e, "read_cert")
  /\ UNCHANGED <<inputs, trust, fresh, locals, expired, answered>>

WriteCert(e) ==
  /\ pc[e] = "write_cert" /\ CanWrite(e)
  /\ IF Unambiguous(e, allowed[e])
     THEN Send(e, Raw("cert", Cert(e))) /\ Goto(e, "read_cert") /\ UNCHANGED <<locals, answered>>
     ELSE GiveUp(e) /\ UNCHANGED chan
  /\ UNCHANGED <<inputs, trust, fresh, expired>>

\* certificate_names_node and certificate_fingerprint.
Identifies(cert, p) == cert.node = p.node /\ cert.key = p.key

\* exchange_control_tls_candidate_inner and the pin check on its result.
PinnedCert(e, cert) == cert.node # id[e].node /\ \E p \in allowed[e] : Identifies(cert, p)

\* The client starts TLS as soon as the certificate is pinned.
ReadCert(e) ==
  /\ pc[e] = "read_cert" /\ CanRead(e)
  /\ LET m == Head(chan[e])
     IN IF m.kind = "cert" /\ PinnedCert(e, m.cert)
        THEN peer' = [peer EXCEPT ![e] = m.cert] /\ Goto(e, "tls") /\ UNCHANGED <<allowed, mine, theirs, facts, answered>>
        ELSE GiveUp(e)
  /\ Consume(e)
  /\ UNCHANGED <<inputs, trust, fresh, expired>>

-----------------------------------------------------------------------------
\* TLS 1.3: complete_handshake_until.  The client speaks first; the server
\* answers with the proof of its key; the client finishes with its own proof,
\* before the server has seen it.

ClientHello ==
  /\ pc["client"] = "tls" /\ CanWrite("client")
  /\ Send("client", Raw("chello", Nobody))
  /\ Goto("client", "tls_finish")
  /\ UNCHANGED <<inputs, trust, fresh, locals, expired, answered>>

ServerFlight ==
  /\ pc["server"] = "tls" /\ CanRead("server") /\ Head(chan["server"]).kind = "chello"
  /\ Len(chan["client"]) < Capacity
  /\ chan' = [chan EXCEPT !["server"] = Tail(@), !["client"] = Append(@, Raw("proof", Cert("server")))]
  /\ Goto("server", "tls_finish")
  /\ UNCHANGED <<inputs, trust, fresh, locals, expired, answered>>

\* verify_control_tls_peer: the certificate TLS has proved is the pinned one.
VerifiedPeer(e, m) == m.kind = "proof" /\ Identifies(m.cert, peer[e])

\* The pinned certificate is the only root: client_config, server_config.
FinishTls(e) ==
  /\ pc[e] = "tls_finish" /\ CanRead(e)
  /\ e = "client" => Len(chan["server"]) < Capacity
  /\ IF VerifiedPeer(e, Head(chan[e]))
     THEN /\ Goto(e, "write_hello") /\ UNCHANGED <<locals, answered>>
          /\ chan' = IF e = "client"
                     THEN [chan EXCEPT ![e] = Tail(@), ![Other(e)] = Append(@, Raw("proof", Cert(e)))]
                     ELSE [chan EXCEPT ![e] = Tail(@)]
     ELSE GiveUp(e) /\ Consume(e)
  /\ UNCHANGED <<inputs, trust, fresh, expired>>

-----------------------------------------------------------------------------
\* Hello and HelloAck: exchange_authenticated_hello.

\* The claims go out first, as a Hello with sequence 1.
SendHello(e, c) ==
  /\ Send(e, Distorted(e, Envelope(e, "hello", 1, c)))
  /\ Goto(e, "read_hello")

\* verify_control_tls_peer, export_control_session_id, a random challenge (the
\* all-zero one closes the stream), then the Hello.
WriteHello(e) ==
  /\ pc[e] = "write_hello" /\ CanWrite(e)
  /\ \E c \in Challenges :
       /\ mine' = [mine EXCEPT ![e] = c]
       /\ IF c = 0
          THEN /\ pc' = [pc EXCEPT ![e] = "failed"]
               /\ closed' = [closed EXCEPT ![e] = TRUE]
               /\ UNCHANGED chan
          ELSE SendHello(e, c)
       /\ UNCHANGED <<allowed, peer, theirs, facts, answered>>
  /\ UNCHANGED <<inputs, trust, fresh, expired>>

\* network, sender and session of a frame of the peer.
InContext(e, m) ==
  /\ m.network = id[e].network /\ m.session = SessionOf(e)
  /\ m.cert.node = peer[e].node

ValidHello(e, m) ==
  /\ m.kind = "hello" /\ InContext(e, m) /\ m.sequence = 1
  /\ m.challenge # 0 /\ m.challenge # mine[e]

ReadHello(e) ==
  /\ pc[e] = "read_hello" /\ CanRead(e)
  /\ LET m == Head(chan[e])
     IN IF ValidHello(e, m)
        THEN /\ theirs' = [theirs EXCEPT ![e] = m.challenge]
             /\ facts' = [facts EXCEPT ![e] = m.claims]
             /\ answered' = [answered EXCEPT ![e] = m.challenge]
             /\ Goto(e, "write_ack")
             /\ UNCHANGED <<allowed, peer, mine>>
        ELSE GiveUp(e)
  /\ Consume(e)
  /\ UNCHANGED <<inputs, trust, fresh, expired>>

\* HelloAck with sequence 2 echoes the challenge and repeats the facts.
WriteAck(e) ==
  /\ pc[e] = "write_ack" /\ CanWrite(e)
  /\ Send(e, Distorted(e, Envelope(e, "ack", 2, theirs[e])))
  /\ Goto(e, "read_ack")
  /\ UNCHANGED <<inputs, trust, fresh, locals, expired, answered>>

\* A server that acknowledges without having read the Hello: a challenge is not
\* guessed.
BlindAck ==
  /\ quirk["server"] = "blind" /\ pc["server"] = "read_hello" /\ CanWrite("server")
  /\ Send("server", Envelope("server", "ack", 2, 0))
  /\ Goto("server", "foreign")
  /\ UNCHANGED <<inputs, trust, fresh, locals, expired, answered>>

\* Mutant of ValidAck: the echoed challenge is not compared.
ValidAckAnyEcho(e, m) ==
  /\ m.kind = "ack" /\ InContext(e, m) /\ m.sequence = 2
  /\ theirs[e] # mine[e] /\ m.claims = facts[e]

\* validate_exporter_bound_hello_transcript, what the remote acknowledgement adds.
ValidAck(e, m) ==
  /\ m.kind = "ack" /\ InContext(e, m) /\ m.sequence = 2
  /\ m.challenge = mine[e] /\ theirs[e] # mine[e]
  /\ m.claims = facts[e]

ReadAck(e) ==
  /\ pc[e] = "read_ack" /\ CanRead(e)
  /\ IF ValidAck(e, Head(chan[e]))
     THEN Goto(e, "authenticated") /\ UNCHANGED <<locals, answered>>
     ELSE GiveUp(e)
  /\ Consume(e)
  /\ UNCHANGED <<inputs, trust, fresh, expired>>

-----------------------------------------------------------------------------
\* After authentication.

\* ControlTlsStream::activate: the same identity and exporter, and durable
\* approval once more, whatever the deadline of the handshake.
Activate(e) ==
  /\ pc[e] = "authenticated" /\ (e = "server" \/ goal = "connect")
  /\ IF Authorized(e, peer[e])
     THEN Goto(e, "active") /\ UNCHANGED <<locals, answered>>
     ELSE GiveUp(e)
  /\ UNCHANGED <<inputs, trust, fresh, chan, expired>>

\* Mutant of Enrollable: the approval from before the handshake is trusted.
EnrollableUnapproved ==
  LET p == peer["client"]
  IN /\ ~expired["client"] /\ p.key = confirmed
     /\ \A q \in pins["client"] : (q.node = p.node) = (q.key = p.key)

\* enroll_key_inner: approval, the confirmed key, the deadline, and no conflict.
\* The socket closes on success too.
Enrollable ==
  LET p == peer["client"]
  IN /\ ~expired["client"] /\ p.node \in approved["client"] /\ p.key = confirmed
     /\ \A q \in pins["client"] : (q.node = p.node) = (q.key = p.key)

Enroll ==
  /\ pc["client"] = "authenticated" /\ goal = "enroll"
  /\ IF Enrollable
     THEN /\ pins' = [pins EXCEPT !["client"] = @ \cup {peer["client"]}]
          /\ pc' = [pc EXCEPT !["client"] = "enrolled"]
          /\ closed' = [closed EXCEPT !["client"] = TRUE]
          /\ UNCHANGED <<locals, answered>>
     ELSE GiveUp("client") /\ UNCHANGED pins
  /\ UNCHANGED <<inputs, approved, fresh, chan, expired>>

-----------------------------------------------------------------------------
\* The surroundings: deadlines, the age of a candidate, forget_peer, and a
\* connection that breaks.

Expire(e) ==
  /\ ~expired[e] /\ pc[e] \notin Done
  /\ expired' = [expired EXCEPT ![e] = TRUE]
  /\ UNCHANGED <<inputs, trust, fresh, pc, locals, chan, closed, answered>>

CandidateAges ==
  /\ fresh /\ goal = "enroll"
  /\ fresh' = FALSE
  /\ UNCHANGED <<inputs, trust, pc, locals, chan, closed, expired, answered>>

Forget(e) ==
  /\ approved[e] # {} /\ pc[e] \notin Done
  /\ approved' = [approved EXCEPT ![e] = {}]
  /\ pins' = [pins EXCEPT ![e] = {}]
  /\ UNCHANGED <<inputs, fresh, pc, locals, chan, closed, expired, answered>>

Break ==
  /\ \E e \in Ends : pc[e] \notin Done
  /\ closed # [e \in Ends |-> TRUE]
  /\ closed' = [e \in Ends |-> TRUE]
  /\ chan' = [e \in Ends |-> <<>>]
  /\ UNCHANGED <<inputs, trust, fresh, pc, locals, expired, answered>>

Init ==
  /\ \E s \in Scenarios :
       /\ id = [client |-> s.client, server |-> s.server]
       /\ quirk = [client |-> "none", server |-> s.quirk]
       /\ pins = [client |-> s.clientPins, server |-> s.serverPins]
       /\ goal = s.goal /\ wanted = s.wanted /\ confirmed = s.confirmed
  /\ approved = [e \in Ends |-> {p.node : p \in Pinnable} \ {id[e].node}]
  /\ fresh = TRUE
  /\ pc = [e \in Ends |-> "start"]
  /\ allowed = [e \in Ends |-> {}] /\ peer = [e \in Ends |-> Nobody]
  /\ mine = [e \in Ends |-> Undrawn] /\ theirs = [e \in Ends |-> Undrawn]
  /\ facts = [e \in Ends |-> "none"] /\ answered = [e \in Ends |-> Undrawn]
  /\ chan = [e \in Ends |-> <<>>]
  /\ closed = [e \in Ends |-> FALSE] /\ expired = [e \in Ends |-> FALSE]

Step(e) ==
  \/ Start(e) \/ WriteCert(e) \/ ReadCert(e) \/ FinishTls(e)
  \/ WriteHello(e) \/ ReadHello(e) \/ WriteAck(e) \/ ReadAck(e)
  \/ Activate(e) \/ Fail(e)

Next ==
  \/ \E e \in Ends : Step(e) \/ Expire(e) \/ Forget(e)
  \/ ClientHello \/ ServerFlight \/ BlindAck \/ Enroll
  \/ CandidateAges \/ Break

Spec == Init /\ [][Next]_vars

\* Worker threads run, and deadlines pass.
FairSpec ==
  /\ Spec
  /\ \A e \in Ends : WF_vars(Step(e)) /\ WF_vars(Expire(e))
  /\ WF_vars(ClientHello) /\ WF_vars(ServerFlight) /\ WF_vars(Enroll)

-----------------------------------------------------------------------------
\* Type invariant.
TypeOK ==
  /\ \A e \in Ends : Len(chan[e]) <= Capacity /\ allowed[e] \subseteq Pinnable
  /\ \A e \in Ends : pins[e] \subseteq Pinnable /\ {mine[e], theirs[e]} \subseteq Challenges \cup {Undrawn}
  /\ closed \in [Ends -> BOOLEAN] /\ expired \in [Ends -> BOOLEAN]

\* An active end is right about the other one: its node, its key, their common
\* network and its claims; and the other end has read this end's Hello on this
\* very connection (handshake.rs:89-174, control_tls.rs:868-992).
ActiveEndsAgree ==
  \A e \in Ends : pc[e] = "active" =>
    /\ peer[e] = Cert(Other(e)) /\ id[e].network = id[Other(e)].network
    /\ facts[e] = Other(e)
    /\ answered[Other(e)] = mine[e]

\* A key is enrolled only while its node is approved, for the end that holds it
\* and took part in this exchange, and only if it is the key the operator
\* confirmed, whatever changed since the candidate was seen
\* (enrollment_transport.rs:35-100, peer_trust.rs:258-308).
EnrolledKeysAreProven ==
  \A p \in pins'["client"] \ pins["client"] :
    /\ p = Cert("server") /\ p.key = confirmed /\ p.node \in approved["client"]
    /\ id["server"].network = id["client"].network
    /\ answered["server"] = mine["client"]

\* No handshake outlives its deadline: every end becomes active, enrolls or gives
\* up, even when the other end stays silent (control_tls.rs:699-767, 810-863,
\* control_io.rs:86-196).
HandshakeEnded == \A e \in Ends : pc[e] \in Done

Matching ==
  /\ quirk["server"] = "none" /\ goal = "connect" /\ wanted = Cert("server")
  /\ id["client"].network = id["server"].network
  /\ Authorized("client", Cert("server")) /\ Authorized("server", Cert("client"))

Undisturbed ==
  /\ \A e \in Ends : ~expired[e] /\ approved[e] # {} /\ mine[e] # 0
  /\ mine["client"] # mine["server"] \/ mine["client"] = Undrawn
  /\ \E e \in Ends : ~closed[e]

Progress == ClientHello \/ ServerFlight \/ \E e \in Ends : Step(e)

\* Two ends that pinned each other in the same network reach one another when
\* nothing disturbs them: neither refuses, and until both are active one of them
\* can go on; both write before they read, so nobody waits for the other for ever
\* (handshake.rs:227-321, control_tls.rs:649-697).
MatchingEndsMeet ==
  Matching /\ Undisturbed =>
    /\ \A e \in Ends : pc[e] # "failed"
    /\ (\A e \in Ends : pc[e] = "active") \/ ENABLED Progress
====
