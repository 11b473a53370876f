-------------------------- MODULE ControlPlaneProofs --------------------------
(***************************************************************************)
(* Theorems about the control worker and durable trust, for any sets of    *)
(* networks, peers and keys and any number of mutations and crashes.       *)
(***************************************************************************)
EXTENDS ControlPlane, FiniteSetTheorems, TLAPS

\* A call in progress, its network and its peer.
Calls ==
  [step : {"idle", "start", "restart", "stop", "undo", "create", "leave", "pin", "member"},
   net : Networks \cup {NoNetwork}, peer : Peers \cup {NoPeer}]

\* What forget_peer keeps between its two saves: the lock keeps enrollment out,
\* so the pin that it removed is still absent when it comes to the membership.
TrustIInv ==
  /\ pins \in [Networks -> [Peers -> Keys \cup {NoKey}]]
  /\ durable \in Networks \cup {NoNetwork}
  /\ call \in Calls
  /\ call.step \in {"pin", "member"} => call.net \in Networks /\ call.peer \in Peers
  /\ call.step = "member" => pins[call.net][call.peer] = NoKey
  /\ \A n \in Networks, p \in Peers :
       pins[n][p] # NoKey => <<n, p, pins[n][p]>> \in confirmed

-----------------------------------------------------------------------------
\* The worker changes neither the files nor the call in progress.
LEMMA WorkerKeepsTrust == Worker => UNCHANGED trustVars
  BY Zenon DEF Worker, Top, Bind, BindSocket, Bound, ReadBefore, ReadEndpoint, ReadAfter, Revalidate,
         EndRevalidate, Read, Receive, Beat, EndRead, Accept, SnapshotPins, FilterPins,
         Handshake, Activate, Admit, Release

\* The files at startup hold only pins that were enrolled.
LEMMA TrustInit == Init => TrustIInv
<1> SUFFICES ASSUME Init PROVE TrustIInv
  OBVIOUS
<1>1. pins \in [Networks -> [Peers -> Keys \cup {NoKey}]]
  <2>1. NoPins \in [Networks -> [Peers -> Keys \cup {NoKey}]]
    BY DEF NoPins
  <2>2. CASE pins = NoPins
    BY <2>1, <2>2
  <2>3. CASE pins # NoPins
    <3>1. PICK n \in used, f \in [Peers -> Keys \cup {NoKey}] : pins = [NoPins EXCEPT ![n] = f]
      BY <2>3 DEF Init
    <3> QED  BY Zenon, <3>1, <2>1
  <2> QED  BY <2>2, <2>3
<1>2. call.step = "idle" /\ call \in Calls
  BY DEF Init, Idle, Calls
<1>3. ASSUME NEW n \in Networks, NEW p \in Peers, pins[n][p] # NoKey
      PROVE  <<n, p, pins[n][p]>> \in confirmed
  <2>1. pins[n][p] \in Keys
    BY <1>1, <1>3
  <2>2. confirmed = {c \in Networks \X Peers \X Keys : pins[c[1]][c[2]] = c[3]}
    BY DEF Init
  <2> QED  BY <2>1, <2>2
<1> QED  BY <1>1, <1>2, <1>3 DEF TrustIInv, Init

-----------------------------------------------------------------------------
\* A step that changes neither pins nor the record of enrollments, and does not
\* begin the second half of a revocation.
LEMMA TrustUntouched ==
  ASSUME TrustIInv, UNCHANGED <<pins, confirmed>>,
         durable' \in Networks \cup {NoNetwork},
         call' \in Calls,
         call' = call \/ call'.step \notin {"pin", "member"}
  PROVE  TrustIInv'
  BY DEF TrustIInv

\* One mutation, enrollment or crash preserves it.
LEMMA TrustNext == TrustIInv /\ [Next]_vars => TrustIInv'
<1> SUFFICES ASSUME TrustIInv, [Next]_vars PROVE TrustIInv'
  OBVIOUS
<1>0. /\ pins \in [Networks -> [Peers -> Keys \cup {NoKey}]]
      /\ durable \in Networks \cup {NoNetwork}
      /\ call \in Calls
  BY DEF TrustIInv
<1>1. CASE Worker
  BY <1>1, WorkerKeepsTrust, TrustUntouched, <1>0 DEF trustVars
<1>2. CASE HostStarted
  BY <1>2, <1>0, TrustUntouched DEF Calls, HostStarted, Idle
<1>3. CASE HostStopped
  BY <1>3, <1>0, TrustUntouched DEF Calls, HostStopped, Idle
<1>4. CASE SaveMembership
  BY <1>4, <1>0, TrustUntouched DEF Calls, SaveMembership, Idle
<1>5. CASE ForgetPin
  <2>1. CASE UNCHANGED <<pins, confirmed>> /\ call' = AfterPinFailure
    BY <1>5, <1>0, <2>1, TrustUntouched DEF Calls, ForgetPin, AfterPinFailure, Idle
  <2>2. CASE /\ pins' = [pins EXCEPT ![call.net][call.peer] = NoKey]
             /\ Unconfirm(call.net, call.peer)
             /\ call' \in {[call EXCEPT !.step = "member"], AfterPinFailure}
    <3>1. call.net \in Networks /\ call.peer \in Peers
      BY <1>5 DEF ForgetPin, TrustIInv
    <3>2. /\ pins' \in [Networks -> [Peers -> Keys \cup {NoKey}]]
          /\ pins'[call.net][call.peer] = NoKey
          /\ \A n \in Networks, p \in Peers :
               <<n, p>> # <<call.net, call.peer>> => pins'[n][p] = pins[n][p]
      BY <1>0, <2>2, <3>1
    <3>3. call'.step = "member" => call'.net = call.net /\ call'.peer = call.peer
      BY <2>2, <1>0 DEF Calls, AfterPinFailure, Idle
    <3>4. call'.step # "pin" /\ call' \in Calls
      BY <2>2, <1>0, <1>5 DEF Calls, AfterPinFailure, Idle, ForgetPin
    <3>5. ASSUME NEW n \in Networks, NEW p \in Peers, pins'[n][p] # NoKey
          PROVE  <<n, p, pins'[n][p]>> \in confirmed'
      <4>1. <<n, p>> # <<call.net, call.peer>> /\ pins'[n][p] = pins[n][p]
        BY <3>2, <3>5
      <4>2. <<n, p, pins[n][p]>> \in confirmed
        BY <4>1, <3>5 DEF TrustIInv
      <4> QED  BY <4>1, <4>2, <2>2 DEF Unconfirm
    <3> QED
      BY <1>0, <1>5, <3>1, <3>2, <3>3, <3>4, <3>5 DEF TrustIInv, ForgetPin
  <2> QED  BY <1>5, <2>1, <2>2 DEF ForgetPin
<1>6. CASE ForgetMember
  <2>1. pins[call.net][call.peer] = NoKey /\ UNCHANGED pins /\ call'.step = "idle" /\ call' \in Calls
    BY <1>6 DEF Calls, ForgetMember, TrustIInv, Idle
  <2>2. ASSUME NEW n \in Networks, NEW p \in Peers, pins[n][p] # NoKey
        PROVE  <<n, p, pins[n][p]>> \in confirmed'
    <3>1. <<n, p, pins[n][p]>> \in confirmed /\ <<n, p>> # <<call.net, call.peer>>
      BY <2>1, <2>2 DEF TrustIInv
    <3> QED  BY <3>1, <1>6 DEF ForgetMember, Unconfirm
  <2> QED  BY <1>0, <1>6, <2>1, <2>2 DEF TrustIInv, ForgetMember
<1>7. ASSUME NEW n \in Networks, BeginCreate(n) PROVE TrustIInv'
  BY <1>7, <1>0, TrustUntouched DEF Calls, BeginCreate, Call
<1>8. CASE BeginLeave
  BY <1>8, <1>0, TrustUntouched DEF Calls, BeginLeave, Call
<1>9. ASSUME NEW p \in Peers, TrustPeer(p) PROVE TrustIInv'
  BY <1>9, <1>0, TrustUntouched DEF TrustPeer
<1>10. ASSUME NEW p \in Peers, BeginForget(p) PROVE TrustIInv'
  BY <1>10, <1>0 DEF Calls, BeginForget, Call, TrustIInv
<1>11. ASSUME NEW n \in Networks, NEW p \in Peers, NEW k \in Keys, Enroll(n, p, k)
       PROVE  TrustIInv'
  <2>1. /\ pins' = [pins EXCEPT ![n][p] = k]
        /\ confirmed' = confirmed \cup {<<n, p, k>>}
        /\ UNCHANGED <<call, durable>>
        /\ call.step \notin {"pin", "member"}
    BY <1>11 DEF Enroll, Locked
  <2>2. pins' \in [Networks -> [Peers -> Keys \cup {NoKey}]]
    BY <2>1, <1>0
  <2>3. ASSUME NEW m \in Networks, NEW q \in Peers, pins'[m][q] # NoKey
        PROVE  <<m, q, pins'[m][q]>> \in confirmed'
    <3>1. CASE m = n /\ q = p
      BY <3>1, <2>1, <1>0
    <3>2. CASE ~(m = n /\ q = p)
      <4>1. pins'[m][q] = pins[m][q]
        BY <3>2, <2>1, <1>0
      <4> QED  BY <4>1, <2>1, <2>3 DEF TrustIInv
    <3> QED  BY <3>1, <3>2
  <2> QED  BY <1>0, <2>1, <2>2, <2>3 DEF TrustIInv
<1>12. CASE RequestStop
  BY <1>12, <1>0, TrustUntouched DEF RequestStop, trustVars
<1>13. CASE Crash
  BY <1>13, <1>0, TrustUntouched DEF Calls, Crash, Idle
<1>14. CASE UNCHANGED vars
  BY <1>14, <1>0, TrustUntouched DEF vars, trustVars
<1> QED
  BY <1>1, <1>2, <1>3, <1>4, <1>5, <1>6, <1>7, <1>8, <1>9, <1>10, <1>11, <1>12, <1>13, <1>14
     DEF Next, CallStep, Environment

\* A revoked key stays revoked: whatever forget_peer made durable before it failed
\* or the daemon died, neither trust_peer nor a restart brings the old key back.
THEOREM RevocationIsFinal == Spec => []RevocationSticks
<1>1. TrustIInv => RevocationSticks
  BY DEF TrustIInv, RevocationSticks
<1> QED
  BY <1>1, TrustInit, TrustNext, PTL DEF Spec

-----------------------------------------------------------------------------
\* Where the worker is when it relies on its last observation.
Relying == {"revalidate", "read", "receive", "beat", "accept", "snapshot", "release"}

\* Between the backend query and the membership reads after it, either the
\* observation was right or the network is not the durable one any more; and it
\* cannot become durable again, since a created network is a new one and the
\* listener's is not.
OwnIInv ==
  /\ call \in Calls
  /\ used \subseteq Networks /\ NoNetwork \notin used
  /\ durable \in used \cup {NoNetwork} /\ listener \in used \cup {NoNetwork}
  /\ call.step \in {"start", "create"} =>
       /\ durable = NoNetwork
       /\ call.net \in used /\ listener # call.net
  /\ gate \in {"supervise", "accept", "accepted", "release"}
  /\ pc \notin {"top", "bind", "done"} => listener # NoNetwork
  /\ pc \in {"reload", "reread"} /\ durable = listener => owned
  /\ pc \in Relying => owned

\* The worker's listener is gone, or its poll is over.
LEMMA AbandonKeeps ==
  ASSUME OwnIInv, NEW step \in {"top", "done"}, Abandon(step), UNCHANGED trustVars
  PROVE  OwnIInv'
  BY DEF OwnIInv, Abandon, trustVars, Relying

\* The poll ends without a new session.
LEMMA ParkKeeps ==
  ASSUME OwnIInv, NEW open, Park(open), UNCHANGED trustVars
  PROVE  OwnIInv'
  BY DEF OwnIInv, Park, trustVars, Relying

\* An observation fails or does not match.
LEMMA LostKeeps ==
  ASSUME OwnIInv, Lost, UNCHANGED trustVars
  PROVE  OwnIInv'
  BY Zenon, AbandonKeeps, ParkKeeps DEF Lost

\* A step inside a phase, or to one that relies on nothing.
LEMMA PhaseKeeps ==
  ASSUME OwnIInv, UNCHANGED <<trustVars, listener, gate, owned>>,
         \/ pc' = pc
         \/ pc \in Relying /\ pc' \in Relying
         \/ pc \notin {"top", "bind", "done"} /\ pc' \notin Relying \cup {"reload", "reread"}
  PROVE  OwnIInv'
  BY DEF OwnIInv, trustVars, Relying

\* The start of an observation.
LEMMA ObserveKeeps ==
  ASSUME OwnIInv, UNCHANGED <<trustVars, listener, owned>>, listener # NoNetwork,
         NEW g \in {"supervise", "accept", "accepted", "release"}, Observe(g)
  PROVE  OwnIInv'
  BY DEF OwnIInv, trustVars, Relying, Observe

\* Startup: nothing is created, bound or observed yet.
LEMMA OwnInit == Init => OwnIInv
  BY ControlConstants DEF Init, OwnIInv, Idle, Calls, Relying

\* The worker's steps.
LEMMA OwnWorker == OwnIInv /\ Worker => OwnIInv'
<1> SUFFICES ASSUME OwnIInv, Worker PROVE OwnIInv'
  OBVIOUS
<1>0. UNCHANGED trustVars
  BY WorkerKeepsTrust
<1>1. CASE Top
  <2>1. CASE stop
    BY <1>0, <1>1, <2>1, AbandonKeeps DEF Top
  <2>2. CASE ~stop /\ listener = NoNetwork
    BY <1>0, <1>1, <2>2 DEF Top, OwnIInv, trustVars, Relying
  <2>3. CASE ~stop /\ listener # NoNetwork /\ ~live
    BY <1>0, <1>1, <2>3, AbandonKeeps DEF Top
  <2>4. CASE ~stop /\ listener # NoNetwork /\ live
    BY <1>0, <1>1, <2>4, ObserveKeeps DEF Top
  <2> QED  BY <2>1, <2>2, <2>3, <2>4
<1>2. CASE Bind
  <2>1. CASE \E step \in {"top", "done"} : Abandon(step)
    BY <1>0, <2>1, AbandonKeeps
  <2>2. CASE durable # NoNetwork /\ listener' = durable /\ pc' = "socket" /\ UNCHANGED <<gate, owned>>
    BY <1>0, <2>2 DEF OwnIInv, trustVars, Relying
  <2> QED  BY <1>2, <2>1, <2>2 DEF Bind
<1>3. CASE BindSocket
  <2>1. CASE Abandon("top")
    BY <1>0, <2>1, AbandonKeeps
  <2> QED  BY <1>0, <1>3, <2>1, PhaseKeeps DEF BindSocket, Relying
<1>4. CASE Bound
  <2>1. CASE \E step \in {"top", "done"} : Abandon(step)
    BY <1>0, <2>1, AbandonKeeps
  <2>2. CASE pc = "bound" /\ Observe("supervise") /\ UNCHANGED <<listener, owned>>
    BY <1>0, <2>2, ObserveKeeps DEF OwnIInv
  <2>3. CASE pc = "rebound" /\ pc' = "bound" /\ UNCHANGED <<listener, gate, owned>>
    BY <1>0, <2>3, PhaseKeeps DEF Relying
  <2> QED  BY <1>4, <2>1, <2>2, <2>3 DEF Bound
<1>5. CASE ReadBefore
  <2>1. CASE Lost
    BY <1>0, <2>1, LostKeeps
  <2> QED  BY <1>0, <1>5, <2>1, PhaseKeeps DEF ReadBefore, Relying
<1>6. CASE ReadEndpoint
  <2>1. CASE Lost
    BY <1>0, <2>1, LostKeeps
  <2>2. CASE pc = "endpoint" /\ pc' = "reload" /\ owned' = (durable = listener)
             /\ UNCHANGED <<listener, gate>>
    BY Zenon, <1>0, <2>2 DEF OwnIInv, trustVars, Relying
  <2> QED  BY <1>6, <2>1, <2>2 DEF ReadEndpoint
<1>7. CASE ReadAfter
  <2>1. CASE Lost
    BY <1>0, <2>1, LostKeeps
  <2>2. CASE pc = "reload" /\ pc' = "reread" /\ UNCHANGED <<listener, gate, owned>>
    BY <1>0, <2>2 DEF OwnIInv, trustVars, Relying
  <2>3. CASE pc = "reread" /\ StillDurable /\ Matched
    <3>1. owned /\ listener # NoNetwork /\ UNCHANGED <<listener, gate, owned>>
      BY <2>3 DEF OwnIInv, StillDurable, Matched
    <3>2. pc' \in Relying
      BY <2>3 DEF OwnIInv, Matched, Relying
    <3> QED  BY <1>0, <3>1, <3>2 DEF OwnIInv, trustVars, Relying
  <2> QED  BY <1>7, <2>1, <2>2, <2>3 DEF ReadAfter
<1>8. ASSUME NEW s \in todo, Revalidate(s) \/ Read(s) PROVE OwnIInv'
  BY Zenon, <1>0, <1>8, PhaseKeeps DEF Revalidate, Read, Relying
<1>9. CASE EndRevalidate
  <2>1. CASE Abandon("done")
    BY <1>0, <2>1, AbandonKeeps
  <2> QED  BY <1>0, <1>9, <2>1, PhaseKeeps DEF EndRevalidate, Relying
<1>10. CASE Receive \/ Beat
  BY Zenon, <1>0, <1>10, PhaseKeeps DEF Receive, Beat, Relying
<1>11. CASE EndRead
  <2>1. CASE \E step \in {"top", "done"} : Abandon(step)
    BY <1>0, <2>1, AbandonKeeps
  <2>2. CASE \E open : Park(open)
    BY <1>0, <2>2, ParkKeeps
  <2>3. CASE pc = "read" /\ Observe("accept") /\ UNCHANGED <<listener, owned>>
    BY <1>0, <2>3, ObserveKeeps DEF OwnIInv
  <2> QED  BY Zenon, <1>11, <2>1, <2>2, <2>3 DEF EndRead
<1>12. CASE Accept
  <2>1. CASE \E open : Park(open)
    BY <1>0, <2>1, ParkKeeps
  <2>2. CASE pc = "accept" /\ Observe("accepted") /\ UNCHANGED <<listener, owned>>
    BY <1>0, <2>2, ObserveKeeps DEF OwnIInv
  <2> QED  BY <1>12, <2>1, <2>2 DEF Accept
<1>13. CASE SnapshotPins \/ FilterPins \/ Handshake \/ Activate
  <2>1. CASE Park(live)
    BY <1>0, <2>1, ParkKeeps
  <2>2. CASE /\ pc \in {"snapshot", "filter", "handshake", "activate"}
             /\ pc' \in {"filter", "handshake", "activate", "admit"}
             /\ UNCHANGED <<listener, gate, owned>>
    BY <1>0, <2>2, PhaseKeeps DEF Relying
  <2> QED  BY Zenon, <1>13, <2>1, <2>2 DEF SnapshotPins, FilterPins, Handshake, Activate
<1>14. CASE Admit
  <2>1. CASE Park(live)
    BY <1>0, <2>1, ParkKeeps
  <2>2. CASE pc = "admit" /\ Observe("release") /\ UNCHANGED <<listener, owned>>
    BY <1>0, <2>2, ObserveKeeps DEF OwnIInv
  <2> QED  BY <1>14, <2>1, <2>2 DEF Admit
<1>15. CASE Release
  <2>1. CASE Park(live)
    BY <1>0, <2>1, ParkKeeps
  <2> QED  BY Zenon, <1>0, <1>15, <2>1, PhaseKeeps DEF Release, Relying
<1> QED
  BY <1>1, <1>2, <1>3, <1>4, <1>5, <1>6, <1>7, <1>8, <1>9, <1>10, <1>11, <1>12, <1>13, <1>14,
     <1>15 DEF Worker

\* The other steps leave the worker alone; only SaveMembership changes the durable
\* network.
LEMMA OwnOthers == OwnIInv /\ (CallStep \/ Environment) => OwnIInv'
<1> SUFFICES ASSUME OwnIInv, CallStep \/ Environment PROVE OwnIInv'
  OBVIOUS
<1> USE DEF Calls, Relying
<1>1. CASE HostStarted
  BY <1>1 DEF HostStarted, Idle, OwnIInv, workerVars
<1>2. CASE HostStopped
  BY <1>2 DEF HostStopped, Idle, OwnIInv, workerVars
<1>3. CASE SaveMembership
  <2>1. CASE call.step = "create"
    <3>1. durable' \in {NoNetwork, call.net} /\ call' \in {Idle, [call EXCEPT !.step = "undo"]}
      BY <1>3, <2>1 DEF SaveMembership, OwnIInv
    <3>2. listener' # NoNetwork => durable' # listener'
      BY <1>3, <2>1, <3>1 DEF SaveMembership, OwnIInv, workerVars
    <3> QED  BY <1>3, <2>1, <3>1, <3>2 DEF SaveMembership, Idle, OwnIInv, workerVars
  <2>2. CASE call.step = "leave"
    BY <1>3, <2>2 DEF SaveMembership, Idle, OwnIInv, workerVars
  <2> QED  BY <1>3, <2>1, <2>2 DEF SaveMembership
<1>4. CASE ForgetPin \/ ForgetMember
  BY <1>4 DEF ForgetPin, ForgetMember, AfterPinFailure, Idle, OwnIInv, workerVars
<1>5. ASSUME NEW n \in Networks, BeginCreate(n) PROVE OwnIInv'
  BY <1>5, ControlConstants DEF BeginCreate, Call, OwnIInv, workerVars
<1>6. CASE BeginLeave
  BY <1>6, ControlConstants DEF BeginLeave, Call, OwnIInv, workerVars
<1>7. ASSUME NEW p \in Peers, TrustPeer(p) \/ BeginForget(p) PROVE OwnIInv'
  BY <1>7 DEF TrustPeer, BeginForget, Call, OwnIInv, workerVars
<1>8. ASSUME NEW n \in Networks, NEW p \in Peers, NEW k \in Keys, Enroll(n, p, k)
      PROVE  OwnIInv'
  BY <1>8 DEF Enroll, OwnIInv, workerVars
<1>9. CASE RequestStop
  BY <1>9 DEF RequestStop, OwnIInv, trustVars, workerVars
<1>10. CASE Crash
  BY <1>10 DEF Crash, Abandon, Idle, OwnIInv
<1> QED
  BY <1>1, <1>2, <1>3, <1>4, <1>5, <1>6, <1>7, <1>8, <1>9, <1>10 DEF CallStep, Environment

\* Whatever the worker reads from its sessions or admits is for a network that was
\* durable and hosted at one same instant of its last observation.
THEOREM ObservationIsSound == Spec => []OwnershipWasReal
<1>1. OwnIInv /\ [Next]_vars => OwnIInv'
  <2>1. OwnIInv /\ UNCHANGED vars => OwnIInv'
    BY DEF OwnIInv, vars, trustVars, workerVars
  <2> QED  BY <2>1, OwnWorker, OwnOthers DEF Next
<1>2. OwnIInv => OwnershipWasReal
  BY DEF OwnIInv, OwnershipWasReal, Relying
<1> QED
  BY <1>1, <1>2, OwnInit, PTL DEF Spec

-----------------------------------------------------------------------------
\* Frames reach the worker only in the step that checks approval, under the lock
\* that revocation takes.
THEOREM FramesNeedApproval == Spec => FramesAreApproved
<1>1. ASSUME [Next]_vars, heard' # heard, heard' # NoSession
      PROVE  Approved(heard')
  <2>1. Receive
    BY Zenon, <1>1 DEF Next, Worker, CallStep, Environment, vars, workerVars, Abandon, Park, Lost,
         Matched, Top, Bind, BindSocket, Bound, ReadBefore, ReadEndpoint, ReadAfter, Revalidate,
         EndRevalidate, Read, Beat, EndRead, Accept, SnapshotPins, FilterPins, Handshake,
         Activate, Admit, Release, HostStarted, HostStopped, SaveMembership, ForgetPin,
         ForgetMember, BeginCreate, BeginLeave, TrustPeer, BeginForget, Enroll, RequestStop,
         Crash
  <2>2. heard' = cur /\ Receives(cur)
    BY Zenon, <1>1, <2>1 DEF Receive
  <2> QED  BY <2>2 DEF Receives, Authorizes, Approved
<1> QED
  BY <1>1, PTL DEF Spec, FramesAreApproved

-----------------------------------------------------------------------------
\* Records of sessions, and the phases of the worker in which it has a candidate.
Sessions == [net : Networks, peer : Peers, key : Keys, id : 1..MaxIds]
Observing == {"observe", "load", "endpoint", "reload", "reread"}
Candidate == pc \in {"activate", "admit"}
Released == gate = "release" /\ pc \in Observing \cup {"release"}
Admitting ==
  \/ pc \in {"accept", "snapshot", "filter", "handshake", "activate", "admit", "release"}
  \/ gate # "supervise" /\ pc \in Observing

\* Sessions and registry seen as a one-to-one map: who is registered has the
\* entry, who has the entry is registered, and nobody else has that network and peer.
Matching(owners, entries) ==
  /\ \A s \in owners : entries[s.net][s.peer] = s.id
  /\ \A s, t \in owners : s.net = t.net /\ s.peer = t.peer => s = t
  /\ \A n \in Networks, p \in Peers :
       entries[n][p] # 0 => \E s \in owners : s.net = n /\ s.peer = p

\* What enrollment and the mutations keep of the files.
FileIInv ==
  /\ host \in Networks \cup {NoNetwork}
  /\ trusted \subseteq Networks \X Peers
  /\ \A n \in Networks : \A p, q \in Peers :
       p # q /\ pins[n][p] # NoKey => pins[n][p] # pins[n][q]

\* What the worker keeps: where its candidate is, whose id the registry cannot have
\* yet, and that a session is admitted only with room for it.
RegistryIInv ==
  /\ sessions \subseteq Sessions /\ IsFiniteSet(sessions)
  /\ Cardinality(sessions) <= MaxOwned
  /\ Admitting => Cardinality(sessions) < MaxOwned
  /\ registry \in [Networks -> [Peers -> 0..MaxIds]]
  /\ nextId \in Nat \ {0}
  /\ \A n \in Networks, p \in Peers : registry[n][p] < nextId
  /\ allowed \subseteq Peers \X Keys
  /\ todo \subseteq sessions
  /\ cur \in Sessions \cup {NoSession}
  /\ cur # NoSession => Candidate \/ Released \/ (pc \in {"receive", "beat"} /\ cur \in sessions)
  /\ Candidate \/ Released \/ pc \in {"receive", "beat"} => cur # NoSession
  /\ pc = "release" => gate = "release"
  /\ Candidate \/ Released => cur \notin sessions
  /\ Candidate => registry[cur.net][cur.peer] # cur.id /\ cur.id < nextId
  /\ Matching(Registered, registry)

\* The marker of an absent session is none of them.
LEMMA NoSessionIsNone == NoSession \notin Sessions
  BY ControlConstants DEF Sessions

\* Who is registered: the owned sessions, and the candidate until it is admitted.
LEMMA RegisteredIs ==
  ASSUME RegistryIInv
  PROVE  Registered = IF Released THEN sessions \cup {cur} ELSE sessions
  BY DEF RegistryIInv, Registered, Released, Observing

\* Exactly the entries of the dropped sessions are cleared.
LEMMA DroppedKeepsOthers ==
  ASSUME NEW owners \in SUBSET Sessions, NEW gone \in SUBSET Sessions,
         registry \in [Networks -> [Peers -> 0..MaxIds]],
         Matching(owners, registry),
         \A g \in gone \ owners : registry[g.net][g.peer] # g.id
  PROVE  /\ Dropped(gone) \in [Networks -> [Peers -> 0..MaxIds]]
         /\ \A n \in Networks, p \in Peers : Dropped(gone)[n][p] \in {0, registry[n][p]}
         /\ Matching(owners \ gone, Dropped(gone))
<1> DEFINE D == Dropped(gone)
<1>0. MaxIds \in Nat
  BY ControlConstants
<1>1. \A n \in Networks, p \in Peers :
        D[n][p] = IF \E s \in gone : s.net = n /\ s.peer = p /\ s.id = registry[n][p]
                  THEN 0 ELSE registry[n][p]
  BY DEF Dropped
<1>2. D \in [Networks -> [Peers -> 0..MaxIds]]
  BY <1>0 DEF Dropped
<1>3. ASSUME NEW s \in owners \ gone PROVE D[s.net][s.peer] = s.id
  <2>1. s.net \in Networks /\ s.peer \in Peers /\ registry[s.net][s.peer] = s.id
    BY DEF Matching, Sessions
  <2>2. ASSUME NEW g \in gone, g.net = s.net, g.peer = s.peer, g.id = registry[s.net][s.peer]
        PROVE  FALSE
    <3>1. g \in owners
      BY <2>2
    <3>2. g = s
      BY <3>1, <2>2 DEF Matching
    <3> QED  BY <3>2
  <2> QED  BY <1>1, <2>1, <2>2
<1>4. ASSUME NEW n \in Networks, NEW p \in Peers, D[n][p] # 0
      PROVE  \E s \in owners \ gone : s.net = n /\ s.peer = p
  <2>1. D[n][p] = registry[n][p] /\ ~\E s \in gone : s.net = n /\ s.peer = p /\ s.id = registry[n][p]
    BY <1>1, <1>4
  <2>2. PICK s \in owners : s.net = n /\ s.peer = p
    BY <2>1, <1>4 DEF Matching
  <2>3. registry[n][p] = s.id
    BY <2>2 DEF Matching
  <2> QED  BY <2>1, <2>2, <2>3
<1> HIDE DEF D
<1>5. Matching(owners \ gone, D)
  BY <1>3, <1>4 DEF Matching
<1> QED  BY <1>1, <1>2, <1>5 DEF D

\* The entries stay below the next id when some are cleared.
LEMMA BelowNext ==
  ASSUME RegistryIInv, NEW r,
         \A n \in Networks, p \in Peers : r[n][p] \in {0, registry[n][p]}
  PROVE  \A n \in Networks, p \in Peers : r[n][p] < nextId
  BY DEF RegistryIInv

-----------------------------------------------------------------------------
\* A daemon starts with an empty registry.
LEMMA RegistryInit == Init => RegistryIInv
<1> SUFFICES ASSUME Init PROVE RegistryIInv
  OBVIOUS
<1>1. IsFiniteSet(sessions) /\ Cardinality(sessions) = 0
  BY FS_EmptySet DEF Init
<1>2. MaxOwned \in Nat \ {0} /\ MaxIds \in Nat
  BY ControlConstants
<1>3. registry \in [Networks -> [Peers -> 0..MaxIds]]
      /\ \A n \in Networks, p \in Peers : registry[n][p] = 0
  BY <1>2 DEF Init
<1>4. Registered = {}
  BY DEF Init, Registered
<1>5. Matching(Registered, registry)
  BY <1>3, <1>4 DEF Matching
<1> QED
  BY <1>1, <1>2, <1>3, <1>5 DEF Init, RegistryIInv, Admitting, Candidate, Released, Observing

\* Everything is given up: every entry had an owner, and all owners are dropped.
LEMMA AbandonClears ==
  ASSUME RegistryIInv, NEW step \in {"top", "done"}, Abandon(step)
  PROVE  RegistryIInv'
<1> DEFINE gone == (sessions \cup {cur}) \ {NoSession}
<1>1. gone \in SUBSET Sessions /\ Registered \in SUBSET Sessions
  BY RegisteredIs, NoSessionIsNone DEF RegistryIInv
<1>2. \A g \in gone \ Registered : registry[g.net][g.peer] # g.id
  BY RegisteredIs DEF RegistryIInv
<1>3. Registered \ gone = {}
  BY RegisteredIs, NoSessionIsNone DEF RegistryIInv
<1>4. /\ registry' \in [Networks -> [Peers -> 0..MaxIds]]
      /\ \A n \in Networks, p \in Peers : registry'[n][p] \in {0, registry[n][p]}
      /\ Matching({}, registry')
  <2>1. registry' = Dropped(gone)
    BY DEF Abandon
  <2> HIDE DEF gone
  <2>2. /\ registry' \in [Networks -> [Peers -> 0..MaxIds]]
        /\ \A n \in Networks, p \in Peers : registry'[n][p] \in {0, registry[n][p]}
        /\ Matching(Registered \ gone, registry')
    BY Zenon, <1>1, <1>2, <2>1, DroppedKeepsOthers DEF RegistryIInv
  <2> QED  BY <1>3, <2>2 DEF Matching
<1>5. \A n \in Networks, p \in Peers : registry'[n][p] < nextId'
  BY Zenon, <1>4, BelowNext DEF Abandon
<1>6. /\ sessions' = {} /\ todo' = {} /\ cur' = NoSession /\ allowed' = {} /\ nextId' = nextId
      /\ pc' \in {"top", "done"} /\ gate' = gate
  BY DEF Abandon
<1>7. Registered' = {}
  BY <1>6 DEF Registered
<1>8. IsFiniteSet(sessions') /\ Cardinality(sessions') <= MaxOwned
  BY <1>6, FS_EmptySet, ControlConstants
<1>9. ~Admitting' /\ ~Candidate' /\ ~Released' /\ pc' \notin {"receive", "beat", "release"}
  BY <1>6 DEF Admitting, Candidate, Released, Observing
<1> QED
  BY <1>4, <1>5, <1>6, <1>7, <1>8, <1>9 DEF RegistryIInv

\* The candidate, registered or not, is dropped.
LEMMA ParkClears ==
  ASSUME RegistryIInv, NEW open, Park(open), pc \notin {"receive", "beat"}
  PROVE  RegistryIInv'
<1> DEFINE gone == {cur} \ {NoSession}
<1>1. gone \in SUBSET Sessions /\ Registered \in SUBSET Sessions
  BY RegisteredIs DEF RegistryIInv
<1>2. \A g \in gone \ Registered : registry[g.net][g.peer] # g.id
  BY RegisteredIs DEF RegistryIInv
<1>3. Registered \ gone = sessions
  BY RegisteredIs, NoSessionIsNone DEF RegistryIInv
<1>4. /\ registry' \in [Networks -> [Peers -> 0..MaxIds]]
      /\ \A n \in Networks, p \in Peers : registry'[n][p] \in {0, registry[n][p]}
      /\ Matching(sessions, registry')
  <2>1. registry' = Dropped(gone)
    BY DEF Park
  <2> HIDE DEF gone
  <2> QED  BY Zenon, <1>1, <1>2, <1>3, <2>1, DroppedKeepsOthers DEF RegistryIInv
<1>5. /\ cur' = NoSession /\ allowed' = {} /\ pc' = "top"
      /\ UNCHANGED <<sessions, todo, nextId, gate>>
  BY DEF Park
<1>6. \A n \in Networks, p \in Peers : registry'[n][p] < nextId'
  BY <1>4, <1>5, BelowNext
<1>7. Registered' = sessions'
  BY <1>5 DEF Registered
<1>8. ~Admitting' /\ ~Candidate' /\ ~Released' /\ pc' \notin {"receive", "beat", "release"}
  BY <1>5 DEF Admitting, Candidate, Released, Observing
<1> QED
  BY <1>4, <1>5, <1>6, <1>7, <1>8 DEF RegistryIInv

\* A retain_mut keeps or drops a session.
LEMMA VisitClears ==
  ASSUME RegistryIInv, NEW s \in sessions, NEW keep \in BOOLEAN, Visit(s, keep),
         ~Candidate, ~Released, UNCHANGED <<nextId, allowed, gate>>,
         pc' \in {"revalidate", "read"}, cur' = NoSession
  PROVE  RegistryIInv'
<1>1. Registered = sessions /\ sessions \in SUBSET Sessions
  BY RegisteredIs DEF RegistryIInv
<1>2. Registered' = sessions'
  BY DEF Registered
<1>3. /\ registry' \in [Networks -> [Peers -> 0..MaxIds]]
      /\ \A n \in Networks, p \in Peers : registry'[n][p] \in {0, registry[n][p]}
      /\ Matching(sessions', registry')
  <2>1. CASE keep
    BY <2>1, <1>1 DEF Visit, RegistryIInv
  <2>2. CASE ~keep
    <3>1. registry' = Dropped({s}) /\ sessions' = sessions \ {s}
      BY <2>2 DEF Visit
    <3>2. {s} \in SUBSET Sessions /\ {s} \ sessions = {}
      BY <1>1
    <3> QED  BY Zenon, <1>1, <3>1, <3>2, DroppedKeepsOthers DEF RegistryIInv
  <2> QED  BY <2>1, <2>2
<1>4. \A n \in Networks, p \in Peers : registry'[n][p] < nextId'
  BY Zenon, <1>3, BelowNext
<1>5. sessions' \subseteq sessions /\ todo' \subseteq sessions'
  BY DEF Visit, RegistryIInv
<1>6. IsFiniteSet(sessions') /\ Cardinality(sessions') <= MaxOwned
  <2>1. IsFiniteSet(sessions') /\ Cardinality(sessions') <= Cardinality(sessions)
        /\ Cardinality(sessions) \in Nat /\ Cardinality(sessions') \in Nat
    BY <1>5, FS_Subset, FS_CardinalityType DEF RegistryIInv
  <2> QED  BY <2>1, ControlConstants DEF RegistryIInv
<1>7. ~Admitting' /\ ~Candidate' /\ ~Released' /\ pc' \notin {"receive", "beat", "release"}
  BY DEF Admitting, Candidate, Released, Observing
<1> QED
  BY <1>2, <1>3, <1>4, <1>5, <1>6, <1>7 DEF RegistryIInv

\* A step from one phase to another with the sessions and the candidate as they are.
LEMMA PhaseKeepsRegistry ==
  ASSUME RegistryIInv, UNCHANGED <<sessions, todo, cur, registry, nextId>>,
         allowed' \subseteq Peers \X Keys,
         Candidate' <=> Candidate, Released' <=> Released,
         pc' \in {"receive", "beat"} <=> pc \in {"receive", "beat"},
         Admitting' => Admitting, pc' = "release" => gate' = "release"
  PROVE  RegistryIInv'
<1>1. Registered' = Registered
  BY RegisteredIs DEF Registered, Released, Observing, RegistryIInv
<1> QED
  BY <1>1 DEF RegistryIInv

\* The worker's steps.
LEMMA RegistryWorker == RegistryIInv /\ OwnIInv /\ TrustIInv /\ Worker => RegistryIInv'
<1> SUFFICES ASSUME RegistryIInv, OwnIInv, TrustIInv, Worker PROVE RegistryIInv'
  OBVIOUS
<1> USE DEF Candidate, Released, Admitting, Observing
<1>1. CASE \E step \in {"top", "done"} : Abandon(step)
  BY <1>1, AbandonClears
<1>2. CASE pc \notin {"receive", "beat"} /\ \E open : Park(open)
  BY <1>2, ParkClears
<1>3. allowed \subseteq Peers \X Keys
  BY DEF RegistryIInv
<1>4. CASE Top
  BY <1>1, <1>3, <1>4, PhaseKeepsRegistry DEF Top, Observe
<1>5. CASE Bind \/ BindSocket \/ Bound
  BY <1>1, <1>3, <1>5, PhaseKeepsRegistry DEF Bind, BindSocket, Bound, Observe
<1>6. CASE ReadBefore
  BY Zenon, <1>1, <1>2, <1>3, <1>6, PhaseKeepsRegistry DEF ReadBefore, Lost
<1>7. CASE ReadEndpoint
  BY Zenon, <1>1, <1>2, <1>3, <1>7, PhaseKeepsRegistry DEF ReadEndpoint, Lost
<1>8. CASE ReadAfter
  <2>1. CASE Lost
    BY Zenon, <1>1, <1>2, <1>8, <2>1 DEF ReadAfter, Lost
  <2>2. CASE /\ pc = "reload" /\ pc' = "reread"
             /\ UNCHANGED <<gate, sessions, todo, cur, allowed, registry, nextId>>
    BY <1>3, <2>2, PhaseKeepsRegistry
  <2>3. CASE pc = "reread" /\ Matched
    <3>1. /\ todo' \subseteq sessions' /\ UNCHANGED <<gate, sessions, cur, allowed, registry, nextId>>
          /\ gate \in {"supervise", "accept", "accepted", "release"}
          /\ pc' = CASE gate = "supervise" -> "revalidate" [] gate = "accept" -> "accept"
                     [] gate = "accepted" -> "snapshot" [] gate = "release" -> "release"
      BY <2>3 DEF Matched, OwnIInv
    <3>2. Registered' = Registered
      BY <2>3, <3>1, RegisteredIs DEF Registered
    <3> QED  BY <2>3, <3>1, <3>2 DEF RegistryIInv
  <2> QED  BY <1>8, <2>1, <2>2, <2>3 DEF ReadAfter
<1>9. ASSUME NEW s \in todo, Revalidate(s) PROVE RegistryIInv'
  <2>1. PICK ok \in BOOLEAN : Visit(s, ok)
    BY <1>9 DEF Revalidate
  <2>2. s \in sessions /\ cur = NoSession
    BY <1>9 DEF RegistryIInv, Revalidate
  <2> QED  BY <1>9, <2>1, <2>2, VisitClears DEF Revalidate
<1>10. ASSUME NEW s \in todo, Read(s) PROVE RegistryIInv'
  <2>1. s \in sessions /\ cur = NoSession /\ s \in Sessions /\ s # NoSession
    BY <1>10, NoSessionIsNone DEF RegistryIInv, Read
  <2>2. CASE Visit(s, FALSE) /\ UNCHANGED <<pc, cur>>
    BY Zenon, <1>10, <2>1, <2>2, VisitClears DEF Read
  <2>3. CASE pc' = "receive" /\ cur' = s /\ UNCHANGED <<sessions, todo, registry>>
    <3>1. UNCHANGED <<nextId, allowed, gate>> /\ pc = "read"
      BY <1>10 DEF Read
    <3>2. Registered' = Registered
      BY <2>1, <2>3, <3>1, RegisteredIs DEF Registered
    <3> QED  BY <2>1, <2>3, <3>1, <3>2 DEF RegistryIInv
  <2> QED  BY Zenon, <1>10, <2>2, <2>3 DEF Read
<1>11. CASE EndRevalidate
  <2>1. CASE ~stop
    <3>1. Registered' = Registered
      BY <1>11, <2>1 DEF EndRevalidate, Registered
    <3> QED  BY <1>11, <2>1, <3>1 DEF EndRevalidate, RegistryIInv
  <2> QED  BY <1>1, <1>11, <2>1 DEF EndRevalidate
<1>12. CASE Receive
  <2>1. cur \in sessions
    BY <1>12 DEF Receive, RegistryIInv
  <2>2. CASE Visit(cur, FALSE) /\ pc' = "read" /\ cur' = NoSession
    BY Zenon, <1>12, <2>1, <2>2, VisitClears DEF Receive
  <2>3. CASE pc' = "beat" /\ UNCHANGED <<sessions, todo, cur, registry>>
    BY <1>3, <1>12, <2>3, PhaseKeepsRegistry DEF Receive
  <2> QED  BY Zenon, <1>12, <2>2, <2>3 DEF Receive
<1>13. CASE Beat
  <2>1. cur \in sessions
    BY <1>13 DEF Beat, RegistryIInv
  <2>2. PICK ok \in BOOLEAN : Visit(cur, ok)
    BY Zenon, <1>13 DEF Beat
  <2> QED  BY <1>13, <2>1, <2>2, VisitClears DEF Beat
<1>14. CASE EndRead
  <2>1. CASE Cardinality(sessions) < MaxOwned /\ Observe("accept")
             /\ UNCHANGED <<sessions, todo, cur, allowed, registry, nextId>>
    <3>1. Registered' = Registered /\ cur = NoSession
      BY SMTT(20), <1>14, <2>1 DEF EndRead, Observe, Registered, RegistryIInv
    <3> QED  BY <1>14, <2>1, <3>1 DEF EndRead, Observe, RegistryIInv
  <2>2. Cardinality(sessions) \in Nat /\ MaxOwned \in Nat
    BY SMTT(20), FS_CardinalityType, ControlConstants DEF RegistryIInv
  <2>3. \/ \E step \in {"top", "done"} : Abandon(step)
        \/ \E open : Park(open)
        \/ /\ ~(Cardinality(sessions) >= MaxOwned)
           /\ Observe("accept") /\ UNCHANGED <<sessions, todo, cur, allowed, registry, nextId>>
    BY Zenon, <1>14 DEF EndRead
  <2>4. pc \notin {"receive", "beat"}
    BY <1>14 DEF EndRead
  <2> QED  BY <1>1, <1>2, <2>1, <2>2, <2>3, <2>4
<1>15. CASE Accept
  <2>1. CASE Observe("accepted") /\ UNCHANGED <<sessions, todo, cur, allowed, registry, nextId>>
    BY <1>3, <1>15, <2>1, PhaseKeepsRegistry DEF Accept, Observe
  <2> QED  BY <1>2, <1>15, <2>1 DEF Accept
<1>16. CASE SnapshotPins
  <2>1. CASE durable = listener /\ pc' = "filter"
    <3>1. listener \in Networks
      BY <1>16 DEF SnapshotPins, OwnIInv
    <3>2. \A q \in Peers : pins[listener][q] # NoKey => pins[listener][q] \in Keys
      BY <3>1 DEF TrustIInv
    <3>3. allowed' = {<<p, pins[listener][p]>> :
                         p \in {q \in Peers : /\ <<listener, q>> \in trusted
                                              /\ pins[listener][q] # NoKey}}
      BY Zenon, <1>16, <2>1 DEF SnapshotPins, Park
    <3>4. ASSUME NEW a \in allowed' PROVE a \in Peers \X Keys
      <4>1. PICK p \in Peers : pins[listener][p] # NoKey /\ a = <<p, pins[listener][p]>>
        BY Zenon, <3>3, <3>4
      <4> QED  BY <3>2, <4>1
    <3> QED  BY <1>2, <1>16, <2>1, <3>4, PhaseKeepsRegistry DEF SnapshotPins
  <2> QED  BY <1>2, <1>16, <2>1 DEF SnapshotPins
<1>17. CASE FilterPins
  <2>1. CASE allowed' \subseteq allowed /\ pc' = "handshake"
             /\ UNCHANGED <<gate, sessions, todo, cur, registry, nextId>>
    BY <1>3, <1>17, <2>1, PhaseKeepsRegistry DEF FilterPins
  <2> QED  BY <1>2, <1>17, <2>1 DEF FilterPins
<1>18. CASE Handshake
  <2>1. CASE /\ nextId <= MaxIds
             /\ \E a \in allowed : cur' = Session(listener, a[1], a[2], nextId)
             /\ nextId' = nextId + 1 /\ allowed' = {} /\ pc' = "activate"
             /\ UNCHANGED <<gate, sessions, todo, registry>>
    <3>1. listener \in Networks /\ pc = "handshake"
      BY <1>18 DEF Handshake, OwnIInv
    <3>2. cur' \in Sessions /\ cur'.id = nextId /\ cur' # NoSession
      BY <1>3, <2>1, <3>1, NoSessionIsNone, ControlConstants DEF Session, Sessions, RegistryIInv
    <3>3. Registered = sessions /\ Registered' = sessions
      BY <2>1, <3>1 DEF Registered
    <3>4. cur' \notin sessions /\ registry[cur'.net][cur'.peer] # cur'.id
      BY SMTT(20), <3>2, <3>3 DEF RegistryIInv, Matching, Sessions
    <3>5. \A n \in Networks, p \in Peers : registry'[n][p] < nextId'
      BY <2>1, ControlConstants DEF RegistryIInv
    <3> QED
      BY SMTT(20), <2>1, <3>1, <3>2, <3>3, <3>4, <3>5 DEF RegistryIInv
  <2> QED  BY SMTT(20), <1>2, <1>18, <2>1 DEF Handshake
<1>19. CASE Activate
  <2>1. CASE pc' = "admit" /\ UNCHANGED <<gate, sessions, todo, cur, allowed, registry, nextId>>
    BY <1>3, <1>19, <2>1, PhaseKeepsRegistry DEF Activate
  <2> QED  BY Zenon, <1>2, <1>19, <2>1 DEF Activate
<1>20. CASE Admit
  <2>1. CASE registry[cur.net][cur.peer] = 0
    <3>1. /\ registry' = [registry EXCEPT ![cur.net][cur.peer] = cur.id]
          /\ pc = "admit" /\ pc' = "observe" /\ gate' = "release"
          /\ UNCHANGED <<sessions, todo, cur, allowed, nextId>>
      BY <1>20, <2>1 DEF Admit, Observe
    <3>2. cur \in Sessions /\ cur # NoSession /\ cur \notin sessions /\ cur.id < nextId
      BY <3>1 DEF RegistryIInv
    <3>3. cur.net \in Networks /\ cur.peer \in Peers /\ cur.id \in 1..MaxIds
      BY SMTT(20), <3>2 DEF Sessions
    <3>4. /\ registry' \in [Networks -> [Peers -> 0..MaxIds]]
          /\ registry'[cur.net][cur.peer] = cur.id
          /\ \A n \in Networks, p \in Peers :
               ~(n = cur.net /\ p = cur.peer) => registry'[n][p] = registry[n][p]
      BY <3>1, <3>3, ControlConstants DEF RegistryIInv
    <3>5. Registered = sessions /\ Registered' = sessions \cup {cur}
      BY <3>1, <3>2 DEF Registered
    <3>6. ASSUME NEW s \in sessions PROVE ~(s.net = cur.net /\ s.peer = cur.peer)
      BY <2>1, <3>5 DEF RegistryIInv, Matching, Sessions
    <3>7. Matching(Registered', registry')
      <4>1. \A s \in sessions \cup {cur} : registry'[s.net][s.peer] = s.id
        BY <3>4, <3>5, <3>6 DEF RegistryIInv, Matching, Sessions
      <4>2. \A s, t \in sessions \cup {cur} : s.net = t.net /\ s.peer = t.peer => s = t
        BY <3>5, <3>6 DEF RegistryIInv, Matching
      <4>3. ASSUME NEW n \in Networks, NEW p \in Peers, registry'[n][p] # 0
            PROVE  \E s \in sessions \cup {cur} : s.net = n /\ s.peer = p
        BY <3>4, <3>5, <4>3 DEF RegistryIInv, Matching
      <4> QED  BY <3>5, <4>1, <4>2, <4>3 DEF Matching
    <3>8. \A n \in Networks, p \in Peers : registry'[n][p] < nextId'
      BY <3>1, <3>2, <3>4 DEF RegistryIInv
    <3> QED
      BY <3>1, <3>2, <3>4, <3>7, <3>8 DEF RegistryIInv
  <2> QED  BY SMTT(20), <1>2, <1>20, <2>1 DEF Admit
<1>21. CASE Release
  <2>1. CASE /\ sessions' = sessions \cup {cur} /\ pc' = "top" /\ cur' = NoSession
             /\ UNCHANGED <<gate, todo, allowed, registry, nextId>>
    <3>1. pc = "release" /\ gate = "release" /\ cur \in Sessions /\ cur \notin sessions
      BY <1>21 DEF Release, RegistryIInv
    <3>2. Registered = sessions' /\ Registered' = sessions'
      BY <2>1, <3>1, RegisteredIs DEF Registered
    <3>3. /\ IsFiniteSet(sessions') /\ Cardinality(sessions') = Cardinality(sessions) + 1
          /\ Cardinality(sessions) \in Nat
      BY <2>1, <3>1, FS_AddElement, FS_CardinalityType DEF RegistryIInv
    <3>4. Cardinality(sessions') <= MaxOwned
      BY <3>1, <3>3, ControlConstants DEF RegistryIInv
    <3> QED
      BY <2>1, <3>1, <3>2, <3>3, <3>4 DEF RegistryIInv
  <2> QED  BY Zenon, <1>2, <1>21, <2>1 DEF Release
<1> QED
  BY <1>4, <1>5, <1>6, <1>7, <1>8, <1>9, <1>10, <1>11, <1>12, <1>13, <1>14, <1>15, <1>16, <1>17,
     <1>18, <1>19, <1>20, <1>21 DEF Worker

\* The calls and enrollment change the files only; a crash gives everything up.
LEMMA FilesInit == Init => FileIInv
  BY DEF Init, FileIInv

\* Enrollment pins a key to one peer only; nothing else adds a pin.
LEMMA FilesNext == FileIInv /\ TrustIInv /\ [Next]_vars => FileIInv'
<1> SUFFICES ASSUME FileIInv, TrustIInv, [Next]_vars PROVE FileIInv'
  OBVIOUS
<1>0. /\ pins \in [Networks -> [Peers -> Keys \cup {NoKey}]]
      /\ durable \in Networks \cup {NoNetwork}
      /\ call.net \in Networks \cup {NoNetwork}
  BY DEF TrustIInv, Calls
<1>1. CASE Worker
  BY <1>1, WorkerKeepsTrust DEF FileIInv, trustVars
<1>2. CASE HostStarted \/ HostStopped \/ SaveMembership \/ BeginLeave \/ RequestStop
  BY <1>0, <1>2 DEF FileIInv, HostStarted, HostStopped, SaveMembership, BeginLeave, RequestStop,
                    trustVars
<1>3. CASE ForgetPin
  <2>1. CASE UNCHANGED pins
    BY <1>3, <2>1 DEF FileIInv, ForgetPin
  <2>2. CASE pins' = [pins EXCEPT ![call.net][call.peer] = NoKey]
    <3>1. \A n \in Networks, p \in Peers : pins'[n][p] \in {pins[n][p], NoKey}
      BY <1>0, <2>2
    <3> QED  BY <1>3, <3>1 DEF FileIInv, ForgetPin
  <2> QED  BY <1>3, <2>1, <2>2 DEF ForgetPin
<1>4. CASE ForgetMember
  BY SMTT(20), <1>4 DEF FileIInv, ForgetMember
<1>5. ASSUME NEW n \in Networks, BeginCreate(n) PROVE FileIInv'
  BY <1>5 DEF FileIInv, BeginCreate
<1>6. ASSUME NEW p \in Peers, TrustPeer(p) \/ BeginForget(p) PROVE FileIInv'
  BY <1>0, <1>6 DEF FileIInv, TrustPeer, BeginForget
<1>7. ASSUME NEW n \in Networks, NEW p \in Peers, NEW k \in Keys, Enroll(n, p, k)
      PROVE  FileIInv'
  <2>1. /\ pins'[n][p] = k
        /\ \A m \in Networks, q \in Peers : ~(m = n /\ q = p) => pins'[m][q] = pins[m][q]
    BY <1>0, <1>7 DEF Enroll
  <2>2. \A q \in Peers \ {p} : pins[n][q] # k
    BY <1>7 DEF Enroll, Conflicts
  <2> QED  BY <1>7, <2>1, <2>2 DEF FileIInv, Enroll
<1>8. CASE Crash
  BY <1>0, <1>8 DEF FileIInv, Crash
<1>9. CASE UNCHANGED vars
  BY <1>9 DEF FileIInv, vars, trustVars
<1> QED
  BY <1>1, <1>2, <1>3, <1>4, <1>5, <1>6, <1>7, <1>8, <1>9 DEF Next, CallStep, Environment

\* Every step keeps registry and owners in step.
LEMMA RegistryNext == RegistryIInv /\ OwnIInv /\ TrustIInv /\ [Next]_vars => RegistryIInv'
<1> SUFFICES ASSUME RegistryIInv, OwnIInv, TrustIInv, [Next]_vars PROVE RegistryIInv'
  OBVIOUS
<1>1. CASE UNCHANGED workerVars
  BY <1>1 DEF workerVars, RegistryIInv, Admitting, Candidate, Released, Registered
<1>2. CASE Crash
  BY <1>2, AbandonClears DEF Crash
<1>3. CASE CallStep
  BY <1>1, <1>3 DEF CallStep, HostStarted, HostStopped, SaveMembership, ForgetPin, ForgetMember
<1>4. CASE Environment
  BY Zenon, <1>1, <1>2, <1>4 DEF Environment, BeginCreate, BeginLeave, TrustPeer, BeginForget, Enroll,
                          RequestStop
<1> QED
  BY <1>1, <1>3, <1>4, RegistryWorker DEF Next, vars

\* The registry has an entry exactly for the sessions that somebody owns, and two
\* approved sessions have different peers and keys, for any number of peers, calls
\* and crashes.
THEOREM OwnersMatchRegistry == Spec => []RegistryMatchesOwners
<1>1. Init => FileIInv /\ TrustIInv /\ OwnIInv /\ RegistryIInv
  BY FilesInit, TrustInit, OwnInit, RegistryInit
<1>2. FileIInv /\ TrustIInv /\ OwnIInv /\ RegistryIInv /\ [Next]_vars
        => (FileIInv /\ TrustIInv /\ OwnIInv /\ RegistryIInv)'
  <2>1. OwnIInv /\ UNCHANGED vars => OwnIInv'
    BY DEF OwnIInv, vars, trustVars, workerVars
  <2> QED  BY <2>1, FilesNext, TrustNext, OwnWorker, OwnOthers, RegistryNext DEF Next
<1>3. ASSUME FileIInv, TrustIInv, OwnIInv, RegistryIInv PROVE RegistryMatchesOwners
  <2>1. ControlTypeOK
    BY <1>3 DEF FileIInv, TrustIInv, RegistryIInv, ControlTypeOK, Sessions
  <2>2. Registered \subseteq Sessions /\ Matching(Registered, registry)
    BY <1>3, RegisteredIs DEF RegistryIInv
  <2>3. ASSUME NEW n \in Networks, NEW p \in Peers
        PROVE  {s.id : s \in {r \in Registered : r.net = n /\ r.peer = p}}
                 = IF registry[n][p] = 0 THEN {} ELSE {registry[n][p]}
    <3>1. \A s \in Registered : s.net = n /\ s.peer = p => s.id = registry[n][p] /\ s.id # 0
      BY <2>2 DEF Matching, Sessions
    <3>2. registry[n][p] # 0 => \E s \in Registered : s.net = n /\ s.peer = p
      BY <2>2 DEF Matching
    <3> QED  BY <3>1, <3>2
  <2>4. ASSUME NEW s \in Registered, NEW t \in Registered, s # t, Approved(s), Approved(t)
        PROVE  s.peer # t.peer /\ s.key # t.key
    <3>1. s.net = t.net /\ s.net \in Networks /\ s.peer \in Peers /\ t.peer \in Peers
      BY <2>2, <2>4 DEF Approved, Sessions
    <3>2. s.peer # t.peer
      BY <2>2, <2>4, <3>1 DEF Matching
    <3>3. pins[s.net][s.peer] = s.key /\ pins[s.net][t.peer] = t.key /\ s.key # NoKey
      BY <2>2, <2>4, <3>1, ControlConstants DEF Approved, Sessions
    <3> QED  BY <1>3, <3>1, <3>2, <3>3 DEF FileIInv
  <2> QED  BY <2>1, <2>3, <2>4 DEF RegistryMatchesOwners
<1> QED
  BY <1>1, <1>2, <1>3, PTL DEF Spec
===============================================================================
