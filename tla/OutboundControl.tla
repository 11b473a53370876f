---------------------------- MODULE OutboundControl ----------------------------
(***************************************************************************)
(* The outbound control session of a PANU client (outbound_control.rs):     *)
(* authorize, observe the lease and the Bluetooth link, dial from the       *)
(* leased address and device, authenticate, register, observe again; then   *)
(* supervise the session until it is stopped or an observation fails.       *)
(*                                                                         *)
(* Every backend call is a step; between any two of them the address, the   *)
(* Bluetooth link or the approval of the peer may be lost, the deadline of  *)
(* the handshake may pass, or the owner may ask the worker to stop.  What   *)
(* is lost stays lost for this session.                                     *)
(***************************************************************************)
EXTENDS Naturals, FiniteSets

CONSTANTS
  Lease,        \* the leased address: address, length, interface, owner
  OtherUses,    \* conflicting assignments NetworkManager or the kernel may report
  Interval,     \* time units between two heartbeats
  MaxFailures   \* backend calls that fail, at most

VARIABLES
  owned, active,  \* addresses() and active_ipv4_prefixes_with_interfaces()
  panu,           \* the exact Bluetooth attachment is up
  trusted,        \* the peer is approved and its key enrolled
  expired,        \* the handshake deadline has passed
  stop,           \* the stop flag
  pc, socket, registered,
  age,            \* time since last_heartbeat
  lostAt,         \* [fact -> where the call was when the fact was lost] (history)
  beats,          \* a heartbeat has just been sent (history)
  failures

world == <<owned, active, panu, trusted, expired, stop>>
vars == <<world, pc, socket, registered, age, lostAt, beats, failures>>

Facts == {"lease", "panu", "trust"}

Connecting == {"plan", "owned", "active", "bluez", "authorize", "dial", "handshake"}
Validating == {"post_owned", "post_active", "post_bluez", "post_authorize"}
Supervising == {"tick", "approve", "sup_owned", "sup_active", "sup_bluez", "sup_authorize", "beat", "park"}

-----------------------------------------------------------------------------
\* require_live_panu_lease: the lease is owned, and no other assignment has its
\* address, whatever its length, interface or owner; likewise in the kernel.
OwnedAlone(o) == Lease \in o /\ \A a \in o : a.address = Lease.address => a = Lease

ActiveAlone(s) ==
  LET IsLease(a) == a.interface = Lease.interface /\ a.length = Lease.length
  IN /\ \E a \in s : a.address = Lease.address /\ IsLease(a)
     /\ \A a \in s : a.address = Lease.address => IsLease(a)

LiveLease == OwnedAlone(owned) /\ ActiveAlone(active)

-----------------------------------------------------------------------------
Goto(label) == pc' = label /\ UNCHANGED <<socket, registered>>

\* Mutant of Abandon: the generation leaves the registry, the socket stays.
AbandonUnregistered ==
  /\ pc' = "ended"
  /\ registered' = FALSE
  /\ UNCHANGED socket

\* An error drops the socket, or the registered session: the socket is shut down
\* first, then its generation leaves the registry (cancel, Drop).
Abandon ==
  /\ pc' = "ended"
  /\ socket' = IF socket = "open" THEN "closed" ELSE socket
  /\ registered' = FALSE

\* A check of the call: it goes on, or the error ends it.  A backend call may
\* also fail by itself.
Check(here, holds, next) ==
  /\ pc = here
  /\ \/ holds /\ Goto(next) /\ UNCHANGED failures
     \/ ~holds /\ Abandon /\ UNCHANGED failures
     \/ failures < MaxFailures /\ failures' = failures + 1 /\ Abandon
  /\ beats' = FALSE
  /\ UNCHANGED <<world, age, lostAt>>

-----------------------------------------------------------------------------
\* connect_registered_panu_control_session.

\* planned_panu_control_endpoint, the scope of the pin, approval and deadline.
Plan == Check("plan", trusted /\ ~expired, "owned")
ObserveOwned == Check("owned", OwnedAlone(owned), "active")
ObserveActive == Check("active", ActiveAlone(active), "bluez")

\* Mutant of ObserveBluez: the approval is not read again before the SYN.
ObserveBluezLast == Check("bluez", panu, "dial")

\* require_matching_panu.
ObserveBluez == Check("bluez", panu, "authorize")

\* The observations may have blocked: approval again, immediately before the SYN.
Authorize == Check("authorize", trusted, "dial")

\* connect_tcp_from_ipv4_on_device: source and device are bound before the SYN;
\* the kernel refuses an address it no longer has.
Dial ==
  /\ pc = "dial"
  /\ IF ~expired /\ Lease \in active
     THEN \/ pc' = "handshake" /\ socket' = "open" /\ UNCHANGED <<registered, failures>>
          \/ failures < MaxFailures /\ failures' = failures + 1 /\ Abandon
     ELSE Abandon /\ UNCHANGED failures
  /\ beats' = FALSE
  /\ UNCHANGED <<world, age, lostAt>>

\* connect_registered_control_session: approval, TLS, Hello, approval, admission.
Handshake ==
  /\ pc = "handshake"
  /\ IF trusted /\ ~expired
     THEN \/ pc' = "post_owned" /\ registered' = TRUE /\ UNCHANGED <<socket, failures>>
          \/ failures < MaxFailures /\ failures' = failures + 1 /\ Abandon
     ELSE Abandon /\ UNCHANGED failures
  /\ beats' = FALSE
  /\ UNCHANGED <<world, age, lostAt>>

\* retain_after_post_auth_checks.
PostOwned == Check("post_owned", ~expired /\ OwnedAlone(owned), "post_active")
PostActive == Check("post_active", ActiveAlone(active), "post_bluez")
PostBluez == Check("post_bluez", panu, "post_authorize")
PostAuthorize == Check("post_authorize", trusted /\ ~expired, "tick")

-----------------------------------------------------------------------------
\* run_registered_panu_supervision_until_stopped.

\* A stop before the tick ends the session; a new tick looks at everything again.
Tick ==
  /\ pc = "tick"
  /\ IF stop THEN Abandon ELSE Goto("approve")
  /\ lostAt' = [f \in Facts |-> IF lostAt[f] = "no" THEN "no" ELSE "earlier"]
  /\ beats' = FALSE
  /\ UNCHANGED <<world, age, failures>>

\* supervise_registered_panu_control_session: revalidate_approval before anything
\* that may block, and again after it.
Approve == Check("approve", trusted, "sup_owned")
SupOwned == Check("sup_owned", OwnedAlone(owned), "sup_active")

\* Mutant of SupActive: the Bluetooth link is only observed when connecting.
SupActiveLast == Check("sup_active", ActiveAlone(active), "sup_authorize")

SupActive == Check("sup_active", ActiveAlone(active), "sup_bluez")

SupBluez == Check("sup_bluez", panu, "sup_authorize")
SupAuthorize == Check("sup_authorize", trusted, "beat")

\* send_supervised_heartbeat_if_due: not after a stop, not before it is due; a
\* failed or late write ends the session and does not advance the schedule.
Beat ==
  /\ pc = "beat"
  /\ IF stop \/ age < Interval
     THEN Goto("park") /\ beats' = FALSE /\ UNCHANGED <<age, failures>>
     ELSE \/ trusted /\ Goto("park") /\ beats' = TRUE /\ age' = 0 /\ UNCHANGED failures
          \/ ~trusted /\ Abandon /\ beats' = FALSE /\ UNCHANGED <<age, failures>>
          \/ failures < MaxFailures /\ failures' = failures + 1 /\ Abandon /\ beats' = FALSE /\ UNCHANGED age
  /\ UNCHANGED <<world, lostAt>>

\* The pause between two ticks: time passes, unless a stop cuts it short.
Park ==
  /\ pc = "park"
  /\ IF stop THEN Abandon /\ UNCHANGED age
     ELSE Goto("tick") /\ age' = IF age < Interval THEN age + 1 ELSE age
  /\ beats' = FALSE
  /\ UNCHANGED <<world, lostAt, failures>>

-----------------------------------------------------------------------------
\* The surroundings.

Lost(f) == lostAt' = [lostAt EXCEPT ![f] = IF @ = "no" THEN pc ELSE @]

LoseLease ==
  /\ LiveLease
  /\ \/ \E o \in SUBSET ({Lease} \cup OtherUses) : owned' = o /\ UNCHANGED active
     \/ \E a \in SUBSET ({Lease} \cup OtherUses) : active' = a /\ UNCHANGED owned
  /\ ~LiveLease'
  /\ Lost("lease")
  /\ UNCHANGED <<panu, trusted, expired, stop, pc, socket, registered, age, beats, failures>>

LosePanu ==
  /\ panu /\ panu' = FALSE /\ Lost("panu")
  /\ UNCHANGED <<owned, active, trusted, expired, stop, pc, socket, registered, age, beats, failures>>

LoseTrust ==
  /\ trusted /\ trusted' = FALSE /\ Lost("trust")
  /\ UNCHANGED <<owned, active, panu, expired, stop, pc, socket, registered, age, beats, failures>>

Expire ==
  /\ ~expired /\ pc \in Connecting \cup Validating /\ expired' = TRUE
  /\ UNCHANGED <<owned, active, panu, trusted, stop, pc, socket, registered, age, lostAt, beats, failures>>

RequestStop ==
  /\ ~stop /\ stop' = TRUE
  /\ UNCHANGED <<owned, active, panu, trusted, expired, pc, socket, registered, age, lostAt, beats, failures>>

Init ==
  /\ owned = {Lease} /\ active = {Lease} /\ panu = TRUE /\ trusted = TRUE
  /\ expired = FALSE /\ stop = FALSE
  /\ pc = "plan" /\ socket = "none" /\ registered = FALSE /\ age = 0
  /\ lostAt = [f \in Facts |-> "no"] /\ beats = FALSE /\ failures = 0

Step ==
  \/ Plan \/ ObserveOwned \/ ObserveActive \/ ObserveBluez \/ Authorize \/ Dial \/ Handshake
  \/ PostOwned \/ PostActive \/ PostBluez \/ PostAuthorize
  \/ Tick \/ Approve \/ SupOwned \/ SupActive \/ SupBluez \/ SupAuthorize \/ Beat \/ Park

Next == Step \/ LoseLease \/ LosePanu \/ LoseTrust \/ Expire \/ RequestStop

Spec == Init /\ [][Next]_vars

\* The worker thread runs; its calls return.
FairSpec == Spec /\ WF_vars(Step)

-----------------------------------------------------------------------------
\* Type invariant.
TypeOK ==
  /\ pc \in Connecting \cup Validating \cup Supervising \cup {"ended"}
  /\ socket \in {"none", "open", "closed"} /\ registered \in BOOLEAN /\ age \in 0..Interval

\* f held after the call had left every step but these.
HeldUntil(f, steps) == lostAt[f] \in steps \cup {"no"}

\* The SYN is sent for an address and a link that were seen after the call was
\* authorized, and for a peer whose approval was read after both were seen; and
\* the session is handed to its owner only if all three were seen once more after
\* authentication (outbound_control.rs:159-213, 242-269).
ActsOnFreshChecks ==
  /\ pc = "dial" /\ pc' = "handshake" =>
       /\ HeldUntil("lease", {"active", "bluez", "authorize", "dial"})
       /\ HeldUntil("panu", {"authorize", "dial"})
       /\ HeldUntil("trust", {"dial"})
  /\ pc = "post_authorize" /\ pc' = "tick" =>
       /\ HeldUntil("lease", {"post_active", "post_bluez", "post_authorize"})
       /\ HeldUntil("panu", {"post_authorize"}) /\ HeldUntil("trust", {})

\* Nothing is said to a peer in a tick that began after the address, the link or
\* the approval was lost, nor after an approval was lost during the observations
\* (outbound_control.rs:299-341, 390-410).
HeartbeatsAreEarned ==
  beats' /\ ~beats =>
    (\A f \in Facts : lostAt[f] # "earlier") /\ HeldUntil("trust", {})

\* An authenticated socket is registered as long as it is open, and every way out
\* closes it (registered_transport.rs:214-265, outbound_control.rs:346-356,
\* 486-489).
NoSocketLeaks ==
  /\ pc = "ended" => socket # "open" /\ ~registered
  /\ pc \in Validating \cup Supervising => socket = "open" /\ registered

\* A session whose address, link or approval is lost, or that is asked to stop,
\* has ended (outbound_control.rs:420-490).
EndedIfLost == (stop \/ \E f \in Facts : lostAt[f] # "no") => pc = "ended"

\* A session that lasts has just informed its peer (outbound_control.rs:299-341).
PeerInformed == pc \in Supervising => beats
====
