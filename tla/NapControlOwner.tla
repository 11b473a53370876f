-------------------------- MODULE NapControlOwner --------------------------
(***************************************************************************)
(* The life of an authenticated control session that owns NAP capacity:    *)
(* RegisteredControlSession (registered_transport.rs, generation_guard.rs) *)
(* in the peer registry, the reservation lease and the                     *)
(* RegisteredNapControlOwner of nap_control_admission.rs, over the ledger  *)
(* of NapAdmission, and the physical PANU links they account for.          *)
(*                                                                         *)
(* Each session belongs to one thread and its methods run one at a time,   *)
(* but the registry, the ledger and the approval store are shared: a       *)
(* method is cut wherever it lets go of one of their locks.  Closing a     *)
(* session is three such steps (shut the socket, remove the registry       *)
(* entry, drop an unattached lease), and a thread inside that sequence     *)
(* (Closing) can do nothing else.                                          *)
(***************************************************************************)
EXTENDS NapAdmission

CONSTANTS
  Sessions,   \* TLS session generations (exporter session ids), all distinct
  NoOwner,
  PeerOf(_)   \* the authenticated peer of a session

ASSUME OwnerConstants ==
  NoOwner \notin Sessions /\ \A s \in Sessions : PeerOf(s) \in Nodes

VARIABLES
  ownPc,     \* where the thread of a session is
  ownSocket, \* TRUE while the session owns an open TCP socket
  registry,  \* ControlSessionRegistry: the active session of a peer
  approvedPeers, \* peers with durable approval
  leased,    \* the tickets of the lease a session owns ({} or a singleton)
  attached,  \* RegisteredNapControlOwner.attached
  kept,      \* tickets the daemon copied (observed_attachment_ticket) at drop
  ticketOf,  \* the ticket each session reserved, for the properties
  links,     \* peers with a physical PANU link
  holder,    \* the session whose observation covers the peer's present link
  detaches,  \* sessions whose observed link is gone: detach events not delivered
  echoes     \* detach events already delivered; each may come again

sessionVars == <<ownPc, ownSocket, registry, approvedPeers, leased, attached, kept, ticketOf>>
panuVars == <<links, holder, detaches, echoes>>
ownVars == <<napVars, sessionVars, panuVars>>

\* "authenticated": TLS, exporter and pins verified, not registered yet;
\* "rechecked", "activating": inside reserve and activate, between the approval
\* check and the ledger call.
Points == {"authenticated", "registered", "rechecked", "owned", "activating", "dropped"}

Registered(s) == registry[PeerOf(s)] = s

\* The thread is inside close_and_retire, or about to drop an unattached lease.
Closing(s) ==
  /\ ~ownSocket[s]
  /\ Registered(s) \/ (leased[s] # {} /\ ~attached[s])

At(s, point) == ownPc[s] = point /\ ~Closing(s)

\* ensure_active_registration and the durable approval check both pass.
Revalidates(s) == ownSocket[s] /\ Registered(s) /\ PeerOf(s) \in approvedPeers

\* close_owned_socket: the first step of close_and_retire.
CloseSocket(s) == ownSocket' = [ownSocket EXCEPT ![s] = FALSE]

-----------------------------------------------------------------------------
\* Mutants of the steps below.

\* Mutant of ObserveAttachment: `attached` is set only when the checks pass.
ObserveAttachmentLate(s) ==
  /\ At(s, "owned") /\ leased[s] # {} /\ PeerOf(s) \in links /\ s \notin detaches
  /\ holder' = [holder EXCEPT ![PeerOf(s)] = s]
  /\ \/ /\ Revalidates(s)
        /\ attached' = [attached EXCEPT ![s] = TRUE]
        /\ ownPc' = [ownPc EXCEPT ![s] = "activating"]
        /\ UNCHANGED ownSocket
     \/ ~Revalidates(s) /\ CloseSocket(s) /\ UNCHANGED <<ownPc, attached>>
  /\ UNCHANGED <<registry, approvedPeers, leased, kept, ticketOf, links, detaches, echoes, napVars>>

\* Mutant of RetireRegistration: the slot is freed before the socket is shut.
RetireRegistrationFirst(s) ==
  /\ ownPc[s] # "authenticated" /\ Registered(s)
  /\ registry' = [registry EXCEPT ![PeerOf(s)] = NoOwner]
  /\ UNCHANGED <<ownPc, ownSocket, approvedPeers, leased, attached, kept, ticketOf, panuVars, napVars>>

\* Mutant of DropLease: the lease is forgotten without retiring its ticket.
DropLeaseSilently(s) ==
  /\ ~ownSocket[s] /\ ~Registered(s) /\ ~attached[s] /\ leased[s] # {}
  /\ leased' = [leased EXCEPT ![s] = {}]
  /\ UNCHANGED <<ownPc, ownSocket, registry, approvedPeers, attached, kept, ticketOf, panuVars, napVars>>

\* Mutant of Detached: a session whose TLS stream is gone ignores the event.
DetachedWhileConnected(s, e) ==
  /\ At(s, "owned") /\ ownSocket[s]
  /\ attached[s] /\ leased[s] # {} /\ e = s

\* Mutant of DropOwner: the capacity is preserved for unattached peers too.
DropOwnerKeepingPending(s) ==
  /\ At(s, "owned")
  /\ ownPc' = [ownPc EXCEPT ![s] = "dropped"]
  /\ CloseSocket(s)
  /\ kept' = IF attached[s] THEN kept \cup leased[s] ELSE kept
  /\ leased' = [leased EXCEPT ![s] = {}]
  /\ UNCHANGED <<registry, approvedPeers, attached, ticketOf, panuVars, napVars>>

-----------------------------------------------------------------------------
\* admit: the registry takes a peer's only session; otherwise the session is
\* dropped and its socket closes.
Admit(s) ==
  /\ ownPc[s] = "authenticated"
  /\ \/ /\ registry[PeerOf(s)] = NoOwner
        /\ registry' = [registry EXCEPT ![PeerOf(s)] = s]
        /\ ownPc' = [ownPc EXCEPT ![s] = "registered"]
        /\ UNCHANGED ownSocket
     \/ /\ registry[PeerOf(s)] # NoOwner
        /\ CloseSocket(s)
        /\ ownPc' = [ownPc EXCEPT ![s] = "dropped"]
        /\ UNCHANGED registry
  /\ UNCHANGED <<approvedPeers, leased, attached, kept, ticketOf, panuVars, napVars>>

\* reserve, first half: recheck.  A failure consumes and drops the session.
RecheckForReserve(s) ==
  /\ At(s, "registered")
  /\ \/ /\ Revalidates(s)
        /\ ownPc' = [ownPc EXCEPT ![s] = "rechecked"]
        /\ UNCHANGED ownSocket
     \/ /\ ~Revalidates(s)
        /\ CloseSocket(s)
        /\ ownPc' = [ownPc EXCEPT ![s] = "dropped"]
  /\ UNCHANGED <<registry, approvedPeers, leased, attached, kept, ticketOf, panuVars, napVars>>

\* reserve, second half: the ledger call, for the NAP instance the caller owns.
ReserveSlot(s, o) ==
  /\ At(s, "rechecked")
  /\ o \in created
  /\ \/ /\ Reserve(o, PeerOf(s))
        /\ leased' = [leased EXCEPT ![s] = issued' \ issued]
        /\ ticketOf' = [ticketOf EXCEPT ![s] = issued' \ issued]
        /\ ownPc' = [ownPc EXCEPT ![s] = "owned"]
        /\ UNCHANGED ownSocket
     \/ /\ ~Reservable(o, PeerOf(s))
        /\ CloseSocket(s)
        /\ ownPc' = [ownPc EXCEPT ![s] = "dropped"]
        /\ UNCHANGED <<leased, ticketOf, napVars>>
  /\ UNCHANGED <<registry, approvedPeers, attached, kept, panuVars>>

\* The daemon has processed its earlier detach events of this session.
InOrder(s) == s \notin detaches

\* activate_after_observed_attachment, first half: attached is set before
\* anything can fail, then approval and registration are checked.
ObserveAttachment(s) ==
  /\ At(s, "owned")
  /\ leased[s] # {}
  /\ PeerOf(s) \in links /\ InOrder(s)
  /\ attached' = [attached EXCEPT ![s] = TRUE]
  /\ holder' = [holder EXCEPT ![PeerOf(s)] = s]
  /\ \/ /\ Revalidates(s)
        /\ ownPc' = [ownPc EXCEPT ![s] = "activating"]
        /\ UNCHANGED ownSocket
     \/ /\ ~Revalidates(s)
        /\ CloseSocket(s)
        /\ UNCHANGED ownPc
  /\ UNCHANGED <<registry, approvedPeers, leased, kept, ticketOf, links, detaches, echoes, napVars>>

\* Second half: promotion in the ledger.  Ok(false) and errors both end in
\* on_transport_loss, which keeps the lease of an attached peer.
ActivateSlot(s) ==
  /\ ownPc[s] = "activating"
  /\ ownPc' = [ownPc EXCEPT ![s] = "owned"]
  /\ \E t \in leased[s] :
       \/ Activate(t.owner, t) /\ UNCHANGED ownSocket
       \/ ~Activatable(t.owner, t) /\ CloseSocket(s) /\ UNCHANGED napVars
  /\ UNCHANGED <<registry, approvedPeers, leased, attached, kept, ticketOf, panuVars>>

\* Before a slot is reserved: a read, a heartbeat or the approval check fails,
\* the stream ends, goodbye was sent, or cancel_if_current names this session.
LoseTransport(s) ==
  /\ At(s, "registered")
  /\ ownSocket[s]
  /\ CloseSocket(s)
  /\ ownPc' = [ownPc EXCEPT ![s] = "dropped"]
  /\ UNCHANGED <<registry, approvedPeers, leased, attached, kept, ticketOf, panuVars, napVars>>

\* The same calls on the owner of a slot start on_transport_loss: the session is
\* cancelled first, and DropLease then releases an unattached peer's lease.
OnTransportLoss(s) ==
  /\ At(s, "owned")
  /\ ownSocket[s]
  /\ CloseSocket(s)
  /\ UNCHANGED <<ownPc, registry, approvedPeers, leased, attached, kept, ticketOf, panuVars, napVars>>

\* remove_if_current: only the entry of this very session is removed.
RetireRegistration(s) ==
  /\ ~ownSocket[s] /\ Registered(s)
  /\ registry' = [registry EXCEPT ![PeerOf(s)] = NoOwner]
  /\ UNCHANGED <<ownPc, ownSocket, approvedPeers, leased, attached, kept, ticketOf, panuVars, napVars>>

\* release_pending_on_transport_loss and the drop of a lease: its ticket is
\* retired (Ok(false) when the NAP was closed meanwhile), the lease is gone.
DropLease(s) ==
  /\ ~ownSocket[s] /\ ~Registered(s) /\ ~attached[s]
  /\ \E t \in leased[s] :
       Retire(t.owner, t) \/ (~Retirable(t.owner, t) /\ UNCHANGED napVars)
  /\ leased' = [leased EXCEPT ![s] = {}]
  /\ UNCHANGED <<ownPc, ownSocket, registry, approvedPeers, attached, kept, ticketOf, panuVars>>

\* retire_observed_detach_if_current: a detach event correlated with session e
\* is for the attached owner of that very session.
Detached(s, e) ==
  /\ At(s, "owned")
  /\ attached[s] /\ leased[s] # {}
  /\ e = s

\* confirm_observed_detach_if_current: a match closes the socket, clears
\* `attached` and lets the lease go; anything else is ignored.
ConfirmDetach(s, e) ==
  /\ Detached(s, e)
  /\ CloseSocket(s)
  /\ attached' = [attached EXCEPT ![s] = FALSE]
  /\ detaches' = detaches \ {e} /\ echoes' = echoes \cup {e}
  /\ UNCHANGED <<ownPc, registry, approvedPeers, leased, kept, ticketOf, links, holder, napVars>>

\* Drop of the owner: an attached peer's capacity stays reserved, and the
\* daemon keeps a copy of the ticket to retire it after the detach.
DropOwner(s) ==
  /\ At(s, "owned")
  /\ ownPc' = [ownPc EXCEPT ![s] = "dropped"]
  /\ CloseSocket(s)
  /\ \/ /\ attached[s]
        /\ kept' = kept \cup leased[s]
        /\ leased' = [leased EXCEPT ![s] = {}]
     \/ ~attached[s] /\ UNCHANGED <<kept, leased>>
  /\ UNCHANGED <<registry, approvedPeers, attached, ticketOf, panuVars, napVars>>

\* retire_authenticated_nap with a kept ticket once the detach was observed.
RetireKept(s) ==
  /\ s \in detaches
  /\ \E t \in kept \cap ticketOf[s] :
       /\ Retire(t.owner, t) \/ (~Retirable(t.owner, t) /\ UNCHANGED napVars)
       /\ kept' = kept \ {t}
  /\ detaches' = detaches \ {s} /\ echoes' = echoes \cup {s}
  /\ UNCHANGED <<ownPc, ownSocket, registry, approvedPeers, leased, attached, ticketOf, links, holder>>

-----------------------------------------------------------------------------
\* The environment: trust decisions, physical links, and NAP instances.
ChangeApproval(p) ==
  /\ approvedPeers' = IF p \in approvedPeers THEN approvedPeers \ {p} ELSE approvedPeers \cup {p}
  /\ UNCHANGED <<ownPc, ownSocket, registry, leased, attached, kept, ticketOf, panuVars, napVars>>

PanuUp(p) ==
  /\ p \notin links
  /\ links' = links \cup {p}
  /\ UNCHANGED <<holder, detaches, echoes, sessionVars, napVars>>

\* The link goes; if a session observed it, the daemon correlates the event.
PanuDown(p) ==
  /\ p \in links
  /\ links' = links \ {p}
  /\ detaches' = detaches \cup ({holder[p]} \ {NoOwner})
  /\ holder' = [holder EXCEPT ![p] = NoOwner]
  /\ UNCHANGED <<echoes, sessionVars, napVars>>

NapStep ==
  /\ \E o \in Owners :
       \/ \E net \in Networks, host \in Hosts : New(o, net, host)
       \/ \E host \in Hosts : UpdateCapabilities(o, host)
       \/ Close(o)
  /\ UNCHANGED <<sessionVars, panuVars>>

OwnInit ==
  /\ NapInit
  /\ ownPc = [s \in Sessions |-> "authenticated"]
  /\ ownSocket = [s \in Sessions |-> TRUE]
  /\ registry = [p \in Nodes |-> NoOwner]
  /\ approvedPeers = Nodes
  /\ leased = [s \in Sessions |-> {}]
  /\ attached = [s \in Sessions |-> FALSE]
  /\ kept = {}
  /\ ticketOf = [s \in Sessions |-> {}]
  /\ links = {}
  /\ holder = [p \in Nodes |-> NoOwner]
  /\ detaches = {}
  /\ echoes = {}

OwnNext ==
  \/ \E s \in Sessions :
       \/ Admit(s) \/ RecheckForReserve(s) \/ ObserveAttachment(s) \/ ActivateSlot(s)
       \/ LoseTransport(s) \/ OnTransportLoss(s) \/ RetireRegistration(s) \/ DropLease(s) \/ DropOwner(s)
       \/ RetireKept(s)
       \/ \E o \in Owners : ReserveSlot(s, o)
       \/ \E e \in detaches \cup echoes : ConfirmDetach(s, e)
  \/ \E p \in Nodes : ChangeApproval(p) \/ PanuUp(p) \/ PanuDown(p)
  \/ NapStep

\* A session's thread finishes the method it is in, and the daemon delivers
\* every correlated detach event to its owner or to the kept ticket.
OwnFairness ==
  \A s \in Sessions :
    /\ WF_ownVars(ActivateSlot(s)) /\ WF_ownVars(RetireRegistration(s)) /\ WF_ownVars(DropLease(s))
    /\ WF_ownVars(ConfirmDetach(s, s)) /\ WF_ownVars(RetireKept(s))

OwnSpec == OwnInit /\ [][OwnNext]_ownVars /\ OwnFairness

-----------------------------------------------------------------------------
\* Type invariant of the composition.
OwnTypeOK ==
  /\ NapTypeOK
  /\ ownPc \in [Sessions -> Points]
  /\ ownSocket \in [Sessions -> BOOLEAN]
  /\ registry \in [Nodes -> Sessions \cup {NoOwner}]
  /\ approvedPeers \subseteq Nodes /\ links \subseteq Nodes
  /\ leased \in [Sessions -> SUBSET issued]
  /\ \A s \in Sessions : Cardinality(leased[s]) <= 1 /\ leased[s] \subseteq ticketOf[s]
  /\ attached \in [Sessions -> BOOLEAN]
  /\ kept \subseteq issued
  /\ holder \in [Nodes -> Sessions \cup {NoOwner}]
  /\ detaches \subseteq Sessions /\ echoes \subseteq Sessions

\* The ledger still has the slot that session s reserved.
HoldsSlot(s) == \E t \in ticketOf[s] : Retirable(t.owner, t)

\* A session past admission with an open socket is the registered one, so two
\* generations of a peer never own TCP I/O at the same time: close_and_retire
\* shuts the socket before it frees the slot (registered_transport.rs:241-265).
OpenSocketIsRegistered ==
  \A s \in Sessions : ownPc[s] # "authenticated" /\ ownSocket[s] => Registered(s)

\* While a PANU link that a session observed is up, that session's slot stays
\* occupied: TLS loss, a failed activation, revocation and owner drop free no
\* radio capacity; only closing the NAP does (nap_control_admission.rs:156-163,
\* 251-285, 394-400).
CapacityCoversObservedLinks ==
  \A p \in Nodes : holder[p] # NoOwner =>
    \/ HoldsSlot(holder[p])
    \/ \E t \in ticketOf[holder[p]] : ledger[t.owner].closed

\* No slot is stranded: some lease or kept ticket can still release each
\* occupied slot (Drop of AuthenticatedNapLease, nap_control_admission.rs:62-70,
\* and observed_attachment_ticket, 377-383).
NoStrandedSlot ==
  \A s \in Sessions : HoldsSlot(s) => (leased[s] \cup kept) \cap ticketOf[s] # {}

\* No slot is held for a link that was observed and is gone, whatever the
\* session did in the meantime (confirm_observed_detach_if_current and
\* retire_authenticated_nap), nor by a lost session without an observed link
\* (release_pending_on_transport_loss, nap_control_admission.rs:171-178, 282-285).
SlotsAreInUse ==
  \A s \in Sessions : HoldsSlot(s) => s \notin detaches /\ (ownSocket[s] \/ attached[s])

\* A session past admission is the registered one as long as its socket is open,
\* an observed link is covered by a slot, and no slot is stranded, whatever is
\* lost, dropped or revoked between two steps (registered_transport.rs,
\* nap_control_admission.rs).
OwnersAreSound ==
  OwnTypeOK /\ OpenSocketIsRegistered /\ CapacityCoversObservedLinks /\ NoStrandedSlot
============================================================================
