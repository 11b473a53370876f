--------------------------- MODULE ForwardingLease ---------------------------
(***************************************************************************)
(* The host-wide IPv4 forwarding switch and BlueRoute's lease on it        *)
(* (forwarding.rs), driven by the topologies of all networks of the host   *)
(* (forwarding_reconciliation.rs).  One call runs at a time: it has no     *)
(* await.  Between any two of its file operations the administrator may    *)
(* turn the switch, and the process may die; a write may fail or be        *)
(* accepted without effect.                                                *)
(***************************************************************************)
EXTENDS Naturals

CONSTANT MaxInterference   \* bound on interference and faults together

VARIABLES
  switch,    \* the kernel's ip_forward
  lease,     \* "none", "torn" (created, not written), "off", "on": its baseline
  fwdPc, fwdCurrent, created, kept,   \* the running call and its locals
  fwdEvents,
  admin,     \* value the switch had from anybody but BlueRoute
  meddled    \* somebody else turned the switch during this lease

call == <<fwdPc, fwdCurrent, created, kept>>
fwdVars == <<switch, lease, call, fwdEvents, admin, meddled>>

Baseline(on) == IF on THEN "on" ELSE "off"

FwdInit ==
  /\ switch \in BOOLEAN /\ admin = switch /\ meddled = FALSE /\ lease = "none"
  /\ fwdPc = "idle" /\ fwdCurrent = FALSE /\ created = FALSE /\ kept = "none" /\ fwdEvents = 0

Goto(l) == fwdPc' = l
Return == fwdPc' = "idle" /\ fwdCurrent' = FALSE /\ created' = FALSE /\ kept' = "none"
Fault == fwdEvents < MaxInterference /\ fwdEvents' = fwdEvents + 1
Drop == lease' = "none"

\* Forwarding is wanted when some network's topology calls for it; a topology
\* without this node ends the call before the backend is reached.
Reconcile(topologies) ==
  /\ fwdPc = "idle" /\ "foreign" \notin topologies
  /\ Goto(IF "router" \in topologies THEN "enable" ELSE "release")
  /\ meddled' = (meddled /\ lease # "none")
  /\ admin' = IF meddled /\ lease = "none" THEN switch ELSE admin
  /\ UNCHANGED <<switch, lease, fwdCurrent, created, kept, fwdEvents>>

\* enable: the switch is read, then the lease.
ReadSwitch ==
  /\ fwdPc = "enable" /\ Goto("enable_lease") /\ fwdCurrent' = switch
  /\ UNCHANGED <<switch, lease, created, kept, fwdEvents, admin, meddled>>

\* Mutant of ReadLease: after a restart the lease is taken anew.
ReadLeaseAnew ==
  /\ fwdPc = "enable_lease" /\ Goto("create")
  /\ UNCHANGED <<switch, lease, fwdCurrent, created, kept, fwdEvents, admin, meddled>>

\* A lease that does not parse is an error; one that exists is kept.
ReadLease ==
  /\ fwdPc = "enable_lease"
  /\ CASE lease = "torn" -> Return
       [] lease = "none" -> Goto("create") /\ UNCHANGED <<fwdCurrent, created, kept>>
       [] OTHER -> IF fwdCurrent THEN Return ELSE Goto("raise") /\ UNCHANGED <<fwdCurrent, created, kept>>
  /\ UNCHANGED <<switch, lease, fwdEvents, admin, meddled>>

\* The lease file appears empty before it has its contents.
CreateLease ==
  /\ fwdPc = "create" /\ lease' = "torn" /\ Goto("write_lease")
  /\ UNCHANGED <<switch, fwdCurrent, created, kept, fwdEvents, admin, meddled>>

WriteLease ==
  /\ fwdPc = "write_lease"
  /\ \/ /\ lease' = Baseline(fwdCurrent) /\ UNCHANGED <<fwdEvents, meddled>>
        /\ IF fwdCurrent THEN Return
           ELSE Goto("raise") /\ created' = TRUE /\ UNCHANGED <<fwdCurrent, kept>>
     \/ Fault /\ Drop /\ Return /\ UNCHANGED meddled
  /\ UNCHANGED <<switch, admin>>

\* The switch is written: it takes effect, has no effect, or fails.
Raise ==
  /\ fwdPc = "raise"
  /\ \/ switch' = TRUE /\ Goto("check_on") /\ UNCHANGED <<lease, fwdCurrent, created, kept, fwdEvents, meddled>>
     \/ Fault /\ switch' = switch /\ Goto("check_on") /\ UNCHANGED <<lease, fwdCurrent, created, kept, meddled>>
     \/ Fault /\ switch' = switch /\ Return /\ (IF created THEN Drop ELSE UNCHANGED lease) /\ UNCHANGED meddled
  /\ UNCHANGED admin

\* The switch is read again: on, still off, or unreadable.
CheckOn ==
  /\ fwdPc = "check_on" /\ Return
  /\ \/ (IF ~switch /\ created THEN Drop ELSE UNCHANGED lease) /\ UNCHANGED fwdEvents
     \/ Fault /\ UNCHANGED lease
  /\ UNCHANGED <<switch, admin, meddled>>

-----------------------------------------------------------------------------
\* release: without a lease the switch is somebody else's.
ReadKept ==
  /\ fwdPc = "release"
  /\ IF lease \in {"none", "torn"} THEN Return
     ELSE Goto("release_switch") /\ kept' = lease /\ UNCHANGED <<fwdCurrent, created>>
  /\ UNCHANGED <<switch, lease, fwdEvents, admin, meddled>>

\* Only a switch that was off before the lease is turned off.
NeedsLowering == switch /\ kept = "off"

ReleaseSwitch ==
  /\ fwdPc = "release_switch"
  /\ Goto(IF NeedsLowering THEN "lower" ELSE "drop")
  /\ UNCHANGED <<switch, lease, fwdCurrent, created, kept, fwdEvents, admin, meddled>>

Lower ==
  /\ fwdPc = "lower"
  /\ \/ switch' = FALSE /\ Goto("check_off") /\ UNCHANGED <<fwdCurrent, created, kept, fwdEvents>>
     \/ Fault /\ switch' = switch /\ Goto("check_off") /\ UNCHANGED <<fwdCurrent, created, kept>>
     \/ Fault /\ switch' = switch /\ Return
  /\ UNCHANGED <<lease, admin, meddled>>

CheckOff ==
  /\ fwdPc = "check_off"
  /\ IF switch THEN Return ELSE Goto("drop") /\ UNCHANGED <<fwdCurrent, created, kept>>
  /\ UNCHANGED <<switch, lease, fwdEvents, admin, meddled>>

RemoveLease ==
  /\ fwdPc = "drop" /\ Return
  /\ \/ Drop /\ UNCHANGED fwdEvents
     \/ Fault /\ UNCHANGED lease
  /\ UNCHANGED <<switch, admin, meddled>>

-----------------------------------------------------------------------------
\* The administrator, or another program, turns the switch.
Administer ==
  /\ Fault /\ switch' \in BOOLEAN /\ admin' = switch'
  /\ meddled' = (lease # "none" \/ fwdPc # "idle")
  /\ UNCHANGED <<lease, call>>

\* The process dies at any point of a call; a later call starts afresh.
Crash == Fault /\ fwdPc # "idle" /\ Return /\ UNCHANGED <<switch, lease, admin, meddled>>

FwdStep ==
  \/ ReadSwitch \/ ReadLease \/ CreateLease \/ WriteLease \/ Raise \/ CheckOn
  \/ ReadKept \/ ReleaseSwitch \/ Lower \/ CheckOff \/ RemoveLease

FwdNext ==
  \/ \E T \in SUBSET {"router", "leaf", "foreign"} : Reconcile(T)
  \/ FwdStep \/ Administer \/ Crash

FwdSpec == FwdInit /\ [][FwdNext]_fwdVars

-----------------------------------------------------------------------------
\* The switch goes back to its owner: when BlueRoute holds no lease and no call
\* runs, it stands as the host had set it, whatever failed, crashed or was
\* retried in between, unless somebody else turned it during the lease
\* (forwarding.rs:48-103; docs/P14-006-PERSISTENCE-REVIEW.md:17).
HostPolicyReturns ==
  fwdPc = "idle" /\ lease = "none" /\ ~meddled => switch = admin
=============================================================================
