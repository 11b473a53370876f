------------------------------ MODULE NmProfiles ------------------------------
(***************************************************************************)
(* networkmanager.rs (crates/blueroute-linux): the bridge, the addresses   *)
(* and the routes BlueRoute keeps in NetworkManager, for one interface.    *)
(*                                                                         *)
(* Every operation is a chain of D-Bus calls, so that another operation,   *)
(* the user or NetworkManager may act between any two: it looks for the    *)
(* profile it owns, may create it, writes back a copy it changed, has the  *)
(* device activate or reapply it, and waits until it reads its effect.     *)
(***************************************************************************)
EXTENDS Naturals, FiniteSets, Functions, TLC

CONSTANTS
  NmCallers,     \* tasks that use the backend
  NmOps,         \* the operations they ask for: [op, owner, entry]
  MaxNmFaults    \* bounds failed calls and what others do to NetworkManager

VARIABLES
  profiles,      \* <<owner, kind>> -> the addresses and routes of the profile
  device,        \* the interface's device: its kind, active profile and what is applied
  nmCalls,       \* caller -> its operation
  nmAck,         \* the operation that just succeeded (history)
  steady,        \* the calls since whose begin the same profile has been active (history)
  nmFaults

nmVars == <<profiles, device, nmCalls, nmAck, steady, nmFaults>>

None == <<"none", "none">>
Foreign == <<"foreign", "bridge">>      \* a profile without BlueRoute's owner key
Empty == [addrs |-> {}, routes |-> {}]
NoDevice == [kind |-> "none", active |-> None, applied |-> Empty]
NoAck == [op |-> "none"]

\* key: the profile; copy: the settings to write; seen: the active connection
\* read; shared: another call of the same owner was under way, or the user
\* edited its profile, in the meantime (history).
IdleNm == [at |-> "idle", op |-> [op |-> "none", owner |-> "none", entry |-> <<>>], key |-> None,
           copy |-> Empty, seen |-> None, shared |-> FALSE]

NmInit ==
  /\ profiles = <<>> /\ device \in {NoDevice, [NoDevice EXCEPT !.kind = "other"]}
  /\ nmCalls = [c \in NmCallers |-> IdleNm] /\ nmAck = NoAck /\ steady = {} /\ nmFaults = 0

OwnedBy(o) == {k \in DOMAIN profiles : k[1] = o}
OthersActive(o) == device.active # None /\ device.active[1] # o
Kind(dev) == IF dev.kind = "bridge" THEN "bridge" ELSE "interface"

Goes(c, call) == nmCalls' = [nmCalls EXCEPT ![c] = call] /\ nmAck' = NoAck
Returns(c, ok) ==
  /\ nmCalls' = [nmCalls EXCEPT ![c] = IdleNm]
  /\ nmAck' = IF ok THEN [op |-> nmCalls[c].op.op, call |-> nmCalls[c]] ELSE NoAck
NmSame == UNCHANGED <<profiles, device, nmFaults>>

NmBegin(c, op) ==
  /\ nmCalls[c].at = "idle"
  /\ LET rivals == {d \in NmCallers : nmCalls[d].at # "idle" /\ nmCalls[d].op.owner = op.owner} IN
     nmCalls' = [d \in NmCallers |->
       IF d = c THEN [IdleNm EXCEPT !.at = "find", !.op = op, !.shared = rivals # {}]
       ELSE IF d \in rivals THEN [nmCalls[d] EXCEPT !.shared = TRUE] ELSE nmCalls[d]]
  /\ nmAck' = NoAck /\ NmSame

(* ------------------------------ settings ------------------------------- *)

\* route_data_entries and route_key_from_entry: an entry with attributes that
\* encode_route_entry never writes, such as the user may add, is an error, and
\* so is every read of the routes it is among.
OddRoute == <<"odd">>
RoutesReadable(settings) == OddRoute \notin settings.routes

\* A route replaces the others to its destination.
SetRoutePresent(settings, r) ==
  [settings EXCEPT !.routes = {q \in @ : q[1] # r[1]} \cup {r}]

\* The copy of the settings with the operation's change made to it; a removal
\* wants the exact entry.
Changed(settings, op) ==
  CASE op.op = "addr" -> [settings EXCEPT !.addrs = @ \cup {op.entry}]
    [] op.op = "unaddr" -> [settings EXCEPT !.addrs = @ \ {op.entry}]
    [] op.op = "route" -> SetRoutePresent(settings, op.entry)
    [] op.op = "unroute" -> [settings EXCEPT !.routes = @ \ {op.entry}]

\* Routes need a family configured manually: set_address_prefixes makes it
\* so as long as there is an address.
Manual(settings) == settings.addrs # {}

(* ----------------------------- operations ------------------------------ *)

\* Where each operation goes with the one profile it owns.
EnsureBridge(c, k) ==
  IF k[2] = "bridge" THEN Goes(c, [nmCalls[c] EXCEPT !.at = "activate", !.key = k]) ELSE Returns(c, FALSE)

EnsureAddress(c, k) == Goes(c, [nmCalls[c] EXCEPT !.at = "reread", !.key = k])

EnsureRoute(c, k) ==
  LET copy == Changed(profiles[k], nmCalls[c].op) IN
  IF Manual(profiles[k]) /\ RoutesReadable(profiles[k])
  THEN Goes(c, [nmCalls[c] EXCEPT !.at = IF copy # profiles[k] THEN "update" ELSE "activate", !.key = k, !.copy = copy])
  ELSE Returns(c, FALSE)

RemoveEntry(c, k) ==
  LET copy == Changed(profiles[k], nmCalls[c].op) IN
  IF copy # profiles[k] THEN Goes(c, [nmCalls[c] EXCEPT !.at = "update", !.key = k, !.copy = copy])
  ELSE Returns(c, TRUE)

RemoveAddress(c, k) == RemoveEntry(c, k)

RemoveRoute(c, k) == IF RoutesReadable(profiles[k]) THEN RemoveEntry(c, k) ELSE Returns(c, FALSE)

RemoveOwnedInterface(c, k) == Goes(c, [nmCalls[c] EXCEPT !.at = "checkActive", !.key = k])

WithProfile(c, k) ==
  LET op == nmCalls[c].op.op IN
  \/ op = "bridge" /\ EnsureBridge(c, k)
  \/ op = "addr" /\ EnsureAddress(c, k)
  \/ op = "route" /\ EnsureRoute(c, k)
  \/ op = "unaddr" /\ RemoveAddress(c, k)
  \/ op = "unroute" /\ RemoveRoute(c, k)
  \/ op = "remove" /\ RemoveOwnedInterface(c, k)

WithoutProfile(c) ==
  LET op == nmCalls[c].op.op IN
  \/ op = "bridge" /\ Goes(c, [nmCalls[c] EXCEPT !.at = "claim"])
  \/ op = "addr" /\ Goes(c, [nmCalls[c] EXCEPT !.at = "device"])
  \/ op \in {"route", "unaddr", "unroute", "remove"} /\ Returns(c, op # "route")

\* Mutant of Find: a bridge looks only for bridge profiles.
FindSameKind(c) ==
  /\ nmCalls[c].at = "find"
  /\ LET mine == {k \in OwnedBy(nmCalls[c].op.owner) : nmCalls[c].op.op = "bridge" => k[2] = "bridge"} IN
     CASE mine = {} -> WithoutProfile(c)
       [] Cardinality(mine) = 1 -> \E k \in mine : WithProfile(c, k)
       [] OTHER -> Returns(c, FALSE)
  /\ NmSame

\* matching_profiles and exactly_one_owned_profile.
Find(c) ==
  /\ nmCalls[c].at = "find"
  /\ LET mine == OwnedBy(nmCalls[c].op.owner) IN
     CASE mine = {} -> WithoutProfile(c)
       [] Cardinality(mine) = 1 -> \E k \in mine : WithProfile(c, k)
       [] OTHER -> Returns(c, FALSE)
  /\ NmSame

\* reject_foreign_interface_claim: nobody else's profile names the interface,
\* and then its device is not active.
Claim(c) ==
  /\ nmCalls[c].at = "claim"
  /\ IF DOMAIN profiles \subseteq OwnedBy(nmCalls[c].op.owner)
     THEN Goes(c, [nmCalls[c] EXCEPT !.at = "claimDevice"]) ELSE Returns(c, FALSE)
  /\ NmSame
ClaimDevice(c) ==
  /\ nmCalls[c].at = "claimDevice"
  /\ IF device.active = None
     THEN Goes(c, [nmCalls[c] EXCEPT !.at = "add", !.key = <<nmCalls[c].op.owner, "bridge">>]) ELSE Returns(c, FALSE)
  /\ NmSame

\* ensure_address without a profile: the device must exist and carry no
\* connection of anybody else (reject_foreign_active_connection).
LookAtDevice(c) ==
  /\ nmCalls[c].at = "device"
  /\ LET o == nmCalls[c].op.owner IN
     IF device.kind # "none" /\ ~OthersActive(o)
     THEN Goes(c, [nmCalls[c] EXCEPT !.at = "add", !.key = <<o, Kind(device)>>]) ELSE Returns(c, FALSE)
  /\ NmSame

\* add_owned_profile: the UUID follows from owner, interface and kind, so
\* NetworkManager refuses a second profile of the same kind.
AddProfile(c) ==
  /\ nmCalls[c].at = "add"
  /\ LET k == nmCalls[c].key IN
     IF k \in DOMAIN profiles THEN Returns(c, FALSE) /\ UNCHANGED profiles
     ELSE /\ profiles' = (k :> Empty) @@ profiles
          /\ Goes(c, [nmCalls[c] EXCEPT !.at = IF nmCalls[c].op.op = "addr" THEN "reread" ELSE "activate"])
  /\ UNCHANGED <<device, nmFaults>>

\* ensure_address reads the settings again before it changes them.
Reread(c) ==
  /\ nmCalls[c].at = "reread"
  /\ LET k == nmCalls[c].key IN
     IF k \notin DOMAIN profiles THEN Returns(c, FALSE)
     ELSE LET copy == Changed(profiles[k], nmCalls[c].op) IN
          Goes(c, [nmCalls[c] EXCEPT !.copy = copy, !.at = IF copy # profiles[k] THEN "update" ELSE "activate"])
  /\ NmSame

\* update_profile writes the whole copy.
UpdateProfile(c) ==
  /\ nmCalls[c].at = "update"
  /\ LET k == nmCalls[c].key IN
     IF k \notin DOMAIN profiles THEN Returns(c, FALSE) /\ UNCHANGED profiles
     ELSE /\ profiles' = [profiles EXCEPT ![k] = nmCalls[c].copy]
          /\ Goes(c, [nmCalls[c] EXCEPT !.at = IF nmCalls[c].op.op \in {"addr", "route"} THEN "activate" ELSE "reapply"])
  /\ UNCHANGED <<device, nmFaults>>

\* Mutant of ActivateCheck: whatever is active is replaced.
Activated(c) == [nmCalls[c] EXCEPT !.at = IF nmCalls[c].op.op = "bridge" THEN "wait" ELSE "reapply"]
ActivateCheckReplaces(c) ==
  /\ nmCalls[c].at = "activate"
  /\ IF device.active = nmCalls[c].key THEN Goes(c, Activated(c)) ELSE Goes(c, [nmCalls[c] EXCEPT !.at = "activateCall"])
  /\ NmSame

\* activate_profile: nothing to do when active, refused when another
\* connection is, and asked of NetworkManager otherwise.
ActivateCheck(c) ==
  /\ nmCalls[c].at = "activate"
  /\ CASE device.active = nmCalls[c].key -> Goes(c, Activated(c))
       [] device.active = None -> Goes(c, [nmCalls[c] EXCEPT !.at = "activateCall"])
       [] OTHER -> Returns(c, FALSE)
  /\ NmSame

\* NetworkManager activates a profile on a device of its kind, replacing what
\* is active there; a bridge is created when it does not exist.
CanActivate(k) == /\ k \in DOMAIN profiles
                  /\ IF k[2] = "bridge" THEN device.kind \in {"none", "bridge"} ELSE device.kind = "other"
ActivatedDevice(k) ==
  [kind |-> IF k[2] = "bridge" THEN "bridge" ELSE device.kind, active |-> k, applied |-> profiles[k]]

ActivateCall(c) ==
  /\ nmCalls[c].at = "activateCall"
  /\ IF CanActivate(nmCalls[c].key)
     THEN device' = ActivatedDevice(nmCalls[c].key) /\ Goes(c, Activated(c))
     ELSE Returns(c, FALSE) /\ UNCHANGED device
  /\ UNCHANGED <<profiles, nmFaults>>

\* Mutant of ReapplyCheck: the device is left to the next activation.
ReapplyNever(c) ==
  nmCalls[c].at = "reapply" /\ Goes(c, [nmCalls[c] EXCEPT !.at = "wait"]) /\ NmSame

\* reapply_if_active: reads the device, and asks for Reapply with the copy if
\* the profile is active on it.
ReapplyCheck(c) ==
  /\ nmCalls[c].at = "reapply"
  /\ Goes(c, [nmCalls[c] EXCEPT !.at = IF device.active = nmCalls[c].key THEN "reapplyCall" ELSE "wait"])
  /\ NmSame
ReapplyCall(c) ==
  /\ nmCalls[c].at = "reapplyCall"
  /\ IF device.active = nmCalls[c].key
     THEN device' = [device EXCEPT !.applied = nmCalls[c].copy] /\ Goes(c, [nmCalls[c] EXCEPT !.at = "wait"])
     ELSE Returns(c, FALSE) /\ UNCHANGED device
  /\ UNCHANGED <<profiles, nmFaults>>

\* remove_owned_interface: the profile is active on the device; its active
\* connection is read again and deactivated, whatever it now is; the profile
\* is deleted.
CheckActive(c) ==
  /\ nmCalls[c].at = "checkActive"
  /\ Goes(c, [nmCalls[c] EXCEPT !.at = IF device.active = nmCalls[c].key THEN "readActive" ELSE "delete"])
  /\ NmSame
ReadActive(c) ==
  /\ nmCalls[c].at = "readActive"
  /\ IF device.kind = "none" THEN Returns(c, FALSE)
     ELSE Goes(c, [nmCalls[c] EXCEPT !.at = IF device.active = None THEN "delete" ELSE "deactivate", !.seen = device.active])
  /\ NmSame

\* NetworkManager: a bridge goes with its connection.
Deactivated == IF device.active[2] = "bridge" THEN NoDevice ELSE [device EXCEPT !.active = None, !.applied = Empty]
DeactivateCall(c) ==
  /\ nmCalls[c].at = "deactivate"
  /\ IF device.active = nmCalls[c].seen
     THEN device' = Deactivated /\ Goes(c, [nmCalls[c] EXCEPT !.at = "delete"])
     ELSE Returns(c, FALSE) /\ UNCHANGED device
  /\ UNCHANGED <<profiles, nmFaults>>
DeleteProfile(c) ==
  /\ nmCalls[c].at = "delete"
  /\ LET k == nmCalls[c].key IN
     IF k \notin DOMAIN profiles THEN Returns(c, FALSE) /\ UNCHANGED <<profiles, device>>
     ELSE /\ profiles' = Restrict(profiles, DOMAIN profiles \ {k})
          /\ device' = IF device.active = k THEN Deactivated ELSE device
          /\ Goes(c, [nmCalls[c] EXCEPT !.at = "wait"])
  /\ UNCHANGED nmFaults

\* owned_addresses and owned_routes read every profile of BlueRoute's; one
\* odd route in any of them fails the read.
RecordedAddresses(o) == UNION {profiles[k].addrs : k \in OwnedBy(o)}
RecordedRoutes(o) == UNION {profiles[k].routes : k \in OwnedBy(o)}
AllReadable == \A k \in DOMAIN profiles \ {Foreign} : RoutesReadable(profiles[k])

\* The wait_for_... loops, at the look that ends them: the effect is read, or
\* the deadline has passed.
ProfileVisible(call) ==
  IF call.op.op = "bridge" THEN device.active = call.key /\ call.key \in DOMAIN profiles
  ELSE call.key \notin DOMAIN profiles
AddressVisible(call) == (call.op.op = "addr") <=> (call.op.entry \in RecordedAddresses(call.op.owner))
RouteVisible(call) == AllReadable /\ ((call.op.op = "route") <=> (call.op.entry \in RecordedRoutes(call.op.owner)))

WaitVisible(c) ==
  /\ nmCalls[c].at = "wait"
  /\ LET op == nmCalls[c].op.op IN
     \/ op \in {"bridge", "remove"} /\ Returns(c, ProfileVisible(nmCalls[c]))
     \/ op \in {"addr", "unaddr"} /\ Returns(c, AddressVisible(nmCalls[c]))
     \/ op \in {"route", "unroute"} /\ Returns(c, RouteVisible(nmCalls[c]))
  /\ NmSame

NmStep(c) ==
  \/ Find(c) \/ Claim(c) \/ ClaimDevice(c) \/ LookAtDevice(c) \/ AddProfile(c) \/ Reread(c)
  \/ UpdateProfile(c) \/ ActivateCheck(c) \/ ActivateCall(c) \/ ReapplyCheck(c) \/ ReapplyCall(c)
  \/ CheckActive(c) \/ ReadActive(c) \/ DeactivateCall(c) \/ DeleteProfile(c) \/ WaitVisible(c)

(* ------------------- NetworkManager, the user, faults ------------------ *)

NmFault == nmFaults < MaxNmFaults /\ nmFaults' = nmFaults + 1

\* A D-Bus call fails and the operation returns its error.
CallFails(c) == nmCalls[c].at # "idle" /\ NmFault /\ Returns(c, FALSE) /\ UNCHANGED <<profiles, device>>

\* The user gives one of BlueRoute's profiles a route of their own making.
UserRoute ==
  /\ NmFault /\ nmAck' = NoAck /\ UNCHANGED device
  /\ \E k \in DOMAIN profiles \ {Foreign} :
       /\ RoutesReadable(profiles[k])
       /\ profiles' = [profiles EXCEPT ![k].routes = @ \cup {OddRoute}]
       /\ nmCalls' = [c \in NmCallers |-> IF nmCalls[c].op.owner = k[1] THEN [nmCalls[c] EXCEPT !.shared = TRUE]
                                          ELSE nmCalls[c]]

\* The user adds a profile for the interface, deletes or activates it.
UserProfile ==
  /\ NmFault /\ nmAck' = NoAck /\ UNCHANGED nmCalls
  /\ \/ Foreign \notin DOMAIN profiles /\ profiles' = (Foreign :> Empty) @@ profiles /\ UNCHANGED device
     \/ Foreign \in DOMAIN profiles /\ profiles' = Restrict(profiles, DOMAIN profiles \ {Foreign})
        /\ device' = IF device.active = Foreign THEN Deactivated ELSE device
     \/ CanActivate(Foreign) /\ device.active # Foreign /\ device' = ActivatedDevice(Foreign) /\ UNCHANGED profiles

\* The interface disappears or comes up, like the one of a PAN link.
DeviceMoves ==
  /\ NmFault /\ nmAck' = NoAck /\ UNCHANGED <<profiles, nmCalls>>
  /\ device' = IF device.kind = "none" THEN [NoDevice EXCEPT !.kind = "other"] ELSE NoDevice

NmNext ==
  /\ \/ \E c \in NmCallers : NmStep(c) \/ CallFails(c)
     \/ \E c \in NmCallers, op \in NmOps : NmBegin(c, op)
     \/ UserRoute \/ UserProfile \/ DeviceMoves
  /\ steady' = {c \in NmCallers : /\ nmCalls'[c].at # "idle"
                                  /\ nmCalls[c].at = "idle" \/ (c \in steady /\ device'.active = device.active)}

NmSpec == NmInit /\ [][NmNext]_nmVars

(* ----------------------------- properties ------------------------------ *)

\* A connection of the user or of another network that has been active since
\* a call began is still active after every step of that call: what
\* activate_profile, reject_foreign_active_connection and the check before
\* deactivate_device_connection refuse to replace or to take down.
OthersKeepTheInterface ==
  \A c \in steady : nmCalls'[c] # nmCalls[c] /\ OthersActive(nmCalls[c].op.owner)
    => device'.active = device.active

\* ensure_address and ensure_route that ran alone for their network and
\* succeeded left the entry in the profile, and whenever that profile is
\* active the device carries exactly what the profile says, whatever earlier
\* calls failed half-way; ensure_bridge left its profile active.
AcknowledgedIsInForce ==
  nmAck.op \in {"bridge", "addr", "route"} /\ ~nmAck.call.shared =>
    LET k == nmAck.call.key IN
    /\ k \in DOMAIN profiles
    /\ nmAck.op = "bridge" => device.active = k
    /\ nmAck.op = "addr" => nmAck.call.op.entry \in profiles[k].addrs
    /\ nmAck.op = "route" => nmAck.call.op.entry \in profiles[k].routes
    /\ nmAck.op # "bridge" /\ device.active = k => device.applied = profiles[k]

\* A profile is only ever added by a call that ran alone when its network has
\* none for the interface, of either kind: with two, exactly_one_owned_profile
\* fails every later call, the removal included.
OneProfilePerNetwork ==
  \A c \in NmCallers : nmCalls[c].at = "add" /\ ~nmCalls[c].shared /\ profiles' # profiles
    => OwnedBy(nmCalls[c].op.owner) = {}

\* remove_address and remove_route that ran alone and succeeded leave the
\* device without the entry as far as the network's profile is active on it.
RemovalIsApplied ==
  nmAck.op \in {"unaddr", "unroute"} /\ ~nmAck.call.shared =>
    \A k \in OwnedBy(nmAck.call.op.owner) : device.active = k =>
      nmAck.call.op.entry \notin device.applied.addrs \cup device.applied.routes
=============================================================================
