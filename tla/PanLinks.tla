------------------------------- MODULE PanLinks -------------------------------
(***************************************************************************)
(* pan.rs (crates/blueroute-linux), both ends of a PAN link.               *)
(*                                                                         *)
(* The NAP server of one Bluetooth adapter: start_nap and stop_nap keep a  *)
(* local ownership entry (NapControl) in step with what the running BlueZ  *)
(* instance has registered, and a subscription polls the bridge for        *)
(* attached clients. Every await is a step boundary: several calls         *)
(* overlap, BlueZ restarts under a new unique bus name, another program    *)
(* registers a server of its own, and clients come and go between any two  *)
(* steps.                                                                  *)
(*                                                                         *)
(* The PANU side: connect_panu, disconnect_panu, disconnect_matching_panu  *)
(* and the loss subscription. BlueZ reports the name a BNEP device was     *)
(* created with; udev renames the device behind its back, and a freed name *)
(* is used again for the next device. An attachment is therefore resolved  *)
(* from several reads (the link's properties, then the devices that carry  *)
(* the adapter's address), and links change between any two of them.       *)
(***************************************************************************)
EXTENDS Naturals, Sequences, FiniteSets, SequencesExt, Functions, TLC

-----------------------------------------------------------------------------
\* The NAP server.

CONSTANTS
  Callers,      \* calls of start_nap or stop_nap in flight
  Bridges,      \* bridges a call may name
  Clients,      \* BNEP interfaces BlueZ may add to a bridge
  MaxOwner,     \* BlueZ instances, bounds its restarts
  MaxNapEvents  \* bounds failures, foreign registrations and client changes

VARIABLES
  bluez,      \* the unique bus name behind org.bluez, 0 when it has no owner
  instances,  \* instances started so far
  powered,    \* the adapter's Powered property
  server,     \* what the running instance has registered: who, on which bridge
  entry,      \* NapControl::states for this adapter
  call,       \* the calls: where each is, and the registration it works on
  members,    \* the BNEP interfaces in each bridge
  sub,        \* BluezNapSubscription
  view,       \* what the subscription's events told its consumer (history)
  straddled,  \* BlueZ restarted while a call was in flight (history)
  napEvents

napVars == <<bluez, instances, powered, server, entry, call, members, sub, view, straddled, napEvents>>

NoServer == [by |-> "nobody", bridge |-> "none"]
Registration(bridge, owner) == [bridge |-> bridge, owner |-> owner]
NoReg == Registration("none", 0)
Absent == [phase |-> "absent", reg |-> NoReg]
Entry(phase, reg) == [phase |-> phase, reg |-> reg]
Idle == [pc |-> "idle", reg |-> NoReg]
Wired == "eth0"   \* a bridge member that is no Bluetooth device
NoSub == [state |-> "none", reg |-> NoReg, clients |-> {}, pending |-> <<>>]

NapFault == napEvents < MaxNapEvents /\ napEvents' = napEvents + 1
At(c, label) == call[c].pc = label
Step(c, label, reg) == call' = [call EXCEPT ![c] = [pc |-> label, reg |-> reg]]
Return(c) == Step(c, "idle", NoReg)
InFlight == \E c \in Callers : call[c].pc # "idle"
BluezSame == UNCHANGED <<bluez, instances, powered, members, sub, view, straddled>>

EnsureAdapterPowered == bluez # 0 /\ powered

\* start_nap: the adapter is powered, or the call fails before it has
\* touched anything.
StartNap(c, b) ==
  /\ At(c, "idle") /\ EnsureAdapterPowered
  /\ Step(c, "owner", Registration(b, 0))
  /\ BluezSame /\ UNCHANGED <<server, entry, napEvents>>

\* current_bluez_owner: the unique name behind org.bluez right now.
CurrentOwner(c) ==
  /\ At(c, "owner")
  /\ IF bluez = 0 THEN Return(c) ELSE Step(c, "begin", Registration(call[c].reg.bridge, bluez))
  /\ BluezSame /\ UNCHANGED <<server, entry, napEvents>>

\* Only an entry for the same bridge would stop a second registration.
InUseOnSameBridge(reg) == entry.phase # "absent" /\ entry.reg = reg
\* The entry is of the same BlueZ instance: the call is already satisfied
\* (active on the same bridge) or refused (another bridge, or in progress).
InUse(reg) == entry.phase # "absent" /\ entry.reg.owner = reg.owner

\* An entry of another BlueZ instance is stale and is replaced, whatever its
\* phase.
BeginNapRegistration(c) ==
  LET reg == call[c].reg IN
  /\ At(c, "begin")
  /\ IF InUse(reg)
       THEN Return(c) /\ UNCHANGED entry
       ELSE Step(c, "register", reg) /\ entry' = Entry("registering", reg)
  /\ BluezSame /\ UNCHANGED <<server, napEvents>>

\* A delayed call redirected to whichever instance owns org.bluez now.
TargetsAnyOwner(reg) == bluez # 0
\* network_server_proxy: the call goes to the instance the entry names, and
\* fails with ServiceUnknown when that instance is gone.
Targets(reg) == bluez = reg.owner

\* The refusals nap_register_error names: the instance is gone, a server is
\* registered already, the adapter is not ready. Any other is a NapFault.
RegisterIsRefused(reg) == ~Targets(reg) \/ server # NoServer \/ ~powered

\* Register: BlueZ takes one server per adapter, and may refuse.
RegisterCall(c) ==
  /\ At(c, "register")
  /\ \/ /\ Targets(call[c].reg) /\ server = NoServer
        /\ server' = [by |-> "us", bridge |-> call[c].reg.bridge]
        /\ Step(c, "activate", call[c].reg) /\ UNCHANGED napEvents
     \/ /\ RegisterIsRefused(call[c].reg)
        /\ Step(c, "clear", call[c].reg) /\ UNCHANGED <<server, napEvents>>
     \/ NapFault /\ Step(c, "clear", call[c].reg) /\ UNCHANGED server
  /\ BluezSame /\ UNCHANGED entry

ActivateNapRegistration(c) ==
  LET reg == call[c].reg IN
  /\ At(c, "activate")
  /\ IF entry = Entry("registering", reg)
       THEN entry' = Entry("active", reg) /\ Return(c)
       ELSE Step(c, "undo", reg) /\ UNCHANGED entry
  /\ BluezSame /\ UNCHANGED <<server, napEvents>>

UnregisterIsAlreadyAbsent(reg) == ~Targets(reg) \/ server = NoServer

\* Unregister takes down the adapter's server, whoever registered it.
UnregisterCall(c) ==
  LET next == IF At(c, "undo") THEN "clear" ELSE "restore" IN
  /\ At(c, "undo") \/ At(c, "unregister")
  /\ \/ /\ Targets(call[c].reg) /\ server # NoServer /\ server' = NoServer
        /\ Step(c, "clear", call[c].reg) /\ UNCHANGED napEvents
     \/ /\ UnregisterIsAlreadyAbsent(call[c].reg)
        /\ Step(c, "clear", call[c].reg) /\ UNCHANGED <<server, napEvents>>
     \/ NapFault /\ Step(c, next, call[c].reg) /\ UNCHANGED server
  /\ BluezSame /\ UNCHANGED entry

ClearNapRegistration(c) ==
  /\ At(c, "clear") /\ entry' = Absent /\ Return(c)
  /\ BluezSame /\ UNCHANGED <<server, napEvents>>

RestoreNapRegistration(c) ==
  /\ At(c, "restore") /\ entry' = Entry("active", call[c].reg) /\ Return(c)
  /\ BluezSame /\ UNCHANGED <<server, napEvents>>

\* stop_nap asks who owns org.bluez before it looks at the entry.
StopNap(c) ==
  /\ At(c, "idle")
  /\ Step(c, "stop", Registration("none", bluez))
  /\ BluezSame /\ UNCHANGED <<server, entry, napEvents>>

\* Another call is in progress: an error. The entry belongs to an instance
\* that is gone: forget it. Otherwise claim it and unregister.
BeginNapStop(c) ==
  /\ At(c, "stop")
  /\ CASE entry.phase # "active" -> Return(c) /\ UNCHANGED entry
       [] entry.phase = "active" /\ entry.reg.owner # call[c].reg.owner ->
            entry' = Absent /\ Return(c)
       [] OTHER -> entry' = Entry("stopping", entry.reg) /\ Step(c, "unregister", entry.reg)
  /\ BluezSame /\ UNCHANGED <<server, napEvents>>

\* nap_registration_is_active, and the owner is still the one subscribed to.
RegistrationIsCurrent(reg) == bluez = reg.owner /\ entry = Entry("active", reg)

\* nap_client_interfaces: of everything in the bridge, the Bluetooth devices.
NapClientInterfaces(b) == {i \in members[b] : i # Wired}

\* queue_nap_client_changes: detachments first, each set in name order.
QueueChanges(old, new, pending) ==
  pending \o SetToSeq({<<"detached", i>> : i \in old \ new})
          \o SetToSeq({<<"attached", i>> : i \in new \ old})

\* Clients present at subscription would never be reported.
SubscribeSilently ==
  /\ sub.state = "none" /\ bluez # 0 /\ RegistrationIsCurrent(entry.reg)
  /\ sub' = [state |-> "live", reg |-> entry.reg, clients |-> NapClientInterfaces(entry.reg.bridge), pending |-> <<>>]
  /\ UNCHANGED <<bluez, instances, powered, server, entry, call, members, view, straddled, napEvents>>

\* subscribe_nap_events: the first snapshot is queued as attachments.
Subscribe ==
  /\ sub.state = "none" /\ bluez # 0 /\ RegistrationIsCurrent(entry.reg)
  /\ LET now == NapClientInterfaces(entry.reg.bridge) IN
       sub' = [state |-> "live", reg |-> entry.reg, clients |-> now,
               pending |-> QueueChanges({}, now, <<>>)]
  /\ UNCHANGED <<bluez, instances, powered, server, entry, call, members, view, straddled, napEvents>>

\* next_event: end with the registration, else deliver what is queued, else
\* poll. A poll that fails leaves the subscription as it was.
NextEvent ==
  /\ sub.state = "live"
  /\ IF ~RegistrationIsCurrent(sub.reg)
       THEN sub' = [sub EXCEPT !.state = "ended", !.pending = <<>>] /\ UNCHANGED view
       ELSE LET now == NapClientInterfaces(sub.reg.bridge)
                queue == IF sub.pending # <<>> THEN sub.pending
                         ELSE QueueChanges(sub.clients, now, <<>>)
            IN /\ queue # <<>>
               /\ sub' = [sub EXCEPT !.pending = Tail(queue),
                                     !.clients = IF sub.pending # <<>> THEN @ ELSE now]
               /\ view' = IF Head(queue)[1] = "attached" THEN view \cup {Head(queue)[2]}
                                                         ELSE view \ {Head(queue)[2]}
  /\ UNCHANGED <<bluez, instances, powered, server, entry, call, members, straddled, napEvents>>

\* The consumer drops a subscription that has ended.
Unsubscribe ==
  /\ sub.state = "ended" /\ sub' = NoSub /\ view' = {}
  /\ UNCHANGED <<bluez, instances, powered, server, entry, call, members, straddled, napEvents>>

\* BlueZ dies with everything it held, and comes back under another name.
BluezStops ==
  /\ bluez # 0 /\ instances < MaxOwner /\ bluez' = 0 /\ server' = NoServer
  /\ members' = [b \in Bridges |-> {Wired}]
  /\ straddled' = InFlight
  /\ UNCHANGED <<instances, powered, entry, call, sub, view, napEvents>>
BluezStarts ==
  /\ bluez = 0 /\ bluez' = instances + 1 /\ instances' = instances + 1
  /\ straddled' = (straddled \/ InFlight)
  /\ UNCHANGED <<powered, server, entry, call, members, sub, view, napEvents>>

\* Another program's server, and the clients of ours.
OtherRegisters ==
  /\ NapFault /\ bluez # 0 /\ server = NoServer
  /\ server' = [by |-> "other", bridge |-> "none"]
  /\ UNCHANGED <<bluez, instances, powered, entry, call, members, sub, view, straddled>>
PowerToggles ==
  /\ NapFault /\ powered' = ~powered
  /\ UNCHANGED <<bluez, instances, server, entry, call, members, sub, view, straddled>>
ClientMoves ==
  /\ NapFault
  /\ \E i \in Clients, b \in Bridges :
       /\ i \notin members[b] => server = [by |-> "us", bridge |-> b]
       /\ members' = [members EXCEPT ![b] = IF i \in @ THEN @ \ {i} ELSE @ \cup {i}]
  /\ UNCHANGED <<bluez, instances, powered, server, entry, call, sub, view, straddled>>

NapInit ==
  /\ bluez = 1 /\ instances = 1 /\ powered = TRUE /\ server = NoServer /\ entry = Absent
  /\ call = [c \in Callers |-> Idle] /\ members = [b \in Bridges |-> {Wired}]
  /\ sub = NoSub /\ view = {} /\ straddled = FALSE /\ napEvents = 0

CallStep(c) ==
  \/ CurrentOwner(c) \/ BeginNapRegistration(c) \/ RegisterCall(c) \/ ActivateNapRegistration(c) \/ UnregisterCall(c)
  \/ ClearNapRegistration(c) \/ RestoreNapRegistration(c) \/ BeginNapStop(c)

NapNext ==
  \/ \E c \in Callers : CallStep(c) \/ StopNap(c) \/ \E b \in Bridges : StartNap(c, b)
  \/ Subscribe \/ NextEvent \/ Unsubscribe
  \/ BluezStops \/ BluezStarts \/ OtherRegisters \/ PowerToggles \/ ClientMoves

NapSpec == NapInit /\ [][NapNext]_napVars

(* ----------------------------- properties ------------------------------ *)

\* NapControl's entry says exactly what BlueZ holds for this process once no
\* call is in flight: our server is recorded, on its bridge, and a recorded
\* one exists. Only a BlueZ restart in the middle of a call can break it: the
\* late cleanup then clears or restores the entry of the call that came after.
OwnershipIsExact ==
  ~InFlight /\ ~straddled =>
    /\ server.by = "us" => entry = Entry("active", Registration(server.bridge, bluez))
    /\ bluez # 0 /\ entry.phase # "absent" /\ entry.reg.owner = bluez =>
         server = [by |-> "us", bridge |-> entry.reg.bridge]

\* Whatever overlaps and whenever BlueZ restarts, no call of this process
\* takes down a server that another program registered.
OthersKeepTheirServer ==
  server.by = "other" /\ server' # server => bluez' = 0

\* The consumer of next_event knows the clients that are really in the bridge,
\* those that came before the subscription included.
ClientsKnown == sub.state = "live" => view = members[sub.reg.bridge] \ {Wired}

\* No client is reported attached twice, or detached when it was not there.
EventsAreChanges == NextEvent /\ sub'.state = "live" => view' # view

-----------------------------------------------------------------------------
\* The PANU side.

CONSTANTS
  Peer, OtherPeer,   \* the peer the calls are about, another of this adapter
  KernelNames,       \* names the kernel gives a new device, in order
  UdevNames,         \* names udev gives
  MaxPanEvents       \* bounds link changes, renames and failing calls

VARIABLES
  links,     \* BlueZ Network1: peer -> the device name it reported, NoName if down
  devices,   \* /sys/class/net entries with the adapter's address: name -> peer
  op,        \* the call in progress: what, where, what it has read so far
  held,      \* the interface of the attachment connect_panu returned last
  disturbed, \* what changed during the call: nothing, the name of the peer's own
             \* device, or more than that (history)
  found,     \* the last resolution: the name, and what it stood for (history)
  watch,     \* BluezPanuSubscription
  signals,   \* relevant BlueZ signals it has not read yet
  panEvents

panVars == <<links, devices, op, held, disturbed, found, watch, signals, panEvents>>

NoName == "none"
Peers == {Peer, OtherPeer}
Up(p) == links[p] # NoName
NameOf(p) == CHOOSE n \in DOMAIN devices : devices[n] = p
NoOp == [what |-> "none", pc |-> "idle", reported |-> NoName, before |-> {},
         dialed |-> FALSE, fresh |-> FALSE, matching |-> FALSE]
NoFind == [name |-> NoName, mine |-> TRUE, calm |-> TRUE, reused |-> FALSE]
PanFault == panEvents < MaxPanEvents /\ panEvents' = panEvents + 1
FreeName(names) == CHOOSE n \in names \ DOMAIN devices : TRUE

Goto(label) == op' = [op EXCEPT !.pc = label]
Finish == op' = NoOp

\* panu_attachment makes only what validate_panu_attachment accepts: the PANU
\* role, a peer and a name.
HasAttachment == held # NoName

\* The errors of BlueZ that say there is no link, or no Network1 at all.
LinkAbsent == ~Up(Peer)

\* Whatever error Connect returns, AlreadyConnected and InProgress included, the
\* link is read once more: only its kind differs when there is none.
ConnectRefused == Goto("connected")
LinkSame == UNCHANGED <<links, devices, watch, signals>>

\* panu_loss_trigger: Network1 or Device1 of the peer changed or was removed.
\* Every one makes the subscription read the link anew, so two unread ones
\* stand for any number.
Signal(p) == signals' = IF p = Peer /\ watch.stream /\ signals < 2 THEN signals + 1 ELSE signals

\* Names are guessed when the reported one is gone.
SelectGuess(reported, current, before, fresh) ==
  IF reported \in current THEN reported ELSE IF current = {} THEN NoName ELSE CHOOSE n \in current : TRUE

\* select_panu_interface_name: the reported name if a device has it; else the
\* only device that is new since before the connection, or for a link that
\* was already there the only device at all. Anything else is an error.
Select(reported, current, before, fresh) ==
  LET candidates == IF fresh THEN current \ before ELSE current IN
  IF reported \in current THEN reported
  ELSE IF Cardinality(candidates) = 1 THEN CHOOSE n \in candidates : TRUE
  ELSE NoName

\* One call at a time; disconnect_matching_panu is given the attachment that
\* connect_panu returned.
Start(what) ==
  /\ op = NoOp /\ what = "disconnect_matching" => HasAttachment
  /\ op' = [NoOp EXCEPT !.what = what, !.pc = "connected"] /\ disturbed' = "no"
  /\ LinkSame /\ UNCHANGED <<held, found, panEvents>>

\* What each call does with the attachment current_panu_attachment found.
ShouldDisconnectAny(name) == TRUE
\* should_disconnect_matching_panu: a replacement link is refused.
ShouldDisconnect(name) == name = held

Observed(name) ==
  CASE op.what = "connect" -> held' = name /\ Finish
    [] op.what = "disconnect" -> Goto("disconnect") /\ UNCHANGED held
    [] op.what = "disconnect_matching" ->
         /\ IF ShouldDisconnect(name)
              THEN op' = [op EXCEPT !.what = "disconnect", !.pc = "connected", !.matching = TRUE]
              ELSE Finish
         /\ UNCHANGED held

\* No link: connect goes on to dial, and the disconnects are done.
Nothing == IF op.what = "connect" /\ ~op.dialed THEN Goto("snapshot") ELSE Finish

\* current_panu_attachment, read by read: Connected, Interface, the devices.
ReadConnected ==
  /\ op.pc = "connected"
  /\ IF LinkAbsent THEN Nothing ELSE Goto("interface")
  /\ LinkSame /\ UNCHANGED <<held, disturbed, found, panEvents>>
ReadInterface ==
  /\ op.pc = "interface"
  /\ IF Up(Peer) THEN op' = [op EXCEPT !.pc = "devices", !.reported = links[Peer]] ELSE Finish
  /\ LinkSame /\ UNCHANGED <<held, disturbed, found, panEvents>>
Resolve ==
  LET name == Select(op.reported, DOMAIN devices, op.before, op.fresh) IN
  /\ op.pc = "devices"
  /\ IF name = NoName THEN Finish /\ UNCHANGED <<held, found>>
     ELSE /\ Observed(name)
          /\ found' = [name |-> name, mine |-> devices[name] = Peer, calm |-> disturbed # "yes",
                       reused |-> name = op.reported /\ devices[name] # Peer]
  /\ LinkSame /\ UNCHANGED <<disturbed, panEvents>>

\* kernel_interfaces_with_address before the call to Connect.
Snapshot ==
  /\ op.pc = "snapshot"
  /\ op' = [op EXCEPT !.pc = "connect", !.before = DOMAIN devices, !.dialed = TRUE]
  /\ LinkSame /\ UNCHANGED <<held, disturbed, found, panEvents>>

Creates(p, name) ==
  /\ links' = [links EXCEPT ![p] = name] /\ devices' = devices @@ (name :> p) /\ Signal(p)

\* Connect("nap") within 30 seconds: it creates the device; or it fails, and
\* a link that is there all the same is taken; or it times out and is aborted.
ConnectCall ==
  /\ op.pc = "connect"
  /\ \/ /\ ~Up(Peer) /\ KernelNames \ DOMAIN devices # {}
        /\ Creates(Peer, FreeName(KernelNames))
        /\ op' = [op EXCEPT !.pc = "devices", !.reported = FreeName(KernelNames), !.fresh = TRUE]
        /\ UNCHANGED <<panEvents, watch>>
     \/ Up(Peer) /\ ConnectRefused /\ UNCHANGED <<links, devices, signals, watch, panEvents>>
     \/ PanFault /\ (ConnectRefused \/ Goto("abort"))
        /\ UNCHANGED <<links, devices, signals, watch>>
  /\ UNCHANGED <<held, disturbed, found>>

Takes(p) ==
  /\ links' = [links EXCEPT ![p] = NoName]
  /\ devices' = Restrict(devices, {n \in DOMAIN devices : devices[n] # p}) /\ Signal(p)

\* Network1.Disconnect. A failure is no error when the link is gone.
DisconnectCall ==
  /\ op.pc \in {"disconnect", "abort"}
  /\ \/ Up(Peer) /\ Takes(Peer) /\ Finish /\ UNCHANGED panEvents
     \/ LinkAbsent /\ Finish /\ UNCHANGED <<links, devices, signals, panEvents>>
     \/ PanFault /\ Finish /\ UNCHANGED <<links, devices, signals>>
  /\ UNCHANGED <<held, disturbed, found, watch>>

(* --------------------------- loss subscription ------------------------- *)

NoWatch == [state |-> "off", stream |-> FALSE, name |-> NoName, lost |-> FALSE]

\* The snapshot is taken before the signal match is installed.
SubscribeLate ==
  /\ watch.state = "off" /\ HasAttachment
  /\ watch' = [state |-> "opening", stream |-> FALSE, name |-> held,
               lost |-> ~(Up(Peer) /\ NameOf(Peer) = held)]
  /\ UNCHANGED <<links, devices, op, held, disturbed, found, signals, panEvents>>

\* subscribe_panu_events installs the signal match first,
SubscribePanu ==
  /\ watch.state = "off" /\ HasAttachment
  /\ watch' = [state |-> "opening", stream |-> TRUE, name |-> held, lost |-> FALSE]
  /\ UNCHANGED <<links, devices, op, held, disturbed, found, signals, panEvents>>

\* then takes the snapshot (its reads as one: a change in between is signalled).
Opened ==
  /\ watch.state = "opening"
  /\ watch' = [watch EXCEPT !.state = "live", !.stream = TRUE,
                 !.lost = IF watch.stream THEN ~(Up(Peer) /\ NameOf(Peer) = watch.name) ELSE @]
  /\ UNCHANGED <<links, devices, op, held, disturbed, found, signals, panEvents>>

\* next_event: a loss already known is reported at once; every relevant
\* signal makes it read the link again. A replacement counts as a loss.
NextPanuEvent ==
  /\ watch.state = "live" /\ (watch.lost \/ signals > 0)
  /\ watch' = [watch EXCEPT !.state = IF watch.lost \/ ~(Up(Peer) /\ NameOf(Peer) = watch.name)
                                       THEN "reported" ELSE "live"]
  /\ signals' = IF watch.lost THEN signals ELSE signals - 1
  /\ UNCHANGED <<links, devices, op, held, disturbed, found, panEvents>>

DropSubscription ==
  /\ watch.state = "reported" /\ watch' = NoWatch /\ signals' = 0
  /\ UNCHANGED <<links, devices, op, held, disturbed, found, panEvents>>

(* ----------------------------- environment ----------------------------- *)

\* Links of either peer come and go without us, and udev renames a device.
LinkLost(p) ==
  /\ PanFault /\ Up(p) /\ Takes(p) /\ disturbed' = "yes" /\ UNCHANGED <<op, held, found, watch>>
LinkMade(p) ==
  /\ PanFault /\ ~Up(p) /\ KernelNames \ DOMAIN devices # {} /\ Creates(p, FreeName(KernelNames))
  /\ disturbed' = "yes" /\ UNCHANGED <<op, held, found, watch>>
Rename ==
  /\ \E n \in DOMAIN devices \cap KernelNames :
       /\ UdevNames \ DOMAIN devices # {}
       /\ devices' = [m \in (DOMAIN devices \ {n}) \cup {FreeName(UdevNames)} |->
                        IF m \in DOMAIN devices THEN devices[m] ELSE devices[n]]
       /\ disturbed' = IF devices[n] # Peer \/ disturbed = "yes" THEN "yes" ELSE "renamed"
  /\ PanFault /\ UNCHANGED <<links, op, held, found, watch, signals>>

PanInit ==
  /\ links = [p \in Peers |-> NoName] /\ devices = <<>> /\ op = NoOp /\ held = NoName
  /\ disturbed = "no" /\ found = NoFind /\ watch = NoWatch /\ signals = 0 /\ panEvents = 0

PanNext ==
  \/ \E what \in {"connect", "disconnect", "disconnect_matching"} : Start(what)
  \/ ReadConnected \/ ReadInterface \/ Resolve \/ Snapshot \/ ConnectCall \/ DisconnectCall
  \/ SubscribePanu \/ Opened \/ NextPanuEvent \/ DropSubscription
  \/ \E p \in Peers : LinkLost(p) \/ LinkMade(p)
  \/ Rename

PanSpec == PanInit /\ [][PanNext]_panVars

(* ----------------------------- properties ------------------------------ *)

\* An attachment names the device of the peer's own link, renamed or not,
\* whatever other links this adapter has. Two things defeat the resolution: a
\* link that changes while it is read, and a device of another peer that was
\* created with the name BlueZ still reports for this one.
ResolvedIsOurs == found.calm => found.mine \/ found.reused

\* disconnect_matching_panu takes down a link on another interface than the
\* one it was given only if links or names changed while it looked, or if
\* the reported name has come to stand for another peer's device.
ReplacementsSurvive ==
  DisconnectCall /\ op.pc = "disconnect" /\ op.matching /\ links[Peer] # links'[Peer]
    => disturbed # "no" \/ found.reused \/ NameOf(Peer) = held

\* No loss is waiting to be reported, not even one from before the first
\* snapshot.
LossReported == watch.state \in {"opening", "live"} => Up(Peer)
=============================================================================
