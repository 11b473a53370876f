---------------------------- MODULE HostAddresses ----------------------------
(***************************************************************************)
(* The IPv4 addresses of the machine, and those the daemon adds to them.   *)
(*                                                                         *)
(* ipv4_observation.rs (crates/blueroute-linux) and its users in           *)
(* single_star.rs, join_network.rs and control_listener.rs (apps/daemon):  *)
(* what the daemon reads of the machine's IPv4 before it takes an address  *)
(* for a star it hosts or joins, and before it binds the control listener. *)
(* A survey asks NetworkManager for its devices and then for the           *)
(* properties of one after the other; devices come and go and their        *)
(* configuration objects are replaced while it is under way. The daemon's  *)
(* mutation guard lets one survey run at a time. A prefix is               *)
(* <<address, length>>, its address less than 2^Bits.                      *)
(*                                                                         *)
(* kernel_address.rs (crates/blueroute-linux): an IPv4 address put on a    *)
(* PANU interface through rtnetlink, and taken off again with its lease.   *)
(* Each netlink exchange is a step. Between two of them another call, the  *)
(* user or a DHCP client changes the addresses, and the interface may go   *)
(* and come back under the same name with another index.                   *)
(***************************************************************************)
EXTENDS Integers, FiniteSets, TLAPS

-----------------------------------------------------------------------------
\* The survey of addresses.

CONSTANTS
  Bits,               \* of an address; 32 in the code
  SegmentLength,      \* prefix length of a star's segment
  Hosted, Joined,     \* the networks the daemon may host and join
  SegmentOf,          \* network -> first address of its segment
  BridgeOf,           \* hosted network -> the name of its bridge
  Pan,                \* the interface of the PAN link
  Interfaces,
  UserPrefixes,       \* what the user's own devices may carry
  MaxMachineChanges   \* bounds what others do to the machine

Networks == Hosted \cup Joined

ASSUME SurveyConstants ==
  /\ Bits \in Nat /\ SegmentLength \in 1..(Bits - 2)
  /\ SegmentOf \in [Networks -> Nat] /\ BridgeOf \in [Hosted -> Interfaces \ {Pan}]
  /\ \A n \in Networks : SegmentOf[n] % 2^(Bits - SegmentLength) = 0
  /\ Pan \in Interfaces /\ UserPrefixes \subseteq Nat \X (0 .. Bits)

\* Arithmetic: the provers know nothing of exponents.
ASSUME PowersOfTwo == \A k \in 1 .. Bits : 2^k \in Nat \ {0, 1}

VARIABLES
  nmUp,        \* NetworkManager owns its bus name
  devices,     \* interface -> its device: config object, addresses, routes
  owned,       \* the addresses recorded in BlueRoute's profiles
  held,        \* the daemon's: host it runs, lease it holds, listener it bound
  survey,
  lasting,     \* what was in use ever since the survey began (history)
  machineChanges

surveyVars == <<nmUp, devices, owned, held, survey, lasting, machineChanges>>

NoNetwork == "none"
NoDevice == [object |-> -1, addrs |-> {}, routes |-> {}]
NoConfig == 0                                       \* Ip4Config is "/"
NoListener == <<>>
Nothing == [host |-> NoNetwork, lease |-> NoNetwork, listener |-> NoListener]
NoSurvey == [at |-> "idle", for |-> "none", net |-> NoNetwork, todo |-> {}, dev |-> Pan, object |-> -1, found |-> {}]

\* The user's own interfaces carry something or nothing; ours are not there.
UserInterfaces == Interfaces \ ({Pan} \cup {BridgeOf[n] : n \in Hosted})
SurveyInit ==
  /\ nmUp \in BOOLEAN
  /\ devices \in [Interfaces -> {NoDevice, [NoDevice EXCEPT !.object = NoConfig]}
                     \cup {[object |-> 1, addrs |-> {p}, routes |-> {}] : p \in UserPrefixes}]
  /\ \A i \in Interfaces \ UserInterfaces : devices[i] = NoDevice
  /\ owned = {} /\ held = Nothing /\ survey = NoSurvey /\ lasting = {} /\ machineChanges = 0

(* ------------------------------- prefixes ------------------------------ *)

Size(p) == 2^(Bits - p[2])
Normalized(p) == <<p[1] - (p[1] % Size(p)), p[2]>>

PrefixesOverlap(p, q) == /\ p[1] <= q[1] + Size(q) - 1
                         /\ q[1] <= p[1] + Size(p) - 1

\* Ipv4StarAddressPlan.
Segment(n) == <<SegmentOf[n], SegmentLength>>
HostAddress(n) == <<SegmentOf[n] + 1, SegmentLength>>
FirstClient(n) == <<SegmentOf[n] + 2, SegmentLength>>

\* ensure_ipv4_segment_available: a default route is no collision.
Available(candidate, active) ==
  \A p \in active : p[2] # 0 => ~PrefixesOverlap(Normalized(candidate), Normalized(p))

OwnAddress(n) == [owner |-> n, interface |-> BridgeOf[n], prefix |-> HostAddress(n)]
ClientAddress(n) == [owner |-> n, interface |-> Pan, prefix |-> FirstClient(n)]

\* active_prefix_conflicts_after_restart: what is left of the prefixes found.
ConflictsAfterRestart(n, recorded, found) ==
  {f.prefix : f \in {g \in found : ~(OwnAddress(n) \in recorded /\ g.interface = BridgeOf[n]
                                     /\ g.prefix = HostAddress(n))}}

(* ------------------------------- the survey ---------------------------- *)

\* Every prefix in NetworkManager's data: [interface, kind, prefix].
Entries(i, kind, prefixes) == {[interface |-> i, kind |-> kind, prefix |-> p] : p \in prefixes}
InUse(devs) == UNION {Entries(i, "addr", devs[i].addrs) \cup Entries(i, "route", devs[i].routes) : i \in Interfaces}

Present == {i \in Interfaces : devices[i] # NoDevice}
Resting == {"idle", "failed", "conflict", "done"}
Goes(s) == survey' = s /\ lasting' = lasting
Same == UNCHANGED <<nmUp, devices, owned, held, machineChanges>>

\* A read of NetworkManager: answered while what is read exists, an error
\* that ends the survey otherwise.
Read(from, readable, s) ==
  /\ survey.at = from
  /\ Goes(IF nmUp /\ readable THEN s ELSE [survey EXCEPT !.at = "failed"])
  /\ Same

\* start_host, for a network the daemon does not run yet, and configure_ip;
\* ensure_networkmanager_available comes first.
Begin(purpose, n) ==
  /\ survey.at \in Resting
  /\ IF purpose = "host" THEN n \in Hosted /\ held.host = NoNetwork ELSE n \in Joined /\ held.lease = NoNetwork
  /\ survey' = [NoSurvey EXCEPT !.at = IF nmUp THEN "list" ELSE "failed", !.for = purpose, !.net = n]
  /\ lasting' = InUse(devices) /\ Same

GetDevices == Read("list", TRUE, [survey EXCEPT !.at = "next", !.todo = Present])

\* The loop over the devices, in NetworkManager's order.
ReadInterface ==
  \E i \in survey.todo :
    Read("next", i \in Present, [survey EXCEPT !.at = "config", !.dev = i, !.todo = @ \ {i}])

\* Ip4Config: a device without a configuration is skipped.
ReadConfig ==
  LET d == devices[survey.dev] IN
  Read("config", survey.dev \in Present,
       IF d.object = NoConfig THEN [survey EXCEPT !.at = "next"]
       ELSE [survey EXCEPT !.at = "addresses", !.object = d.object])

\* observed_ipv4_prefix: the entries of a device, normalised.
Observed(prefixes) == {[interface |-> survey.dev, prefix |-> Normalized(p)] : p \in prefixes}

\* Mutant of ReadAddresses: a configuration that is gone has no addresses.
ReadAddressesLoosely ==
  LET d == devices[survey.dev] IN
  IF d.object = survey.object
  THEN Read("addresses", TRUE, [survey EXCEPT !.at = "routes", !.found = @ \cup Observed(d.addrs)])
  ELSE Read("addresses", TRUE, [survey EXCEPT !.at = "next"])

\* AddressData and RouteData of the configuration object read before.
ReadAddresses ==
  LET d == devices[survey.dev] IN
  Read("addresses", d.object = survey.object,
       [survey EXCEPT !.at = "routes", !.found = @ \cup Observed(d.addrs)])
ReadRoutes ==
  LET d == devices[survey.dev] IN
  Read("routes", d.object = survey.object,
       [survey EXCEPT !.at = "next", !.found = @ \cup Observed(d.routes)])

\* All devices read. A host leaves out its own address, as its profile
\* records it; a client leaves out nothing.
Decide ==
  /\ survey.at = "next" /\ survey.todo = {}
  /\ LET n == survey.net
         clear == IF survey.for = "host"
                  THEN Available(HostAddress(n), ConflictsAfterRestart(n, owned, survey.found))
                  ELSE Available(Segment(n), {f.prefix : f \in survey.found})
     IN Goes([survey EXCEPT !.at = IF survey.for = "host" /\ ~nmUp THEN "failed"
                                   ELSE IF clear THEN "passed" ELSE "conflict"])
  /\ Same

(* ------------------------ what a survey is for ------------------------- *)

\* NetworkManager configures an address: a new configuration object, with the
\* connected route it lists or does not list.
Configured(i, p) ==
  \E routes \in {{}, {Normalized(p)}} :
    devices' = [devices EXCEPT ![i] = [object |-> 2 * machineChanges + 1,
                                       addrs |-> @.addrs \cup {p}, routes |-> @.routes \cup routes]]

\* ensure_bridge and ensure_address record and configure the address.
Host ==
  /\ survey.at = "passed" /\ survey.for = "host"
  /\ IF nmUp
     THEN /\ Configured(BridgeOf[survey.net], HostAddress(survey.net))
          /\ owned' = owned \cup {OwnAddress(survey.net)}
          /\ held' = [held EXCEPT !.host = survey.net]
          /\ Goes([survey EXCEPT !.at = "done"])
     ELSE Goes([survey EXCEPT !.at = "failed"]) /\ UNCHANGED <<devices, owned, held>>
  /\ UNCHANGED <<nmUp, machineChanges>>

ConfigureIp ==
  /\ survey.at = "passed" /\ survey.for = "join"
  /\ IF nmUp /\ Pan \in Present
     THEN /\ Configured(Pan, FirstClient(survey.net))
          /\ owned' = owned \cup {ClientAddress(survey.net)}
          /\ held' = [held EXCEPT !.lease = survey.net]
          /\ Goes([survey EXCEPT !.at = "done"])
     ELSE Goes([survey EXCEPT !.at = "failed"]) /\ UNCHANGED <<devices, owned, held>>
  /\ UNCHANGED <<nmUp, machineChanges>>

\* remove_ip: the address and then the profile, both attempted; the lease is
\* given up when both succeed.
RemoveIp ==
  /\ survey.at \in Resting /\ held.lease # NoNetwork
  /\ \E address, profile \in IF nmUp THEN BOOLEAN ELSE {FALSE} :
       /\ owned' = IF address \/ profile THEN owned \ {ClientAddress(held.lease)} ELSE owned
       /\ devices' = IF (address \/ profile) /\ Pan \in Present
                     THEN [devices EXCEPT ![Pan].addrs = @ \ {FirstClient(held.lease)},
                                          ![Pan].routes = @ \ {Segment(held.lease)}]
                     ELSE devices
       /\ held' = IF address /\ profile THEN [held EXCEPT !.lease = NoNetwork] ELSE held
  /\ survey' = NoSurvey /\ lasting' = {} /\ UNCHANGED <<nmUp, machineChanges>>

(* --------------------------- control listener -------------------------- *)

\* owned_nap_control_address: nobody else has the host's address, nobody else
\* is on the bridge, the bridge has the planned address and no other.
MayBind(n, recorded) ==
  /\ \A a \in recorded : a.prefix[1] = HostAddress(n)[1] => a.owner = n /\ a.interface = BridgeOf[n]
  /\ \A a \in recorded : a.interface = BridgeOf[n] => a.owner = n
  /\ \A a \in recorded : a.owner = n /\ a.interface = BridgeOf[n] => a.prefix = HostAddress(n)
  /\ OwnAddress(n) \in recorded

\* TcpListener::bind: the kernel binds an address that some interface carries.
Bindable(n) == \E i \in Interfaces : HostAddress(n) \in devices[i].addrs

\* ObservedControlListener: the network and the endpoint it was bound for.
ListenerOf(n) == <<n, HostAddress(n)>>

\* bind_guarded_control_listener, over the addresses recorded at that moment.
BindListener ==
  /\ survey.at \in Resting /\ held.host # NoNetwork /\ held.listener = NoListener
  /\ nmUp /\ MayBind(held.host, owned) /\ Bindable(held.host)
  /\ held' = [held EXCEPT !.listener = ListenerOf(held.host)]
  /\ UNCHANGED <<nmUp, devices, owned, survey, lasting, machineChanges>>

\* stop_host, once its cleanup succeeds.
StopHost ==
  /\ survey.at \in Resting /\ held.host # NoNetwork /\ nmUp
  /\ owned' = owned \ {OwnAddress(held.host)}
  /\ devices' = [devices EXCEPT ![BridgeOf[held.host]] = NoDevice]
  /\ held' = [held EXCEPT !.host = NoNetwork, !.listener = NoListener]
  /\ survey' = NoSurvey /\ lasting' = {} /\ UNCHANGED <<nmUp, machineChanges>>

(* ------------------- the user, NetworkManager, crashes ----------------- *)

MachineChange == machineChanges < MaxMachineChanges /\ machineChanges' = machineChanges + 1

\* A device goes, comes without a configuration, loses its configuration, or
\* has it changed in place or replaced by a new object.
Reconfigured(d) ==
  ({NoDevice, [NoDevice EXCEPT !.object = NoConfig]} \ {d})
  \cup (IF d.object < 1 THEN {} ELSE {[d EXCEPT !.object = 2 * machineChanges + 2]})
UserConfigured(d) ==
  IF d = NoDevice THEN {}
  ELSE {[object |-> o, addrs |-> d.addrs \cup a, routes |-> r] :
          o \in {2 * machineChanges + 2} \cup ({d.object} \ {NoConfig}), a \in {{}} \cup {{p} : p \in UserPrefixes},
          r \in {{}, d.routes}}
DeviceChanges(i) ==
  /\ nmUp /\ MachineChange
  /\ \E d \in Reconfigured(devices[i]) \cup (IF i \in UserInterfaces THEN UserConfigured(devices[i]) ELSE {}) :
       /\ d # NoDevice => i \in Present \cup UserInterfaces \cup {Pan}
       /\ devices' = [devices EXCEPT ![i] = d]
  /\ lasting' = lasting \cap InUse(devices')
  /\ UNCHANGED <<nmUp, owned, held, survey>>

NetworkManagerStops == nmUp /\ MachineChange /\ nmUp' = FALSE /\ UNCHANGED <<devices, owned, held, survey, lasting>>
NetworkManagerStarts ==
  /\ ~nmUp /\ nmUp' = TRUE
  /\ devices' = [i \in Interfaces |-> IF devices[i].object < 1 THEN devices[i]
                                      ELSE [devices[i] EXCEPT !.object = 2 * machineChanges + 2]]
  /\ UNCHANGED <<owned, held, survey, lasting, machineChanges>>

\* The daemon dies; its addresses and profiles stay.
DaemonDies ==
  /\ MachineChange /\ held' = Nothing /\ survey' = NoSurvey /\ lasting' = {}
  /\ UNCHANGED <<nmUp, devices, owned>>

SurveyNext ==
  \/ \E purpose \in {"host", "join"}, n \in Networks : Begin(purpose, n)
  \/ GetDevices \/ ReadInterface \/ ReadConfig \/ ReadAddresses \/ ReadRoutes \/ Decide
  \/ Host \/ ConfigureIp \/ RemoveIp \/ BindListener \/ StopHost
  \/ \E i \in Interfaces : DeviceChanges(i)
  \/ NetworkManagerStops \/ NetworkManagerStarts \/ DaemonDies

SurveySpec == SurveyInit /\ [][SurveyNext]_surveyVars

(* ----------------------------- properties ------------------------------ *)

\* A survey passes only when no prefix that another interface carried during
\* the whole survey overlaps the segment.
PassedIsClear ==
  survey.at = "passed" =>
    \A e \in lasting : (survey.for = "host" => e.interface # BridgeOf[survey.net]) /\ e.prefix[2] # 0
      => ~PrefixesOverlap(Normalized(e.prefix), Segment(survey.net))

\* The daemon takes an address only when no prefix that another interface
\* carried during the whole survey overlaps its segment, whatever devices and
\* configuration objects came, went and were replaced between the reads of
\* active_ipv4_prefixes_with_interfaces; and it binds the control listener
\* only to an address that no other profile of BlueRoute records, such as the
\* one a dead daemon left for a network with the same segment.
AddressesAreClear ==
  [][/\ PassedIsClear'
     /\ held'.listener \notin {NoListener, held.listener} =>
          {a \in owned : a.prefix[1] = held'.listener[2][1]} = {OwnAddress(held'.host)}]_surveyVars

\* A host is refused for a conflict only over a prefix other than the address
\* its own profile records for its own bridge: a daemon that comes back finds
\* the bridge it left and takes it up again.
OwnAddressIsNoConflict ==
  survey.at = "conflict" /\ survey.for = "host" /\ OwnAddress(survey.net) \in owned =>
    \E f \in survey.found : /\ PrefixesOverlap(f.prefix, Segment(survey.net)) /\ f.prefix[2] # 0
                            /\ ~(f.interface = BridgeOf[survey.net] /\ f.prefix = Segment(survey.net))

-----------------------------------------------------------------------------
\* The kernel addresses of a PANU interface.

CONSTANTS
  AddrCallers,     \* calls on the interface
  Prefixes4,       \* IPv4 prefixes
  MaxAddrEvents    \* bounds what others do and failing exchanges

\* Who put an address on the interface is told apart from everybody else.
ASSUME AddrConstants == "other" \notin AddrCallers

VARIABLES
  ifindex,     \* the index behind the name, 0 without interface
  lastIndex,   \* indices are never used twice
  kernel,      \* addresses of the interface: [family, local, address, by]
  addrCalls,   \* caller -> its call
  leases,      \* caller -> the KernelAddressLease it holds
  deprived,    \* callers whose address somebody else removed (history)
  broken,      \* callers with a failed exchange (history)
  addrEvents

addrVars == <<ifindex, lastIndex, kernel, addrCalls, leases, deprived, broken, addrEvents>>

NoLease == [prefix |-> 0, index |-> 0]
NoAddrCall == [at |-> "idle", prefix |-> 0, index |-> 0]
Inet(p, by) == [family |-> "inet", local |-> p, address |-> p, by |-> by]
LinkLocal == [family |-> "inet6", local |-> 0, address |-> 0, by |-> "other"]

On(c, label) == addrCalls[c].at = label
To(c, call) == addrCalls' = [addrCalls EXCEPT ![c] = call]
Done(c) == To(c, NoAddrCall)
Next4(c, label) == To(c, [addrCalls[c] EXCEPT !.at = label])
KernelSame == UNCHANGED <<ifindex, lastIndex, kernel, deprived, broken, addrEvents>>

\* parse_ipv4_address: of the messages for this index the IPv4 ones, the local
\* address before the one of the other end.
Ipv4Addresses(index) ==
  IF index # ifindex THEN {} ELSE {e.local : e \in {k \in kernel : k.family = "inet"}}

\* change_address is acknowledged: the interface must exist, and a new address
\* must not (NLM_F_EXCL), an old one must.
AcceptsAnyNew(index, p) == index = ifindex
AcceptsNew(index, p) == index = ifindex /\ p \notin Ipv4Addresses(index)
AcceptsDelete(index, p) == index = ifindex /\ p \in Ipv4Addresses(index)
Deleted(p) == {e \in kernel : e.family # "inet" \/ e.local # p}

(* ------------------------- ensure_panu_address ------------------------- *)

EnsureAddress(c, p) ==
  /\ On(c, "idle") /\ leases[c] = NoLease /\ ifindex # 0
  /\ To(c, [at |-> "look", prefix |-> p, index |-> ifindex])
  /\ deprived' = deprived \ {c} /\ broken' = {b \in broken : \E e \in kernel : e.by = b}
  /\ UNCHANGED <<ifindex, lastIndex, kernel, leases, addrEvents>>

\* An interface that has IPv4 state already is left alone.
LookFirst(c) ==
  /\ On(c, "look")
  /\ IF Ipv4Addresses(addrCalls[c].index) = {} THEN Next4(c, "new") ELSE Done(c)
  /\ KernelSame /\ UNCHANGED leases

NewAddress(c) ==
  LET call == addrCalls[c] IN
  /\ On(c, "new")
  /\ IF AcceptsNew(call.index, call.prefix)
     THEN kernel' = kernel \cup {Inet(call.prefix, c)} /\ Next4(c, "verify")
     ELSE Done(c) /\ UNCHANGED kernel
  /\ UNCHANGED <<ifindex, lastIndex, leases, deprived, broken, addrEvents>>

\* Mutant of VerifyAddress: an address that is not alone is left behind.
VerifyOnly(c) ==
  LET call == addrCalls[c] IN
  /\ On(c, "verify") /\ Done(c)
  /\ leases' = IF Ipv4Addresses(call.index) = {call.prefix}
               THEN [leases EXCEPT ![c] = [prefix |-> call.prefix, index |-> call.index]] ELSE leases
  /\ KernelSame

\* It must now be the only one; if not it is taken back.
VerifyAddress(c) ==
  LET call == addrCalls[c] IN
  /\ On(c, "verify")
  /\ IF Ipv4Addresses(call.index) = {call.prefix}
     THEN leases' = [leases EXCEPT ![c] = [prefix |-> call.prefix, index |-> call.index]] /\ Done(c)
     ELSE UNCHANGED leases /\ Next4(c, "undo")
  /\ KernelSame

(* ------------------------- remove_panu_address ------------------------- *)

\* The lease is used up. An interface that is gone, or that has another index
\* than the leased one, took the address with it.
RemoveAddress(c) ==
  /\ On(c, "idle") /\ leases[c] # NoLease
  /\ leases' = [leases EXCEPT ![c] = NoLease]
  /\ IF ifindex = leases[c].index
     THEN To(c, [at |-> "find", prefix |-> leases[c].prefix, index |-> ifindex]) ELSE Done(c)
  /\ KernelSame
FindAddress(c) ==
  /\ On(c, "find")
  /\ IF addrCalls[c].prefix \in Ipv4Addresses(addrCalls[c].index) THEN Next4(c, "delete") ELSE Done(c)
  /\ KernelSame /\ UNCHANGED leases

\* RTM_DELADDR, for a removal or to undo; a removal then looks once more.
DeleteAddress(c) ==
  LET call == addrCalls[c] IN
  /\ On(c, "delete") \/ On(c, "undo")
  /\ kernel' = IF AcceptsDelete(call.index, call.prefix) THEN Deleted(call.prefix) ELSE kernel
  /\ deprived' = deprived \cup ({e.by : e \in kernel \ kernel'} \cap (AddrCallers \ {c}))
  /\ Done(c) /\ UNCHANGED <<ifindex, lastIndex, leases, broken, addrEvents>>

AddrStep(c) == LookFirst(c) \/ NewAddress(c) \/ VerifyAddress(c) \/ FindAddress(c) \/ DeleteAddress(c)

(* ----------------------------- environment ----------------------------- *)

AddrEvent == addrEvents < MaxAddrEvents /\ addrEvents' = addrEvents + 1

\* A netlink exchange fails. (The kernel has done what was asked and the
\* acknowledgement is lost: the same as a failure of the next exchange.)
ExchangeFails(c) ==
  /\ AddrEvent /\ addrCalls[c].at # "idle" /\ Done(c) /\ broken' = broken \cup {c}
  /\ UNCHANGED <<ifindex, lastIndex, kernel, leases, deprived>>

OthersAdd(p) ==
  /\ AddrEvent /\ ifindex # 0 /\ p \notin Ipv4Addresses(ifindex)
  /\ kernel' = kernel \cup {Inet(p, "other")}
  /\ UNCHANGED <<ifindex, lastIndex, addrCalls, leases, deprived, broken>>
OthersRemove ==
  /\ AddrEvent
  /\ \E e \in kernel : /\ e.family = "inet" /\ kernel' = kernel \ {e}
                       /\ deprived' = IF e.by \in AddrCallers THEN deprived \cup {e.by} ELSE deprived
  /\ UNCHANGED <<ifindex, lastIndex, addrCalls, leases, broken>>

\* The interface goes with its addresses, and comes with a link-local one.
InterfaceMoves ==
  /\ AddrEvent
  /\ IF ifindex # 0 THEN ifindex' = 0 /\ kernel' = {} /\ UNCHANGED lastIndex
     ELSE ifindex' = lastIndex + 1 /\ lastIndex' = lastIndex + 1 /\ kernel' = {LinkLocal}
  /\ UNCHANGED <<addrCalls, leases, deprived, broken>>

AddrInit ==
  /\ ifindex = 1 /\ lastIndex = 1 /\ kernel = {LinkLocal}
  /\ addrCalls = [c \in AddrCallers |-> NoAddrCall] /\ leases = [c \in AddrCallers |-> NoLease]
  /\ deprived = {} /\ broken = {} /\ addrEvents = 0

AddrNext ==
  \/ \E c \in AddrCallers :
       \/ AddrStep(c) \/ RemoveAddress(c) \/ ExchangeFails(c)
       \/ \E p \in Prefixes4 : EnsureAddress(c, p)
  \/ \E p \in Prefixes4 : OthersAdd(p)
  \/ OthersRemove \/ InterfaceMoves

AddrSpec == AddrInit /\ [][AddrNext]_addrVars

(* ----------------------------- properties ------------------------------ *)

\* The addresses this backend put on the interface are exactly those of
\* leases and of calls under way: a failed ensure_panu_address leaves none
\* behind unless a netlink exchange failed.
AddressesAreLeased ==
  \A e \in kernel : e.by \in AddrCallers =>
    \/ leases[e.by] = [prefix |-> e.local, index |-> ifindex]
    \/ addrCalls[e.by].at # "idle" \/ e.by \in broken

\* No call takes an address that is not its own off the interface, unless its
\* own had been removed behind its back.
OthersKeepTheirAddresses ==
  \A c \in AddrCallers : addrCalls'[c] # addrCalls[c] =>
    \A e \in kernel \ kernel' : e.by = c \/ c \in deprived

\* The addresses put on a PANU interface are those of leases and calls under
\* way, and no call takes one that is not its own (kernel_address.rs).
AddressesFollowLeases == [][AddressesAreLeased' /\ OthersKeepTheirAddresses]_addrVars

-----------------------------------------------------------------------------
\* Proof of AddressesAreClear, for any machine.

Prefix == Nat \X (0 .. Bits)
Device == [object : Nat \cup {-1}, addrs : SUBSET Prefix, routes : SUBSET Prefix]
Finding == [interface : Interfaces, prefix : Prefix]
SurveyState ==
  [at : Resting \cup {"list", "next", "config", "addresses", "routes", "passed"},
   for : {"none", "host", "join"}, net : Networks \cup {NoNetwork}, todo : SUBSET Interfaces,
   dev : Interfaces, object : Int, found : SUBSET Finding]

SurveyTyped ==
  /\ devices \in [Interfaces -> Device] /\ nmUp \in BOOLEAN /\ machineChanges \in Nat
  /\ owned \subseteq [owner : Networks, interface : Interfaces, prefix : Prefix]
  /\ held.host \in Hosted \cup {NoNetwork} /\ held.lease \in Joined \cup {NoNetwork}
  /\ DOMAIN held = {"host", "lease", "listener"}
  /\ survey \in SurveyState

\* What the survey has found, and the entries it is still to read.
Known(s, e) == [interface |-> e.interface, prefix |-> Normalized(e.prefix)] \in s.found
ToRead(s, e) ==
  \/ s.at = "list"
  \/ e.interface \in s.todo
  \/ s.at \in {"config", "addresses"} /\ e.interface = s.dev
  \/ s.at = "routes" /\ e.interface = s.dev /\ e.kind = "route"

Reading == {"list", "next", "config", "addresses", "routes"}

SurveyInv ==
  /\ SurveyTyped
  /\ \A i \in Interfaces : devices[i].object < 1 => devices[i].addrs = {} /\ devices[i].routes = {}
  /\ survey.at \notin Resting => \/ survey.for = "host" /\ survey.net \in Hosted
                                 \/ survey.for = "join" /\ survey.net \in Joined
  /\ lasting \subseteq InUse(devices)
  /\ survey.at \in Reading => \A e \in lasting : ToRead(survey, e) \/ Known(survey, e)
  /\ PassedIsClear

\* Quotient and remainder.
LEMMA Euclid ==
  ASSUME NEW a \in Nat, NEW b \in Nat \ {0}
  PROVE  a \div b \in Nat /\ a = b * (a \div b) + (a % b) /\ a % b \in 0..(b-1)
  OBVIOUS

\* A multiple of b that is another one and a remainder is that other one.
LEMMA Mult == ASSUME NEW b \in Nat \ {0}, NEW q \in Int, NEW p \in Int, NEW r \in 0..(b-1), b * q = b * p + r
  PROVE r = 0 /\ q = p
<1>1. b * (q - p) = r
  OBVIOUS
<1>2. CASE q - p >= 1
  <2>1. b * (q - p) >= b
    BY <1>2
  <2> QED BY <2>1, <1>1
<1>3. CASE q - p <= -1
  <2>1. b * (q - p) <= -b
    BY <1>3
  <2> QED BY <2>1, <1>1
<1>4. CASE q = p
  BY <1>1, <1>4
<1> QED BY <1>2, <1>3, <1>4

\* Clearing the host bits leaves none.
LEMMA ModZero == ASSUME NEW a \in Nat, NEW b \in Nat \ {0} PROVE (a - (a % b)) % b = 0 /\ a - (a % b) \in Nat
<1> DEFINE c == a - (a % b)
<1>0. PICK q \in Nat, r \in 0..(b-1) : q = a \div b /\ r = a % b /\ a = b * q + r
  BY Euclid
<1>a. b * q \in Nat
  BY <1>0
<1>1. c \in Nat /\ c = b * (a \div b) /\ a \div b \in Nat
  BY <1>0, <1>a
<1>2. c \div b \in Nat /\ c = b * (c \div b) + (c % b) /\ c % b \in 0..(b-1)
  BY <1>1, Euclid
<1> HIDE DEF c
<1>3. c % b = 0
  BY ONLY <1>1, <1>2, Mult, b \in Nat \ {0}
<1> QED BY <1>1, <1>3 DEF c

\* The first host of a network without host bits has host bits 1.
LEMMA ModOne == ASSUME NEW a \in Nat, NEW b \in Nat \ {0,1}, a % b = 0 PROVE (a+1) % b = 1
<1> DEFINE c == a + 1
<1>0. PICK q \in Nat, r \in 0..(b-1) : q = a \div b /\ r = a % b /\ a = b * q + r
  BY Euclid
<1>1. a = b * (a \div b) /\ a \div b \in Nat
  BY <1>0
<1>c. c \in Nat
  OBVIOUS
<1>d. \A x \in Nat : x \div b \in Nat /\ x = b * (x \div b) + (x % b) /\ x % b \in 0..(b-1)
  BY Euclid
<1>2. c \div b \in Nat /\ c = b * (c \div b) + (c % b) /\ c % b \in 0..(b-1)
  BY <1>c, <1>d, Zenon
<1>3. CASE c % b = 0
  <2>1. b * (c \div b) = b * (a \div b) + 1 /\ 1 \in 0 .. (b-1)
    BY <1>1, <1>2, <1>3
  <2>2. 1 = 0
    BY ONLY <2>1, <1>1, <1>2, Mult, b \in Nat \ {0,1}
  <2> QED BY <2>2
<1>4. CASE c % b # 0
  <2>1. b * (a \div b) = b * (c \div b) + ((c % b) - 1) /\ ((c % b) - 1) \in 0 .. (b-1)
    BY <1>1, <1>2, <1>4
  <2>2. (c % b) - 1 = 0
    BY ONLY <2>1, <1>1, <1>2, Mult, b \in Nat \ {0,1}
  <2> QED BY <2>2, <1>2
<1> QED BY <1>3, <1>4

\* The hosts of a prefix are a power of two.
LEMMA SizeType ==
  ASSUME NEW p \in Prefix
  PROVE  Size(p) \in Nat \ {0}
<1>1. p[2] \in 0 .. Bits /\ Bits \in Nat
  BY SurveyConstants DEF Prefix
<1>2. CASE p[2] = Bits
  <2>1. Size(p) = 2^0
    BY <1>1, <1>2 DEF Size
  <2> QED
    BY <2>1
<1>3. CASE p[2] # Bits
  <2>1. Bits - p[2] \in 1 .. Bits
    BY <1>1, <1>3
  <2> QED
    BY <2>1, PowersOfTwo DEF Size
<1> QED
  BY <1>2, <1>3

\* A normalized prefix is its own network.
LEMMA NormalizedTwice ==
  ASSUME NEW p \in Prefix
  PROVE  /\ Normalized(p) \in Prefix /\ Normalized(p)[2] = p[2]
         /\ Normalized(Normalized(p)) = Normalized(p)
<1> DEFINE q == Normalized(p)
           size == Size(p)
<1>1. p[1] \in Nat /\ p[2] \in 0 .. Bits /\ size \in Nat \ {0}
  BY SizeType DEF Prefix
<1>2. q = <<p[1] - (p[1] % size), p[2]>>
  BY DEF Normalized
<1>3. q[1] = p[1] - (p[1] % size) /\ q[2] = p[2] /\ Size(q) = size
  BY <1>2 DEF Size
<1> HIDE DEF size
<1>4. q[1] \in Nat /\ q[1] % size = 0
  BY <1>1, <1>3, ModZero
<1>5. q \in Prefix
  BY <1>1, <1>2, <1>3, <1>4 DEF Prefix
<1>6. Normalized(q) = <<q[1] - (q[1] % size), q[2]>>
  BY <1>3 DEF Normalized
<1> QED
  BY <1>2, <1>3, <1>4, <1>5, <1>6

\* The hub and the PANU of a segment are hosts of that segment.
LEMMA SegmentsAreNormal ==
  ASSUME NEW n \in Networks
  PROVE  /\ Segment(n) \in Prefix /\ HostAddress(n) \in Prefix /\ FirstClient(n) \in Prefix
         /\ Normalized(HostAddress(n)) = Segment(n) /\ Normalized(Segment(n)) = Segment(n)
<1> DEFINE s == SegmentOf[n]
           size == 2^(Bits - SegmentLength)
<1>1. s \in Nat /\ SegmentLength \in 0 .. Bits /\ size \in Nat \ {0, 1} /\ s % size = 0
  <2>1. Bits - SegmentLength \in 1 .. Bits /\ Bits \in Nat /\ SegmentLength \in 0 .. Bits
    BY SurveyConstants
  <2>2. size \in Nat \ {0, 1}
    BY <2>1, PowersOfTwo
  <2> QED
    BY <2>1, <2>2, SurveyConstants
<1>2. (s + 1) % size = 1
  BY <1>1, ModOne
<1>3. /\ Normalized(HostAddress(n)) = <<(s + 1) - ((s + 1) % size), SegmentLength>>
      /\ Normalized(Segment(n)) = <<s - (s % size), SegmentLength>>
  BY DEF Normalized, Size, HostAddress, Segment
<1>4. (s + 1) - ((s + 1) % size) = s /\ s - (s % size) = s
  BY <1>1, <1>2
<1>5. Normalized(HostAddress(n)) = Segment(n) /\ Normalized(Segment(n)) = Segment(n)
  BY <1>3, <1>4 DEF Segment
<1>6. Segment(n) \in Prefix /\ HostAddress(n) \in Prefix /\ FirstClient(n) \in Prefix
  BY <1>1 DEF Segment, HostAddress, FirstClient, Prefix
<1> QED
  BY <1>5, <1>6

\* What is in use.
LEMMA InUseIs ==
  ASSUME NEW devs, NEW e
  PROVE  e \in InUse(devs) <=>
           \E i \in Interfaces :
             \/ \E p \in devs[i].addrs : e = [interface |-> i, kind |-> "addr", prefix |-> p]
             \/ \E p \in devs[i].routes : e = [interface |-> i, kind |-> "route", prefix |-> p]
BY DEF InUse, Entries

\* An entry in use is an address or a route of its device.
LEMMA EntryIs ==
  ASSUME SurveyInv, NEW e \in lasting
  PROVE  /\ e.interface \in Interfaces /\ e.kind \in {"addr", "route"} /\ e.prefix \in Prefix
         /\ e.prefix \in IF e.kind = "addr" THEN devices[e.interface].addrs ELSE devices[e.interface].routes
         /\ devices[e.interface].object >= 1
<1>1. e \in InUse(devices) /\ devices \in [Interfaces -> Device]
  BY DEF SurveyInv, SurveyTyped
<1>2. PICK i \in Interfaces, kind \in {"addr", "route"}, p \in Prefix :
        /\ e = [interface |-> i, kind |-> kind, prefix |-> p]
        /\ p \in IF kind = "addr" THEN devices[i].addrs ELSE devices[i].routes
  BY <1>1, InUseIs DEF Device
<1>3. devices[i].object \in Nat \cup {-1}
  BY <1>1 DEF Device
<1>4. devices[i].object >= 1
  BY <1>2, <1>3 DEF SurveyInv
<1> QED
  BY <1>2, <1>3, <1>4

\* A read that is answered passes on what is known, one that is not ends the survey.
LEMMA ReadKeeps ==
  ASSUME SurveyInv, NEW from \in Reading, NEW readable, NEW s,
         readable => /\ s \in SurveyState /\ s.at \in Reading /\ s.for = survey.for /\ s.net = survey.net
                     /\ \A e \in lasting : ToRead(s, e) \/ Known(s, e),
         Read(from, readable, s)
  PROVE  SurveyInv'
<1> USE DEF SurveyInv, Read, Same, Goes
<1>1. CASE nmUp /\ readable
  <2>1. survey' = s /\ survey.at = from
    BY <1>1
  <2>2. SurveyTyped'
    BY <1>1, <2>1 DEF SurveyTyped
  <2> QED
    BY <1>1, <2>1, <2>2 DEF PassedIsClear, Reading, Resting
<1>2. CASE ~(nmUp /\ readable)
  <2>1. survey' = [survey EXCEPT !.at = "failed"] /\ survey \in SurveyState
    BY <1>2 DEF SurveyTyped
  <2>2. survey' \in SurveyState /\ survey'.at = "failed"
    BY <2>1 DEF SurveyState, Resting
  <2>3. SurveyTyped'
    BY <2>2 DEF SurveyTyped
  <2> QED
    BY <2>2, <2>3 DEF PassedIsClear, Reading, Resting
<1> QED
  BY <1>1, <1>2

\* Every device that lasts is still to be read.
LEMMA GetDevicesKeeps ==
  ASSUME SurveyInv, GetDevices
  PROVE  SurveyInv'
<1> DEFINE s == [survey EXCEPT !.at = "next", !.todo = Present]
<1>1. survey \in SurveyState
  BY DEF SurveyInv, SurveyTyped
<1>2. s \in SurveyState /\ s.at = "next" /\ s.for = survey.for /\ s.net = survey.net /\ s.todo = Present
  BY <1>1 DEF SurveyState, Present
<1> HIDE DEF s
<1>3. ASSUME NEW e \in lasting PROVE ToRead(s, e)
  <2>1. e.interface \in Interfaces /\ devices[e.interface].object >= 1
    BY EntryIs
  <2>2. e.interface \in Present
    BY <2>1 DEF Present, NoDevice
  <2> QED
    BY <1>2, <2>2 DEF ToRead
<1> QED
  BY <1>2, <1>3, ReadKeeps DEF GetDevices, Reading, s

\* The device that is read next is not to be read any more.
LEMMA ReadInterfaceKeeps ==
  ASSUME SurveyInv, ReadInterface
  PROVE  SurveyInv'
<1>0. PICK i \in survey.todo :
        Read("next", i \in Present, [survey EXCEPT !.at = "config", !.dev = i, !.todo = @ \ {i}])
  BY DEF ReadInterface
<1> DEFINE s == [survey EXCEPT !.at = "config", !.dev = i, !.todo = @ \ {i}]
<1>1. survey \in SurveyState /\ survey.at = "next"
  BY <1>0 DEF SurveyInv, SurveyTyped, Read
<1>2. /\ s \in SurveyState /\ s.at = "config" /\ s.for = survey.for /\ s.net = survey.net
      /\ s.todo = survey.todo \ {i} /\ s.dev = i /\ s.found = survey.found
  BY <1>1 DEF SurveyState
<1>4. Read("next", i \in Present, s)
  BY <1>0
<1> HIDE DEF s
<1>3. \A e \in lasting : ToRead(s, e) \/ Known(s, e)
  BY <1>1, <1>2 DEF SurveyInv, Reading, ToRead, Known
<1> QED
  BY <1>2, <1>3, <1>4, ReadKeeps DEF Reading

\* A device without a configuration has nothing in use.
LEMMA ReadConfigKeeps ==
  ASSUME SurveyInv, ReadConfig
  PROVE  SurveyInv'
<1> DEFINE d == devices[survey.dev]
           s == IF d.object = NoConfig THEN [survey EXCEPT !.at = "next"]
                ELSE [survey EXCEPT !.at = "addresses", !.object = d.object]
<1>1. survey \in SurveyState /\ survey.at = "config" /\ d.object \in Int
  BY DEF SurveyInv, SurveyTyped, ReadConfig, Read, SurveyState, Device
<1>2. /\ s \in SurveyState /\ s.at = IF d.object = NoConfig THEN "next" ELSE "addresses"
      /\ s.for = survey.for /\ s.net = survey.net
      /\ s.todo = survey.todo /\ s.dev = survey.dev /\ s.found = survey.found
  BY <1>1 DEF SurveyState
<1>4. Read("config", survey.dev \in Present, s)
  BY DEF ReadConfig
<1> HIDE DEF s
<1>3. ASSUME NEW e \in lasting PROVE ToRead(s, e) \/ Known(s, e)
  <2>1. ToRead(survey, e) \/ Known(survey, e)
    BY <1>1 DEF SurveyInv, Reading
  <2>2. e.interface = survey.dev => d.object # NoConfig
    BY EntryIs DEF NoConfig
  <2> QED
    BY <1>1, <1>2, <2>1, <2>2 DEF ToRead, Known
<1> QED
  BY <1>2, <1>3, <1>4, ReadKeeps DEF Reading

\* Addresses, and then routes.
LEMMA ObservedIs ==
  ASSUME SurveyInv, NEW prefixes \in SUBSET Prefix
  PROVE  /\ Observed(prefixes) \subseteq Finding
         /\ \A p \in prefixes : [interface |-> survey.dev, prefix |-> Normalized(p)] \in Observed(prefixes)
<1>1. survey.dev \in Interfaces
  BY DEF SurveyInv, SurveyTyped, SurveyState
<1>2. \A p \in prefixes : Normalized(p) \in Prefix
  BY NormalizedTwice
<1> QED
  BY <1>1, <1>2 DEF Observed, Finding

\* What lasted among the addresses of the device is found.
LEMMA ReadAddressesKeeps ==
  ASSUME SurveyInv, ReadAddresses
  PROVE  SurveyInv'
<1> DEFINE d == devices[survey.dev]
           s == [survey EXCEPT !.at = "routes", !.found = @ \cup Observed(d.addrs)]
<1>1. survey \in SurveyState /\ survey.at = "addresses" /\ d.addrs \in SUBSET Prefix
  BY DEF SurveyInv, SurveyTyped, ReadAddresses, Read, SurveyState, Device
<1>5. Observed(d.addrs) \subseteq Finding
  BY <1>1, ObservedIs
<1>2. /\ s \in SurveyState /\ s.at = "routes" /\ s.for = survey.for /\ s.net = survey.net
      /\ s.todo = survey.todo /\ s.dev = survey.dev /\ s.found = survey.found \cup Observed(d.addrs)
  BY <1>1, <1>5 DEF SurveyState
<1>4. Read("addresses", d.object = survey.object, s)
  BY DEF ReadAddresses
<1> HIDE DEF s
<1>3. ASSUME NEW e \in lasting PROVE ToRead(s, e) \/ Known(s, e)
  <2>1. ToRead(survey, e) \/ Known(survey, e)
    BY <1>1 DEF SurveyInv, Reading
  <2>2. e.interface = survey.dev /\ e.kind # "route" => e.prefix \in d.addrs
    BY EntryIs
  <2>3. e.interface = survey.dev /\ e.kind # "route" => Known(s, e)
    BY <1>1, <1>2, <2>2, ObservedIs DEF Known
  <2> QED
    BY <1>1, <1>2, <2>1, <2>3 DEF ToRead, Known
<1> QED
  BY <1>2, <1>3, <1>4, ReadKeeps DEF Reading

\* What lasted among the routes of the device is found.
LEMMA ReadRoutesKeeps ==
  ASSUME SurveyInv, ReadRoutes
  PROVE  SurveyInv'
<1> DEFINE d == devices[survey.dev]
           s == [survey EXCEPT !.at = "next", !.found = @ \cup Observed(d.routes)]
<1>1. survey \in SurveyState /\ survey.at = "routes" /\ d.routes \in SUBSET Prefix
  BY DEF SurveyInv, SurveyTyped, ReadRoutes, Read, SurveyState, Device
<1>5. Observed(d.routes) \subseteq Finding
  BY <1>1, ObservedIs
<1>2. /\ s \in SurveyState /\ s.at = "next" /\ s.for = survey.for /\ s.net = survey.net
      /\ s.todo = survey.todo /\ s.dev = survey.dev /\ s.found = survey.found \cup Observed(d.routes)
  BY <1>1, <1>5 DEF SurveyState
<1>4. Read("routes", d.object = survey.object, s)
  BY DEF ReadRoutes
<1> HIDE DEF s
<1>3. ASSUME NEW e \in lasting PROVE ToRead(s, e) \/ Known(s, e)
  <2>1. ToRead(survey, e) \/ Known(survey, e)
    BY <1>1 DEF SurveyInv, Reading
  <2>2. e.interface = survey.dev /\ e.kind = "route" => e.prefix \in d.routes
    BY EntryIs
  <2>3. e.interface = survey.dev /\ e.kind = "route" => Known(s, e)
    BY <1>1, <1>2, <2>2, ObservedIs DEF Known
  <2> QED
    BY <1>1, <1>2, <2>1, <2>3 DEF ToRead, Known
<1> QED
  BY <1>2, <1>3, <1>4, ReadKeeps DEF Reading

\* What the survey compares with is what it has found, and that is all there was.
LEMMA DecideKeeps ==
  ASSUME SurveyInv, Decide
  PROVE  SurveyInv'
<1> DEFINE n == survey.net
<1>1. PICK label \in {"failed", "passed", "conflict"} : survey' = [survey EXCEPT !.at = label]
  BY DEF Decide, Goes
<1>2. /\ survey \in SurveyState /\ survey.at = "next" /\ survey.todo = {}
      /\ UNCHANGED <<nmUp, devices, owned, held, machineChanges, lasting>>
  BY DEF Decide, Goes, Same, SurveyInv, SurveyTyped
<1>3. /\ survey' \in SurveyState /\ survey'.at = label /\ survey'.for = survey.for /\ survey'.net = n
  BY <1>1, <1>2 DEF SurveyState, Resting
<1>4. \/ survey.for = "host" /\ n \in Hosted
      \/ survey.for = "join" /\ n \in Joined
  BY <1>2 DEF SurveyInv, Resting
<1>5. ASSUME label = "passed" PROVE PassedIsClear'
  <2>1. IF survey.for = "host"
        THEN Available(HostAddress(n), ConflictsAfterRestart(n, owned, survey.found))
        ELSE Available(Segment(n), {f.prefix : f \in survey.found})
    BY <1>3, <1>5 DEF Decide, Goes
  <2>2. SUFFICES ASSUME NEW e \in lasting, survey.for = "host" => e.interface # BridgeOf[n], e.prefix[2] # 0
                 PROVE  ~PrefixesOverlap(Normalized(e.prefix), Segment(n))
    BY <1>2, <1>3 DEF PassedIsClear
  <2> DEFINE f == [interface |-> e.interface, prefix |-> Normalized(e.prefix)]
  <2>3. f \in survey.found
    BY <1>2 DEF SurveyInv, Reading, ToRead, Known
  <2>4. /\ e.prefix \in Prefix /\ f.prefix[2] # 0 /\ Normalized(f.prefix) = f.prefix
        /\ f.prefix = Normalized(e.prefix)
    BY <2>2, EntryIs, NormalizedTwice
  <2>5. n \in Networks /\ Normalized(HostAddress(n)) = Segment(n) /\ Normalized(Segment(n)) = Segment(n)
    BY <1>4, SegmentsAreNormal DEF Networks
  <2>6. ~PrefixesOverlap(Segment(n), f.prefix)
    <3>1. CASE survey.for = "host"
      <4>1. f.interface # BridgeOf[n]
        BY <2>2, <3>1
      <4>2. f.prefix \in ConflictsAfterRestart(n, owned, survey.found)
        BY <2>3, <4>1, Zenon DEF ConflictsAfterRestart
      <4> QED
        BY <2>1, <2>4, <2>5, <3>1, <4>2 DEF Available
    <3>2. CASE survey.for # "host"
      BY <2>1, <2>3, <2>4, <2>5, <3>2 DEF Available
    <3> QED
      BY <3>1, <3>2
  <2> QED
    BY <2>4, <2>6 DEF PrefixesOverlap
<1>6. PassedIsClear'
  BY <1>3, <1>5 DEF PassedIsClear
<1>7. SurveyTyped'
  BY <1>2, <1>3 DEF SurveyInv, SurveyTyped
<1> QED
  BY <1>2, <1>3, <1>4, <1>6, <1>7 DEF SurveyInv, Reading

\* The values at rest.
LEMMA SurveyValues ==
  /\ NoSurvey \in SurveyState /\ NoSurvey.at = "idle" /\ NoDevice \in Device
  /\ NoDevice.addrs = {} /\ NoDevice.routes = {} /\ NoDevice.object = -1
BY SurveyConstants DEF NoSurvey, NoDevice, NoNetwork, SurveyState, Resting, Device

\* When a survey begins everything in use may last.
LEMMA BeginKeeps ==
  ASSUME SurveyInv, NEW purpose \in {"host", "join"}, NEW n \in Networks, Begin(purpose, n)
  PROVE  SurveyInv'
<1> DEFINE s == [NoSurvey EXCEPT !.at = IF nmUp THEN "list" ELSE "failed", !.for = purpose, !.net = n]
<1>1. s \in SurveyState /\ s.at \in {"list", "failed"} /\ s.for = purpose /\ s.net = n
  <2>1. PICK label \in {"list", "failed"} : label = IF nmUp THEN "list" ELSE "failed"
    OBVIOUS
  <2>2. s = [NoSurvey EXCEPT !.at = label, !.for = purpose, !.net = n] /\ NoSurvey \in SurveyState
    BY <2>1, SurveyValues
  <2> HIDE DEF s
  <2> QED
    BY <2>2 DEF SurveyState, Resting
<1>2. survey' = s /\ lasting' = InUse(devices) /\ Same /\ IF purpose = "host" THEN n \in Hosted ELSE n \in Joined
  BY DEF Begin
<1> HIDE DEF s
<1>3. SurveyTyped'
  BY <1>1, <1>2 DEF SurveyInv, SurveyTyped, Same
<1> QED
  BY <1>1, <1>2, <1>3 DEF SurveyInv, Same, Reading, Resting, PassedIsClear, ToRead

EmptyWithoutConfig(devs) == \A i \in Interfaces : devs[i].object < 1 => devs[i].addrs = {} /\ devs[i].routes = {}
Held(h) == /\ h.host \in Hosted \cup {NoNetwork} /\ h.lease \in Joined \cup {NoNetwork}
           /\ DOMAIN h = {"host", "lease", "listener"}
Record == [owner : Networks, interface : Interfaces, prefix : Prefix]

\* A step after which no survey is under way.
LEMMA Settles ==
  ASSUME devices' \in [Interfaces -> Device], EmptyWithoutConfig(devices'), nmUp' \in BOOLEAN,
         machineChanges' \in Nat, owned' \subseteq Record, Held(held'), survey' \in SurveyState,
         survey'.at \in Resting, lasting' \subseteq InUse(devices')
  PROVE  SurveyInv'
BY DEF SurveyInv, SurveyTyped, EmptyWithoutConfig, Held, Record, Resting, Reading, PassedIsClear

\* A step of the machine during a survey.
LEMMA MachineMoves ==
  ASSUME SurveyInv, devices' \in [Interfaces -> Device], EmptyWithoutConfig(devices'), nmUp' \in BOOLEAN,
         machineChanges' \in Nat, UNCHANGED <<owned, survey>>, Held(held'),
         lasting' \subseteq lasting, lasting' \subseteq InUse(devices')
  PROVE  SurveyInv'
<1>1. SurveyTyped'
  BY DEF SurveyInv, SurveyTyped, Held
<1>2. PassedIsClear'
  BY DEF SurveyInv, PassedIsClear
<1>3. survey'.at \in Reading => \A e \in lasting' : ToRead(survey', e) \/ Known(survey', e)
  BY DEF SurveyInv
<1> QED
  BY <1>1, <1>2, <1>3 DEF SurveyInv, EmptyWithoutConfig

\* A device that is given something keeps what it had.
LEMMA InUseGrows ==
  ASSUME NEW devs, NEW more, \A i \in Interfaces : devs[i].addrs \subseteq more[i].addrs /\ devs[i].routes \subseteq more[i].routes
  PROVE  InUse(devs) \subseteq InUse(more)
<1> SUFFICES ASSUME NEW e \in InUse(devs) PROVE e \in InUse(more)
  OBVIOUS
<1>1. PICK i \in Interfaces :
        \/ \E p \in devs[i].addrs : e = [interface |-> i, kind |-> "addr", prefix |-> p]
        \/ \E p \in devs[i].routes : e = [interface |-> i, kind |-> "route", prefix |-> p]
  BY InUseIs
<1>2. devs[i].addrs \subseteq more[i].addrs /\ devs[i].routes \subseteq more[i].routes
  OBVIOUS
<1>3. \/ \E p \in more[i].addrs : e = [interface |-> i, kind |-> "addr", prefix |-> p]
      \/ \E p \in more[i].routes : e = [interface |-> i, kind |-> "route", prefix |-> p]
  BY <1>1, <1>2
<1> QED
  BY <1>3, InUseIs

\* An interface gets an address.
LEMMA ConfiguredKeeps ==
  ASSUME SurveyInv, NEW i \in Interfaces, NEW p \in Prefix, Configured(i, p)
  PROVE  /\ devices' \in [Interfaces -> Device] /\ EmptyWithoutConfig(devices')
         /\ lasting \subseteq InUse(devices')
<1>1. PICK routes \in SUBSET Prefix :
        devices' = [devices EXCEPT ![i] = [object |-> 2 * machineChanges + 1, addrs |-> @.addrs \cup {p},
                                           routes |-> @.routes \cup routes]]
  BY NormalizedTwice DEF Configured
<1>2. devices \in [Interfaces -> Device] /\ machineChanges \in Nat
  BY DEF SurveyInv, SurveyTyped
<1> DEFINE d == [object |-> 2 * machineChanges + 1, addrs |-> devices[i].addrs \cup {p},
                 routes |-> devices[i].routes \cup routes]
<1>3. d \in Device /\ d.object >= 1 /\ devices[i].addrs \subseteq d.addrs /\ devices[i].routes \subseteq d.routes
  BY <1>2 DEF Device
<1>4. devices' = [devices EXCEPT ![i] = d]
  BY <1>1
<1> HIDE DEF d
<1>5. devices' \in [Interfaces -> Device] /\ devices'[i] = d /\ \A j \in Interfaces \ {i} : devices'[j] = devices[j]
  BY <1>2, <1>3, <1>4
<1>6. EmptyWithoutConfig(devices')
  BY <1>3, <1>5 DEF EmptyWithoutConfig, SurveyInv, Device
<1>7. InUse(devices) \subseteq InUse(devices')
  BY <1>3, <1>5, InUseGrows
<1> QED
  BY <1>5, <1>6, <1>7 DEF SurveyInv

\* The survey ends as it does without changing anything else.
LEMMA SurveyEnds ==
  ASSUME SurveyInv, NEW label \in {"done", "failed"}
  PROVE  [survey EXCEPT !.at = label] \in SurveyState /\ [survey EXCEPT !.at = label].at \in Resting
BY DEF SurveyInv, SurveyTyped, SurveyState, Resting

\* A star that is hosted has an address of its own on its bridge.
LEMMA HostKeeps ==
  ASSUME SurveyInv, Host
  PROVE  SurveyInv'
<1> DEFINE n == survey.net
<1>1. n \in Hosted /\ n \in Networks /\ BridgeOf[n] \in Interfaces /\ HostAddress(n) \in Prefix
  <2>1. n \in Hosted
    BY DEF SurveyInv, Host, Resting
  <2> QED
    BY <2>1, SegmentsAreNormal, SurveyConstants DEF Networks
<1>2. /\ devices \in [Interfaces -> Device] /\ EmptyWithoutConfig(devices) /\ nmUp' \in BOOLEAN
      /\ machineChanges' \in Nat /\ owned \subseteq Record /\ Held(held) /\ lasting \subseteq InUse(devices)
      /\ lasting' = lasting
  BY DEF SurveyInv, SurveyTyped, Host, Goes, Held, Record, EmptyWithoutConfig
<1>3. CASE nmUp
  <2>1. /\ Configured(BridgeOf[n], HostAddress(n)) /\ owned' = owned \cup {OwnAddress(n)}
        /\ held' = [held EXCEPT !.host = n] /\ survey' = [survey EXCEPT !.at = "done"]
    BY <1>3 DEF Host, Goes
  <2>2. owned' \subseteq Record
    BY <1>1, <1>2, <2>1 DEF OwnAddress, Record
  <2>3. Held(held')
    BY <1>1, <1>2, <2>1 DEF Held
  <2> QED
    BY <1>1, <1>2, <2>1, <2>2, <2>3, ConfiguredKeeps, SurveyEnds, Settles
<1>4. CASE ~nmUp
  BY <1>2, <1>4, SurveyEnds, Settles DEF Host, Goes
<1> QED
  BY <1>3, <1>4

\* A network that is joined has an address of its own on the PAN device.
LEMMA ConfigureIpKeeps ==
  ASSUME SurveyInv, ConfigureIp
  PROVE  SurveyInv'
<1> DEFINE n == survey.net
<1>1. n \in Joined /\ n \in Networks /\ Pan \in Interfaces /\ FirstClient(n) \in Prefix
  <2>1. n \in Joined
    BY DEF SurveyInv, ConfigureIp, Resting
  <2> QED
    BY <2>1, SegmentsAreNormal, SurveyConstants DEF Networks
<1>2. /\ devices \in [Interfaces -> Device] /\ EmptyWithoutConfig(devices) /\ nmUp' \in BOOLEAN
      /\ machineChanges' \in Nat /\ owned \subseteq Record /\ Held(held) /\ lasting \subseteq InUse(devices)
      /\ lasting' = lasting
  BY DEF SurveyInv, SurveyTyped, ConfigureIp, Goes, Held, Record, EmptyWithoutConfig
<1>3. CASE nmUp /\ Pan \in Present
  <2>1. /\ Configured(Pan, FirstClient(n)) /\ owned' = owned \cup {ClientAddress(n)}
        /\ held' = [held EXCEPT !.lease = n] /\ survey' = [survey EXCEPT !.at = "done"]
    BY <1>3 DEF ConfigureIp, Goes
  <2>2. owned' \subseteq Record
    BY <1>1, <1>2, <2>1 DEF ClientAddress, Record
  <2>3. Held(held')
    BY <1>1, <1>2, <2>1 DEF Held
  <2> QED
    BY <1>1, <1>2, <2>1, <2>2, <2>3, ConfiguredKeeps, SurveyEnds, Settles
<1>4. CASE ~(nmUp /\ Pan \in Present)
  BY <1>2, <1>4, SurveyEnds, Settles DEF ConfigureIp, Goes
<1> QED
  BY <1>3, <1>4

\* Leaving takes away the address of the lease.
LEMMA RemoveIpKeeps ==
  ASSUME SurveyInv, RemoveIp
  PROVE  SurveyInv'
<1>1. /\ devices \in [Interfaces -> Device] /\ EmptyWithoutConfig(devices) /\ nmUp' \in BOOLEAN
      /\ machineChanges' \in Nat /\ owned \subseteq Record /\ Held(held) /\ lasting' = {}
      /\ survey' = NoSurvey /\ Pan \in Interfaces
  BY SurveyConstants DEF SurveyInv, SurveyTyped, RemoveIp, Held, Record, EmptyWithoutConfig
<1>2. owned' \subseteq Record
  BY <1>1 DEF RemoveIp
<1>3. Held(held')
  BY <1>1 DEF RemoveIp, Held
<1>4. devices' \in [Interfaces -> Device] /\ EmptyWithoutConfig(devices')
  <2>1. CASE devices' = devices
    BY <1>1, <2>1 DEF EmptyWithoutConfig
  <2>2. CASE devices' # devices
    <3>1. PICK lost \in SUBSET Prefix, gone \in SUBSET Prefix :
            devices' = [devices EXCEPT ![Pan].addrs = @ \ lost, ![Pan].routes = @ \ gone]
      <4>1. held.lease \in Networks
        BY <1>1 DEF RemoveIp, Held, Networks
      <4>2. {FirstClient(held.lease)} \in SUBSET Prefix /\ {Segment(held.lease)} \in SUBSET Prefix
        BY <4>1, SegmentsAreNormal
      <4> QED
        BY <2>2, <4>2 DEF RemoveIp
    <3> DEFINE d == [devices[Pan] EXCEPT !.addrs = @ \ lost, !.routes = @ \ gone]
    <3>2. devices[Pan] \in Device
      BY <1>1
    <3>3. d \in Device /\ d.object = devices[Pan].object /\ d.addrs \subseteq devices[Pan].addrs
          /\ d.routes \subseteq devices[Pan].routes
      BY <3>2 DEF Device
    <3>4. devices' = [devices EXCEPT ![Pan] = d]
      BY <1>1, <3>1, <3>2 DEF Device
    <3> HIDE DEF d
    <3>5. devices' \in [Interfaces -> Device] /\ devices'[Pan] = d /\ \A j \in Interfaces \ {Pan} : devices'[j] = devices[j]
      BY <1>1, <3>3, <3>4
    <3> QED
      BY <1>1, <3>3, <3>5 DEF EmptyWithoutConfig
  <2> QED
    BY <2>1, <2>2
<1> QED
  BY <1>1, <1>2, <1>3, <1>4, SurveyValues, Settles DEF Resting

\* Stopping a host takes away its address and its listener.
LEMMA StopHostKeeps ==
  ASSUME SurveyInv, StopHost
  PROVE  SurveyInv'
<1>1. /\ devices \in [Interfaces -> Device] /\ EmptyWithoutConfig(devices) /\ nmUp' \in BOOLEAN
      /\ machineChanges' \in Nat /\ owned \subseteq Record /\ Held(held) /\ lasting' = {}
      /\ survey' = NoSurvey /\ held' = [held EXCEPT !.host = NoNetwork, !.listener = NoListener]
      /\ owned' \subseteq owned /\ devices' = [devices EXCEPT ![BridgeOf[held.host]] = NoDevice]
  BY DEF SurveyInv, SurveyTyped, StopHost, Held, Record, EmptyWithoutConfig
<1>2. Held(held')
  BY <1>1 DEF Held
<1>3. devices' \in [Interfaces -> Device] /\ EmptyWithoutConfig(devices')
  BY <1>1, SurveyValues DEF EmptyWithoutConfig
<1> QED
  BY <1>1, <1>2, <1>3, SurveyValues, Settles DEF Resting

\* The listener is bound between surveys.
LEMMA BindListenerKeeps ==
  ASSUME SurveyInv, BindListener
  PROVE  SurveyInv'
<1>1. /\ devices \in [Interfaces -> Device] /\ EmptyWithoutConfig(devices) /\ nmUp \in BOOLEAN
      /\ machineChanges \in Nat /\ Held(held) /\ lasting \subseteq InUse(devices)
  BY DEF SurveyInv, SurveyTyped, Held, EmptyWithoutConfig
<1>2. held' = [held EXCEPT !.listener = ListenerOf(held.host)] /\ UNCHANGED <<nmUp, devices, owned, survey, lasting, machineChanges>>
  BY DEF BindListener
<1>3. Held(held')
  BY <1>1, <1>2 DEF Held
<1> QED
  BY <1>1, <1>2, <1>3, MachineMoves

\* The user, NetworkManager and crashes.
LEMMA DeviceChangesKeeps ==
  ASSUME SurveyInv, NEW i \in Interfaces, DeviceChanges(i)
  PROVE  SurveyInv'
<1>1. /\ devices \in [Interfaces -> Device] /\ EmptyWithoutConfig(devices) /\ nmUp \in BOOLEAN
      /\ machineChanges \in Nat /\ Held(held)
  BY DEF SurveyInv, SurveyTyped, Held, EmptyWithoutConfig
<1>2. PICK d \in Reconfigured(devices[i]) \cup (IF i \in UserInterfaces THEN UserConfigured(devices[i]) ELSE {}) :
        devices' = [devices EXCEPT ![i] = d]
  BY DEF DeviceChanges
<1>3. devices[i] \in Device /\ (devices[i].object < 1 => devices[i].addrs = {} /\ devices[i].routes = {})
  BY <1>1 DEF EmptyWithoutConfig
<1>4. d \in Device /\ (d.object < 1 => d.addrs = {} /\ d.routes = {})
  <2>1. CASE d \in Reconfigured(devices[i])
    <3>1. CASE d \in {NoDevice, [NoDevice EXCEPT !.object = NoConfig]}
      BY <3>1 DEF NoDevice, NoConfig, Device
    <3>2. CASE d = [devices[i] EXCEPT !.object = 2 * machineChanges + 2]
      BY <1>1, <1>3, <3>2 DEF Device
    <3> QED
      BY <2>1, <3>1, <3>2 DEF Reconfigured
  <2>2. CASE d \in UserConfigured(devices[i])
    <3>0. devices[i] # NoDevice
      BY <2>2 DEF UserConfigured
    <3> DEFINE O == {2 * machineChanges + 2} \cup ({devices[i].object} \ {NoConfig})
               A == {{}} \cup {{p} : p \in UserPrefixes}
               R == {{}, devices[i].routes}
               E(o, a, r) == [object |-> o, addrs |-> devices[i].addrs \cup a, routes |-> r]
    <3>d. d \in {E(o, a, r) : o \in O, a \in A, r \in R}
      BY <2>2, <3>0 DEF UserConfigured
    <3> HIDE DEF O, A, R, E
    <3>1. PICK o \in O, a \in A, r \in R : d = E(o, a, r)
      BY <3>d
    <3> USE DEF O, A, R, E
    <3>2. a \in SUBSET Prefix /\ r \in SUBSET Prefix /\ o \in Nat \cup {-1}
      BY <1>1, <1>3, SurveyConstants DEF Device, Prefix
    <3>3. devices[i].object # NoConfig => devices[i].object >= 1
      <4>1. devices[i] = [object |-> devices[i].object, addrs |-> devices[i].addrs, routes |-> devices[i].routes]
            /\ devices[i].object \in Nat \cup {-1}
        BY <1>3 DEF Device
      <4>2. devices[i].object # -1
        <5> SUFFICES ASSUME devices[i].object = -1 PROVE FALSE
          OBVIOUS
        <5>1. devices[i].addrs = {} /\ devices[i].routes = {}
          BY <1>3
        <5>2. devices[i] = [object |-> -1, addrs |-> {}, routes |-> {}]
          BY <4>1, <5>1, Zenon
        <5> QED
          BY <3>0, <5>2, Zenon DEF NoDevice
      <4> QED
        BY <4>1, <4>2 DEF NoConfig
    <3> QED
      BY <1>1, <1>3, <3>1, <3>2, <3>3 DEF Device
  <2> QED
    BY <1>2, <2>1, <2>2
<1>5. devices' \in [Interfaces -> Device] /\ EmptyWithoutConfig(devices')
  BY <1>1, <1>2, <1>4 DEF EmptyWithoutConfig
<1> QED
  BY <1>1, <1>5, MachineMoves DEF DeviceChanges, MachineChange

\* NetworkManager stops and starts again.
LEMMA NetworkManagerKeeps ==
  ASSUME SurveyInv, NetworkManagerStops \/ NetworkManagerStarts \/ DaemonDies \/ UNCHANGED surveyVars
  PROVE  SurveyInv'
<1>1. /\ devices \in [Interfaces -> Device] /\ EmptyWithoutConfig(devices) /\ nmUp \in BOOLEAN
      /\ machineChanges \in Nat /\ Held(held) /\ owned \subseteq Record /\ lasting \subseteq InUse(devices)
  BY DEF SurveyInv, SurveyTyped, Held, EmptyWithoutConfig, Record
<1>2. CASE NetworkManagerStops
  <2>1. nmUp' \in BOOLEAN /\ machineChanges' \in Nat /\ UNCHANGED <<devices, owned, held, survey, lasting>>
    <3>1. nmUp' \in BOOLEAN
      BY <1>2, Zenon DEF NetworkManagerStops
    <3> QED
      BY <1>1, <1>2, <3>1 DEF NetworkManagerStops, MachineChange
  <2> QED
    BY <1>1, <2>1, MachineMoves
<1>5. CASE UNCHANGED surveyVars
  BY <1>1, <1>5, MachineMoves DEF surveyVars
<1>3. CASE DaemonDies
  <2>1. Held(held')
    BY <1>3 DEF DaemonDies, Held, Nothing
  <2> QED
    BY <1>1, <1>3, <2>1, SurveyValues, Settles DEF DaemonDies, MachineChange, Resting
<1>4. CASE NetworkManagerStarts
  <2>1. /\ devices' = [i \in Interfaces |-> IF devices[i].object < 1 THEN devices[i]
                                            ELSE [devices[i] EXCEPT !.object = 2 * machineChanges + 2]]
        /\ nmUp' = TRUE /\ UNCHANGED <<owned, held, survey, lasting, machineChanges>>
    BY <1>4 DEF NetworkManagerStarts
  <2>2. ASSUME NEW i \in Interfaces
        PROVE  /\ devices'[i] \in Device /\ devices'[i].addrs = devices[i].addrs
               /\ devices'[i].routes = devices[i].routes
               /\ devices'[i].object < 1 => devices[i].object < 1
    <3>1. devices[i] \in Device
      BY <1>1
    <3> QED
      BY <1>1, <2>1, <3>1 DEF Device
  <2>3. devices' \in [Interfaces -> Device]
    BY <2>1, <2>2
  <2>4. EmptyWithoutConfig(devices')
    BY <1>1, <2>2 DEF EmptyWithoutConfig
  <2>5. InUse(devices) \subseteq InUse(devices')
    BY <2>2, InUseGrows
  <2> QED
    BY <1>1, <2>1, <2>3, <2>4, <2>5, MachineMoves
<1> QED
  BY <1>2, <1>3, <1>4, <1>5

\* It holds before the first survey.
LEMMA SurveyInitially == SurveyInit => SurveyInv
<1> SUFFICES ASSUME SurveyInit PROVE SurveyInv
  OBVIOUS
<1>1. ASSUME NEW d \in {NoDevice, [NoDevice EXCEPT !.object = NoConfig]}
                        \cup {[object |-> 1, addrs |-> {p}, routes |-> {}] : p \in UserPrefixes}
      PROVE  d \in Device /\ (d.object < 1 => d.addrs = {} /\ d.routes = {})
  BY SurveyConstants DEF NoDevice, NoConfig, Device, Prefix
<1>2. devices \in [Interfaces -> Device] /\ EmptyWithoutConfig(devices)
  BY <1>1 DEF SurveyInit, EmptyWithoutConfig
<1>3. Held(held) /\ owned = {} /\ survey = NoSurvey /\ lasting = {} /\ machineChanges = 0 /\ nmUp \in BOOLEAN
  BY DEF SurveyInit, Held, Nothing
<1> QED
  BY <1>2, <1>3, SurveyValues
     DEF SurveyInv, SurveyTyped, EmptyWithoutConfig, Held, Resting, Reading, PassedIsClear

\* Every step of the daemon and of the machine keeps it.
LEMMA SurveyStep == SurveyInv /\ [SurveyNext]_surveyVars => SurveyInv'
BY BeginKeeps, GetDevicesKeeps, ReadInterfaceKeeps, ReadConfigKeeps, ReadAddressesKeeps, ReadRoutesKeeps,
   DecideKeeps, HostKeeps, ConfigureIpKeeps, RemoveIpKeeps, BindListenerKeeps, StopHostKeeps,
   DeviceChangesKeeps, NetworkManagerKeeps
   DEF SurveyNext

\* Only bind_guarded_control_listener binds a listener.
LEMMA ListenersAreOurs ==
  ASSUME SurveyInv, [SurveyNext]_surveyVars, held'.listener \notin {NoListener, held.listener}
  PROVE  {a \in owned : a.prefix[1] = held'.listener[2][1]} = {OwnAddress(held'.host)}
<1>0. DOMAIN held = {"host", "lease", "listener"}
  BY DEF SurveyInv, SurveyTyped
<1>1. BindListener
  <2>1. held' # held
    OBVIOUS
  <2>2. \/ Host \/ ConfigureIp \/ RemoveIp \/ BindListener \/ StopHost \/ DaemonDies
    BY <2>1 DEF SurveyNext, surveyVars, Begin, GetDevices, ReadInterface, ReadConfig, ReadAddresses, ReadRoutes,
       Decide, Read, Same, DeviceChanges, NetworkManagerStops, NetworkManagerStarts
  <2>3. ~Host /\ ~ConfigureIp
    BY <1>0, <2>1 DEF Host, ConfigureIp
  <2>4. ~RemoveIp
    BY <1>0, <2>1 DEF RemoveIp
  <2>5. ~StopHost
    <3>1. [held EXCEPT !.host = NoNetwork, !.listener = NoListener].listener = NoListener
      BY <1>0
    <3> QED
      BY <3>1 DEF StopHost
  <2>6. ~DaemonDies
    BY DEF DaemonDies, Nothing
  <2> QED
    BY <2>2, <2>3, <2>4, <2>5, <2>6
<1> DEFINE n == held.host
<1>2. held' = [held EXCEPT !.listener = ListenerOf(n)] /\ MayBind(n, owned)
  BY <1>1 DEF BindListener
<1>3. held'.listener = <<n, HostAddress(n)>> /\ held'.host = n
  BY <1>0, <1>2 DEF ListenerOf
<1>4. OwnAddress(n) \in owned /\ OwnAddress(n).prefix = HostAddress(n)
  BY <1>2 DEF MayBind, OwnAddress
<1>5. ASSUME NEW a \in owned, a.prefix[1] = HostAddress(n)[1] PROVE a = OwnAddress(n)
  <2>1. a.owner = n /\ a.interface = BridgeOf[n] /\ a.prefix = HostAddress(n)
    BY <1>2, <1>5 DEF MayBind
  <2>2. a \in [owner : Networks, interface : Interfaces, prefix : Prefix]
    BY DEF SurveyInv, SurveyTyped
  <2> QED
    BY <2>1, <2>2 DEF OwnAddress
<1> QED
  BY <1>3, <1>4, <1>5

\* For every number of networks, interfaces, prefixes and changes: a survey that passes
\* has compared the segment with whatever was in use from its beginning to its end, and
\* the listener is bound to an address that only the profile of the hosted network
\* records (ipv4_observation.rs, single_star.rs, control_listener.rs).
THEOREM AddressesStayClear == SurveySpec => AddressesAreClear
<1>1. SurveyInv => PassedIsClear
  BY DEF SurveyInv
<1>2. SurveyInv /\ [SurveyNext]_surveyVars =>
        (held'.listener \notin {NoListener, held.listener} =>
           {a \in owned : a.prefix[1] = held'.listener[2][1]} = {OwnAddress(held'.host)})
  BY ListenersAreOurs
<1> QED
  BY <1>1, <1>2, SurveyInitially, SurveyStep, PTL DEF SurveySpec, AddressesAreClear

-----------------------------------------------------------------------------
\* Proof of AddressesFollowLeases, for any callers and prefixes.

\* An address of IPv4 is one of Inet, and is there once (NLM_F_EXCL).
KernelOK ==
  /\ \A e \in kernel : e = LinkLocal \/ \E p \in Prefixes4, by \in AddrCallers \cup {"other"} : e = Inet(p, by)
  /\ \A e, f \in kernel : e.family = "inet" /\ f.family = "inet" /\ e.local = f.local => e = f

AddrCall == [at : {"idle", "look", "new", "verify", "undo", "find", "delete"},
             prefix : Prefixes4 \cup {0}, index : Nat]

\* From NewAddress on the call has an address on the interface.
Placed == {"verify", "undo", "find", "delete"}

\* What c may say of the interface with index i and prefix p: its address is there, or
\* somebody took it.
Kept(c, p, i) == i = ifindex => Inet(p, c) \in kernel \/ c \in deprived

CallerOK(c) ==
  /\ addrCalls[c].at # "idle" =>
       addrCalls[c].prefix \in Prefixes4 /\ addrCalls[c].index \in 1 .. lastIndex /\ leases[c] = NoLease
  /\ leases[c] # NoLease =>
       leases[c].prefix \in Prefixes4 /\ leases[c].index \in 1 .. lastIndex
       /\ Kept(c, leases[c].prefix, leases[c].index)
  /\ addrCalls[c].at \in Placed => Kept(c, addrCalls[c].prefix, addrCalls[c].index)

\* An address of c is the one it has a lease for or deals with, or an exchange failed.
Accounted(e) ==
  \/ leases[e.by] = [prefix |-> e.local, index |-> ifindex]
  \/ addrCalls[e.by].at \in Placed /\ addrCalls[e.by].prefix = e.local /\ addrCalls[e.by].index = ifindex
  \/ e.by \in broken

AddrInv ==
  /\ lastIndex \in Nat /\ ifindex \in 0 .. lastIndex
  /\ addrCalls \in [AddrCallers -> AddrCall]
  /\ leases \in [AddrCallers -> [prefix : Prefixes4 \cup {0}, index : Nat]]
  /\ KernelOK
  /\ \A c \in AddrCallers : CallerOK(c)
  /\ \A e \in kernel : e.by \in AddrCallers => Accounted(e)

\* A step of one caller is checked on that caller, when it takes no address of another
\* one without a trace.
LEMMA CallerMoves ==
  ASSUME AddrInv, NEW c \in AddrCallers, NEW call \in AddrCall,
         NEW lease \in [prefix : Prefixes4 \cup {0}, index : Nat],
         To(c, call), leases' = [leases EXCEPT ![c] = lease], UNCHANGED <<ifindex, lastIndex>>,
         KernelOK', deprived \ {c} \subseteq deprived',
         \A e \in kernel \ kernel' : e.by \in AddrCallers \ {c} => e.by \in deprived',
         \A e \in kernel' \ kernel : e.by = c,
         \A e \in kernel : e.by \in broken => e.by \in broken',
         CallerOK(c)', \A e \in kernel' : e.by = c => Accounted(e)'
  PROVE  AddrInv'
<1> USE DEF AddrInv, To
<1>1. /\ addrCalls' \in [AddrCallers -> AddrCall]
      /\ leases' \in [AddrCallers -> [prefix : Prefixes4 \cup {0}, index : Nat]]
  OBVIOUS
<1>2. ASSUME NEW d \in AddrCallers, d # c PROVE CallerOK(d)'
  <2>1. addrCalls'[d] = addrCalls[d] /\ leases'[d] = leases[d] /\ CallerOK(d)
    BY <1>2
  <2>2. ASSUME NEW p, NEW i, Kept(d, p, i) PROVE Kept(d, p, i)'
    <3>1. Inet(p, d).by = d
      BY DEF Inet
    <3> QED
      BY <1>2, <2>2, <3>1 DEF Kept, Inet
  <2> QED
    BY <2>1, <2>2 DEF CallerOK
<1>3. ASSUME NEW e \in kernel', e.by \in AddrCallers, e.by # c PROVE Accounted(e)'
  <2>1. e \in kernel /\ Accounted(e)
    BY <1>3
  <2>2. addrCalls'[e.by] = addrCalls[e.by] /\ leases'[e.by] = leases[e.by]
    BY <1>3
  <2> QED
    BY <2>1, <2>2 DEF Accounted
<1> QED
  BY <1>1, <1>2, <1>3

\* NoAddrCall and NoLease, and a call that proceeds.
LEMMA AddrValues ==
  /\ NoAddrCall \in AddrCall /\ NoLease \in [prefix : Prefixes4 \cup {0}, index : Nat]
  /\ \A call \in AddrCall, label \in {"idle", "look", "new", "verify", "undo", "find", "delete"} :
       [call EXCEPT !.at = label] \in AddrCall
BY DEF NoAddrCall, NoLease, AddrCall

\* A call begins with the index the interface has now.
LEMMA EnsureAddressKeeps ==
  ASSUME AddrInv, NEW c \in AddrCallers, NEW p \in Prefixes4, EnsureAddress(c, p)
  PROVE  AddrInv'
<1> DEFINE call == [at |-> "look", prefix |-> p, index |-> ifindex]
<1>1. call \in AddrCall /\ ifindex \in 1 .. lastIndex
  BY DEF AddrCall, AddrInv, EnsureAddress
<1>2. leases' = [leases EXCEPT ![c] = leases[c]] /\ addrCalls'[c] = call
      /\ leases[c] = NoLease /\ leases'[c] = NoLease
  BY DEF EnsureAddress, AddrInv, To
<1>3. CallerOK(c)'
  BY <1>1, <1>2 DEF CallerOK, Placed, EnsureAddress
<1>4. ASSUME NEW e \in kernel', e.by = c PROVE Accounted(e)'
  <2>1. e \in kernel /\ Accounted(e) /\ addrCalls[c].at = "idle" /\ ifindex # 0
    BY <1>4 DEF EnsureAddress, AddrInv, On
  <2>2. c \in broken
    BY <1>2, <1>4, <2>1 DEF Accounted, NoLease, Placed
  <2> QED
    BY <1>4, <2>1, <2>2 DEF Accounted, EnsureAddress
<1>5. KernelOK'
  BY DEF KernelOK, EnsureAddress, AddrInv
<1>6. leases[c] \in [prefix : Prefixes4 \cup {0}, index : Nat]
  BY DEF AddrInv
<1>7. To(c, call)
  BY DEF EnsureAddress
<1> QED
  BY <1>1, <1>2, <1>3, <1>4, <1>5, <1>6, <1>7, CallerMoves DEF EnsureAddress

\* A call that leaves the kernel alone.
LEMMA QuietMoves ==
  ASSUME AddrInv, NEW c \in AddrCallers, NEW call \in AddrCall,
         NEW lease \in [prefix : Prefixes4 \cup {0}, index : Nat],
         To(c, call), leases' = [leases EXCEPT ![c] = lease], UNCHANGED <<ifindex, lastIndex, kernel, deprived>>,
         broken' \in {broken, broken \cup {c}}, CallerOK(c)', \A e \in kernel : e.by = c => Accounted(e)'
  PROVE  AddrInv'
<1>1. KernelOK'
  BY DEF KernelOK, AddrInv
<1> QED
  BY <1>1, CallerMoves

\* A call that proceeds without touching the kernel.
LEMMA Proceeds ==
  ASSUME AddrInv, NEW c \in AddrCallers, NEW label \in {"new", "undo", "delete"}, addrCalls[c].at # "idle",
         label \in Placed <=> addrCalls[c].at \in Placed, Next4(c, label), KernelSame, UNCHANGED leases
  PROVE  AddrInv'
<1> DEFINE call == [addrCalls[c] EXCEPT !.at = label]
<1>1. /\ addrCalls[c] \in AddrCall /\ call \in AddrCall
      /\ leases[c] \in [prefix : Prefixes4 \cup {0}, index : Nat]
      /\ To(c, call) /\ leases' = [leases EXCEPT ![c] = leases[c]]
  BY AddrValues DEF AddrInv, Next4
<1>2. call.at = label /\ call.prefix = addrCalls[c].prefix /\ call.index = addrCalls[c].index
      /\ addrCalls'[c] = call
  BY <1>1 DEF AddrCall, AddrInv, To
<1> HIDE DEF call
<1>3. CallerOK(c)'
  BY <1>2 DEF AddrInv, CallerOK, Kept, KernelSame
<1>4. \A e \in kernel : e.by = c => Accounted(e)'
  BY <1>2 DEF AddrInv, Accounted, KernelSame
<1> QED
  BY <1>1, <1>3, <1>4, QuietMoves DEF KernelSame

\* A call that ends without leaving an address of its own, unless an exchange failed.
LEMMA Ends ==
  ASSUME AddrInv, NEW c \in AddrCallers, Done(c), UNCHANGED <<ifindex, lastIndex, kernel, leases, deprived>>,
         broken' \in {broken, broken \cup {c}}, addrCalls[c].at # "idle",
         \A e \in kernel : e.by = c /\ addrCalls[c].at \in Placed /\ addrCalls[c].prefix = e.local
                           /\ addrCalls[c].index = ifindex => c \in broken'
  PROVE  AddrInv'
<1>1. /\ leases[c] \in [prefix : Prefixes4 \cup {0}, index : Nat]
      /\ leases' = [leases EXCEPT ![c] = leases[c]] /\ addrCalls'[c] = NoAddrCall
      /\ leases[c] = NoLease /\ To(c, NoAddrCall)
  BY DEF AddrInv, CallerOK, Done, To
<1>2. CallerOK(c)'
  BY <1>1 DEF CallerOK, NoAddrCall, Placed
<1>3. \A e \in kernel : e.by = c => Accounted(e)'
  BY <1>1 DEF AddrInv, Accounted
<1> QED
  BY <1>1, <1>2, <1>3, AddrValues, QuietMoves

\* A prefix the dump shows for the index of an address is that address.
LEMMA Shown ==
  ASSUME AddrInv, NEW e \in kernel, e.by \in AddrCallers
  PROVE  e.family = "inet" /\ e = Inet(e.local, e.by) /\ e.local \in Ipv4Addresses(ifindex)
BY AddrConstants DEF AddrInv, KernelOK, LinkLocal, Inet, Ipv4Addresses

\* The look before NewAddress changes nothing.
LEMMA LookFirstKeeps ==
  ASSUME AddrInv, NEW c \in AddrCallers, LookFirst(c)
  PROVE  AddrInv'
<1>1. addrCalls[c].at = "look"
  BY DEF LookFirst, On
<1>2. CASE Next4(c, "new")
  BY <1>1, <1>2, Proceeds DEF LookFirst, Placed
<1>3. CASE Done(c)
  BY <1>1, <1>3, Ends DEF LookFirst, Placed, KernelSame
<1> QED
  BY <1>2, <1>3 DEF LookFirst

\* The look before DelAddress changes nothing.
LEMMA FindAddressKeeps ==
  ASSUME AddrInv, NEW c \in AddrCallers, FindAddress(c)
  PROVE  AddrInv'
<1>1. addrCalls[c].at = "find"
  BY DEF FindAddress, On
<1>2. CASE addrCalls[c].prefix \in Ipv4Addresses(addrCalls[c].index)
  BY <1>1, <1>2, Proceeds DEF FindAddress, Placed
<1>3. CASE addrCalls[c].prefix \notin Ipv4Addresses(addrCalls[c].index)
  BY <1>1, <1>3, Ends, Shown DEF FindAddress, KernelSame
<1> QED
  BY <1>2, <1>3

\* The address is new (NLM_F_EXCL): it is the only one of its prefix.
LEMMA NewAddressKeeps ==
  ASSUME AddrInv, NEW c \in AddrCallers, NewAddress(c)
  PROVE  AddrInv'
<1> DEFINE call == addrCalls[c]
           new == Inet(call.prefix, c)
<1>1. call.at = "new" /\ call.prefix \in Prefixes4 /\ leases[c] = NoLease /\ call.index \in 1 .. lastIndex
  BY DEF NewAddress, On, AddrInv, CallerOK
<1>2. CASE AcceptsNew(call.index, call.prefix)
  <2>1. /\ kernel' = kernel \cup {new} /\ Next4(c, "verify") /\ call.index = ifindex
        /\ call.prefix \notin Ipv4Addresses(ifindex)
        /\ UNCHANGED <<ifindex, lastIndex, leases, deprived, broken>>
    BY <1>2 DEF NewAddress, AcceptsNew
  <2>2. KernelOK'
    <3>1. KernelOK /\ new.family = "inet" /\ new.local = call.prefix
      BY DEF AddrInv, Inet
    <3>2. ASSUME NEW e \in kernel, e.family = "inet" PROVE e.local # call.prefix
      BY <2>1, <3>2 DEF Ipv4Addresses
    <3> HIDE DEF new
    <3>3. \A e, f \in kernel' : e.family = "inet" /\ f.family = "inet" /\ e.local = f.local => e = f
      BY <2>1, <3>1, <3>2 DEF KernelOK
    <3>4. \A e \in kernel' : e = LinkLocal \/ \E p \in Prefixes4, by \in AddrCallers \cup {"other"} : e = Inet(p, by)
      BY <1>1, <2>1, <3>1 DEF KernelOK, new
    <3> QED
      BY <3>3, <3>4 DEF KernelOK
  <2>3. /\ To(c, [call EXCEPT !.at = "verify"]) /\ [call EXCEPT !.at = "verify"] \in AddrCall
        /\ leases' = [leases EXCEPT ![c] = leases[c]]
        /\ leases[c] \in [prefix : Prefixes4 \cup {0}, index : Nat]
    BY <2>1, AddrValues DEF AddrInv, Next4
  <2>4. /\ addrCalls'[c].at = "verify" /\ addrCalls'[c].prefix = call.prefix
        /\ addrCalls'[c].index = call.index /\ leases'[c] = NoLease
    BY <1>1, <2>1, <2>3 DEF AddrInv, To, AddrCall
  <2>5. CallerOK(c)'
    BY <1>1, <2>1, <2>4 DEF CallerOK, Kept
  <2>6. ASSUME NEW e \in kernel', e.by = c PROVE Accounted(e)'
    <3>1. CASE e = new
      BY <2>1, <2>4, <3>1 DEF Accounted, Placed, Inet
    <3>2. CASE e # new
      BY <1>1, <2>1, <2>6, <3>2 DEF AddrInv, Accounted, Placed
    <3> QED
      BY <3>1, <3>2
  <2>7. new.by = c
    BY DEF Inet
  <2> QED
    BY <2>1, <2>2, <2>3, <2>5, <2>6, <2>7, CallerMoves
<1>3. CASE ~AcceptsNew(call.index, call.prefix)
  BY <1>1, <1>3, Ends DEF NewAddress, Placed
<1> QED
  BY <1>2, <1>3

\* The dump shows the new address, or the call takes it back.
LEMMA VerifyAddressKeeps ==
  ASSUME AddrInv, NEW c \in AddrCallers, VerifyAddress(c)
  PROVE  AddrInv'
<1> DEFINE call == addrCalls[c]
           lease == [prefix |-> call.prefix, index |-> call.index]
<1>1. /\ call.at = "verify" /\ call.prefix \in Prefixes4 /\ call.index \in 1 .. lastIndex
      /\ Kept(c, call.prefix, call.index) /\ lastIndex \in Nat
  BY DEF VerifyAddress, On, AddrInv, CallerOK, Placed
<1>2. CASE Ipv4Addresses(call.index) = {call.prefix}
  <2>1. call.index = ifindex /\ leases' = [leases EXCEPT ![c] = lease] /\ Done(c) /\ KernelSame
    BY <1>2 DEF VerifyAddress, Ipv4Addresses
  <2>2. lease \in [prefix : Prefixes4 \cup {0}, index : Nat] /\ lease.prefix = call.prefix
        /\ lease.index = call.index
    BY <1>1
  <2>3. leases'[c] = lease /\ addrCalls'[c] = NoAddrCall /\ To(c, NoAddrCall)
    BY <2>1 DEF AddrInv, Done, To
  <2>4. leases[c] = NoLease
    BY <1>1 DEF AddrInv, CallerOK
  <2>5. \A e \in kernel : e.by = c => Accounted(e)'
    BY <1>1, <2>1, <2>3, <2>4 DEF AddrInv, Accounted, NoLease, KernelSame
  <2> HIDE DEF lease
  <2>6. CallerOK(c)'
    BY <1>1, <2>1, <2>2, <2>3 DEF CallerOK, NoAddrCall, Placed, KernelSame, Kept
  <2> QED
    BY <2>1, <2>2, <2>3, <2>5, <2>6, AddrValues, QuietMoves DEF KernelSame
<1>3. CASE Ipv4Addresses(call.index) # {call.prefix}
  BY <1>1, <1>3, Proceeds DEF VerifyAddress, Placed
<1> QED
  BY <1>2, <1>3

\* What the lease says is what its removal looks for.
LEMMA RemoveAddressKeeps ==
  ASSUME AddrInv, NEW c \in AddrCallers, RemoveAddress(c)
  PROVE  AddrInv'
<1> DEFINE lease == leases[c]
           call == [at |-> "find", prefix |-> lease.prefix, index |-> ifindex]
<1>1. /\ lease # NoLease /\ addrCalls[c].at = "idle" /\ leases' = [leases EXCEPT ![c] = NoLease] /\ KernelSame
      /\ lease \in [prefix : Prefixes4 \cup {0}, index : Nat]
  BY DEF RemoveAddress, On, AddrInv
<1>2. lease.prefix \in Prefixes4 /\ lease.index \in 1 .. lastIndex /\ Kept(c, lease.prefix, lease.index)
  BY <1>1 DEF AddrInv, CallerOK
<1>3. leases'[c] = NoLease
  BY <1>1 DEF AddrInv
<1>a. ASSUME NEW e \in kernel, e.by = c, c \notin broken PROVE lease.prefix = e.local /\ lease.index = ifindex
  <2>1. Accounted(e) /\ addrCalls[c].at \notin Placed
    BY <1>1, <1>a DEF AddrInv, Placed
  <2> QED
    BY <1>a, <2>1 DEF Accounted
<1> HIDE DEF lease
<1>4. CASE ifindex = lease.index
  <2>1. To(c, call) /\ call \in AddrCall
    BY <1>2, <1>4 DEF RemoveAddress, AddrInv, AddrCall, lease
  <2>2. addrCalls'[c] = call
    BY <2>1 DEF AddrInv, To
  <2>3. CallerOK(c)'
    BY <1>1, <1>2, <1>3, <1>4, <2>2 DEF CallerOK, Kept, KernelSame
  <2>4. \A e \in kernel : e.by = c => Accounted(e)'
    BY <1>1, <1>a, <1>4, <2>2 DEF Accounted, Placed, KernelSame
  <2> QED
    BY <1>1, <2>1, <2>3, <2>4, AddrValues, QuietMoves DEF KernelSame
<1>5. CASE ifindex # lease.index
  <2>1. To(c, NoAddrCall) /\ addrCalls'[c] = NoAddrCall
    BY <1>5 DEF RemoveAddress, Done, To, AddrInv, lease
  <2>2. CallerOK(c)'
    BY <1>3, <2>1 DEF CallerOK, NoAddrCall, Placed
  <2>3. \A e \in kernel : e.by = c => Accounted(e)'
    BY <1>1, <1>a, <1>5 DEF Accounted, KernelSame
  <2> QED
    BY <1>1, <2>1, <2>2, <2>3, AddrValues, QuietMoves DEF KernelSame
<1> QED
  BY <1>4, <1>5

\* The address goes with the call that asked for it.
LEMMA DeleteAddressKeeps ==
  ASSUME AddrInv, NEW c \in AddrCallers, DeleteAddress(c)
  PROVE  AddrInv'
<1> DEFINE call == addrCalls[c]
<1>1. /\ kernel' = IF AcceptsDelete(call.index, call.prefix) THEN Deleted(call.prefix) ELSE kernel
      /\ deprived' = deprived \cup ({e.by : e \in kernel \ kernel'} \cap (AddrCallers \ {c}))
      /\ Done(c) /\ UNCHANGED <<ifindex, lastIndex, leases, broken>>
      /\ call.at # "idle"
  BY DEF DeleteAddress, On
<1>2. kernel' \subseteq kernel
  BY <1>1 DEF Deleted
<1>3. KernelOK'
  BY <1>2 DEF AddrInv, KernelOK
<1>4. /\ leases[c] \in [prefix : Prefixes4 \cup {0}, index : Nat]
      /\ leases' = [leases EXCEPT ![c] = leases[c]] /\ addrCalls'[c] = NoAddrCall
      /\ leases[c] = NoLease /\ To(c, NoAddrCall)
  BY <1>1 DEF AddrInv, CallerOK, Done, To
<1>5. CallerOK(c)'
  BY <1>1, <1>4 DEF CallerOK, NoAddrCall, Placed
<1>6. ASSUME NEW e \in kernel', e.by = c PROVE Accounted(e)'
  <2>1. e \in kernel /\ Accounted(e)
    BY <1>2, <1>6 DEF AddrInv
  <2>2. e.family = "inet" /\ e.local \in Ipv4Addresses(ifindex)
    BY <1>6, <2>1, Shown
  <2>3. ~(call.prefix = e.local /\ call.index = ifindex)
    BY <1>1, <1>6, <2>2 DEF AcceptsDelete, Deleted
  <2> QED
    BY <1>1, <1>6, <2>1, <2>3 DEF Accounted
<1> QED
  BY <1>1, <1>2, <1>3, <1>4, <1>5, <1>6, AddrValues, CallerMoves

\* What others do to the interface and its addresses.
LEMMA OthersKeepInv ==
  ASSUME AddrInv, (\E p \in Prefixes4 : OthersAdd(p)) \/ OthersRemove \/ InterfaceMoves \/ UNCHANGED addrVars
  PROVE  AddrInv'
<1>1. CASE \E p \in Prefixes4 : OthersAdd(p)
  <2>1. PICK p \in Prefixes4 : OthersAdd(p)
    BY <1>1
  <2> DEFINE new == Inet(p, "other")
  <2>2. /\ kernel' = kernel \cup {new} /\ p \notin Ipv4Addresses(ifindex)
        /\ UNCHANGED <<ifindex, lastIndex, addrCalls, leases, deprived, broken>>
    BY <2>1 DEF OthersAdd
  <2>3. KernelOK'
    <3>1. KernelOK /\ new.family = "inet" /\ new.local = p
      BY DEF AddrInv, Inet
    <3>2. ASSUME NEW e \in kernel, e.family = "inet" PROVE e.local # p
      BY <2>2, <3>2 DEF Ipv4Addresses
    <3>3. \A e \in kernel' : e = LinkLocal \/ \E q \in Prefixes4, by \in AddrCallers \cup {"other"} : e = Inet(q, by)
      BY <2>2, <3>1 DEF KernelOK
    <3> HIDE DEF new
    <3>4. \A e, f \in kernel' : e.family = "inet" /\ f.family = "inet" /\ e.local = f.local => e = f
      BY <2>2, <3>1, <3>2 DEF KernelOK
    <3> QED
      BY <3>3, <3>4 DEF KernelOK
  <2>4. \A c \in AddrCallers : CallerOK(c)'
    BY <2>2 DEF AddrInv, CallerOK, Kept
  <2>5. new.by \notin AddrCallers
    BY AddrConstants DEF Inet
  <2>6. \A e \in kernel' : e.by \in AddrCallers => Accounted(e)'
    BY <2>2, <2>5 DEF AddrInv, Accounted
  <2> QED
    BY <2>2, <2>3, <2>4, <2>6 DEF AddrInv
<1>2. CASE OthersRemove
  <2>1. PICK e \in kernel : /\ kernel' = kernel \ {e}
                            /\ deprived' = IF e.by \in AddrCallers THEN deprived \cup {e.by} ELSE deprived
    BY <1>2 DEF OthersRemove
  <2>2. UNCHANGED <<ifindex, lastIndex, addrCalls, leases, broken>>
    BY <1>2 DEF OthersRemove
  <2>3. KernelOK'
    BY <2>1 DEF AddrInv, KernelOK
  <2>4. ASSUME NEW c \in AddrCallers, NEW p, NEW i, Kept(c, p, i) PROVE Kept(c, p, i)'
    <3>1. Inet(p, c).by = c
      BY DEF Inet
    <3> QED
      BY <2>1, <2>2, <2>4, <3>1 DEF Kept, Inet
  <2>5. \A c \in AddrCallers : CallerOK(c)'
    BY <2>2, <2>4 DEF AddrInv, CallerOK
  <2>6. \A f \in kernel' : f.by \in AddrCallers => Accounted(f)'
    BY <2>1, <2>2 DEF AddrInv, Accounted
  <2> QED
    BY <2>2, <2>3, <2>5, <2>6 DEF AddrInv
<1>3. CASE InterfaceMoves
  <2>1. /\ ifindex' \in {0, lastIndex + 1} /\ lastIndex' \in {lastIndex, lastIndex + 1}
        /\ ifindex' # 0 => lastIndex' = lastIndex + 1
        /\ kernel' \subseteq {LinkLocal} /\ UNCHANGED <<addrCalls, leases, deprived, broken>>
        /\ lastIndex \in Nat
    BY <1>3 DEF InterfaceMoves, AddrInv
  <2>2. KernelOK'
    BY <2>1 DEF KernelOK
  <2>4. ASSUME NEW c \in AddrCallers PROVE CallerOK(c)'
    <3>1. CallerOK(c) /\ 1 .. lastIndex \subseteq 1 .. lastIndex'
      BY <2>1 DEF AddrInv
    <3>2. ASSUME addrCalls[c].at # "idle" PROVE Kept(c, addrCalls[c].prefix, addrCalls[c].index)'
      BY <2>1, <3>1, <3>2 DEF CallerOK, Kept
    <3>3. ASSUME leases[c] # NoLease PROVE Kept(c, leases[c].prefix, leases[c].index)'
      BY <2>1, <3>1, <3>3 DEF CallerOK, Kept
    <3> QED
      BY <2>1, <3>1, <3>2, <3>3 DEF CallerOK, Placed
  <2>5. LinkLocal.by \notin AddrCallers
    BY AddrConstants DEF LinkLocal
  <2>6. ifindex' \in 0 .. lastIndex' /\ lastIndex' \in Nat
    BY <2>1
  <2> QED
    BY <2>1, <2>2, <2>4, <2>5, <2>6 DEF AddrInv
<1>4. CASE UNCHANGED addrVars
  BY <1>4 DEF addrVars, AddrInv, KernelOK, CallerOK, Kept, Accounted
<1> QED
  BY <1>1, <1>2, <1>3, <1>4

\* Every step keeps the account of every address.
LEMMA AddrStepInv == AddrInv /\ [AddrNext]_addrVars => AddrInv'
<1> SUFFICES ASSUME AddrInv, [AddrNext]_addrVars PROVE AddrInv'
  OBVIOUS
<1>1. ASSUME NEW c \in AddrCallers, AddrStep(c) PROVE AddrInv'
  BY <1>1, LookFirstKeeps, NewAddressKeeps, VerifyAddressKeeps, FindAddressKeeps, DeleteAddressKeeps DEF AddrStep
<1>2. ASSUME NEW c \in AddrCallers, ExchangeFails(c) PROVE AddrInv'
  BY <1>2, Ends DEF ExchangeFails
<1> QED
  BY <1>1, <1>2, RemoveAddressKeeps, EnsureAddressKeeps, OthersKeepInv DEF AddrNext

\* Only a delete takes addresses off, and the one it takes is its own as long as that is
\* there, because no prefix is there twice.
LEMMA OnlyOwnAreRemoved ==
  ASSUME AddrInv, [AddrNext]_addrVars
  PROVE  OthersKeepTheirAddresses
<1> SUFFICES ASSUME NEW c \in AddrCallers, addrCalls'[c] # addrCalls[c], NEW e \in kernel \ kernel'
             PROVE  e.by = c \/ c \in deprived
  BY DEF OthersKeepTheirAddresses
<1>1. ~(UNCHANGED addrCalls) /\ ~(kernel \subseteq kernel')
  OBVIOUS
<1>2. PICK d \in AddrCallers : DeleteAddress(d)
  BY <1>1 DEF AddrNext, addrVars, AddrStep, LookFirst, NewAddress, VerifyAddress, FindAddress, KernelSame,
     RemoveAddress, ExchangeFails, EnsureAddress, OthersAdd, OthersRemove, InterfaceMoves
<1>3. d = c
  BY <1>2 DEF DeleteAddress, Done, To, AddrInv
<1> DEFINE call == addrCalls[c]
<1>4. call.at \in Placed /\ AcceptsDelete(call.index, call.prefix) /\ e.family = "inet" /\ e.local = call.prefix
  BY <1>2, <1>3 DEF DeleteAddress, On, Placed, Deleted
<1>5. Inet(call.prefix, c) \in kernel \/ c \in deprived
  BY <1>4 DEF AddrInv, CallerOK, Kept, AcceptsDelete
<1>6. Inet(call.prefix, c).family = "inet" /\ Inet(call.prefix, c).local = call.prefix /\ Inet(call.prefix, c).by = c
  BY DEF Inet
<1>7. ASSUME NEW f \in kernel, f.family = "inet", f.local = call.prefix, f.by = c PROVE e.by = c
  BY <1>4, <1>7 DEF AddrInv, KernelOK
<1> QED
  BY <1>5, <1>6, <1>7

\* For any number of callers, prefixes and events: an address a caller put on the
\* interface is its lease's, its call still deals with it, or an exchange failed; and no
\* call removes an address of another while its own is there (kernel_address.rs).
THEOREM AddressesStayLeased == AddrSpec => AddressesFollowLeases
<1>1. AddrInit => AddrInv
  <2> SUFFICES ASSUME AddrInit PROVE AddrInv
    OBVIOUS
  <2>1. KernelOK
    BY DEF AddrInit, KernelOK
  <2>2. \A c \in AddrCallers : CallerOK(c)
    BY DEF AddrInit, CallerOK, NoAddrCall, Placed
  <2>3. LinkLocal.by \notin AddrCallers
    BY AddrConstants DEF LinkLocal
  <2> QED
    BY <2>1, <2>2, <2>3, AddrValues DEF AddrInit, AddrInv
<1>2. AddrInv => AddressesAreLeased
  BY DEF AddrInv, AddressesAreLeased, Accounted, Placed
<1>3. AddrInv /\ [AddrNext]_addrVars => OthersKeepTheirAddresses
  BY OnlyOwnAreRemoved
<1> QED
  BY <1>1, <1>2, <1>3, AddrStepInv, PTL DEF AddrSpec, AddressesFollowLeases
=============================================================================
