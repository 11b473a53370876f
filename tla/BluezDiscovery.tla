---------------------------- MODULE BluezDiscovery ----------------------------
(***************************************************************************)
(* Finding and announcing networks: start_discovery, stop_discovery and    *)
(* list_networks of single_star.rs (apps/daemon) over the discovery calls  *)
(* of bluez.rs, and the network advertisement of network_discovery.rs.     *)
(*                                                                         *)
(* What the daemon remembers (a discovery slot, an advertisement handle, a *)
(* served D-Bus object) and what BlueZ does (scan, advertise) are separate *)
(* state: BlueZ forgets both when it restarts, and ends a scan when the    *)
(* adapter is switched off.                                                *)
(***************************************************************************)
EXTENDS Naturals, FiniteSets

CONSTANTS
  Durable,       \* networks of the membership registry
  Heard,         \* networks of hosts in radio range
  MaxAirEvents   \* bounds what BlueZ and the radio do, and refused calls

VARIABLES
  bt,         \* BlueZ: up, powered, scanning for us, advertising for us
  inRange,    \* device -> the advertisement it sends
  slot,       \* SingleStarNetworkOperations::discovery is set
  scanCall,   \* the call that holds discovery_transition
  listed,     \* the answer of the last list_networks
  served,     \* the advertisement object is in the D-Bus object server
  handle,     \* the host runtime holds a NetworkAdvertisement
  adCall,     \* the advertisement call in progress
  interrupted,  \* BlueZ ended a scan by itself (history)
  airEvents

airVars == <<bt, inRange, slot, scanCall, listed, served, handle, adCall, interrupted, airEvents>>

Devices == {"dev_1", "dev_2"}
Silent == "silent"            \* no BlueRoute record
Malformed == "malformed"      \* wrong length, magic, version or role
Usable == bt.up /\ bt.powered
AirEvent == airEvents < MaxAirEvents /\ airEvents' = airEvents + 1

\* A call BlueZ answers with an error, or cannot answer: always when it is not
\* ready for it, else as one of the bounded events. The kinds of error that
\* advertisement_method_error tells apart are one outcome.
Declined(ready) == IF ready THEN AirEvent ELSE UNCHANGED airEvents

\* The adapter is present and powered; its LE advertising manager is there
\* whenever it is.
EnsureAdvertisingManager == Usable

ScanOnly == UNCHANGED <<inRange, listed, served, handle, adCall>>
AdOnly == UNCHANGED <<inRange, slot, scanCall, listed, interrupted>>

(* ------------------------------- discovery ----------------------------- *)

\* start_discovery: with a session of its own it is done; else it picks a
\* powered adapter.
StartDiscovery ==
  /\ scanCall = "none"
  /\ scanCall' = IF slot THEN "started" ELSE IF Usable THEN "start" ELSE "failed"
  /\ ScanOnly /\ UNCHANGED <<bt, slot, interrupted, airEvents>>

\* call_discovery_method(StartDiscovery): the adapter is read again, and may
\* be gone, off or refuse; then the session is installed.
CallStart ==
  /\ scanCall = "start"
  /\ \/ Usable /\ bt' = [bt EXCEPT !.scanning = TRUE] /\ slot' = TRUE /\ scanCall' = "started" /\ UNCHANGED airEvents
     \/ Declined(Usable) /\ scanCall' = "failed" /\ UNCHANGED <<bt, slot>>
  /\ ScanOnly /\ UNCHANGED interrupted

\* stop_discovery: nothing to do without a session.
StopDiscovery ==
  /\ scanCall = "none" /\ scanCall' = (IF slot THEN "stop" ELSE "stopped")
  /\ ScanOnly /\ UNCHANGED <<bt, slot, interrupted, airEvents>>

\* call_discovery_method(StopDiscovery): BlueZ refuses to end a scan it does
\* not know. Only an accepted call clears the slot.
CallStop ==
  /\ scanCall = "stop"
  /\ \/ bt.scanning /\ bt' = [bt EXCEPT !.scanning = FALSE] /\ slot' = FALSE /\ scanCall' = "stopped" /\ UNCHANGED airEvents
     \/ Declined(bt.scanning) /\ scanCall' = "failed" /\ UNCHANGED <<bt, slot>>
  /\ ScanOnly /\ UNCHANGED interrupted

\* TransitionGuard is dropped; the caller has its answer.
EndScanCall ==
  /\ scanCall \in {"started", "stopped", "failed"} /\ scanCall' = "none"
  /\ interrupted' = (interrupted /\ slot)
  /\ ScanOnly /\ UNCHANGED <<bt, slot, airEvents>>

\* advertised_network_id: a record that does not decode is ignored.
Advertised(ads) == {ads[d] : d \in DOMAIN ads} \ {Silent, Malformed}

\* list_networks: the registry's networks, and while a session is held the
\* networks BlueZ hears; a network known from both is the registry's. Without
\* BlueZ the whole call fails.
ListNetworks ==
  /\ slot => bt.up
  /\ listed' = Durable \cup (IF slot THEN Advertised(inRange) ELSE {})
  /\ UNCHANGED <<bt, inRange, slot, scanCall, served, handle, adCall, interrupted, airEvents>>

(* ----------------------------- advertisement --------------------------- *)

\* start_network_advertisement: the adapter must be powered, and the object
\* server must not hold an advertisement already.
StartAdvertisement ==
  /\ adCall = "none" /\ ~handle /\ EnsureAdvertisingManager
  /\ adCall' = (IF served THEN "none" ELSE "register") /\ served' = TRUE
  /\ AdOnly /\ UNCHANGED <<bt, handle, airEvents>>

RegisterKeepsObject ==
  /\ adCall = "register"
  /\ \/ Usable /\ bt' = [bt EXCEPT !.advertising = TRUE] /\ handle' = TRUE /\ adCall' = "none" /\ UNCHANGED airEvents
     \/ Declined(Usable) /\ adCall' = "none" /\ UNCHANGED <<bt, handle>>
  /\ UNCHANGED served /\ AdOnly

\* RegisterAdvertisement; a refusal takes the object back.
RegisterAdvertisement ==
  /\ adCall = "register" /\ adCall' = "none"
  /\ \/ Usable /\ bt' = [bt EXCEPT !.advertising = TRUE] /\ handle' = TRUE /\ UNCHANGED <<served, airEvents>>
     \/ Declined(Usable) /\ served' = FALSE /\ UNCHANGED <<bt, handle>>
  /\ AdOnly

\* stop_network_advertisement: DoesNotExist is success. Any other refusal
\* leaves the object, and the host keeps the handle to try again.
UnregisterAdvertisement ==
  /\ adCall = "none" /\ handle
  /\ \/ bt.up /\ bt' = [bt EXCEPT !.advertising = FALSE] /\ adCall' = "remove" /\ UNCHANGED airEvents
     \/ Declined(bt.up) /\ UNCHANGED <<bt, adCall>>
  /\ UNCHANGED <<served, handle>> /\ AdOnly
RemoveObject ==
  /\ adCall = "remove" /\ adCall' = "none" /\ served' = FALSE /\ handle' = FALSE
  /\ UNCHANGED <<bt, airEvents>> /\ AdOnly

(* ----------------------------- environment ----------------------------- *)

\* BlueZ stops or starts, and the adapter is switched off or on.
BluezToggles ==
  /\ AirEvent
  /\ bt' \in {[up |-> ~bt.up, powered |-> bt.powered, scanning |-> FALSE, advertising |-> FALSE],
              [up |-> bt.up, powered |-> ~bt.powered, scanning |-> FALSE, advertising |-> FALSE]}
  /\ interrupted' = (interrupted \/ bt.scanning)
  /\ UNCHANGED <<inRange, slot, scanCall, listed, served, handle, adCall>>
RadioChanges ==
  /\ AirEvent /\ \E d \in Devices, ad \in Heard \cup {Silent, Malformed} : inRange' = [inRange EXCEPT ![d] = ad]
  /\ UNCHANGED <<bt, slot, scanCall, listed, served, handle, adCall, interrupted>>

AirInit ==
  /\ bt = [up |-> TRUE, powered |-> TRUE, scanning |-> FALSE, advertising |-> FALSE]
  /\ inRange = [d \in Devices |-> Silent] /\ slot = FALSE /\ scanCall = "none" /\ listed = {}
  /\ served = FALSE /\ handle = FALSE /\ adCall = "none" /\ interrupted = FALSE /\ airEvents = 0

AirNext ==
  \/ StartDiscovery \/ CallStart \/ StopDiscovery \/ CallStop \/ EndScanCall \/ ListNetworks
  \/ StartAdvertisement \/ RegisterAdvertisement \/ UnregisterAdvertisement \/ RemoveObject
  \/ BluezToggles \/ RadioChanges

AirSpec == AirInit /\ [][AirNext]_airVars

(* ----------------------------- properties ------------------------------ *)

\* Whatever BlueZ does and refuses, nothing is left on the air that the
\* daemon could not end: a scan has its slot, an advertisement its object and
\* its handle. And no call leaves a served object without a handle, which
\* would refuse every later advertisement. A slot without a scan exists only
\* where BlueZ itself ended the scan.
NothingLeftOnAir ==
  /\ bt.scanning => slot
  /\ slot => bt.scanning \/ interrupted
  /\ bt.advertising => served /\ handle
  /\ adCall = "none" => (served <=> handle)
=============================================================================
