------------------------------ MODULE BluezWatch ------------------------------
(***************************************************************************)
(* The adapter and peer subscriptions of bluez.rs (crates/blueroute-linux) *)
(* and the enumerations they rest on.                                      *)
(*                                                                         *)
(* Both turn BlueZ's signals into events. The adapter subscription takes a *)
(* signal only as a reason to enumerate again and reports the difference;  *)
(* the peer subscription keeps nothing and translates each signal, reading *)
(* the device again when it changed. BlueZ sends no signal when it dies.   *)
(***************************************************************************)
EXTENDS Naturals, FiniteSets, Sequences, Functions, TLC

CONSTANTS
  Adapters,         \* adapter object paths
  PeersOfAdapter,   \* device object paths under the watched adapter
  MaxWatchEvents    \* bounds what BlueZ does

VARIABLES
  running,       \* org.bluez has an owner
  adapters,      \* adapter -> Powered
  devices,       \* device -> the properties DiscoveredPeer shows
  adapterSub,    \* BluezAdapterSubscription: state, snapshot, pending
  adapterSignals,  \* adapter signals it has not read
  adapterView,   \* what its events add up to, for a reader that began with the snapshot
  peerSub,       \* BluezPeerSubscription: off, live, or live and the peers listed
  peerSignals,   \* device signals it has not read
  peerView,      \* what its events add up to, for a reader that listed the peers
  restarted,     \* BlueZ died since the subscriptions began (history)
  watchEvents

watchVars == <<running, adapters, devices, adapterSub, adapterSignals, adapterView,
               peerSub, peerSignals, peerView, restarted, watchEvents>>

Without(f, x) == Restrict(f, DOMAIN f \ {x})
With(f, x, v) == (x :> v) @@ f
BluezEvent == watchEvents < MaxWatchEvents /\ watchEvents' = watchEvents + 1
PeersSame == UNCHANGED <<peerSub, peerSignals, peerView>>
AdaptersSame == UNCHANGED <<adapterSub, adapterSignals, adapterView>>
BluezSame == UNCHANGED <<running, adapters, devices, restarted, watchEvents>>

(* --------------------------- adapter events ---------------------------- *)

Off == [state |-> "off", snapshot |-> <<>>, pending |-> <<>>]

\* subscribe_adapter_events: the signal stream first, then the snapshot.
SubscribeAdapters ==
  /\ adapterSub.state = "off" /\ running
  /\ adapterSub' = [Off EXCEPT !.state = "opening"]
  /\ UNCHANGED <<adapterSignals, adapterView>> /\ PeersSame /\ BluezSame
SnapshotAdapters ==
  /\ adapterSub.state = "opening"
  /\ IF running THEN adapterSub' = [adapterSub EXCEPT !.state = "live", !.snapshot = adapters] /\ adapterView' = adapters
                ELSE adapterSub' = Off /\ adapterView' = <<>>
  /\ adapterSignals' = IF running THEN adapterSignals ELSE 0
  /\ PeersSame /\ BluezSame

\* Events in the order of diff_adapter_snapshots: removals and power changes,
\* then additions, each in the order of the handles.
Events(kind, handles, now) ==
  [i \in 1..Cardinality(handles) |->
     LET h == CHOOSE a \in handles : Cardinality({b \in handles : Adapters[b] < Adapters[a]}) = i - 1
     IN <<kind, h, IF h \in DOMAIN now THEN now[h] ELSE FALSE>>]

DiffPresence(previous, current) ==
  Events("set", DOMAIN current \ DOMAIN previous, current) \o
  Events("removed", DOMAIN previous \ DOMAIN current, current)

DiffAdapterSnapshots(previous, current) ==
  LET gone == DOMAIN previous \ DOMAIN current
      switched == {h \in DOMAIN previous \cap DOMAIN current : previous[h] # current[h]}
      merged == Events("old", gone \cup switched, current)
  IN [i \in DOMAIN merged |-> IF merged[i][2] \in gone THEN <<"removed", merged[i][2], FALSE>>
                                                    ELSE <<"set", merged[i][2], merged[i][3]>>]
     \o Events("set", DOMAIN current \ DOMAIN previous, current)

\* next_event: a pending event first; else a signal is read and the adapters
\* are enumerated. With BlueZ gone that is an error, and the signal is spent.
PopAdapterEvent ==
  /\ adapterSub.state = "live" /\ adapterSub.pending # <<>>
  /\ LET e == Head(adapterSub.pending) IN
     adapterView' = IF e[1] = "removed" THEN Without(adapterView, e[2]) ELSE With(adapterView, e[2], e[3])
  /\ adapterSub' = [adapterSub EXCEPT !.pending = Tail(@)]
  /\ UNCHANGED adapterSignals /\ PeersSame /\ BluezSame
ReadAdapterSignal ==
  /\ adapterSub.state = "live" /\ adapterSub.pending = <<>> /\ adapterSignals > 0
  /\ adapterSignals' = adapterSignals - 1
  /\ adapterSub' = IF running
       THEN [adapterSub EXCEPT !.snapshot = adapters,
                               !.pending = DiffAdapterSnapshots(adapterSub.snapshot, adapters)]
       ELSE adapterSub
  /\ UNCHANGED adapterView /\ PeersSame /\ BluezSame

(* ----------------------------- peer events ----------------------------- *)

\* subscribe_peer_events, and then discovered_peers.
SubscribePeers ==
  /\ peerSub = "off" /\ running /\ peerSub' = "live"
  /\ UNCHANGED <<peerSignals, peerView>> /\ AdaptersSame /\ BluezSame
ListPeers ==
  /\ peerSub = "live" /\ running /\ peerSub' = "listed" /\ peerView' = devices
  /\ UNCHANGED peerSignals /\ AdaptersSame /\ BluezSame

FetchNew(d) ==
  IF running /\ d \in DOMAIN devices \ DOMAIN peerView THEN With(peerView, d, devices[d]) ELSE peerView

\* peer_event_from_signal on a changed device reads it again; a device that
\* is gone gives no event. An added device is as the signal shows it.
FetchPeer(d) ==
  IF running /\ d \in DOMAIN devices THEN With(peerView, d, devices[d]) ELSE peerView
PeerEvent(s) ==
  CASE s[1] = "added" -> With(peerView, s[2], s[3])
    [] s[1] = "removed" -> Without(peerView, s[2])
    [] s[1] = "changed" -> FetchPeer(s[2])

NextPeerEvent ==
  /\ peerSub # "off" /\ peerSignals # <<>> /\ peerSignals' = Tail(peerSignals)
  /\ peerView' = IF peerSub = "listed" THEN PeerEvent(Head(peerSignals)) ELSE peerView
  /\ UNCHANGED peerSub /\ AdaptersSame /\ BluezSame

(* -------------------------------- BlueZ -------------------------------- *)

\* Two unread adapter signals stand for any number: each is only a reason to
\* enumerate.
SignalAdapter == adapterSignals' = IF adapterSub.state = "off" THEN 0 ELSE IF adapterSignals < 2 THEN adapterSignals + 1 ELSE 2
SignalPeer(signals) == peerSignals' = IF peerSub = "off" THEN <<>> ELSE peerSignals \o signals

AdapterChanges ==
  /\ running /\ BluezEvent /\ SignalAdapter
  /\ \E a \in DOMAIN Adapters :
       \/ a \in DOMAIN adapters /\ adapters' \in {Without(adapters, a), With(adapters, a, ~adapters[a])}
       \/ a \notin DOMAIN adapters /\ \E on \in BOOLEAN : adapters' = With(adapters, a, on)
  /\ UNCHANGED <<running, devices, adapterSub, adapterView, peerSub, peerSignals, peerView, restarted>>
DeviceChanges ==
  /\ running /\ BluezEvent
  /\ \E d \in PeersOfAdapter :
       \/ /\ d \in DOMAIN devices
          /\ \/ devices' = Without(devices, d) /\ SignalPeer(<<<<"removed", d, FALSE>>>>)
             \/ devices' = With(devices, d, ~devices[d]) /\ SignalPeer(<<<<"changed", d, FALSE>>>>)
       \/ d \notin DOMAIN devices /\ devices' = With(devices, d, FALSE) /\ SignalPeer(<<<<"added", d, FALSE>>>>)
  /\ UNCHANGED <<running, adapters, adapterSub, adapterSignals, adapterView, peerSub, peerView, restarted>>

BluezDies ==
  /\ running /\ BluezEvent /\ running' = FALSE /\ adapters' = <<>> /\ devices' = <<>> /\ restarted' = TRUE
  /\ AdaptersSame /\ PeersSame
\* A started BlueZ announces every adapter and device it knows.
BluezReturns ==
  /\ ~running /\ running' = TRUE
  /\ \E present \in SUBSET DOMAIN Adapters, known \in SUBSET PeersOfAdapter :
       /\ adapters' = [a \in present |-> FALSE] /\ devices' = [d \in known |-> TRUE]
       /\ IF present = {} THEN UNCHANGED adapterSignals ELSE SignalAdapter
       /\ \E order \in [1..Cardinality(known) -> known] :
            known = Range(order) /\ SignalPeer([i \in DOMAIN order |-> <<"added", order[i], TRUE>>])
  /\ UNCHANGED <<adapterSub, adapterView, peerSub, peerView, restarted, watchEvents>>

WatchInit ==
  /\ running = TRUE /\ adapters = <<>> /\ devices = <<>>
  /\ adapterSub = Off /\ adapterSignals = 0 /\ adapterView = <<>>
  /\ peerSub = "off" /\ peerSignals = <<>> /\ peerView = <<>> /\ restarted = FALSE /\ watchEvents = 0

WatchNext ==
  \/ SubscribeAdapters \/ SnapshotAdapters \/ PopAdapterEvent \/ ReadAdapterSignal
  \/ SubscribePeers \/ ListPeers \/ NextPeerEvent
  \/ AdapterChanges \/ DeviceChanges \/ BluezDies \/ BluezReturns

WatchSpec == WatchInit /\ [][WatchNext]_watchVars

(* ----------------------------- properties ------------------------------ *)

\* The adapter events add up: a reader that has taken them all knows every
\* adapter and its power, also after BlueZ was restarted, unless it came back
\* with no adapter to announce.
AdapterEventsAddUp ==
  (running /\ adapterSub.state = "live" /\ adapterSub.pending = <<>> /\ adapterSignals = 0)
    => adapterView = adapters \/ (restarted /\ adapters = <<>>)

\* So do the peer events, as long as BlueZ lives: an event is made from the
\* signal or from a newer read, and never leaves the reader behind. A device
\* that a restarted BlueZ no longer knows is never reported removed.
PeerEventsAddUp ==
  (running /\ peerSub = "listed" /\ peerSignals = <<>>)
    => /\ peerView = devices \/ restarted
       /\ \A d \in DOMAIN devices : d \in DOMAIN peerView /\ peerView[d] = devices[d]
=============================================================================
