----------------------------- MODULE MCHostState -----------------------------
(***************************************************************************)
(* What the daemon reads from and leaves in NetworkManager, BlueZ and the   *)
(* kernel, each on an instance of its own: `which` names the component that *)
(* runs in a behaviour, the others rest in an initial state.                *)
(***************************************************************************)
EXTENDS HostAddresses, BluezDiscovery, TLC

CONSTANTS
  NmCallers, MaxNmFaults,
  Adapters, PeersOfAdapter, MaxWatchEvents

VARIABLES
  which,
  profiles, device, nmCalls, nmAck, steady, nmFaults,
  running, adapters, btDevices, adapterSub, adapterSignals, adapterView, peerSub, peerSignals, peerView,
  restarted, watchEvents

\* h1 and h2 fall into the same segment; the user's prefixes are inside it,
\* beside it, and the default route.
MCSegmentOf == ("h1" :> 4) @@ ("h2" :> 4) @@ ("j" :> 8)
MCBridgeOf == ("h1" :> "brb1") @@ ("h2" :> "brb2")
MCUserPrefixes == {<<6, 3>>, <<9, 3>>, <<0, 0>>}

Op(op, o, e) == [op |-> op, owner |-> o, entry |-> e]
MCNmOps ==
  {Op("bridge", "n1", <<>>), Op("addr", "n1", <<"a">>), Op("unaddr", "n1", <<"a">>), Op("remove", "n1", <<>>),
   Op("addr", "n2", <<"b">>), Op("route", "n2", <<"d", "g1">>), Op("unroute", "n2", <<"d", "g1">>)}
MCAdapters == "hci0" :> 0 @@ "hci1" :> 1
MCSymmetry == Permutations(NmCallers)

Nm == INSTANCE NmProfiles WITH NmOps <- MCNmOps
Watch == INSTANCE BluezWatch WITH devices <- btDevices

nm == <<profiles, device, nmCalls, nmAck, steady, nmFaults>>
watch == <<running, adapters, btDevices, adapterSub, adapterSignals, adapterView, peerSub, peerSignals,
           peerView, restarted, watchEvents>>

MCInit ==
  /\ which \in {"survey", "nm", "watch", "air", "addr"}
  /\ SurveyInit /\ (which # "survey" => nmUp /\ devices = [i \in Interfaces |-> NoDevice])
  /\ Nm!NmInit /\ (which # "nm" => device = Nm!NoDevice)
  /\ Watch!WatchInit /\ AirInit /\ AddrInit

MCNext ==
  /\ \/ which = "survey" /\ SurveyNext /\ UNCHANGED <<nm, watch, airVars, addrVars>>
     \/ which = "nm" /\ Nm!NmNext /\ UNCHANGED <<surveyVars, watch, airVars, addrVars>>
     \/ which = "watch" /\ Watch!WatchNext /\ UNCHANGED <<surveyVars, nm, airVars, addrVars>>
     \/ which = "air" /\ AirNext /\ UNCHANGED <<surveyVars, nm, watch, addrVars>>
     \/ which = "addr" /\ AddrNext /\ UNCHANGED <<surveyVars, nm, watch, airVars>>
  /\ UNCHANGED which

MCSpec == MCInit /\ [][MCNext]_<<which, surveyVars, nm, watch, airVars, addrVars>>

-----------------------------------------------------------------------------
\* No call replaces or takes down a connection that is not its network's, none
\* adds a second profile for a network, and an acknowledged ensure_bridge,
\* ensure_address or ensure_route is in force, whatever earlier calls failed
\* half-way (networkmanager.rs).
ProfilesAreOurs ==
  [][/\ Nm!AcknowledgedIsInForce'
     /\ Nm!OthersKeepTheInterface /\ Nm!OneProfilePerNetwork]_nm

\* A reader that has taken every adapter and peer event knows the adapters and
\* peers there are (bluez.rs).
BluezEventsAddUp == Watch!AdapterEventsAddUp /\ Watch!PeerEventsAddUp

\* A removal that succeeds, be it a repeated one, is applied to the device
\* (networkmanager.rs:590).
RemovalIsApplied == which = "nm" => Nm!RemovalIsApplied
===============================================================================
