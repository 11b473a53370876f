----------------------------- MODULE MCBluetooth -----------------------------
(***************************************************************************)
(* The NAP server, the PANU link, pairing, the watch on NetworkManager and  *)
(* the health reports, each on an instance of its own: `which` names the    *)
(* one that runs in a behaviour, the others rest in an initial state.       *)
(***************************************************************************)
EXTENDS BluezPairing, RuntimeHealth

CONSTANTS
  Callers, Bridges, Clients, MaxOwner, MaxNapEvents,
  Peer, OtherPeer, KernelNames, UdevNames, MaxPanEvents,
  Profiles, NmDevices, QueueCapacity, MaxNmChanges

VARIABLES
  which,
  bluez, instances, powered, server, entry, call, members, sub, view, straddled, napEvents,
  links, devices, op, held, disturbed, found, watch, signals, panEvents,
  nmUp, profiles, nmDevices, nmSub, nmView, overflowed, nmChanges

Pan == INSTANCE PanLinks
Nm == INSTANCE NmWatch WITH devices <- nmDevices, sub <- nmSub, view <- nmView

nap == <<bluez, instances, powered, server, entry, call, members, sub, view, straddled, napEvents>>
panu == <<links, devices, op, held, disturbed, found, watch, signals, panEvents>>
nm == <<nmUp, profiles, nmDevices, nmSub, nmView, overflowed, nmChanges>>

MCInit ==
  /\ which \in {"nap", "panu", "pairing", "nm", "health"}
  /\ Pan!NapInit /\ Pan!PanInit /\ PairInit /\ Nm!NmWatchInit
  /\ HealthInit /\ (which # "health" => machine = Ready)

MCNext ==
  /\ \/ which = "nap" /\ Pan!NapNext /\ UNCHANGED <<panu, pairVars, nm, healthVars>>
     \/ which = "panu" /\ Pan!PanNext /\ UNCHANGED <<nap, pairVars, nm, healthVars>>
     \/ which = "pairing" /\ PairNext /\ UNCHANGED <<nap, panu, nm, healthVars>>
     \/ which = "nm" /\ Nm!NmWatchNext /\ UNCHANGED <<nap, panu, pairVars, healthVars>>
     \/ which = "health" /\ HealthNext /\ UNCHANGED <<nap, panu, pairVars, nm>>
  /\ UNCHANGED which

\* The fairness of each component; the readers of the event subscriptions keep
\* calling next_event.
MCSpec ==
  /\ MCInit /\ [][MCNext]_<<which, nap, panu, pairVars, nm, healthVars>>
  /\ WF_nap(which = "nap" /\ Pan!NextEvent)
  /\ WF_panu(which = "panu" /\ Pan!Opened) /\ WF_panu(which = "panu" /\ Pan!NextPanuEvent)
  /\ \A c \in PairCallers : WF_pairVars(which = "pairing" /\ CallStep(c))
  /\ WF_nm(which = "nm" /\ Nm!NextEvent) /\ WF_nm(which = "nm" /\ Nm!NmReturns)
  /\ WF_healthVars(which = "health" /\ Daemon) /\ WF_healthVars(which = "health" /\ Load)
  /\ WF_healthVars(which = "health" /\ Timeout) /\ SF_healthVars(which = "health" /\ UpdateStatus)
  /\ SF_healthVars(which = "health" /\ (LoadOverview \/ CloneStatus))

-----------------------------------------------------------------------------
\* Once no call is in flight, NapControl records exactly the server BlueZ holds
\* for this process; no call takes down another program's; and no event reports a
\* client that was attached, or gone, already. A PANU attachment names the device
\* of the peer's own link, and a cleanup takes down the link it was given and no
\* replacement (pan.rs).
PanLinksAreOurs ==
  [][/\ which = "nap" => Pan!OwnershipIsExact' /\ Pan!OthersKeepTheirServer /\ Pan!EventsAreChanges
     /\ which = "panu" => Pan!ResolvedIsOurs' /\ Pan!ReplacementsSurvive]_<<nap, panu>>

\* Events and permits get through: the reader of NAP events keeps catching up
\* with the clients in the bridge, a PANU link that stays down is reported, and
\* pair gives its permit back though BlueZ may never answer (pan.rs, bluez.rs).
EventsAreDelivered == []<>(Pan!ClientsKnown /\ Pan!LossReported /\ PermitFree)

\* What is observed settles when the machine does: the reader of NetworkManager's
\* events ends with its profiles and devices as they are, whatever changed while
\* they were enumerated, and the operator's screen with the report of the settled
\* machine, through the thread, the locks, a restart of the daemon and the polling
\* of the terminal (networkmanager.rs, runtime_health.rs, main.rs).
ObservationsConverge ==
  <>[]((which = "nm" => Nm!StateKnown) /\ (which = "health" => ScreenIsCurrent))
===============================================================================
