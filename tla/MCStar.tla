-------------------------------- MODULE MCStar --------------------------------
(***************************************************************************)
(* The membership of a star: the NAP's admission ledger, hosting, joining   *)
(* and the registry of sessions, each on an instance of its own.  `which`   *)
(* names the component that runs in a behaviour, the others rest.           *)
(***************************************************************************)
EXTENDS NapAdmission, StarHost, JoinNetwork, SessionRegistry, TLC

CONSTANTS Three, Two   \* interchangeable values: calls and keys; networks, nodes and requests

VARIABLE which

\* Hosts that admit one or two clients, and the ways a snapshot refuses everyone.
Snapshot(usable, nap, ceiling) == [usable |-> usable, nap |-> nap, ceiling |-> ceiling]
MCHosts ==
  {Snapshot(TRUE, TRUE, 1), Snapshot(TRUE, TRUE, 2), Snapshot(TRUE, TRUE, 0),
   Snapshot(FALSE, TRUE, 2), Snapshot(TRUE, FALSE, UnknownCeiling)}

MCSymmetry == Permutations(Three) \cup Permutations(Two)

MCInit ==
  /\ which \in {"admit", "host", "join", "registry"}
  /\ NapInit /\ Init /\ JoinInit /\ RegistryInit

MCNext ==
  /\ \/ which = "admit" /\ NapNext /\ UNCHANGED <<vars, joinVars, registryVars>>
     \/ which = "host" /\ Next /\ UNCHANGED <<napVars, joinVars, registryVars>>
     \/ which = "join" /\ JoinNext /\ UNCHANGED <<napVars, vars, registryVars>>
     \/ which = "registry" /\ RegistryNext /\ UNCHANGED <<napVars, vars, joinVars>>
  /\ UNCHANGED which

MCSpec == MCInit /\ [][MCNext]_<<which, napVars, vars, joinVars, registryVars>>
===============================================================================
