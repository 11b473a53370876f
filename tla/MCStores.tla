------------------------------- MODULE MCStores -------------------------------
(***************************************************************************)
(* What outlives a process and what is told to others: the identity files,  *)
(* the membership file behind the bus interface, the store of pinned keys   *)
(* and the command line, each on an instance of its own.  `which` names the *)
(* component that runs in a behaviour, the others rest.                     *)
(***************************************************************************)
EXTENDS ApiClient, Sequences, TLC

CONSTANTS
  NoFile, Torn,
  Starts, MaxIdentities, MaxFaults, MaxKills,
  Bad, Daemons, Callers, MaxRequests, MaxFailures, MaxCrashes,
  Threads, NoPins, MaxRecords, MaxCalls, MaxPinFailures, MaxPinCrashes

VARIABLES
  which,
  nodeFile, tlsFile, pc, node, key, made, issued, refused, lent, faults, kills,
  file, stage, loaded, guard, current, req, may, overtaken, sent, failures, crashes,
  pinFile, mutex, fileLock, thread, mayPin, refusals, pinCalls, pinFailures, pinCrashes

Files == INSTANCE IdentityFiles WITH MaxCrashes <- MaxKills, crashes <- kills

\* A directory that was never used, one of an installation that wrote the first
\* schema, one with a remembered network and an approved peer, and one written
\* by a later version.
Hi == <<72, 105>>
Line(n, state) == <<"network", n, state, <<4, 8, 6, 9>>>>   \* the name in hexadecimal
MCDocuments ==
  {NoFile,
   <<<<"version", 1>>, Line(1, "member"), <<"peer", 1, 1, TRUE, TRUE>>>>,
   <<<<"version", 2>>, Line(1, "not-member"), <<"peer", 1, 1, FALSE, TRUE>>>>,
   <<<<"version", 3>>, Line(1, "member")>>}
Api == INSTANCE DaemonApi WITH
  Clients <- Callers, Documents <- MCDocuments, Networks <- {1, 2}, Peers <- {1}, Name <- Hi

\* Two threads of one daemon, its bus and its control worker, and another
\* daemon; the store holds at most two records and is empty or full at first.
MCProcessOf == [t \in Threads |-> IF t = 3 THEN 2 ELSE 1]
MCPinDocuments == {NoFile, <<<<1, 1>>, <<2, 2>>>>}
Pins == INSTANCE PinStore WITH
  ProcessOf <- MCProcessOf, Nodes <- {1, 2, 3}, Keys <- {1, 2, 3}, PinDocuments <- MCPinDocuments,
  MaxFailures <- MaxPinFailures, MaxCrashes <- MaxPinCrashes

\* The daemon may be upgraded, and replaced by one with another interface.
MCVersions == {<<1, 2>>, <<2, 0>>}

identity == <<nodeFile, tlsFile, pc, node, key, made, issued, refused, lent, faults, kills>>
api == <<file, stage, loaded, guard, current, req, may, overtaken, sent, failures, crashes>>
pins == <<pinFile, mutex, fileLock, thread, mayPin, refusals, pinCalls, pinFailures, pinCrashes>>

MCSymmetry == Permutations(Clients)

MCInit ==
  /\ which \in {"identity", "api", "pins", "cli"}
  /\ Files!Init
  /\ Api!Init /\ (which # "api" => file.seen = NoFile)
  /\ Pins!PinInit /\ (which # "pins" => pinFile.seen = NoFile)
  /\ CliInit

MCNext ==
  /\ \/ which = "identity" /\ Files!Next /\ UNCHANGED <<api, pins, cliVars>>
     \/ which = "api" /\ Api!Next /\ UNCHANGED <<identity, pins, cliVars>>
     \/ which = "pins" /\ Pins!PinNext /\ UNCHANGED <<identity, api, cliVars>>
     \/ which = "cli" /\ CliNext /\ UNCHANGED <<identity, api, pins>>
  /\ UNCHANGED which

MCSpec == MCInit /\ [][MCNext]_<<which, identity, api, pins, cliVars>>

-----------------------------------------------------------------------------
\* The node and its key stay what they once were, over concurrent starts, kills
\* and power losses (identity.rs, control_tls.rs).
IdentityIsStable == [][which = "identity" => Files!IdentityIsStable]_identity

\* Acknowledged changes of memberships and of pinned keys survive, over
\* overlapping requests, threads and daemons, failures and power losses
\* (lib.rs, membership_store.rs, peer_trust.rs, peer_pin_store.rs).
AcknowledgedChangesStay ==
  [][/\ which = "api" => Api!AcknowledgedChangesStay
     /\ which = "pins" => Pins!PinChangesStay']_<<api, pins>>
===============================================================================
