----------------------------- MODULE ApiClient -----------------------------
(***************************************************************************)
(* The client of the daemon's API (crates/blueroute-client) under the       *)
(* command line (apps/cli/src/main.rs).  Every request negotiates the       *)
(* version and is then a call of its own; commands that need several reads  *)
(* make several requests; the daemon is restarted in between, upgraded,     *)
(* downgraded or with another identity, and other command lines change its  *)
(* network.                                                                 *)
(***************************************************************************)
EXTENDS Integers, FiniteSets

CONSTANTS Clients, Networks, NoNetwork,
          Versions,        \* of the daemons that may be installed
          MaxRestarts, MaxInvocations

CURRENT == <<1, 1>>

VARIABLES daemon,      \* the process behind the service's name
          cli,         \* the command line of each client
          held,        \* the identities the daemon had during each command
          restarts, invocations

cliVars == <<daemon, cli, held, restarts, invocations>>

Reads == {"read"}
Mutations == {"create", "leave", "trust"}
Inspections == {"localkey", "verify", "verifykey"}   \* with --network, without it
NoIdentity == [node |-> 0, key |-> 0, network |-> NoNetwork, version |-> <<0, 0>>]
Fresh == [at |-> "idle", op |-> "none", step |-> 1, outcome |-> "none", before |-> NoIdentity,
          diag |-> NoIdentity, after |-> NoIdentity, expected |-> NoIdentity,
          applied |-> 0, strayed |-> FALSE, exit |-> -1]

Identity == [node |-> daemon.node, key |-> daemon.key, network |-> daemon.network,
             version |-> daemon.version]

\* ApiVersion::is_compatible_with_server.
IsCompatible(server) == server[1] = CURRENT[1] /\ server[2] >= CURRENT[2]

\* ------------------------------------------------------------------------
\* run() of the command line

Ends(c, code) == cli' = [cli EXCEPT ![c].at = "done", ![c].exit = code]

\* parse, then BlueRouteClient::connect.
Invoke(c) ==
    /\ cli[c].at \in {"idle", "done"} /\ invocations < MaxInvocations
    /\ invocations' = invocations + 1
    /\ \E op \in Reads \cup Mutations \cup Inspections \cup {"usage", "help"} :
          cli' = [cli EXCEPT ![c] =
                    IF op \in {"usage", "help"}
                    THEN [Fresh EXCEPT !.at = "done", !.op = op, !.exit = IF op = "help" THEN 0 ELSE 2]
                    ELSE [Fresh EXCEPT !.at = "connect", !.op = op,
                                        !.expected = IF op \in {"verify", "verifykey"}
                                                     THEN Identity ELSE @]]
    /\ held' = [held EXCEPT ![c] = {Identity}]
    /\ UNCHANGED <<daemon, restarts>>

\* negotiate_version, on connecting and before every request.
Negotiate(c) ==
    /\ cli[c].at \in {"connect", "version"}
    /\ IF daemon.up /\ IsCompatible(daemon.version)
       THEN cli' = [cli EXCEPT ![c].at = IF @ = "connect" THEN "version" ELSE "call"]
       ELSE Ends(c, 3)
    /\ UNCHANGED <<daemon, held, restarts, invocations>>

\* The command once the daemon has answered its call with o.
Replied(c, o) ==
    [cli[c] EXCEPT !.at = "reply", !.outcome = o, !.strayed = @ \/ ~IsCompatible(daemon.version)]

\* The daemon's side of a mutation: refused, or carried out.
Handles(c) ==
    \/ /\ \E o \in {"denied", "unsupported", "failed"} : cli' = [cli EXCEPT ![c] = Replied(c, o)]
       /\ UNCHANGED <<daemon, held>>
    \/ /\ \E n \in CASE cli[c].op = "create" -> Networks
                     [] cli[c].op = "leave" -> {NoNetwork}
                     [] cli[c].op = "trust" -> {daemon.network} :
             /\ daemon' = [daemon EXCEPT !.network = n]
             /\ held' = [d \in Clients |-> held[d] \cup {[Identity EXCEPT !.network = n]}]
       /\ cli' = [cli EXCEPT ![c] = [Replied(c, "ack") EXCEPT !.applied = @ + 1]]

\* The call itself: a lost name answers ServiceUnknown.
Deliver(c) ==
    /\ cli[c].at = "call"
    /\ IF ~daemon.up THEN Ends(c, 3) /\ UNCHANGED <<daemon, held>>
       ELSE IF cli[c].op \in Mutations THEN Handles(c)
       ELSE /\ \E o \in {"value", "failed"} :
                  cli' = [cli EXCEPT ![c] = [Replied(c, o) EXCEPT
                             !.before = IF cli[c].step = 1 THEN [Identity EXCEPT !.key = 0] ELSE @,
                             !.diag = IF cli[c].step = 2 THEN [Identity EXCEPT !.node = 0] ELSE @,
                             !.after = IF cli[c].step = 3 THEN [Identity EXCEPT !.key = 0] ELSE @]]
            /\ UNCHANGED <<daemon, held>>
    /\ UNCHANGED <<restarts, invocations>>

\* require_stable_local_identity: a status names the node, a snapshot of
\* diagnostics the key, both name the network.
StableLocalIdentity(cl) ==
    /\ cl.before.version = cl.diag.version /\ cl.before.version = cl.after.version
    /\ cl.before.node = cl.after.node
    /\ cl.before.network = cl.diag.network
    /\ cl.before.network = cl.after.network

\* verify_local_key compares the network only with one that was given.
VerifyLocalKey(cl) ==
    /\ cl.before.node = cl.expected.node /\ cl.diag.key = cl.expected.key
    /\ cl.op = "verify" => cl.before.network = cl.expected.network

\* The tuple format_local_key prints.
LocalKey(cl) == [node |-> cl.before.node, key |-> cl.diag.key, network |-> cl.before.network,
                 version |-> cl.before.version]

\* CliFailure: the exit code of each kind of ClientError.
Finish(cl) ==
    CASE cl.outcome = "denied" -> 4
      [] cl.outcome = "unsupported" -> 5
      [] cl.outcome = "failed" -> 1
      [] cl.outcome = "ack" -> 0
      [] cl.outcome = "value" ->
            IF \/ cl.op \in Reads
               \/ StableLocalIdentity(cl) /\ (cl.op # "localkey" => VerifyLocalKey(cl)) THEN 0 ELSE 1

\* Status, diagnostics and status again, for a local key.
InspectFurther(c) ==
    /\ cli[c].at = "reply" /\ cli[c].op \in Inspections /\ cli[c].step < 3
    /\ cli[c].outcome = "value"
    /\ cli' = [cli EXCEPT ![c].at = "version", ![c].step = @ + 1]
    /\ UNCHANGED <<daemon, held, restarts, invocations>>

Reply(c) ==
    /\ cli[c].at = "reply"
    /\ cli[c].op \in Inspections /\ cli[c].outcome = "value" => cli[c].step = 3
    /\ Ends(c, Finish(cli[c]))
    /\ UNCHANGED <<daemon, held, restarts, invocations>>

\* ------------------------------------------------------------------------
\* The daemon's process

\* A call it owed an answer gets NoReply, which is never retried.
LostRetried(cl) == IF cl.at = "reply" THEN [cl EXCEPT !.at = "version"] ELSE cl
Lost(cl) == IF cl.at = "reply" THEN [cl EXCEPT !.at = "done", !.exit = 3] ELSE cl

Dies ==
    /\ daemon.up /\ restarts < MaxRestarts
    /\ restarts' = restarts + 1
    /\ daemon' = [daemon EXCEPT !.up = FALSE]
    /\ cli' = [c \in Clients |-> Lost(cli[c])]
    /\ UNCHANGED <<held, invocations>>

\* The next daemon has the same state, another key, or another identity; no
\* identity comes back.
BusStarts ==
    /\ ~daemon.up
    /\ \E v \in Versions, i \in {[node |-> daemon.node, key |-> daemon.key],
                                 [node |-> daemon.node, key |-> restarts + 1],
                                 [node |-> restarts + 1, key |-> restarts + 1]} :
          /\ daemon' = [up |-> TRUE, version |-> v, node |-> i.node, key |-> i.key,
                        network |-> daemon.network]
          /\ held' = [c \in Clients |-> held[c] \cup
                        {[node |-> i.node, key |-> i.key, network |-> daemon.network,
                          version |-> v]}]
    /\ UNCHANGED <<cli, restarts, invocations>>

CliInit ==
    /\ daemon = [up |-> TRUE, version |-> CURRENT, node |-> 1, key |-> 1, network |-> NoNetwork]
    /\ cli = [c \in Clients |-> Fresh] /\ held = [c \in Clients |-> {}]
    /\ restarts = 0 /\ invocations = 0

CliNext ==
    \/ \E c \in Clients : Invoke(c) \/ Negotiate(c) \/ Deliver(c)
                         \/ InspectFurther(c) \/ Reply(c)
    \/ Dies \/ BusStarts
CliSpec == CliInit /\ [][CliNext]_cliVars

\* ------------------------------------------------------------------------
\* Properties

\* What a finished command says happened, happened.  A mutation is carried out
\* at most once whatever is lost; exit 0 means it was, exits 2, 4 and 5 that it
\* was not.  A local key printed or confirmed with exit 0 names a node, a key
\* and a network the daemon had together at one moment of the command
\* (BlueRouteClient::request, require_stable_local_identity, run).
ExitsAreHonest ==
    \A c \in Clients : LET cl == cli[c] IN cl.at = "done" =>
        /\ cl.applied <= 1
        /\ cl.exit = 0 /\ cl.op \in Mutations => cl.applied = 1
        /\ cl.exit \in {2, 4, 5} => cl.applied = 0
        /\ cl.exit = 0 /\ cl.op \in Inspections => LocalKey(cl) \in held[c]

\* "This makes a daemon restart to an incompatible API fail closed before the
\* command can be delivered" (BlueRouteClient::request).
IncompatibleDaemonsMeetNoCommand ==
    \A c \in Clients : ~cli[c].strayed
=============================================================================
