------------------------------- MODULE StarHost -------------------------------
(***************************************************************************)
(* Hosting a star: CreateNetwork, LeaveNetwork and startup reconciliation  *)
(* of single_star.rs, over the host runtime (bridge, address, NAP and      *)
(* advertisement), the membership file, and the D-Bus request guard of     *)
(* lib.rs.  Every backend call is a step of its own and may fail; the      *)
(* worker and GetDiagnostics observe the host between those steps and      *)
(* contend for its transition flag; the daemon may crash anywhere.         *)
(*                                                                         *)
(* Bridge and address of a network are functions of its id and of the      *)
(* configuration, so a host is identified by its network.                  *)
(***************************************************************************)
EXTENDS Naturals, Sequences, FiniteSets

CONSTANTS
  Requests,    \* concurrent D-Bus mutation requests
  Boot,        \* startup, before D-Bus is served
  Observers,   \* control worker and diagnostics
  NetworkIds,  \* network ids the generator may return
  NoNetwork,   \* no network
  Free,        \* a flag nobody holds
  MaxRetries,  \* MAX_ADDRESS_CONFLICT_RETRIES
  MaxCrashes   \* bound of the model on crashes

ASSUME StarConstants ==
  /\ Boot \notin Requests /\ Free \notin Requests \cup Observers \cup {Boot}
  /\ Observers \cap (Requests \cup {Boot}) = {}
  /\ NoNetwork \notin NetworkIds
  /\ MaxRetries \in Nat \ {0} /\ MaxCrashes \in Nat

VARIABLES
  durable,     \* current_network of the membership file
  known,       \* networks in the membership file, members or not
  status,      \* DaemonStatus.current_network
  active,      \* LinuxStarHostRuntime.active
  exists,      \* what exists in the system for each network
  transition,  \* holder of LinuxStarHostRuntime.transition
  creating,    \* holder of SingleStarNetworkOperations.creating
  mutation,    \* holder of DaemonService.mutation_in_progress
  pc,          \* step of each process
  op,          \* "create", "leave" or "reconcile"
  net,         \* the network the process works on
  tried,       \* attempted ids of create_network_inner
  todo,        \* cleanup steps left
  failed,      \* some cleanup step failed
  up,          \* D-Bus and the worker are served
  crashes,     \* crashes so far
  faults       \* which faults happened since the last start (history)

vars == <<durable, known, status, active, exists, transition, creating, mutation,
          pc, op, net, tried, todo, failed, up, crashes, faults>>

Processes == Requests \cup {Boot}

Resources == {"bridge", "address", "nap", "advertisement"}

\* Steps of cleanup_active_host, and of rollback_setup after start_nap.
TearDown == <<"advertisement", "nap", "address", "bridge">>
SetupRollback == <<"nap", "address", "bridge">>

-----------------------------------------------------------------------------
\* Mutants of the operations below.

\* Mutant of ClaimMutation: requests are not serialised by the daemon.
ClaimNothing(p) == UNCHANGED mutation

\* Mutant of StopFails: the slot is cleared although cleanup failed.
StopFailsForgetting(p) ==
  /\ active' = NoNetwork
  /\ transition' = Free
  /\ pc' = [pc EXCEPT ![p] = "err"]
  /\ faults' = IF op[p] = "create" THEN faults \cup {"rollback"} ELSE faults

\* Mutant of AddressRollback: the bridge is left to the next attempt.
AddressRollbackNothing == <<>>

\* Mutant of Claimable: observers do not claim the transition.
ClaimableAlways == TRUE

-----------------------------------------------------------------------------
\* Flags.

Claimable == transition = Free

ClaimMutation(p) == mutation = Free /\ mutation' = p

\* Where a process goes when start_host or stop_host has returned.
AfterStart(p) == IF op[p] = "create" THEN "save" ELSE IF op[p] = "leave" THEN "err" ELSE "ok"
AfterStop(p) == IF op[p] = "create" THEN "err" ELSE "save"

-----------------------------------------------------------------------------
\* Requests.

\* request(CreateNetwork) up to the choice of the first id.
BeginCreate(p) ==
  /\ up /\ p \in Requests /\ pc[p] = "idle"
  /\ ClaimMutation(p)
  /\ op' = [op EXCEPT ![p] = "create"]
  /\ IF creating = Free /\ durable = NoNetwork
     THEN creating' = p /\ pc' = [pc EXCEPT ![p] = "pick"]
     ELSE UNCHANGED creating /\ pc' = [pc EXCEPT ![p] = "err"]
  /\ tried' = [tried EXCEPT ![p] = {}]
  /\ UNCHANGED <<durable, known, status, active, exists, transition, net, todo, failed,
                 up, crashes, faults>>

RetriesLeft(p) == Cardinality(tried[p]) < MaxRetries

\* unique_network_id, or the end of the retries.
PickId(p) ==
  /\ pc[p] = "pick"
  /\ \/ /\ RetriesLeft(p)
        /\ \E n \in NetworkIds \ (known \cup tried[p]) :
             /\ net' = [net EXCEPT ![p] = n]
             /\ tried' = [tried EXCEPT ![p] = @ \cup {n}]
        /\ pc' = [pc EXCEPT ![p] = "start"]
     \/ /\ pc' = [pc EXCEPT ![p] = "err"]   \* exhausted, or no unique id
        /\ UNCHANGED <<net, tried>>
  /\ UNCHANGED <<durable, known, status, active, exists, transition, creating, mutation, op,
                 todo, failed, up, crashes, faults>>

\* request(LeaveNetwork) up to stop_host.
BeginLeave(p) ==
  /\ up /\ p \in Requests /\ pc[p] = "idle"
  /\ ClaimMutation(p)
  /\ op' = [op EXCEPT ![p] = "leave"]
  /\ net' = [net EXCEPT ![p] = durable]
  /\ IF creating # Free
     THEN UNCHANGED creating /\ pc' = [pc EXCEPT ![p] = "err"]
     ELSE /\ creating' = p
          /\ pc' = [pc EXCEPT ![p] = IF durable = NoNetwork THEN "ok" ELSE "stop"]
  /\ UNCHANGED <<durable, known, status, active, exists, transition, tried, todo, failed,
                 up, crashes, faults>>

\* reconcile_on_startup, before anything else runs.
BeginReconcile ==
  /\ ~up /\ pc[Boot] = "idle"
  /\ op' = [op EXCEPT ![Boot] = "reconcile"]
  /\ net' = [net EXCEPT ![Boot] = durable]
  /\ creating' = Boot
  /\ pc' = [pc EXCEPT ![Boot] = IF durable = NoNetwork THEN "ok" ELSE "start"]
  /\ UNCHANGED <<durable, known, status, active, exists, transition, mutation, tried, todo,
                 failed, up, crashes, faults>>

-----------------------------------------------------------------------------
\* start_host.

\* The fault (history) of a host that durable membership asks for but that
\* could not be started.
NotStarted(p) ==
  IF op[p] = "leave" THEN {"restore"} ELSE IF op[p] = "reconcile" THEN {"reconcile"} ELSE {}

\* start_host returns an error; create_network_inner tries another id only
\* after an address conflict.
StartFails(p, conflict) ==
  /\ pc' = [pc EXCEPT ![p] = IF conflict /\ op[p] = "create" THEN "pick" ELSE "err"]
  /\ faults' = faults \cup NotStarted(p)

\* The claim, and the idempotent or refused second start.
StartHost(p) ==
  /\ pc[p] = "start"
  /\ IF ~Claimable
     THEN StartFails(p, FALSE) /\ UNCHANGED transition
     ELSE IF active = net[p]
     THEN pc' = [pc EXCEPT ![p] = AfterStart(p)] /\ UNCHANGED <<transition, faults>>
     ELSE IF active # NoNetwork
     THEN StartFails(p, FALSE) /\ UNCHANGED transition
     ELSE /\ transition' = p
          /\ pc' = [pc EXCEPT ![p] = "survey"]
          /\ UNCHANGED faults
  /\ UNCHANGED <<durable, known, status, active, exists, creating, mutation, op, net, tried,
                 todo, failed, up, crashes>>

\* Backends, prefixes in use and adapter; nothing is changed yet.
Survey(p) ==
  /\ pc[p] = "survey"
  /\ \/ pc' = [pc EXCEPT ![p] = "bridge"] /\ UNCHANGED <<transition, faults>>
     \/ transition' = Free /\ \E conflict \in BOOLEAN : StartFails(p, conflict)
  /\ UNCHANGED <<durable, known, status, active, exists, creating, mutation, op, net, tried,
                 todo, failed, up, crashes>>

\* ensure_bridge; an error may come after the profile was added, and start_host
\* then returns without rollback.
EnsureBridge(p) ==
  /\ pc[p] = "bridge"
  /\ \/ /\ exists' = [exists EXCEPT ![net[p]] = @ \cup {"bridge"}]
        /\ pc' = [pc EXCEPT ![p] = "address"]
        /\ UNCHANGED <<transition, faults>>
     \/ /\ UNCHANGED exists
        /\ transition' = Free
        /\ StartFails(p, FALSE)
     \/ /\ exists' = [exists EXCEPT ![net[p]] = @ \cup {"bridge"}]
        /\ transition' = Free
        /\ pc' = [pc EXCEPT ![p] = "err"]
        /\ faults' = faults \cup NotStarted(p) \cup {"bridge"}
  /\ UNCHANGED <<durable, known, status, active, creating, mutation, op, net, tried,
                 todo, failed, up, crashes>>

\* rollback_setup after ensure_address: the profile goes, and with it what it
\* holds of the address.
AddressRollback == <<"bridge">>

\* A failing setup step enters rollback_setup.
EnterRollback(p, steps) ==
  /\ pc' = [pc EXCEPT ![p] = "undo"]
  /\ todo' = [todo EXCEPT ![p] = steps]

EnsureAddress(p) ==
  /\ pc[p] = "address"
  /\ \/ /\ exists' = [exists EXCEPT ![net[p]] = @ \cup {"address"}]
        /\ pc' = [pc EXCEPT ![p] = "nap"]
        /\ UNCHANGED todo
     \/ /\ exists' \in {exists, [exists EXCEPT ![net[p]] = @ \cup {"address"}]}
        /\ EnterRollback(p, AddressRollback)
  /\ UNCHANGED <<durable, known, status, active, transition, creating, mutation, op, net,
                 tried, failed, up, crashes, faults>>

StartNap(p) ==
  /\ pc[p] = "nap"
  /\ \/ /\ exists' = [exists EXCEPT ![net[p]] = @ \cup {"nap"}]
        /\ pc' = [pc EXCEPT ![p] = "advertise"]
        /\ UNCHANGED todo
     \/ EnterRollback(p, SetupRollback) /\ UNCHANGED exists
  /\ UNCHANGED <<durable, known, status, active, transition, creating, mutation, op, net,
                 tried, failed, up, crashes, faults>>

\* The host is installed in the slot and the transition ends.
Install(p) ==
  /\ active' = net[p]
  /\ transition' = Free

Advertise(p) ==
  /\ pc[p] = "advertise"
  /\ \/ /\ exists' = [exists EXCEPT ![net[p]] = @ \cup {"advertisement"}]
        /\ Install(p)
        /\ pc' = [pc EXCEPT ![p] = AfterStart(p)]
        /\ UNCHANGED todo
     \/ EnterRollback(p, SetupRollback) /\ UNCHANGED <<exists, active, transition>>
  /\ UNCHANGED <<durable, known, status, creating, mutation, op, net, tried, failed, up,
                 crashes, faults>>

\* What one successful cleanup step removes: with its profile goes the address.
Removed(step) == IF step = "bridge" THEN {"bridge", "address"} ELSE {step}

\* One step of rollback_setup or cleanup_active_host; a failing step does not
\* stop the others.
CleanStep(p) ==
  LET n == net[p]
  IN /\ pc[p] \in {"undo", "cleanup"} /\ todo[p] # <<>>
     /\ \/ /\ exists' = [exists EXCEPT ![n] = @ \ Removed(Head(todo[p]))]
           /\ UNCHANGED <<failed, faults>>
        \/ /\ exists' \in {exists, [exists EXCEPT ![n] = @ \ Removed(Head(todo[p]))]}
           /\ failed' = [failed EXCEPT ![p] = TRUE]
           /\ faults' = faults \cup {"cleanup"}
     /\ todo' = [todo EXCEPT ![p] = Tail(@)]
     /\ UNCHANGED <<durable, known, status, active, transition, creating, mutation, pc, op,
                    net, tried, up, crashes>>

EndRollback(p) ==
  /\ pc[p] = "undo" /\ todo[p] = <<>>
  /\ transition' = Free
  /\ StartFails(p, FALSE)
  /\ failed' = [failed EXCEPT ![p] = FALSE]
  /\ UNCHANGED <<durable, known, status, active, exists, creating, mutation, op, net, tried,
                 todo, up, crashes>>

-----------------------------------------------------------------------------
\* stop_host.

\* Ownership must be confirmed; otherwise an error, and for create a rollback
\* that did not happen.
StopHost(p) ==
  /\ pc[p] = "stop"
  /\ IF Claimable /\ active = net[p]
     THEN /\ transition' = p
          /\ pc' = [pc EXCEPT ![p] = "cleanup"]
          /\ todo' = [todo EXCEPT ![p] = TearDown]
          /\ UNCHANGED faults
     ELSE /\ pc' = [pc EXCEPT ![p] = "err"]
          /\ faults' = IF op[p] = "create" THEN faults \cup {"rollback"} ELSE faults
          /\ UNCHANGED <<transition, todo>>
  /\ UNCHANGED <<durable, known, status, active, exists, creating, mutation, op, net, tried,
                 failed, up, crashes>>

\* Cleanup failed: the slot keeps the host for a later attempt.
StopFails(p) ==
  /\ UNCHANGED active
  /\ transition' = Free
  /\ pc' = [pc EXCEPT ![p] = "err"]
  /\ faults' = IF op[p] = "create" THEN faults \cup {"rollback"} ELSE faults

EndCleanup(p) ==
  /\ pc[p] = "cleanup" /\ todo[p] = <<>>
  /\ IF failed[p]
     THEN StopFails(p)
     ELSE /\ active' = NoNetwork
          /\ transition' = Free
          /\ pc' = [pc EXCEPT ![p] = AfterStop(p)]
          /\ UNCHANGED faults
  /\ failed' = [failed EXCEPT ![p] = FALSE]
  /\ UNCHANGED <<durable, known, status, exists, creating, mutation, op, net, tried, todo,
                 up, crashes>>

-----------------------------------------------------------------------------
\* Commit and return.

\* store.save: done; failed with the old file; failed with the new file.  A
\* failed create stops the host, a failed leave starts it again.
Save(p) ==
  LET member == op[p] = "create"
      visible == /\ durable' = IF member THEN net[p] ELSE NoNetwork
                 /\ known' = known \cup {net[p]}
      repair == IF member THEN "stop" ELSE "start"
  IN /\ pc[p] = "save"
     /\ \/ /\ visible
           /\ pc' = [pc EXCEPT ![p] = "ok"]
           /\ UNCHANGED faults
        \/ /\ UNCHANGED <<durable, known, faults>>
           /\ pc' = [pc EXCEPT ![p] = repair]
        \/ /\ visible
           /\ pc' = [pc EXCEPT ![p] = repair]
           /\ faults' = faults \cup {"torn"}
     /\ UNCHANGED <<status, active, exists, transition, creating, mutation, op, net, tried,
                    todo, failed, up, crashes>>

\* The operation returns Ok: its guard is dropped, the request updates the
\* status in a step of its own.
ReturnOk(p) ==
  /\ pc[p] = "ok"
  /\ creating' = Free
  /\ pc' = [pc EXCEPT ![p] = IF p = Boot THEN "idle" ELSE "ack"]
  /\ up' = (up \/ p = Boot)
  /\ UNCHANGED <<durable, known, status, active, exists, transition, mutation, op, net, tried,
                 todo, failed, crashes, faults>>

\* The locals of a call end with it.
Forget(p) ==
  /\ op' = [op EXCEPT ![p] = "create"]
  /\ net' = [net EXCEPT ![p] = NoNetwork]
  /\ tried' = [tried EXCEPT ![p] = {}]

\* update_current_network, the reply, and the end of the mutation.
Ack(p) ==
  /\ pc[p] = "ack"
  /\ status' = IF op[p] = "create" THEN net[p] ELSE NoNetwork
  /\ mutation' = Free
  /\ pc' = [pc EXCEPT ![p] = "idle"]
  /\ Forget(p)
  /\ UNCHANGED <<durable, known, active, exists, transition, creating, todo,
                 failed, up, crashes, faults>>

\* The operation returns an error; after startup the daemon serves degraded.
ReturnErr(p) ==
  /\ pc[p] = "err"
  /\ creating' = IF creating = p THEN Free ELSE creating
  /\ mutation' = IF mutation = p THEN Free ELSE mutation
  /\ pc' = [pc EXCEPT ![p] = "idle"]
  /\ up' = (up \/ p = Boot)
  /\ Forget(p)
  /\ UNCHANGED <<durable, known, status, active, exists, transition, todo,
                 failed, crashes, faults>>

-----------------------------------------------------------------------------
\* Observers and crashes.

\* bind_guarded_control_listener, observed_owned_control_endpoint and
\* diagnostic_interfaces hold the transition across their backend query.
Observe(o) ==
  /\ up /\ Claimable
  /\ transition' = o
  /\ UNCHANGED <<durable, known, status, active, exists, todo, failed, creating, mutation,
                 pc, op, net, tried, up, crashes, faults>>

EndObserve(o) ==
  /\ transition = o
  /\ transition' = Free
  /\ UNCHANGED <<durable, known, status, active, exists, todo, failed, creating, mutation,
                 pc, op, net, tried, up, crashes, faults>>

\* The daemon dies and starts again: BlueZ drops what its D-Bus client had
\* registered, NetworkManager keeps its profiles, and the status is read from
\* the file.
Crash ==
  /\ crashes < MaxCrashes
  /\ crashes' = crashes + 1
  /\ status' = durable
  /\ active' = NoNetwork
  /\ exists' = [n \in NetworkIds |-> exists[n] \ {"nap", "advertisement"}]
  /\ transition' = Free /\ creating' = Free /\ mutation' = Free
  /\ pc' = [p \in Processes |-> "idle"]
  /\ todo' = [p \in Processes |-> <<>>]
  /\ failed' = [p \in Processes |-> FALSE]
  /\ up' = FALSE
  /\ faults' = (faults \cap {"cleanup", "bridge"}) \cup {"crash"}
  /\ op' = [p \in Processes |-> "create"]
  /\ net' = [p \in Processes |-> NoNetwork]
  /\ tried' = [p \in Processes |-> {}]
  /\ UNCHANGED <<durable, known>>

Init ==
  /\ durable = NoNetwork /\ known = {} /\ status = NoNetwork
  /\ active = NoNetwork
  /\ exists = [n \in NetworkIds |-> {}]
  /\ transition = Free /\ creating = Free /\ mutation = Free
  /\ pc = [p \in Processes |-> "idle"]
  /\ op = [p \in Processes |-> "create"]
  /\ net = [p \in Processes |-> NoNetwork]
  /\ tried = [p \in Processes |-> {}]
  /\ todo = [p \in Processes |-> <<>>]
  /\ failed = [p \in Processes |-> FALSE]
  /\ up = FALSE
  /\ crashes = 0
  /\ faults = {}

ProcessStep(p) ==
  \/ BeginCreate(p) \/ BeginLeave(p) \/ PickId(p)
  \/ StartHost(p) \/ Survey(p) \/ EnsureBridge(p) \/ EnsureAddress(p) \/ StartNap(p)
  \/ Advertise(p) \/ CleanStep(p) \/ EndRollback(p)
  \/ StopHost(p) \/ EndCleanup(p)
  \/ Save(p) \/ ReturnOk(p) \/ Ack(p) \/ ReturnErr(p)

Next ==
  \/ BeginReconcile
  \/ \E p \in Processes : ProcessStep(p)
  \/ \E o \in Observers : Observe(o) \/ EndObserve(o)
  \/ Crash

Spec == Init /\ [][Next]_vars

-----------------------------------------------------------------------------
\* Type invariant.
TypeOK ==
  /\ {durable, status, active} \subseteq NetworkIds \cup {NoNetwork}
  /\ known \subseteq NetworkIds /\ (durable # NoNetwork => durable \in known)
  /\ exists \in [NetworkIds -> SUBSET Resources]
  /\ transition \in Processes \cup Observers \cup {Free}
  /\ {creating, mutation} \subseteq Processes \cup {Free}
  /\ pc \in [Processes -> {"idle", "pick", "start", "survey", "bridge", "address", "nap",
                          "advertise", "undo", "stop", "cleanup", "save", "ok", "ack", "err"}]
  /\ op \in [Processes -> {"create", "leave", "reconcile"}]
  /\ net \in [Processes -> NetworkIds \cup {NoNetwork}]
  /\ \A p \in Processes : tried[p] \subseteq NetworkIds /\ Cardinality(tried[p]) <= MaxRetries
  /\ failed \in [Processes -> BOOLEAN]
  /\ up \in BOOLEAN /\ crashes \in 0..MaxCrashes

\* No mutation is running.
Quiet == \A p \in Processes : pc[p] = "idle"

\* No process is between two steps of start_host or stop_host.
Settled == transition \in Observers \cup {Free}

\* An observer, who holds the transition across its query, never sees a
\* partially started or torn down host: the host in the slot is complete,
\* unless a cleanup call failed (single_star.rs:204-275, 277-456).
ObservedHostIsWhole ==
  transition \in Observers /\ active # NoNetwork /\ "cleanup" \notin faults
    => exists[active] = Resources

\* Nothing of a network exists outside start_host and stop_host except the host
\* in the slot, unless a cleanup call failed, the daemon crashed, or
\* ensure_bridge failed half-way (single_star.rs:322-403, 1058-1083).
NoOrphanedRuntime ==
  Settled /\ faults \cap {"cleanup", "crash", "bridge"} = {}
    => \A n \in NetworkIds : exists[n] # {} => active = n

\* Membership and host agree: whenever no mutation is running, the host in the
\* slot is the one of the durable network.  The only exceptions are a save
\* that failed after its rename, and a rollback, restoration or startup
\* reconciliation that itself failed (single_star.rs:516-587, 719-791).
MembershipMatchesHost ==
  up /\ Quiet /\ faults \cap {"torn", "rollback", "restore", "reconcile"} = {}
    => active = durable

\* Success is reported only for work that is done and still in place: a
\* created network is durable and hosted, completely unless an earlier cleanup
\* call failed; a network that was left is neither durable nor hosted, and nothing of it exists
\* (lib.rs:457-485; single_star.rs:561-587, 740-770).
AcknowledgedIsDone ==
  \A p \in Processes : pc[p] = "ack" =>
    IF op[p] = "create"
    THEN /\ durable = net[p] /\ active = net[p]
         /\ "cleanup" \notin faults => exists[net[p]] = Resources
    ELSE durable = NoNetwork /\ (net[p] # NoNetwork => active = NoNetwork /\ exists[net[p]] = {})

\* All of it together: what membership, host and acknowledgements owe each other
\* after every step of a request, of startup, of an observer and of a crash
\* (single_star.rs, lib.rs).
HostIsSound ==
  TypeOK /\ ObservedHostIsWhole /\ NoOrphanedRuntime /\ MembershipMatchesHost /\ AcknowledgedIsDone

\* What P6-001-CREATE-NETWORK.md:86 says of a failed cleanup: the ownership is
\* retained "so a later cleanup attempt is not converted into a silent no-op".
\* A successful LeaveNetwork therefore leaves no host behind
\* (single_star.rs:719-725).
LeaveIsNoSilentNoOp ==
  \A p \in Requests : pc[p] = "ack" /\ op[p] = "leave" => active = NoNetwork
====
