------------------------------ MODULE NmWatch ------------------------------
(***************************************************************************)
(* The state subscription of networkmanager.rs (crates/blueroute-linux):    *)
(* next_event enumerates NetworkManager's profiles and then its devices,    *)
(* one object at a time while they come and go, compares both with what it  *)
(* saw before, and hands out the differences from a queue of bounded size.  *)
(***************************************************************************)
EXTENDS Naturals, Sequences, SequencesExt, TLC

CONSTANTS Profiles, NmDevices,   \* object paths, as numbers: the maps are ordered
          QueueCapacity,         \* EVENT_QUEUE_CAPACITY
          MaxNmChanges

VARIABLES nmUp, profiles, devices,  \* NetworkManager: path -> what an event shows of it
          sub,          \* NetworkManagerSubscription and the call of next_event
          view,         \* what the events add up to
          overflowed,   \* a queue was too small (history)
          nmChanges

nmWatchVars == <<nmUp, profiles, devices, sub, view, overflowed, nmChanges>>

Unsubscribed == [at |-> "off", profiles |-> <<>>, devices |-> <<>>, pending |-> <<>>,
                 todo |-> {}, gotProfiles |-> <<>>, gotDevices |-> <<>>]
NmUnchanged == UNCHANGED <<nmUp, profiles, devices, nmChanges>>

\* ------------------------------------------------------------------------
\* The differences of two snapshots

Removals(kind, old, new) ==
    LET gone == SetToSortSeq({h \in DOMAIN old : h \notin DOMAIN new \/ new[h] # old[h]}, <)
    IN [i \in DOMAIN gone |->
          IF gone[i] \in DOMAIN new THEN <<kind, "changed", gone[i], new[gone[i]]>>
          ELSE <<kind, "removed", gone[i], 0>>]
Additions(kind, old, new) ==
    LET come == SetToSortSeq(DOMAIN new \ DOMAIN old, <)
    IN [i \in DOMAIN come |-> <<kind, "added", come[i], new[come[i]]>>]

\* queue_connection_changes, queue_device_changes.
QueueAdditionsAndRemovals(kind, old, new) ==
    Removals(kind, [h \in DOMAIN old \ DOMAIN new |-> old[h]], new) \o Additions(kind, old, new)
QueueChanges(kind, old, new) == Removals(kind, old, new) \o Additions(kind, old, new)

\* ------------------------------------------------------------------------
\* subscribe_network_state and next_event

\* connection_snapshot begins: ListConnections.
ListConnections ==
    /\ sub.at \in {"off", "idle"} /\ sub.pending = <<>> /\ nmUp
    /\ sub' = [sub EXCEPT !.at = IF @ = "off" THEN "subscribing" ELSE "reading",
                          !.todo = DOMAIN profiles, !.gotProfiles = <<>>, !.gotDevices = <<>>]
    /\ NmUnchanged /\ UNCHANGED <<view, overflowed>>

Fails(s) == IF s.at \in {"subscribing", "subscribing devices"} THEN Unsubscribed
            ELSE [s EXCEPT !.at = "idle", !.todo = {}, !.gotProfiles = <<>>, !.gotDevices = <<>>]

\* GetSettings of one profile; one that is gone fails the whole call.
GetSettings ==
    /\ sub.at \in {"subscribing", "reading"} /\ sub.todo # {}
    /\ \E h \in sub.todo :
          sub' = IF nmUp /\ h \in DOMAIN profiles
                 THEN [sub EXCEPT !.todo = @ \ {h}, !.gotProfiles = (h :> profiles[h]) @@ @]
                 ELSE Fails(sub)
    /\ NmUnchanged /\ UNCHANGED <<view, overflowed>>

\* device_snapshot: GetDevices.
ListDevices ==
    /\ sub.at \in {"subscribing", "reading"} /\ sub.todo = {}
    /\ sub' = IF nmUp THEN [sub EXCEPT !.todo = DOMAIN devices,
                                       !.at = IF @ = "reading" THEN "reading devices"
                                              ELSE "subscribing devices"]
              ELSE Fails(sub)
    /\ NmUnchanged /\ UNCHANGED <<view, overflowed>>

ReadDevice ==
    /\ sub.at \in {"subscribing devices", "reading devices"} /\ sub.todo # {}
    /\ \E h \in sub.todo :
          sub' = IF nmUp /\ h \in DOMAIN devices
                 THEN [sub EXCEPT !.todo = @ \ {h}, !.gotDevices = (h :> devices[h]) @@ @]
                 ELSE Fails(sub)
    /\ NmUnchanged /\ UNCHANGED <<view, overflowed>>

\* push_event refuses what does not fit: what was queued before stays queued,
\* the snapshots stay what they were.
Queue ==
    /\ sub.at \in {"subscribing devices", "reading devices"} /\ sub.todo = {}
    /\ LET events == QueueChanges("profile", sub.profiles, sub.gotProfiles)
                     \o QueueChanges("device", sub.devices, sub.gotDevices)
       IN IF Len(events) <= QueueCapacity
          THEN /\ sub' = [Unsubscribed EXCEPT !.at = "idle", !.pending = events,
                             !.profiles = sub.gotProfiles, !.devices = sub.gotDevices]
               /\ UNCHANGED overflowed
          ELSE /\ overflowed' = TRUE
               /\ sub' = IF sub.at = "subscribing devices" THEN Unsubscribed
                         ELSE [Fails(sub) EXCEPT !.pending = SubSeq(events, 1, QueueCapacity)]
    /\ NmUnchanged /\ UNCHANGED view

Applied(v, e) == [v EXCEPT ![e[1]] =
    IF e[2] = "removed" THEN [h \in DOMAIN @ \ {e[3]} |-> @[h]] ELSE (e[3] :> e[4]) @@ @]

PopEvent ==
    /\ sub.at = "idle" /\ sub.pending # <<>>
    /\ view' = Applied(view, Head(sub.pending))
    /\ sub' = [sub EXCEPT !.pending = Tail(@)]
    /\ NmUnchanged /\ UNCHANGED overflowed

\* ------------------------------------------------------------------------
\* NetworkManager

NmEvent == nmChanges < MaxNmChanges /\ nmChanges' = nmChanges + 1

ChangeObject(objects, paths) ==
    {[h \in DOMAIN objects \ {p} |-> objects[h]] : p \in DOMAIN objects}
    \cup {(p :> v) @@ objects : p \in paths, v \in {1, 2}}

NmChanges ==
    /\ nmUp /\ NmEvent
    /\ \/ profiles' \in ChangeObject(profiles, Profiles) /\ UNCHANGED devices
       \/ devices' \in ChangeObject(devices, NmDevices) /\ UNCHANGED profiles
    /\ UNCHANGED <<nmUp, sub, view, overflowed>>

\* It keeps its profiles over a restart and finds the devices again.
NmRestarts ==
    /\ NmEvent /\ nmUp /\ nmUp' = FALSE
    /\ UNCHANGED <<profiles, devices, sub, view, overflowed>>
NmReturns ==
    /\ ~nmUp /\ nmUp' = TRUE
    /\ UNCHANGED <<profiles, devices, sub, view, overflowed, nmChanges>>

NmWatchInit ==
    /\ nmUp = TRUE /\ profiles = (1 :> 1) /\ devices = (1 :> 1)
    /\ sub = Unsubscribed /\ view = [profile |-> <<>>, device |-> <<>>]
    /\ overflowed = FALSE /\ nmChanges = 0

NextEvent == ListConnections \/ GetSettings \/ ListDevices \/ ReadDevice \/ Queue \/ PopEvent
NmWatchNext == NextEvent \/ NmChanges \/ NmRestarts \/ NmReturns
\* A reader that keeps calling next_event, and systemd that restarts NetworkManager.
NmWatchSpec ==
    NmWatchInit /\ [][NmWatchNext]_nmWatchVars /\ WF_nmWatchVars(NextEvent) /\ WF_nmWatchVars(NmReturns)

\* ------------------------------------------------------------------------

\* As long as no comparison had more differences than the queue holds, a reader
\* of all events knows NetworkManager's profiles and devices as they are.
StateKnown ==
    \/ overflowed
    \/ sub.at = "idle" /\ sub.pending = <<>> => view = [profile |-> profiles, device |-> devices]
=============================================================================
