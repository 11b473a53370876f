---------------------------- MODULE IdentityFiles ----------------------------
(***************************************************************************)
(* The two files a daemon needs before it says anything to anybody: the     *)
(* node identity (crates/blueroute-linux/src/identity.rs), created in       *)
(* place, and the local TLS identity (apps/daemon/src/control_tls.rs over   *)
(* crates/blueroute-linux/src/secret_store.rs), linked from a synchronised  *)
(* temporary file.  Several starts run at once (main.rs takes both          *)
(* identities before it asks for the bus name), system calls fail, starts   *)
(* are killed and the power goes.                                           *)
(***************************************************************************)
EXTENDS Naturals, FiniteSets, DurableFile

CONSTANTS Starts,        \* processes that may be starting or running
          MaxIdentities, \* bound: identities generated
          MaxFaults,     \* bound: failing calls
          MaxCrashes     \* bound: kills and power losses

VARIABLES nodeFile,  \* the node identity file
          tlsFile,   \* the TLS identity record
          pc,        \* where each start is
          node,      \* the node identity it holds, 0 for none
          key,       \* the TLS key it generated or loaded, 0 for none
          made,      \* identities and keys generated so far
          issued,    \* the pairs <<node, key>> under which a start came up
          refused,   \* why starts failed: a set of causes
          lent,      \* somebody read a file whose directory was not yet synced
          faults, crashes

vars == <<nodeFile, tlsFile, pc, node, key, made, issued, refused, lent,
          faults, crashes>>

Down == "down"

Init ==
    /\ nodeFile = At(NoFile) /\ tlsFile = At(NoFile)
    /\ pc = [s \in Starts |-> Down]
    /\ node = [s \in Starts |-> 0] /\ key = [s \in Starts |-> 0]
    /\ made = 0 /\ issued = {} /\ refused = {} /\ lent = FALSE
    /\ faults = 0 /\ crashes = 0

\* Start s stands at `from` and goes to `to`.
Step(s, from, to) == pc[s] = from /\ pc' = [pc EXCEPT ![s] = to]

\* A call of s fails, or what it read is not acceptable: the start ends.
Refuse(s, cause) ==
    /\ pc' = [pc EXCEPT ![s] = Down]
    /\ refused' = refused \cup {cause}

Fault == faults < MaxFaults /\ faults' = faults + 1

\* A value is lent when a power loss may still take it away from its reader.
Lends(f) == Survivors(f) # {f.seen}

Begin(s) ==
    /\ Step(s, Down, "node_load")
    /\ node' = [node EXCEPT ![s] = 0] /\ key' = [key EXCEPT ![s] = 0]
    /\ UNCHANGED <<nodeFile, tlsFile, made, issued, refused, lent, faults, crashes>>

\* ------------------------------------------------------------------------
\* NodeIdentityStore::load_or_create

\* load_existing looks at the metadata first: no file means none, which the
\* loser of create_new, loading again, takes for an error.
InspectNode(s, from, absent) ==
    /\ Step(s, from, IF nodeFile.seen = NoFile THEN absent ELSE "node_read")
    /\ UNCHANGED <<nodeFile, tlsFile, node, key, made, issued, refused, lent,
                   faults, crashes>>

\* ... and then reads and parses: anything but one identity is refused.
ReadNode(s) ==
    /\ pc[s] = "node_read"
    /\ IF nodeFile.seen \in {NoFile, Torn}
       THEN Refuse(s, "node malformed") /\ UNCHANGED <<node, lent>>
       ELSE /\ Step(s, "node_read", "tls_load")
            /\ node' = [node EXCEPT ![s] = nodeFile.seen]
            /\ lent' = (lent \/ Lends(nodeFile))
            /\ UNCHANGED refused
    /\ UNCHANGED <<nodeFile, tlsFile, key, made, issued, faults, crashes>>

\* The system generator, then create_new on the final path.
CreateNode(s) ==
    /\ pc[s] = "node_create" /\ made < MaxIdentities
    /\ made' = made + 1
    /\ \/ /\ nodeFile.seen = NoFile
          /\ Step(s, "node_create", "node_write")
          /\ nodeFile' = Created(nodeFile)
          /\ node' = [node EXCEPT ![s] = made + 1]
       \/ /\ nodeFile.seen # NoFile
          /\ Step(s, "node_create", "node_reload")
          /\ UNCHANGED <<nodeFile, node>>
    /\ UNCHANGED <<tlsFile, key, issued, refused, lent, faults, crashes>>

WriteNode(s) ==
    /\ Step(s, "node_write", "node_sync")
    /\ nodeFile' = Written(nodeFile, node[s])
    /\ UNCHANGED <<tlsFile, node, key, made, issued, refused, lent, faults, crashes>>

SyncNode(s) ==
    /\ Step(s, "node_sync", "node_dirsync")
    /\ nodeFile' = Synced(nodeFile)
    /\ UNCHANGED <<tlsFile, node, key, made, issued, refused, lent, faults, crashes>>

\* write_all or sync_all fails: the file is removed and the start gives up.
UndoNode(s) ==
    /\ pc[s] \in {"node_write", "node_sync"} /\ Fault
    /\ nodeFile' = Unlinked(nodeFile)
    /\ Refuse(s, "node not written")
    /\ UNCHANGED <<tlsFile, node, key, made, issued, lent, crashes>>

SyncNodeDirectory(s) ==
    /\ Step(s, "node_dirsync", "tls_load")
    /\ nodeFile' = DirSynced(nodeFile)
    /\ UNCHANGED <<tlsFile, node, key, made, issued, refused, lent, faults, crashes>>

\* Opening, listing or synchronising the directory fails: nothing is undone.
FailNode(s) ==
    /\ pc[s] \in {"node_load", "node_read", "node_create", "node_reload", "node_dirsync"}
    /\ Fault /\ Refuse(s, "node call failed")
    /\ UNCHANGED <<nodeFile, tlsFile, node, key, made, issued, lent, crashes>>

\* ------------------------------------------------------------------------
\* ControlTlsIdentityStore::load_or_create over SecretFileStore

InspectTls(s, from, absent) ==
    /\ Step(s, from, IF tlsFile.seen = NoFile THEN absent ELSE "tls_read")
    /\ UNCHANGED <<nodeFile, tlsFile, node, key, made, issued, refused, lent,
                   faults, crashes>>

\* decode_identity_record: whole, and made for this node.
DecodeTls(s) ==
    /\ pc[s] = "tls_read"
    /\ LET r == tlsFile.seen
       IN CASE r \in {NoFile, Torn} ->
                 Refuse(s, "tls malformed") /\ UNCHANGED <<key, issued, lent>>
            [] r \notin {NoFile, Torn} /\ r[1] # node[s] ->
                 Refuse(s, "tls of another node") /\ UNCHANGED <<key, issued, lent>>
            [] OTHER ->
                 /\ Step(s, "tls_read", "up")
                 /\ key' = [key EXCEPT ![s] = r[2]]
                 /\ issued' = issued \cup {r}
                 /\ lent' = (lent \/ Lends(tlsFile))
                 /\ UNCHANGED refused
    /\ UNCHANGED <<nodeFile, tlsFile, node, made, faults, crashes>>

\* generate, encode_identity_record, and the synchronised temporary file.
GenerateTls(s) ==
    /\ made < MaxIdentities /\ made' = made + 1
    /\ Step(s, "tls_generate", "tls_link")
    /\ key' = [key EXCEPT ![s] = made + 1]
    /\ UNCHANGED <<nodeFile, tlsFile, node, issued, refused, lent, faults, crashes>>

\* hard_link takes the name if it is free; the temporary file goes either way.
LinkTls(s) ==
    /\ \/ /\ tlsFile.seen = NoFile
          /\ Step(s, "tls_link", "tls_dirsync")
          /\ tlsFile' = Placed(tlsFile, <<node[s], key[s]>>)
       \/ /\ tlsFile.seen # NoFile
          /\ Step(s, "tls_link", "tls_reload")
          /\ UNCHANGED tlsFile
    /\ UNCHANGED <<nodeFile, node, key, made, issued, refused, lent, faults, crashes>>

SyncTlsDirectoryNot(s) ==
    /\ Step(s, "tls_dirsync", "up")
    /\ issued' = issued \cup {<<node[s], key[s]>>}
    /\ UNCHANGED <<nodeFile, tlsFile, node, key, made, refused, lent, faults, crashes>>

SyncTlsDirectory(s) ==
    /\ Step(s, "tls_dirsync", "up")
    /\ tlsFile' = DirSynced(tlsFile)
    /\ issued' = issued \cup {<<node[s], key[s]>>}
    /\ UNCHANGED <<nodeFile, node, key, made, refused, lent, faults, crashes>>

FailTls(s) ==
    /\ pc[s] \in {"tls_load", "tls_read", "tls_generate", "tls_link", "tls_dirsync",
                  "tls_reload"}
    /\ Fault /\ Refuse(s, "tls call failed")
    /\ UNCHANGED <<nodeFile, tlsFile, node, key, made, issued, lent, crashes>>

\* ------------------------------------------------------------------------
\* The environment

\* The process ends, in the middle of its start or while it runs.
Kill(s) ==
    /\ pc[s] # Down /\ crashes < MaxCrashes /\ crashes' = crashes + 1
    /\ pc' = [pc EXCEPT ![s] = Down]
    /\ UNCHANGED <<nodeFile, tlsFile, node, key, made, issued, refused, lent, faults>>

PowerLoss ==
    /\ crashes < MaxCrashes /\ crashes' = crashes + 1
    /\ \E v \in Survivors(nodeFile) : nodeFile' = At(v)
    /\ \E v \in Survivors(tlsFile) : tlsFile' = At(v)
    /\ pc' = [s \in Starts |-> Down]
    /\ UNCHANGED <<node, key, made, issued, refused, lent, faults>>

LoadOrCreateNode(s) ==
    \/ InspectNode(s, "node_load", "node_create") \/ ReadNode(s) \/ CreateNode(s)
    \/ WriteNode(s) \/ SyncNode(s) \/ UndoNode(s) \/ SyncNodeDirectory(s)
    \/ FailNode(s) \/ InspectNode(s, "node_reload", Down)

LoadOrCreateTls(s) ==
    \/ InspectTls(s, "tls_load", "tls_generate") \/ DecodeTls(s) \/ GenerateTls(s)
    \/ LinkTls(s) \/ SyncTlsDirectory(s) \/ FailTls(s)
    \/ InspectTls(s, "tls_reload", Down)

Next ==
    \/ \E s \in Starts : Begin(s) \/ LoadOrCreateNode(s) \/ LoadOrCreateTls(s) \/ Kill(s)
    \/ PowerLoss

Spec == Init /\ [][Next]_vars

\* ------------------------------------------------------------------------
\* Property

\* "Loads the persisted node identity, or creates it exactly once"
\* (identity.rs:64); a TLS record is "atomically create[d] once" and never
\* replaced (control_tls.rs:230).  Over any number of concurrent starts, kills
\* and power losses: (1) an identity that can only be what it is, because its
\* file and its directory are synchronised, is never changed; (2) all starts
\* that came up did so under one node and one key, and no record of another
\* node was met, unless some start read a file before its creator had
\* synchronised the directory and so used an identity that could still vanish;
\* (3) the TLS record is never found in part.
IdentityIsStable ==
    /\ nodeFile.seen # NoFile /\ ~Lends(nodeFile) => nodeFile' = nodeFile
    /\ tlsFile.seen # NoFile /\ ~Lends(tlsFile) => tlsFile' = tlsFile
    /\ ~lent' => Cardinality(issued') <= 1 /\ "tls of another node" \notin refused'
    /\ "tls malformed" \notin refused'
==============================================================================
