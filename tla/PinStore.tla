------------------------------ MODULE PinStore ------------------------------
(***************************************************************************)
(* The enrolled keys of peers (apps/daemon/src/peer_pin_store.rs over       *)
(* crates/blueroute-linux/src/secret_store.rs) and the two locks a change   *)
(* of them takes (apps/daemon/src/peer_trust.rs): the mutex of its process, *)
(* then the advisory lock of the directory, which is only tried.  Threads   *)
(* of several daemons enroll, revoke and check keys of one network; saves   *)
(* fail, processes are killed, the power goes.  The approvals that go with  *)
(* the keys are ControlPlane's subject.                                     *)
(***************************************************************************)
EXTENDS Integers, SequencesExt, DurableFile

CONSTANTS Threads, ProcessOf,  \* the daemon each thread belongs to
          Nodes, Keys,         \* identities are numbers
          MaxRecords,          \* MAX_RECORDS
          NoPins,              \* a document that is refused
          PinDocuments,        \* what the directory may hold at first
          MaxCalls, MaxFailures, MaxCrashes

VARIABLES pinFile, mutex, fileLock, thread, mayPin, refusals, pinCalls, pinFailures, pinCrashes

pinVars == <<pinFile, mutex, fileLock, thread, mayPin, refusals, pinCalls, pinFailures, pinCrashes>>
pinBounds == <<pinCalls, pinFailures, pinCrashes>>

Nobody == 0
Idle == [at |-> "idle", op |-> "none", node |-> 0, key |-> 0, pins |-> <<>>, base |-> {}]
Processes == {ProcessOf[t] : t \in Threads}

\* ------------------------------------------------------------------------
\* PeerKeyPins and its document

\* enroll_verified: a node keeps its key, and a key has one node.
Conflicts(pins, n, k) ==
    \/ n = 0
    \/ \E m \in DOMAIN pins : m # n /\ pins[m] = k
    \/ n \in DOMAIN pins /\ pins[n] # k
Enrolled(pins, n, k) == [m \in DOMAIN pins \cup {n} |-> IF m = n THEN k ELSE pins[m]]
Revoked(pins, n) == [m \in DOMAIN pins \ {n} |-> pins[m]]

\* PeerPinStore::save writes at most MAX_RECORDS lines, by node.
PinDocument(pins) ==
    LET order == SetToSortSeq(DOMAIN pins, <)
    IN [i \in DOMAIN order |-> <<order[i], pins[order[i]]>>]

\* PeerPinStore::load: one line more, a duplicate or a conflict is refused.
ParsePin(pins, line) ==
    IF pins = NoPins \/ Cardinality(DOMAIN pins) >= MaxRecords THEN NoPins
    ELSE IF line[1] \in DOMAIN pins \/ Conflicts(pins, line[1], line[2]) THEN NoPins
    ELSE Enrolled(pins, line[1], line[2])
PinsOf(doc) == IF doc = NoFile THEN <<>> ELSE FoldLeft(ParsePin, <<>>, doc)

\* ------------------------------------------------------------------------
\* One transaction of DurablePeerTrustOperations

PinInit ==
    /\ \E d \in PinDocuments : pinFile = At(d) /\ mayPin = {PinsOf(d)}
    /\ mutex = [p \in Processes |-> Nobody] /\ fileLock = Nobody
    /\ thread = [t \in Threads |-> Idle] /\ refusals = {}
    /\ pinCalls = 0 /\ pinFailures = 0 /\ pinCrashes = 0

PinGo(t, at) == thread' = [thread EXCEPT ![t].at = at]
PinFailure == pinFailures < MaxFailures /\ pinFailures' = pinFailures + 1

CallPins(t) ==
    /\ thread[t].at = "idle" /\ pinCalls < MaxCalls /\ pinCalls' = pinCalls + 1
    /\ \E op \in {"enroll", "revoke", "check"}, n \in Nodes, k \in Keys :
         /\ op # "enroll" => k = CHOOSE x \in Keys : TRUE
         /\ thread' = [thread EXCEPT ![t] = [Idle EXCEPT !.at = "lock", !.op = op,
                                                         !.node = n, !.key = k]]
    /\ UNCHANGED <<pinFile, mutex, fileLock, mayPin, refusals, pinFailures, pinCrashes>>

\* lock_state: the mutex first ...
LockMutex(t) ==
    /\ thread[t].at = "lock" /\ mutex[ProcessOf[t]] = Nobody
    /\ mutex' = [mutex EXCEPT ![ProcessOf[t]] = t]
    /\ PinGo(t, "try")
    /\ UNCHANGED <<pinFile, fileLock, mayPin, refusals, pinBounds>>

\* ... then try_lock; WouldBlock is an error the caller may retry.
TryLock(t) ==
    /\ thread[t].at = "try"
    /\ IF fileLock = Nobody
       THEN fileLock' = t /\ PinGo(t, "load") /\ UNCHANGED refusals
       ELSE /\ refusals' = refusals \cup {<<ProcessOf[t], ProcessOf[fileLock]>>}
            /\ PinGo(t, "unlock") /\ UNCHANGED fileLock
    /\ UNCHANGED <<pinFile, mutex, mayPin, pinBounds>>

\* What the transaction makes of the pins; refused, it changes nothing.
PinChange(q, pins) ==
    CASE q.op = "enroll" /\ ~Conflicts(pins, q.node, q.key) -> Enrolled(pins, q.node, q.key)
      [] q.op = "revoke" -> Revoked(pins, q.node)
      [] OTHER -> pins

\* load, the check or the change, and save unless nothing changed or too much.
LoadPins(t) ==
    /\ thread[t].at = "load"
    /\ LET pins == PinsOf(pinFile.seen)
           changed == IF pins = NoPins THEN pins ELSE PinChange(thread[t], pins)
       IN IF pins = NoPins \/ changed = pins \/ Cardinality(DOMAIN changed) > MaxRecords
          THEN PinGo(t, "unlock")
          ELSE thread' = [thread EXCEPT ![t].pins = changed, ![t].at = "save"]
    /\ UNCHANGED <<pinFile, mutex, fileLock, mayPin, refusals, pinBounds>>

\* SecretFileStore::save: a synchronised temporary file is renamed ...
RenamePins(t) ==
    /\ thread[t].at = "save"
    /\ pinFile' = Placed(pinFile, PinDocument(thread[t].pins))
    /\ mayPin' = mayPin \cup {PinChange(thread[t], p) : p \in mayPin}
    /\ thread' = [thread EXCEPT ![t].at = "sync", ![t].base = mayPin]
    /\ UNCHANGED <<mutex, fileLock, refusals, pinBounds>>

\* ... and the directory synchronised.
SyncPins(t) ==
    /\ thread[t].at = "sync"
    /\ pinFile' = DirSynced(pinFile)
    /\ mayPin' = {PinChange(thread[t], p) : p \in thread[t].base}
    /\ PinGo(t, "unlock")
    /\ UNCHANGED <<mutex, fileLock, refusals, pinBounds>>

SavePinsFails(t) ==
    /\ thread[t].at \in {"load", "save", "sync"} /\ PinFailure
    /\ PinGo(t, "unlock")
    /\ UNCHANGED <<pinFile, mutex, fileLock, mayPin, refusals, pinCalls, pinCrashes>>

UnlockMutexFirst(t) ==
    /\ \/ /\ thread[t].at = "unlock" /\ PinGo(t, "last")
          /\ mutex' = [mutex EXCEPT ![ProcessOf[t]] = Nobody]
          /\ UNCHANGED fileLock
       \/ /\ thread[t].at = "last" /\ thread' = [thread EXCEPT ![t] = Idle]
          /\ fileLock' = IF fileLock = t THEN Nobody ELSE fileLock
          /\ UNCHANGED mutex
    /\ UNCHANGED <<pinFile, mayPin, refusals, pinBounds>>

\* Drop of PeerTrustStateGuard: its fields in order, the file lock first.
Unlock(t) ==
    /\ \/ /\ thread[t].at = "unlock" /\ PinGo(t, "last")
          /\ fileLock' = IF fileLock = t THEN Nobody ELSE fileLock
          /\ UNCHANGED mutex
       \/ /\ thread[t].at = "last" /\ thread' = [thread EXCEPT ![t] = Idle]
          /\ mutex' = [mutex EXCEPT ![ProcessOf[t]] = Nobody]
          /\ UNCHANGED fileLock
    /\ UNCHANGED <<pinFile, mayPin, refusals, pinBounds>>

\* ------------------------------------------------------------------------
\* The environment

\* The kernel drops the locks of a process that ends.
KillDaemon(p) ==
    /\ pinCrashes < MaxCrashes /\ pinCrashes' = pinCrashes + 1
    /\ \E t \in Threads : ProcessOf[t] = p /\ thread[t] # Idle
    /\ thread' = [t \in Threads |-> IF ProcessOf[t] = p THEN Idle ELSE thread[t]]
    /\ mutex' = [mutex EXCEPT ![p] = Nobody]
    /\ fileLock' = IF fileLock # Nobody /\ ProcessOf[fileLock] = p THEN Nobody ELSE fileLock
    /\ UNCHANGED <<pinFile, mayPin, refusals, pinCalls, pinFailures>>

PinPowerLoss ==
    /\ pinCrashes < MaxCrashes /\ pinCrashes' = pinCrashes + 1
    /\ \E v \in Survivors(pinFile) : pinFile' = At(v) /\ mayPin' = mayPin \cap {PinsOf(v)}
    /\ thread' = [t \in Threads |-> Idle]
    /\ mutex' = [p \in Processes |-> Nobody] /\ fileLock' = Nobody
    /\ UNCHANGED <<refusals, pinCalls, pinFailures>>

PinNext ==
    \/ \E t \in Threads : \/ CallPins(t) \/ LockMutex(t) \/ TryLock(t) \/ LoadPins(t)
                          \/ RenamePins(t) \/ SyncPins(t) \/ SavePinsFails(t) \/ Unlock(t)
    \/ \E p \in Processes : KillDaemon(p)
    \/ PinPowerLoss

PinSpec == PinInit /\ [][PinNext]_pinVars

\* ------------------------------------------------------------------------
\* Property

\* "This lock is held across the full approval/pin read-modify-write"
\* (peer_pin_store.rs:45): whatever a power loss may leave is a document that
\* loads, up to the last record it may hold, and holds exactly the acknowledged
\* enrollments and revocations and, of the others, those that had got as far as
\* the rename.  And "drop the process lock before the thread mutex"
\* (peer_trust.rs:33): a transaction is refused for the lock of another daemon,
\* never for one of its own.
PinChangesStay ==
    /\ \A v \in Survivors(pinFile) : PinsOf(v) \in mayPin
    /\ \A r \in refusals : r[1] # r[2]
==============================================================================
