--------------------------- MODULE SessionRegistry ---------------------------
(***************************************************************************)
(* ControlSessionRegistry of session.rs: at most one entry per peer, the   *)
(* phases of an entry across loss and reconnection, and the bounded window *)
(* of recently used session ids.                                           *)
(*                                                                         *)
(* The registry lives behind one mutex; callers are admission of a new     *)
(* authenticated session and delayed callbacks (loss, reconnect wakeup,    *)
(* teardown) that carry the id of any session there ever was.              *)
(* Calls that return an error, AlreadyActive or false change nothing.      *)
(***************************************************************************)
EXTENDS Integers, FiniteSets, Sequences, SequencesExt

CONSTANTS
  Keys,            \* PeerSessionKeys with nonzero network and peer
  InvalidKey,      \* a key with a zero identity
  Ids,             \* nonzero session ids
  ZeroId,          \* the all-zero session id
  NoSession,       \* no entry for a key
  MaxSessions,     \* MAX_CONTROL_SESSIONS
  MaxRecent,       \* MAX_RECENT_SESSION_IDS
  MaxActivations   \* bound of the model on activations in one behaviour

ASSUME RegistryConstants ==
  /\ InvalidKey \notin Keys
  /\ ZeroId \notin Ids
  /\ MaxSessions \in Nat \ {0}
  /\ MaxRecent \in Nat \ {0}
  /\ MaxActivations \in Nat

VARIABLES
  sessions,  \* sessions[k]: SessionEntry of a key, or NoSession
  recent,    \* recent_session_ids, oldest first
  seen,      \* seen_session_ids
  history    \* every id activated so far, in order (history)

registryVars == <<sessions, recent, seen, history>>

Phases == {"Active", "Lost", "Reconnecting"}

Entry(id, phase) == [id |-> id, phase |-> phase]

Present == {k \in Keys : sessions[k] # NoSession}

\* The current entry of a key carries this id and one of these phases.
Is(k, id, phases) ==
  sessions[k] # NoSession /\ sessions[k].id = id /\ sessions[k].phase \in phases

-----------------------------------------------------------------------------
\* Mutants of the operations below.

\* Mutant of RememberSessionId: the oldest id leaves the queue but stays seen.
RememberWithoutForgetting(id) ==
  /\ recent' = IF Len(recent) = MaxRecent THEN Append(Tail(recent), id) ELSE Append(recent, id)
  /\ seen' = seen \cup {id}

\* Mutant of Fresh: only the replay window is consulted.
FreshByWindowOnly(k, id) == id \notin seen

-----------------------------------------------------------------------------
\* remember_session_id: a queue of MaxRecent ids and the set of its elements.
RememberSessionId(id) ==
  IF Len(recent) = MaxRecent
  THEN /\ recent' = Append(Tail(recent), id)
       /\ seen' = (seen \ {Head(recent)}) \cup {id}
  ELSE /\ recent' = Append(recent, id)
       /\ seen' = seen \cup {id}

\* Neither an entry (of this key or another) nor the window has the id.
Fresh(k, id) ==
  /\ \A other \in Present : sessions[other].id # id
  /\ id \notin seen

\* A key with an entry is recovered in place; a new key needs room.
HasRoom(k) == sessions[k] # NoSession \/ Cardinality(Present) < MaxSessions

\* activate_after_authentication returns New or Recovered.
ActivateAfterAuthentication(k, id) ==
  /\ k \in Keys /\ id # ZeroId
  /\ sessions[k] # NoSession => sessions[k].phase # "Active"
  /\ Fresh(k, id)
  /\ HasRoom(k)
  /\ sessions' = [sessions EXCEPT ![k] = Entry(id, "Active")]
  /\ RememberSessionId(id)
  /\ history' = Append(history, id)

\* mark_lost: an active or reconnecting entry with exactly this id.
MarkLost(k, id) ==
  /\ Is(k, id, {"Active", "Reconnecting"})
  /\ sessions' = [sessions EXCEPT ![k].phase = "Lost"]
  /\ UNCHANGED <<recent, seen, history>>

\* mark_reconnecting: admits one attempt per loss.
MarkReconnecting(k, id) ==
  /\ Is(k, id, {"Lost"})
  /\ sessions' = [sessions EXCEPT ![k].phase = "Reconnecting"]
  /\ UNCHANGED <<recent, seen, history>>

\* remove_if_current: an old task cannot drop a newer session.
RemoveIfCurrent(k, id) ==
  /\ Is(k, id, Phases)
  /\ sessions' = [sessions EXCEPT ![k] = NoSession]
  /\ UNCHANGED <<recent, seen, history>>

RegistryInit ==
  /\ sessions = [k \in Keys |-> NoSession]
  /\ recent = <<>>
  /\ seen = {}
  /\ history = <<>>

RegistryNext ==
  \/ \E k \in Keys \cup {InvalidKey}, id \in Ids \cup {ZeroId} :
       Len(history) < MaxActivations /\ ActivateAfterAuthentication(k, id)
  \/ \E k \in Keys, id \in Ids :
       MarkLost(k, id) \/ MarkReconnecting(k, id) \/ RemoveIfCurrent(k, id)

RegistrySpec == RegistryInit /\ [][RegistryNext]_registryVars

-----------------------------------------------------------------------------
\* Type invariant, with the two limits of the registry: never more than
\* MAX_CONTROL_SESSIONS entries (session.rs:316-318) nor more than
\* MAX_RECENT_SESSION_IDS remembered ids.
RegistryTypeOK ==
  /\ sessions \in [Keys -> [id: Ids, phase: Phases] \cup {NoSession}]
  /\ recent \in Seq(Ids) /\ Len(recent) <= MaxRecent
  /\ seen \subseteq Ids
  /\ history \in Seq(Ids)
  /\ Cardinality(Present) <= MaxSessions

\* The replay window is exactly the last MaxRecent activations, without
\* repetition, and the set mirrors the queue: a session id cannot be used
\* again before MaxRecent other sessions were admitted, whether its entry was
\* replaced, lost or removed in between (session.rs:257-265, 303-308).
WindowIsRecentHistory ==
  LET n == IF Len(history) <= MaxRecent THEN Len(history) ELSE MaxRecent
      window == SubSeq(history, Len(history) - n + 1, Len(history))
  IN /\ recent = window
     /\ seen = ToSet(window)
     /\ Cardinality(seen) = n

\* Two peers never share a session id, even when the window has already
\* forgotten the id of a long-lived session (session.rs:296-302).
IdsAreExclusive ==
  \A k, l \in Present : k # l => sessions[k].id # sessions[l].id

\* No session id is used twice within the replay window or by two peers, however
\* sessions are replaced, lost and removed, and neither limit is exceeded
\* (session.rs:234-345).
SessionIdsAreFresh == RegistryTypeOK /\ WindowIsRecentHistory /\ IdsAreExclusive
==============================================================================
