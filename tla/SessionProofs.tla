---------------------------- MODULE SessionProofs ----------------------------
(***************************************************************************)
(* Proofs about SessionRegistry, for any peers, session ids and sizes of   *)
(* the registry and of its window, and about HandshakeRetry, for any       *)
(* peers, generations, delays and clock range.                             *)
(***************************************************************************)
EXTENDS SessionRegistry, HandshakeRetry, SequenceTheorems, FiniteSetTheorems, TLAPS

\* Proof that ids are fresh, for any number of peers and any limits.

Slots == [id : Ids, phase : Phases] \cup {NoSession}

Typed ==
  /\ sessions \in [Keys -> Slots]
  /\ recent \in Seq(Ids) /\ Len(recent) <= MaxRecent
  /\ history \in Seq(Ids)

\* The set of remembered ids is the contents of the queue, each once.
Mirrored ==
  /\ seen = {recent[i] : i \in 1 .. Len(recent)}
  /\ \A i, j \in 1 .. Len(recent) : i # j => recent[i] # recent[j]

\* The queue is the end of the history, position by position.
Windowed ==
  /\ Len(recent) = IF Len(history) <= MaxRecent THEN Len(history) ELSE MaxRecent
  /\ \A i \in 1 .. Len(recent) : recent[i] = history[Len(history) - Len(recent) + i]

Bounded == IsFiniteSet(Present) /\ Cardinality(Present) <= MaxSessions

RegistryIInv == Typed /\ Bounded /\ IdsAreExclusive /\ Mirrored /\ Windowed

\* A fresh id enters the window: at the limit the oldest one leaves both the queue
\* and the set (remember_session_id).
LEMMA RememberKeepsMirror ==
  ASSUME Typed, Mirrored, NEW id \in Ids, id \notin seen, RememberSessionId(id)
  PROVE  recent' \in Seq(Ids) /\ Len(recent') <= MaxRecent /\ Mirrored'
<1> USE RegistryConstants DEF Typed, RegistryConstants
<1>1. CASE Len(recent) = MaxRecent
  <2>1. recent' = Append(Tail(recent), id) /\ seen' = (seen \ {Head(recent)}) \cup {id}
    BY <1>1 DEF RememberSessionId
  <2>2. recent # <<>>
    BY <1>1
  <2>3. /\ Tail(recent) \in Seq(Ids) /\ Len(Tail(recent)) = Len(recent) - 1
        /\ \A i \in 1 .. Len(recent) - 1 : Tail(recent)[i] = recent[i + 1]
        /\ Head(recent) = recent[1]
    BY <2>2
  <2>4. /\ recent' \in Seq(Ids) /\ Len(recent') = Len(recent)
        /\ \A i \in 1 .. Len(recent) - 1 : recent'[i] = recent[i + 1]
        /\ recent'[Len(recent)] = id
    BY <2>1, <2>2, <2>3
  <2>5. \A i \in 1 .. Len(recent) : recent[i] # id
    BY DEF Mirrored
  <2>6. \A i, j \in 1 .. Len(recent') : i # j => recent'[i] # recent'[j]
    BY <2>4, <2>5 DEF Mirrored
  <2>7. seen' = {recent'[i] : i \in 1 .. Len(recent')}
    <3>1. ASSUME NEW x \in seen' PROVE \E i \in 1 .. Len(recent') : x = recent'[i]
      <4>1. CASE x = id
        BY <1>1, <2>4, <4>1
      <4>2. CASE x # id
        <5>1. PICK i \in 1 .. Len(recent) : x = recent[i]
          BY <2>1, <4>2 DEF Mirrored
        <5>2. i # 1
          BY <2>1, <2>3, <4>2, <5>1
        <5>3. i - 1 \in 1 .. Len(recent) - 1 /\ recent'[i - 1] = recent[(i - 1) + 1]
          BY <2>4, <5>2
        <5>4. i - 1 \in 1 .. Len(recent') /\ (i - 1) + 1 = i
          BY <2>4, <5>3
        <5> QED BY <5>1, <5>3, <5>4
      <4> QED BY <4>1, <4>2
    <3>2. ASSUME NEW i \in 1 .. Len(recent') PROVE recent'[i] \in seen'
      <4>1. CASE i = Len(recent)
        BY <2>1, <2>4, <4>1
      <4>2. CASE i # Len(recent)
        <5>1. recent'[i] = recent[i + 1] /\ i + 1 \in 1 .. Len(recent) /\ i + 1 # 1
          BY <2>4, <4>2
        <5>2. recent[i + 1] # recent[1]
          BY <2>2, <5>1 DEF Mirrored
        <5> QED BY <2>1, <2>3, <5>1, <5>2 DEF Mirrored
      <4> QED BY <4>1, <4>2
    <3> QED BY <3>1, <3>2
  <2> QED BY <1>1, <2>4, <2>6, <2>7 DEF Mirrored
<1>2. CASE Len(recent) # MaxRecent
  <2>1. recent' = Append(recent, id) /\ seen' = seen \cup {id}
    BY <1>2 DEF RememberSessionId
  <2>2. /\ recent' \in Seq(Ids) /\ Len(recent') = Len(recent) + 1
        /\ \A i \in 1 .. Len(recent) : recent'[i] = recent[i]
        /\ recent'[Len(recent) + 1] = id
    BY <2>1
  <2> QED BY <1>2, <2>1, <2>2 DEF Mirrored
<1> QED BY <1>1, <1>2

\* The window moves along the history.
LEMMA RememberKeepsWindow ==
  ASSUME Typed, Windowed, NEW id \in Ids, RememberSessionId(id), history' = Append(history, id)
  PROVE  Windowed'
<1> USE RegistryConstants DEF Typed, RegistryConstants
<1>1. /\ Len(history') = Len(history) + 1 /\ history'[Len(history) + 1] = id
      /\ \A i \in 1 .. Len(history) : history'[i] = history[i]
  OBVIOUS
<1>2. CASE Len(recent) = MaxRecent
  <2>1. recent # <<>> /\ recent' = Append(Tail(recent), id)
    BY <1>2 DEF RememberSessionId
  <2>2. /\ Tail(recent) \in Seq(Ids) /\ Len(Tail(recent)) = Len(recent) - 1
        /\ \A i \in 1 .. Len(recent) - 1 : Tail(recent)[i] = recent[i + 1]
    BY <2>1
  <2>3. /\ Len(recent') = Len(recent) /\ recent'[Len(recent)] = id
        /\ \A i \in 1 .. Len(recent) - 1 : recent'[i] = recent[i + 1]
    BY <2>1, <2>2
  <2>4. MaxRecent <= Len(history)
    BY <1>2 DEF Windowed
  <2>5. ASSUME NEW i \in 1 .. Len(recent')
        PROVE  recent'[i] = history'[Len(history') - Len(recent') + i]
    <3>1. CASE i = Len(recent)
      BY <1>1, <2>3, <3>1
    <3>2. CASE i # Len(recent)
      <4>1. recent'[i] = recent[i + 1] /\ i + 1 \in 1 .. Len(recent)
        BY <2>3, <3>2
      <4>2. recent[i + 1] = history[Len(history) - Len(recent) + (i + 1)]
        BY Zenon, <4>1 DEF Windowed
      <4>3. Len(history) - Len(recent) + (i + 1) \in 1 .. Len(history)
        BY <1>2, <2>4, <4>1
      <4>4. Len(history') - Len(recent') + i = Len(history) - Len(recent) + (i + 1)
        BY <1>1, <2>3
      <4> QED  BY <1>1, <4>1, <4>2, <4>3, <4>4
    <3> QED  BY Zenon, <3>1, <3>2
  <2>6. Len(recent') = IF Len(history') <= MaxRecent THEN Len(history') ELSE MaxRecent
    BY <1>1, <1>2, <2>3, <2>4
  <2> QED  BY Zenon, <2>5, <2>6 DEF Windowed
<1>3. CASE Len(recent) # MaxRecent
  <2>1. Len(recent) = Len(history) /\ Len(history) < MaxRecent
    BY <1>3 DEF Windowed
  <2>2. recent' = Append(recent, id)
    BY <1>3 DEF RememberSessionId
  <2>3. /\ Len(recent') = Len(recent) + 1 /\ recent'[Len(recent) + 1] = id
        /\ \A i \in 1 .. Len(recent) : recent'[i] = recent[i]
    BY <2>2
  <2>4. \A i \in 1 .. Len(recent) : recent[i] = history[i]
    <3>1. \A i \in 1 .. Len(recent) : Len(history) - Len(recent) + i = i
      BY <2>1
    <3> QED  BY Zenon, <3>1 DEF Windowed
  <2>5. ASSUME NEW i \in 1 .. Len(recent')
        PROVE  recent'[i] = history'[Len(history') - Len(recent') + i]
    <3>1. Len(history') - Len(recent') + i = i
      BY <1>1, <2>1, <2>3
    <3>2. recent'[i] = history'[i]
      BY <1>1, <2>1, <2>3, <2>4
    <3> QED  BY Zenon, <3>1, <3>2
  <2>6. Len(recent') = IF Len(history') <= MaxRecent THEN Len(history') ELSE MaxRecent
    BY <1>1, <2>1, <2>3
  <2> QED  BY Zenon, <2>5, <2>6 DEF Windowed
<1> QED  BY <1>2, <1>3

\* A new or recovered session (activate_after_authentication).
LEMMA ActivationKeeps ==
  ASSUME RegistryIInv, NEW k, NEW id \in Ids \cup {ZeroId},
         ActivateAfterAuthentication(k, id)
  PROVE  RegistryIInv'
<1>1. k \in Keys /\ id \in Ids /\ Fresh(k, id) /\ RememberSessionId(id)
  BY DEF ActivateAfterAuthentication
<1>2. sessions' = [sessions EXCEPT ![k] = Entry(id, "Active")] /\ history' = Append(history, id)
  BY DEF ActivateAfterAuthentication
<1>3. sessions' \in [Keys -> Slots]
  BY <1>1, <1>2 DEF RegistryIInv, Typed, Slots, Entry, Phases
<1>4. IdsAreExclusive'
  BY <1>1, <1>2 DEF RegistryIInv, Typed, IdsAreExclusive, Present, Fresh, Entry
<1>5. id \notin seen
  BY <1>1 DEF Fresh
<1>6. Mirrored' /\ recent' \in Seq(Ids) /\ Len(recent') <= MaxRecent
  BY <1>1, <1>5, RememberKeepsMirror DEF RegistryIInv
<1>7. history' \in Seq(Ids) /\ Windowed'
  BY <1>1, <1>2, RememberKeepsWindow DEF RegistryIInv, Typed
<1>8. Bounded'
  <2>1. Present' \subseteq Present \cup {k} /\ (k \in Present => Present' \subseteq Present)
    BY <1>1, <1>2 DEF Present, RegistryIInv, Typed
  <2>2. /\ IsFiniteSet(Present \cup {k}) /\ Cardinality(Present) \in Nat
        /\ Cardinality(Present \cup {k}) = IF k \in Present THEN Cardinality(Present) ELSE Cardinality(Present) + 1
    BY FS_AddElement, FS_CardinalityType DEF RegistryIInv, Bounded
  <2>3. k \notin Present => Cardinality(Present) < MaxSessions
    BY <1>1 DEF ActivateAfterAuthentication, HasRoom, Present
  <2>4. Cardinality(Present \cup {k}) <= MaxSessions
    BY <2>2, <2>3, RegistryConstants DEF RegistryConstants, RegistryIInv, Bounded
  <2>5. IsFiniteSet(Present') /\ Cardinality(Present') <= Cardinality(Present \cup {k})
    BY <2>1, <2>2, FS_Subset
  <2>6. Cardinality(Present') \in Nat /\ Cardinality(Present \cup {k}) \in Nat
    BY <2>2, <2>5, FS_CardinalityType
  <2> QED  BY <2>4, <2>5, <2>6, RegistryConstants DEF Bounded, RegistryConstants
<1> QED BY <1>3, <1>4, <1>6, <1>7, <1>8 DEF RegistryIInv, Typed

\* A callback that changes or removes the entry it names.
LEMMA CallbackKeeps ==
  ASSUME RegistryIInv, NEW k \in Keys, NEW id \in Ids,
         MarkLost(k, id) \/ MarkReconnecting(k, id) \/ RemoveIfCurrent(k, id)
  PROVE  RegistryIInv'
<1>1. UNCHANGED <<recent, seen, history>>
  BY DEF MarkLost, MarkReconnecting, RemoveIfCurrent
<1>2. sessions[k] \in [id : Ids, phase : Phases]
  BY DEF MarkLost, MarkReconnecting, RemoveIfCurrent, Is, RegistryIInv, Typed, Slots
<1>3. \/ \E p \in Phases : sessions' = [sessions EXCEPT ![k].phase = p]
      \/ sessions' = [sessions EXCEPT ![k] = NoSession]
  BY DEF MarkLost, MarkReconnecting, RemoveIfCurrent, Phases
<1>4. sessions' \in [Keys -> Slots]
  BY <1>2, <1>3 DEF RegistryIInv, Typed, Slots
<1>5. \A l \in Keys : sessions'[l] # NoSession => sessions[l] # NoSession /\ sessions'[l].id = sessions[l].id
  <2>1. sessions[k] # NoSession
    BY DEF MarkLost, MarkReconnecting, RemoveIfCurrent, Is
  <2>2. \A l \in Keys \ {k} : sessions'[l] = sessions[l]
    BY <1>3 DEF RegistryIInv, Typed
  <2>3. sessions'[k] # NoSession => sessions'[k].id = sessions[k].id
    BY <1>2, <1>3 DEF RegistryIInv, Typed
  <2> QED BY <2>1, <2>2, <2>3
<1>6. IdsAreExclusive'
  BY <1>5 DEF RegistryIInv, IdsAreExclusive, Present
<1>7. Bounded'
  <2>1. Present' \subseteq Present
    BY <1>5 DEF Present
  <2>2. IsFiniteSet(Present') /\ Cardinality(Present') <= Cardinality(Present)
    BY <2>1, FS_Subset DEF RegistryIInv, Bounded
  <2>3. Cardinality(Present') \in Nat /\ Cardinality(Present) \in Nat
    BY <2>2, FS_CardinalityType DEF RegistryIInv, Bounded
  <2> QED  BY <2>2, <2>3, RegistryConstants DEF RegistryIInv, Bounded, RegistryConstants
<1> QED BY <1>1, <1>4, <1>6, <1>7 DEF RegistryIInv, Typed, Mirrored, Windowed

\* What the queue and the set mean for the history.
LEMMA WindowFollows == RegistryIInv => SessionIdsAreFresh
<1> SUFFICES ASSUME RegistryIInv PROVE SessionIdsAreFresh
  OBVIOUS
<1> USE RegistryConstants DEF RegistryIInv, Typed, RegistryConstants
<1> DEFINE n == IF Len(history) <= MaxRecent THEN Len(history) ELSE MaxRecent
           window == SubSeq(history, Len(history) - n + 1, Len(history))
<1>1. n \in 0 .. Len(history) /\ n = Len(recent)
  BY DEF Windowed
<1>2. /\ window \in Seq(Ids) /\ Len(window) = n
      /\ \A i \in 1 .. n : window[i] = history[Len(history) - n + i]
  <2>1. /\ Len(history) - n + 1 \in Int /\ Len(history) \in Int
        /\ \A i \in Len(history) - n + 1 .. Len(history) : history[i] \in Ids
    BY <1>1
  <2> HIDE DEF n
  <2>2. /\ window \in Seq(Ids)
        /\ Len(window) = IF Len(history) - n + 1 <= Len(history)
                         THEN Len(history) - (Len(history) - n + 1) + 1 ELSE 0
        /\ \A i \in 1 .. Len(history) - (Len(history) - n + 1) + 1 :
             window[i] = history[(Len(history) - n + 1) + i - 1]
    BY <2>1, SubSeqProperties
  <2>3. /\ Len(history) - (Len(history) - n + 1) + 1 = n
        /\ \A i \in 1 .. n : (Len(history) - n + 1) + i - 1 = Len(history) - n + i
    BY <1>1
  <2> QED  BY <1>1, <2>2, <2>3
<1> HIDE DEF n, window
<1>3. recent = window
  <2>1. \A i \in 1 .. n : recent[i] = window[i]
    BY Zenon, <1>1, <1>2 DEF Windowed
  <2> QED  BY <1>1, <1>2, <2>1
<1>4. seen = ToSet(window)
  <2>1. DOMAIN recent = 1 .. Len(recent)
    BY <1>2, <1>3
  <2>2. seen = ToSet(recent)
    BY Zenon, <2>1 DEF Mirrored, ToSet
  <2> QED  BY Zenon, <1>3, <2>2
<1>5. Cardinality(seen) = n
  <2> DEFINE f == [i \in 1 .. n |-> recent[i]]
  <2>1. f \in Surjection(1 .. n, seen) /\ f \in Injection(1 .. n, seen)
    BY <1>1 DEF Mirrored, Surjection, Injection, IsInjective
  <2>2. IsFiniteSet(1 .. n) /\ Cardinality(1 .. n) = n
    <3>1. n \in Nat /\ n \in Int /\ 1 \in Int
      BY <1>1
    <3>2. IsFiniteSet(1 .. n) /\ Cardinality(1 .. n) = IF 1 > n THEN 0 ELSE n - 1 + 1
      BY <3>1, FS_Interval
    <3> QED  BY <3>1, <3>2
  <2> HIDE DEF f
  <2>3. Cardinality(seen) = Cardinality(1 .. n)
    BY <2>1, <2>2, FS_Surjection
  <2> QED  BY <2>2, <2>3
<1>6. WindowIsRecentHistory
  BY Zenon, <1>3, <1>4, <1>5 DEF WindowIsRecentHistory, n, window
<1>7. RegistryTypeOK
  <2>1. seen \subseteq Ids
    BY DEF Mirrored
  <2> QED  BY <2>1 DEF RegistryTypeOK, Slots, Bounded
<1> QED  BY <1>6, <1>7 DEF SessionIdsAreFresh

\* Two peers never share a session id, and the replay window is exactly the last
\* MAX_RECENT_SESSION_IDS activations, each once, with its set and queue in step,
\* whatever delayed callbacks arrive.
THEOREM SessionIdsStayFresh == RegistrySpec => []SessionIdsAreFresh
<1>1. RegistryInit => RegistryIInv
  <2> SUFFICES ASSUME RegistryInit PROVE RegistryIInv
    OBVIOUS
  <2>1. Present = {}
    BY DEF RegistryInit, Present
  <2>2. Bounded
    BY <2>1, FS_EmptySet, RegistryConstants DEF Bounded, RegistryConstants
  <2> QED
    BY <2>1, <2>2, RegistryConstants
       DEF RegistryConstants, RegistryInit, RegistryIInv, Typed, Slots, IdsAreExclusive, Mirrored, Windowed
<1>2. RegistryIInv /\ [RegistryNext]_registryVars => RegistryIInv'
  <2> SUFFICES ASSUME RegistryIInv, [RegistryNext]_registryVars PROVE RegistryIInv'
    OBVIOUS
  <2>1. CASE \E k \in Keys \cup {InvalidKey}, id \in Ids \cup {ZeroId} :
               Len(history) < MaxActivations /\ ActivateAfterAuthentication(k, id)
    BY <2>1, ActivationKeeps
  <2>2. CASE \E k \in Keys, id \in Ids :
               MarkLost(k, id) \/ MarkReconnecting(k, id) \/ RemoveIfCurrent(k, id)
    BY <2>2, CallbackKeeps
  <2>3. CASE UNCHANGED registryVars
    BY <2>3 DEF registryVars, RegistryIInv, Typed, Bounded, IdsAreExclusive, Present, Mirrored, Windowed
  <2> QED BY <2>1, <2>2, <2>3 DEF RegistryNext
<1> QED BY <1>1, <1>2, WindowFollows, PTL DEF RegistrySpec

-----------------------------------------------------------------------------
\* Proof of RetriesAreSound, for any peers, generations, delays and clock range.

\* The slot, the socket, the attempts begun and the last failure of one peer agree.
\* A retry waits for the backoff after that failure.
PeerOK(slot, socket, attempts, failed) ==
  /\ slot \in RetrySlots \cup {NoSlot} /\ socket \in Gens \cup {NoSlot}
  /\ attempts \in 0..MaxAttempts /\ failed \in Times
  /\ \A g \in Gens : socket = g <=> slot # NoSlot /\ slot.gen = g /\ slot.inFlight
  /\ slot # NoSlot =>
       /\ slot.inFlight => slot.next = NoSlot
       /\ slot.failures = attempts + (IF slot.next = NoSlot THEN 0 ELSE 1)
       /\ slot.next # NoSlot => slot.next = RetryAt(failed, Delay(attempts))

Taken == {k \in RetryKeys : slots[k] # NoSlot}

RetryInv ==
  /\ slots \in [RetryKeys -> RetrySlots \cup {NoSlot}] /\ sockets \in [RetryKeys -> Gens \cup {NoSlot}]
  /\ begun \in [RetryKeys -> 0..MaxAttempts] /\ failedAt \in [RetryKeys -> Times] /\ retryClock \in Times
  /\ \A k \in RetryKeys : PeerOK(slots[k], sockets[k], begun[k], failedAt[k])
  /\ IsFiniteSet(Taken) /\ Cardinality(Taken) <= MaxSlots

\* Backoffs are times.
LEMMA RetryAtIsTime ==
  ASSUME NEW t \in Times, NEW n \in 0..MaxAttempts
  PROVE  RetryAt(t, Delay(n)) \in Times
<1>1. 2^n \in Nat /\ BaseDelay \in Nat /\ DelayCap \in Nat /\ RetryTime \in Nat
  BY RetryConstants
<1>2. BaseDelay * 2^n \in Nat
  BY <1>1
<1>3. Delay(n) \in Nat
  BY <1>1, <1>2 DEF Delay
<1> QED BY <1>1, <1>3 DEF RetryAt, Times

\* No operation touches two peers, so one peer is what a step has to be checked on;
\* a slot is only added while there is room.
LEMMA OnePeer ==
  ASSUME RetryInv, NEW k \in RetryKeys, NEW slot, NEW socket, NEW attempts, NEW failed,
         PeerOK(slot, socket, attempts, failed),
         slots' = [slots EXCEPT ![k] = slot], sockets' = [sockets EXCEPT ![k] = socket],
         begun' = [begun EXCEPT ![k] = attempts], failedAt' = [failedAt EXCEPT ![k] = failed],
         retryClock' = retryClock,
         slots[k] # NoSlot \/ slot = NoSlot \/ RetryRoom(k)
  PROVE  RetryInv'
<1>1. /\ slots'[k] = slot /\ \A l \in RetryKeys \ {k} : slots'[l] = slots[l]
      /\ sockets'[k] = socket /\ \A l \in RetryKeys \ {k} : sockets'[l] = sockets[l]
      /\ begun'[k] = attempts /\ \A l \in RetryKeys \ {k} : begun'[l] = begun[l]
      /\ failedAt'[k] = failed /\ \A l \in RetryKeys \ {k} : failedAt'[l] = failedAt[l]
  BY DEF RetryInv
<1>2. \A l \in RetryKeys : PeerOK(slots'[l], sockets'[l], begun'[l], failedAt'[l])
  BY <1>1 DEF RetryInv
<1>3. /\ slot \in RetrySlots \cup {NoSlot} /\ socket \in Gens \cup {NoSlot}
      /\ attempts \in 0..MaxAttempts /\ failed \in Times
  BY DEF PeerOK
<1>4. /\ slots' \in [RetryKeys -> RetrySlots \cup {NoSlot}] /\ sockets' \in [RetryKeys -> Gens \cup {NoSlot}]
      /\ begun' \in [RetryKeys -> 0..MaxAttempts] /\ failedAt' \in [RetryKeys -> Times] /\ retryClock' \in Times
  BY <1>3 DEF RetryInv
<1>5. IsFiniteSet(Taken') /\ Cardinality(Taken') <= MaxSlots
  <2>1. IsFiniteSet(Taken) /\ Cardinality(Taken) \in Nat /\ Cardinality(Taken) <= MaxSlots
    BY FS_CardinalityType DEF RetryInv
  <2>2. CASE slot # NoSlot /\ slots[k] = NoSlot
    <3>1. Taken' = Taken \cup {k} /\ k \notin Taken
      BY <1>1, <2>2 DEF Taken
    <3>2. Cardinality(Taken) < MaxSlots
      BY <2>2 DEF RetryRoom, Taken
    <3>3. IsFiniteSet(Taken \cup {k}) /\ Cardinality(Taken \cup {k}) = Cardinality(Taken) + 1
      BY <2>1, <3>1, FS_AddElement
    <3> QED BY <2>1, <3>1, <3>2, <3>3, RetryConstants
  <2>3. CASE slot = NoSlot \/ slots[k] # NoSlot
    <3>1. Taken' \subseteq Taken
      BY <1>1, <2>3 DEF Taken
    <3>2. IsFiniteSet(Taken') /\ Cardinality(Taken') <= Cardinality(Taken)
      BY <2>1, <3>1, FS_Subset
    <3>3. Cardinality(Taken') \in Nat
      BY <3>2, FS_CardinalityType
    <3> QED BY <2>1, <3>2, <3>3, RetryConstants
  <2> QED BY <2>2, <2>3
<1> QED BY <1>2, <1>4, <1>5 DEF RetryInv

\* The end of an attempt in flight: the slot waits for the next one or is spent.
LEMMA FailurePaysForRetry ==
  ASSUME NEW slot \in RetrySlots, NEW socket, NEW attempts, NEW failed,
         PeerOK(slot, socket, attempts, failed), slot.inFlight, NEW t \in Times
  PROVE  PeerOK(AfterFailure(slot, t), NoSlot, attempts, t)
<1> DEFINE after == AfterFailure(slot, t)
           again == slot.failures < MaxAttempts
<1>1. /\ slot # NoSlot /\ slot.next = NoSlot /\ slot.failures = attempts
      /\ attempts \in 0..MaxAttempts /\ slot.failures \in 1..MaxAttempts
  BY RetryConstants DEF PeerOK, RetrySlots
<1>2. RetryAt(t, Delay(slot.failures)) \in Times /\ RetryAt(t, Delay(slot.failures)) # NoSlot
  <2>1. RetryAt(t, Delay(slot.failures)) \in Times
    BY <1>1, RetryAtIsTime
  <2> QED BY <2>1, RetryConstants DEF Times
<1>3. /\ after.failures = IF again THEN slot.failures + 1 ELSE slot.failures
      /\ after.next = IF again THEN RetryAt(t, Delay(slot.failures)) ELSE NoSlot
      /\ after.inFlight = FALSE /\ after.gen = slot.gen
  BY DEF AfterFailure, RetrySlots
<1>4. (IF again THEN slot.failures + 1 ELSE slot.failures) \in 1..MaxAttempts
  BY <1>1, RetryConstants
<1>5. after \in RetrySlots
  BY Zenon, <1>2, <1>4 DEF AfterFailure, RetrySlots
<1> HIDE DEF after
<1>6. after.failures = attempts + (IF after.next = NoSlot THEN 0 ELSE 1)
  BY <1>1, <1>2, <1>3
<1>7. after.next # NoSlot => after.next = RetryAt(t, Delay(attempts))
  BY <1>1, <1>3
<1>8. PeerOK(after, NoSlot, attempts, t)
  BY <1>1, <1>3, <1>5, <1>6, <1>7, RetryConstants DEF PeerOK
<1> QED BY <1>8 DEF after

\* A peer without slot and socket is in order, whatever was begun before.
LEMMA NothingIsOK ==
  ASSUME NEW attempts \in 0..MaxAttempts, NEW failed \in Times
  PROVE  PeerOK(NoSlot, NoSlot, attempts, failed)
BY RetryConstants DEF PeerOK

\* The first loss (schedule_loss).
LEMMA ScheduleKeeps ==
  ASSUME RetryInv, NEW k \in RetryKeys, NEW g \in Gens, NEW t \in Times, ScheduleLoss(k, g, t)
  PROVE  RetryInv' /\ BackoffIsRespected
<1> DEFINE slot == [gen |-> g, failures |-> 1, next |-> RetryAt(t, Delay(0)),
                    inFlight |-> FALSE, started |-> NoSlot, cancel |-> FALSE, last |-> t]
<1>1. RetryAt(t, Delay(0)) \in Times /\ RetryAt(t, Delay(0)) # NoSlot
  <2>1. RetryAt(t, Delay(0)) \in Times
    BY RetryAtIsTime, RetryConstants
  <2> QED BY <2>1, RetryConstants DEF Times
<1>2. slot \in RetrySlots /\ slot.next # NoSlot
  BY <1>1, RetryConstants DEF RetrySlots
<1>3. sockets[k] = NoSlot
  BY DEF ScheduleLoss, RetryInv, PeerOK
<1>4. PeerOK(slot, NoSlot, 0, t)
  BY <1>2, RetryConstants DEF PeerOK
<1>5. /\ slots' = [slots EXCEPT ![k] = slot] /\ sockets' = [sockets EXCEPT ![k] = NoSlot]
      /\ begun' = [begun EXCEPT ![k] = 0] /\ failedAt' = [failedAt EXCEPT ![k] = t]
      /\ retryClock' = retryClock /\ RetryRoom(k) /\ sockets' = sockets
  BY <1>3 DEF ScheduleLoss, RetryInv
<1> HIDE DEF slot
<1>6. RetryInv'
  BY Zenon, <1>4, <1>5, OnePeer
<1> QED BY <1>5, <1>6 DEF BackoffIsRespected

\* A due slot takes flight (begin, take_due), no earlier than its backoff allows.
LEMMA BeginKeeps ==
  ASSUME RetryInv, NEW k \in RetryKeys, NEW g \in Gens, NEW t \in Times, Begin(k, g, t)
  PROVE  RetryInv' /\ BackoffIsRespected
<1>1. /\ PeerOK(slots[k], sockets[k], begun[k], failedAt[k]) /\ retryClock' = retryClock
      /\ sockets[k] = NoSlot /\ failedAt' = [failedAt EXCEPT ![k] = failedAt[k]]
  BY DEF RetryInv, Begin
<1>2. slots[k] \in RetrySlots /\ slots[k] # NoSlot /\ slots[k].gen = g
  BY <1>1 DEF PeerOK, Begin, Has
<1>3. CASE Due(slots[k], t)
  <2> DEFINE slot == [slots[k] EXCEPT !.inFlight = TRUE, !.started = t, !.cancel = FALSE,
                                      !.next = NoSlot, !.last = t]
  <2>1. /\ slots' = [slots EXCEPT ![k] = slot] /\ sockets' = [sockets EXCEPT ![k] = g]
        /\ begun' = [begun EXCEPT ![k] = begun[k] + 1]
    BY Zenon, <1>2, <1>3 DEF Begin, RetryInv
  <2>2. /\ slot \in RetrySlots /\ slot.gen = g /\ slot.inFlight = TRUE /\ slot.next = NoSlot
        /\ slot.failures = slots[k].failures /\ slot.started = t
    BY Zenon, <1>2 DEF RetrySlots
  <2>3. slots[k].next # NoSlot /\ slots[k].next <= t
    BY <1>3 DEF Due
  <2>4. slot # NoSlot
    BY <2>2, RetryConstants
  <2>5. slots[k].failures = begun[k] + 1 /\ slots[k].failures \in 1..MaxAttempts
    BY <1>1, <1>2, <2>3 DEF PeerOK, RetrySlots
  <2>6. slots[k].next = RetryAt(failedAt[k], Delay(begun[k]))
    BY <1>1, <1>2, <2>3 DEF PeerOK
  <2> HIDE DEF slot
  <2>7. PeerOK(slot, g, begun[k] + 1, failedAt[k])
    BY <1>1, <2>2, <2>4, <2>5, RetryConstants DEF PeerOK
  <2>8. RetryInv'
    BY Zenon, <1>1, <1>2, <2>1, <2>7, OnePeer
  <2>9. \A l \in RetryKeys \ {k} : sockets'[l] = sockets[l]
    BY <2>1 DEF RetryInv
  <2>10. slots'[k].started = t
    BY <2>1, <2>2 DEF RetryInv
  <2>11. t >= RetryAt(failedAt[k], Delay(begun[k]))
    BY <2>3, <2>6 DEF Times
  <2> QED BY <2>8, <2>9, <2>10, <2>11 DEF BackoffIsRespected
<1>4. CASE ~Due(slots[k], t)
  <2> DEFINE slot == [slots[k] EXCEPT !.last = t]
  <2>1. /\ slots' = [slots EXCEPT ![k] = slot] /\ sockets' = [sockets EXCEPT ![k] = sockets[k]]
        /\ begun' = [begun EXCEPT ![k] = begun[k]] /\ sockets' = sockets
    BY <1>4 DEF Begin, RetryInv
  <2>2. /\ slot \in RetrySlots /\ slot.gen = slots[k].gen /\ slot.inFlight = slots[k].inFlight
        /\ slot.next = slots[k].next /\ slot.failures = slots[k].failures
    BY <1>2 DEF RetrySlots
  <2> HIDE DEF slot
  <2>3. PeerOK(slot, sockets[k], begun[k], failedAt[k])
    BY <1>1, <1>2, <2>2, RetryConstants DEF PeerOK
  <2>4. RetryInv'
    BY Zenon, <1>1, <1>2, <2>1, <2>3, OnePeer
  <2> QED BY <2>1, <2>4 DEF BackoffIsRespected
<1> QED BY <1>3, <1>4

\* close_if_current and cancel_if_current together retire a generation.
LEMMA RetiringKeeps ==
  ASSUME RetryInv, NEW k \in RetryKeys, NEW g \in Gens, CloseIfCurrent(k, g), CancelIfCurrent(k, g),
         begun' = begun, failedAt' = failedAt, retryClock' = retryClock
  PROVE  RetryInv'
<1>1. PeerOK(slots[k], sockets[k], begun[k], failedAt[k])
  BY DEF RetryInv
<1>2. CASE Has(k, g)
  <2>1. sockets[k] \in {g, NoSlot}
    BY <1>1, <1>2 DEF Has, PeerOK
  <2>2. PICK attempts, failed : attempts = begun[k] /\ failed = failedAt[k]
    OBVIOUS
  <2>3. /\ slots' = [slots EXCEPT ![k] = NoSlot] /\ sockets' = [sockets EXCEPT ![k] = NoSlot]
        /\ begun' = [begun EXCEPT ![k] = attempts] /\ failedAt' = [failedAt EXCEPT ![k] = failed]
    BY Zenon, <1>2, <2>1, <2>2 DEF CloseIfCurrent, CancelIfCurrent, RetryInv
  <2>4. PeerOK(NoSlot, NoSlot, attempts, failed)
    BY <1>1, <2>2, NothingIsOK DEF PeerOK
  <2> QED BY Zenon, <2>3, <2>4, OnePeer
<1>3. CASE ~Has(k, g)
  <2>1. sockets[k] # g
    BY <1>1, <1>3 DEF Has, PeerOK
  <2>2. slots' = slots /\ sockets' = sockets
    BY <1>3, <2>1 DEF CloseIfCurrent, CancelIfCurrent
  <2> QED BY <2>2 DEF RetryInv, Taken
<1> QED BY <1>2, <1>3

\* Closing a socket begins no attempt.
LEMMA ClosingBeginsNothing ==
  ASSUME RetryInv, NEW k \in RetryKeys, NEW g \in Gens, CloseIfCurrent(k, g)
  PROVE  BackoffIsRespected
<1>1. \A l \in RetryKeys : sockets'[l] \in {sockets[l], NoSlot}
  BY DEF CloseIfCurrent, RetryInv
<1> QED BY <1>1 DEF BackoffIsRespected

\* A socket is closed and its attempt accounted for (attempt_failed); a regressed
\* clock retires the generation instead.
LEMMA FailingKeeps ==
  ASSUME RetryInv, NEW k \in RetryKeys, NEW g \in Gens, NEW t \in Times,
         CloseIfCurrent(k, g), AttemptFailed(k, g, t), begun' = begun, retryClock' = retryClock
  PROVE  RetryInv'
<1>1. PeerOK(slots[k], sockets[k], begun[k], failedAt[k])
  BY DEF RetryInv
<1>2. CASE Regressed(k, g, t)
  BY <1>2, RetiringKeeps DEF AttemptFailed
<1>3. CASE ~Regressed(k, g, t) /\ Has(k, g) /\ slots[k].inFlight
  <2>1. sockets[k] = g /\ slots[k] \in RetrySlots /\ slots[k] # NoSlot
    BY <1>1, <1>3 DEF PeerOK, Has
  <2>2. PeerOK(AfterFailure(slots[k], t), NoSlot, begun[k], t)
    BY <1>1, <1>3, <2>1, FailurePaysForRetry
  <2>3. /\ slots' = [slots EXCEPT ![k] = AfterFailure(slots[k], t)]
        /\ sockets' = [sockets EXCEPT ![k] = NoSlot]
        /\ begun' = [begun EXCEPT ![k] = begun[k]] /\ failedAt' = [failedAt EXCEPT ![k] = t]
    BY <1>3, <2>1 DEF AttemptFailed, CloseIfCurrent, RetryInv
  <2> QED BY Zenon, <2>1, <2>2, <2>3, OnePeer
<1>4. CASE ~Regressed(k, g, t) /\ ~(Has(k, g) /\ slots[k].inFlight)
  <2>1. sockets[k] # g
    BY <1>1, <1>4 DEF PeerOK, Has
  <2>2. slots' = slots /\ sockets' = sockets /\ failedAt' = failedAt
    BY <1>4, <2>1 DEF AttemptFailed, CloseIfCurrent
  <2> QED BY <2>2 DEF RetryInv, Taken
<1> QED BY <1>2, <1>3, <1>4

\* The watchdog cancels an overdue attempt, retires a regressed generation, or
\* advances the slot's clock.
LEMMA WatchdogKeeps ==
  ASSUME RetryInv, NEW k \in RetryKeys, NEW g \in Gens, NEW t \in Times, Watchdog(k, g, t)
  PROVE  RetryInv' /\ BackoffIsRespected
<1>1. begun' = begun /\ retryClock' = retryClock
  BY DEF Watchdog
<1>2. CASE Regressed(k, g, t)
  BY <1>1, <1>2, RetiringKeeps, ClosingBeginsNothing DEF Watchdog
<1>3. CASE ~Regressed(k, g, t) /\ Has(k, g) /\ Overdue(slots[k], t)
  BY <1>1, <1>3, FailingKeeps, ClosingBeginsNothing DEF Watchdog
<1>4. CASE ~Regressed(k, g, t) /\ ~(Has(k, g) /\ Overdue(slots[k], t))
  <2>1. sockets' = sockets /\ failedAt' = failedAt
    BY <1>4 DEF Watchdog
  <2>2. CASE Has(k, g)
    <3> DEFINE slot == [slots[k] EXCEPT !.last = t]
    <3>1. /\ PeerOK(slots[k], sockets[k], begun[k], failedAt[k])
          /\ slots[k] \in RetrySlots /\ slots[k] # NoSlot
      BY <2>2 DEF RetryInv, PeerOK, Has
    <3>2. /\ slots' = [slots EXCEPT ![k] = slot] /\ sockets' = [sockets EXCEPT ![k] = sockets[k]]
          /\ begun' = [begun EXCEPT ![k] = begun[k]] /\ failedAt' = [failedAt EXCEPT ![k] = failedAt[k]]
      BY <1>1, <1>4, <2>1, <2>2 DEF Watchdog, RetryInv
    <3>3. /\ slot \in RetrySlots /\ slot.gen = slots[k].gen /\ slot.inFlight = slots[k].inFlight
          /\ slot.next = slots[k].next /\ slot.failures = slots[k].failures
      BY <3>1 DEF RetrySlots
    <3> HIDE DEF slot
    <3>4. PeerOK(slot, sockets[k], begun[k], failedAt[k])
      BY <3>1, <3>3, RetryConstants DEF PeerOK
    <3>5. RetryInv'
      BY Zenon, <1>1, <3>1, <3>2, <3>4, OnePeer
    <3> QED BY <2>1, <3>5 DEF BackoffIsRespected
  <2>3. CASE ~Has(k, g)
    BY <1>1, <1>4, <2>1, <2>3 DEF Watchdog, RetryInv, Taken, BackoffIsRespected
  <2> QED BY <2>2, <2>3
<1> QED BY <1>2, <1>3, <1>4

\* Every step keeps the invariant and respects the backoff.
LEMMA RetryStep == RetryInv /\ [RetryNext]_retryVars => RetryInv' /\ BackoffIsRespected
<1> SUFFICES ASSUME RetryInv, [RetryNext]_retryVars PROVE RetryInv' /\ BackoffIsRespected
  OBVIOUS
<1>1. ASSUME NEW k \in RetryKeys, NEW g \in Gens, FailedForGood(k, g) \/ Cancel(k, g)
      PROVE  RetryInv' /\ BackoffIsRespected
  BY <1>1, RetiringKeeps, ClosingBeginsNothing DEF FailedForGood, Cancel
<1>2. ASSUME NEW k \in RetryKeys, NEW g \in Gens, NEW t \in 0..retryClock,
             ScheduleLoss(k, g, t) \/ Begin(k, g, t) \/ Watchdog(k, g, t) \/ Failed(k, g, t)
      PROVE  RetryInv' /\ BackoffIsRespected
  <2>1. t \in Times
    BY RetryConstants DEF RetryInv, Times
  <2>2. CASE Failed(k, g, t)
    BY <2>1, <2>2, FailingKeeps, ClosingBeginsNothing DEF Failed
  <2> QED BY <1>2, <2>1, <2>2, ScheduleKeeps, BeginKeeps, WatchdogKeeps
<1>3. CASE RetryTick
  <2>1. retryClock' \in Times
    BY <1>3, RetryConstants DEF RetryTick, RetryInv, Times
  <2> QED BY <1>3, <2>1 DEF RetryTick, RetryInv, Taken, BackoffIsRespected
<1>4. CASE UNCHANGED retryVars
  BY <1>4 DEF retryVars, RetryInv, Taken, BackoffIsRespected
<1> QED BY <1>1, <1>2, <1>3, <1>4 DEF RetryNext

\* A socket is held exactly while the slot of its generation is in flight, one loss
\* leads to no more than MAX_RECONNECT_ATTEMPTS attempts, and none begins before the
\* backoff after the failure before it, whatever delayed, duplicated or regressed
\* callbacks arrive.
THEOREM RetriesStaySound == RetrySpec => RetriesAreSound
<1>1. RetryInit => RetryInv
  <2> SUFFICES ASSUME RetryInit PROVE RetryInv
    OBVIOUS
  <2>1. 0 \in Times /\ 0 \in 0..MaxAttempts
    BY RetryConstants DEF Times
  <2>2. PeerOK(NoSlot, NoSlot, 0, 0)
    BY <2>1, NothingIsOK
  <2>3. Taken = {}
    BY DEF RetryInit, Taken
  <2>4. IsFiniteSet(Taken) /\ Cardinality(Taken) <= MaxSlots
    BY <2>3, FS_EmptySet, RetryConstants
  <2> QED BY <2>1, <2>2, <2>4 DEF RetryInit, RetryInv
<1>2. RetryInv => RetryTypeOK /\ SocketIffInFlight /\ AttemptsArePaidFor
  BY DEF RetryInv, PeerOK, RetryTypeOK, SocketIffInFlight, AttemptsArePaidFor, Taken
<1>3. RetryInv /\ [RetryNext]_retryVars =>
        RetryInv' /\ (RetryTypeOK /\ SocketIffInFlight /\ AttemptsArePaidFor)' /\ BackoffIsRespected
  BY <1>2, RetryStep, PTL
<1> QED BY <1>1, <1>3, PTL DEF RetrySpec, RetriesAreSound
===============================================================================
