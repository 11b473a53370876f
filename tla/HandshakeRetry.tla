---------------------------- MODULE HandshakeRetry ----------------------------
(***************************************************************************)
(* PendingHandshakeSockets of attempt_socket.rs over the ReconnectScheduler *)
(* of session.rs: the retry slot of each peer, the socket of an attempt in  *)
(* flight, bounded exponential backoff and the attempt watchdog.            *)
(*                                                                         *)
(* A callback names a generation and a time.  It may be delayed: it may     *)
(* name any generation and any time that is not in the future.  Time        *)
(* saturates at RetryTime as u64 does.                                        *)
(***************************************************************************)
EXTENDS Naturals, FiniteSets

CONSTANTS
  RetryKeys,       \* valid PeerSessionKeys
  Gens,            \* nonzero session ids, the generations of a loss
  NoSlot,            \* an absent slot, socket or time
  MaxSlots,        \* MAX_CONTROL_SESSIONS
  MaxAttempts,     \* MAX_RECONNECT_ATTEMPTS
  BaseDelay,       \* 250 ms
  DelayCap,        \* 30 s
  AttemptTimeout,  \* MAX_CONNECT_AUTH_ATTEMPT_MS
  RetryTime          \* u64::MAX, the last instant of the model

VARIABLES
  slots,     \* scheduler.slots[k], or NoSlot
  sockets,   \* generation of the socket held for k, or NoSlot
  retryClock,  \* the current time
  failedAt,  \* time of the loss or of the last failed attempt (history)
  begun      \* attempts begun for the current slot (history)

retryVars == <<slots, sockets, retryClock, failedAt, begun>>

Times == 0..RetryTime

\* PendingReconnect of a generation.
RetrySlots ==
  [gen: Gens, failures: 1..MaxAttempts, next: Times \cup {NoSlot}, inFlight: BOOLEAN,
   started: Times \cup {NoSlot}, cancel: BOOLEAN, last: Times]

\* The powers of two are natural numbers, which the provers do not know.
ASSUME RetryConstants ==
  /\ MaxSlots \in Nat \ {0} /\ MaxAttempts \in Nat \ {0}
  /\ BaseDelay \in Nat /\ DelayCap \in Nat /\ AttemptTimeout \in Nat /\ RetryTime \in Nat
  /\ NoSlot \notin Gens /\ NoSlot \notin Nat /\ NoSlot \notin RetrySlots
  /\ \A n \in 0..MaxAttempts : 2^n \in Nat

RetryAt(t, d) == IF t + d > RetryTime THEN RetryTime ELSE t + d

\* The delay of after_failure once n attempts have already failed.
Delay(n) == IF BaseDelay * 2^n > DelayCap THEN DelayCap ELSE BaseDelay * 2^n

Has(k, g) == slots[k] # NoSlot /\ slots[k].gen = g

Regressed(k, g, t) == Has(k, g) /\ t < slots[k].last

-----------------------------------------------------------------------------
\* Mutants of the operations below.

\* Mutant of Due: a slot in flight is due again.
DueImmediately(s, t) == s.next # NoSlot

\* Mutant of Due: the instant itself is not due.
DueStrictly(s, t) == ~s.inFlight /\ s.next # NoSlot /\ s.next < t

\* Mutant of AfterFailure: a retry is not counted.
AfterFailureUncounted(s, t) ==
  [s EXCEPT !.next = RetryAt(t, Delay(s.failures)),
            !.inFlight = FALSE, !.started = NoSlot, !.cancel = FALSE, !.last = t]

\* Mutant of CloseIfCurrent: the generation is not compared.
CloseAny(k, g) == sockets' = [sockets EXCEPT ![k] = NoSlot]

\* Mutant of Overdue: an attempt that already was asked to cancel is required.
OverdueNever(s, t) == s.inFlight /\ s.cancel

-----------------------------------------------------------------------------
\* Slots.

RetryRoom(k) == Cardinality({l \in RetryKeys : slots[l] # NoSlot}) < MaxSlots

\* take_due claims the slot.
Due(s, t) == ~s.inFlight /\ s.next # NoSlot /\ s.next <= t

\* take_expired_attempt grants its one cancellation request.
Overdue(s, t) ==
  s.inFlight /\ RetryAt(s.started, AttemptTimeout) <= t /\ ~s.cancel

\* attempt_failed on a slot in flight: the next attempt, or an inert slot
\* once the budget is exhausted.
AfterFailure(s, t) ==
  LET again == s.failures < MaxAttempts
  IN [s EXCEPT !.failures = IF again THEN @ + 1 ELSE @,
               !.next = IF again THEN RetryAt(t, Delay(s.failures)) ELSE NoSlot,
               !.inFlight = FALSE, !.started = NoSlot, !.cancel = FALSE, !.last = t]

\* close_if_current
CloseIfCurrent(k, g) ==
  sockets' = IF sockets[k] = g THEN [sockets EXCEPT ![k] = NoSlot] ELSE sockets

\* cancel_if_current
CancelIfCurrent(k, g) ==
  slots' = IF Has(k, g) THEN [slots EXCEPT ![k] = NoSlot] ELSE slots

\* attempt_failed, and cancellation when its clock has regressed.
AttemptFailed(k, g, t) ==
  IF Regressed(k, g, t)
  THEN CancelIfCurrent(k, g) /\ UNCHANGED failedAt
  ELSE IF Has(k, g) /\ slots[k].inFlight
  THEN /\ slots' = [slots EXCEPT ![k] = AfterFailure(@, t)]
       /\ failedAt' = [failedAt EXCEPT ![k] = t]
  ELSE UNCHANGED <<slots, failedAt>>

-----------------------------------------------------------------------------
\* Operations of PendingHandshakeSockets.

\* schedule_loss: only the first loss of a peer without a slot counts.
ScheduleLoss(k, g, t) ==
  /\ slots[k] = NoSlot
  /\ RetryRoom(k)
  /\ slots' = [slots EXCEPT ![k] =
       [gen |-> g, failures |-> 1, next |-> RetryAt(t, Delay(0)),
        inFlight |-> FALSE, started |-> NoSlot, cancel |-> FALSE, last |-> t]]
  /\ failedAt' = [failedAt EXCEPT ![k] = t]
  /\ begun' = [begun EXCEPT ![k] = 0]
  /\ UNCHANGED <<sockets, retryClock>>

\* begin: take_due advances the slot's clock even when nothing is due.
Begin(k, g, t) ==
  /\ sockets[k] = NoSlot
  /\ Has(k, g) /\ ~Regressed(k, g, t)
  /\ IF Due(slots[k], t)
     THEN /\ slots' = [slots EXCEPT ![k].inFlight = TRUE, ![k].started = t,
                                    ![k].cancel = FALSE, ![k].next = NoSlot, ![k].last = t]
          /\ sockets' = [sockets EXCEPT ![k] = g]
          /\ begun' = [begun EXCEPT ![k] = @ + 1]
     ELSE /\ slots' = [slots EXCEPT ![k].last = t]
          /\ UNCHANGED <<sockets, begun>>
  /\ UNCHANGED <<retryClock, failedAt>>

\* watchdog: close first, then account for the failure; a regressed clock
\* retires the generation.
Watchdog(k, g, t) ==
  /\ IF Regressed(k, g, t)
     THEN CloseIfCurrent(k, g) /\ CancelIfCurrent(k, g) /\ UNCHANGED failedAt
     ELSE IF Has(k, g) /\ Overdue(slots[k], t)
     THEN CloseIfCurrent(k, g) /\ AttemptFailed(k, g, t)
     ELSE /\ slots' = IF Has(k, g) THEN [slots EXCEPT ![k].last = t] ELSE slots
          /\ UNCHANGED <<sockets, failedAt>>
  /\ UNCHANGED <<retryClock, begun>>

\* failed, and failed_with_kind for a transient failure.
Failed(k, g, t) ==
  /\ sockets[k] = g
  /\ CloseIfCurrent(k, g)
  /\ AttemptFailed(k, g, t)
  /\ UNCHANGED <<retryClock, begun>>

\* failed_with_kind for a permanent failure.
FailedForGood(k, g) ==
  /\ sockets[k] = g
  /\ CloseIfCurrent(k, g)
  /\ CancelIfCurrent(k, g)
  /\ UNCHANGED <<retryClock, failedAt, begun>>

\* cancel: revocation or shutdown, also of a slot that waits.
Cancel(k, g) ==
  /\ CloseIfCurrent(k, g)
  /\ CancelIfCurrent(k, g)
  /\ UNCHANGED <<retryClock, failedAt, begun>>

RetryTick == retryClock < RetryTime /\ retryClock' = retryClock + 1
        /\ UNCHANGED <<slots, sockets, failedAt, begun>>

RetryInit ==
  /\ slots = [k \in RetryKeys |-> NoSlot]
  /\ sockets = [k \in RetryKeys |-> NoSlot]
  /\ retryClock = 0
  /\ failedAt = [k \in RetryKeys |-> 0]
  /\ begun = [k \in RetryKeys |-> 0]

RetryNext ==
  \/ \E k \in RetryKeys, g \in Gens :
       \/ FailedForGood(k, g) \/ Cancel(k, g)
       \/ \E t \in 0..retryClock :
            ScheduleLoss(k, g, t) \/ Begin(k, g, t) \/ Watchdog(k, g, t) \/ Failed(k, g, t)
  \/ RetryTick

RetrySpec == RetryInit /\ [][RetryNext]_retryVars

\* The owner keeps polling: it runs the watchdog of every attempt and tries
\* every pending retry with the current time, and time passes.
FairRetrySpec ==
  /\ RetrySpec
  /\ WF_retryVars(RetryTick)
  /\ \A k \in RetryKeys, g \in Gens :
       WF_retryVars(Watchdog(k, g, retryClock)) /\ WF_retryVars(Begin(k, g, retryClock))

-----------------------------------------------------------------------------
\* Type invariant; slots never exceed MAX_CONTROL_SESSIONS (session.rs:434).
RetryTypeOK ==
  /\ slots \in [RetryKeys -> RetrySlots \cup {NoSlot}]
  /\ sockets \in [RetryKeys -> Gens \cup {NoSlot}]
  /\ retryClock \in Times
  /\ failedAt \in [RetryKeys -> Times]
  /\ begun \in [RetryKeys -> 0..MaxAttempts]
  /\ Cardinality({k \in RetryKeys : slots[k] # NoSlot}) <= MaxSlots

\* A socket is held exactly while the slot of its own generation is in flight,
\* so an attempt never overlaps its replacement and no slot waits for a socket
\* that is gone, whatever delayed or regressed callbacks arrive
\* (attempt_socket.rs:71-91, 106-115).
SocketIffInFlight ==
  \A k \in RetryKeys, g \in Gens :
    sockets[k] = g <=> slots[k] # NoSlot /\ slots[k].gen = g /\ slots[k].inFlight

\* One loss leads to at most MAX_RECONNECT_ATTEMPTS attempts: every attempt
\* begun, and the pending one, is paid for from the budget
\* (session.rs:156-164, 520-549).
AttemptsArePaidFor ==
  \A k \in RetryKeys : slots[k] # NoSlot =>
    slots[k].failures = begun[k] + (IF slots[k].next = NoSlot THEN 0 ELSE 1)

\* An attempt begins no earlier than the backoff after the loss, or after the
\* end of the attempt before it, although callbacks carry stale times
\* (session.rs:458-484, 520-549).
BackoffIsRespected ==
  \A k \in RetryKeys : sockets[k] = NoSlot /\ sockets'[k] # NoSlot =>
    slots'[k].started >= RetryAt(failedAt[k], Delay(begun[k]))

\* The three together, in every step of every behaviour: retries are counted,
\* spaced and tied to their sockets (session.rs, attempt_socket.rs).
RetriesAreSound ==
  [][/\ (RetryTypeOK /\ SocketIffInFlight /\ AttemptsArePaidFor)'
     /\ BackoffIsRespected]_retryVars

\* No attempt holds a socket: what a polled watchdog keeps coming back to
\* (attempt_socket.rs:65-92).
NoAttempt == \A k \in RetryKeys : sockets[k] = NoSlot

\* No scheduled retry waits: each is begun or cancelled
\* (attempt_socket.rs:49-61; session.rs:458-484).
NoneWaits ==
  \A k \in RetryKeys : slots[k] # NoSlot /\ slots[k].next # NoSlot => sockets[k] # NoSlot
=============================================================================
