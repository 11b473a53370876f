----------------------------- MODULE ControlStream -----------------------------
(***************************************************************************)
(* One direction of an authenticated control session, from the writer of    *)
(* one end (SessionControlWriter) over a byte stream to the reader of the   *)
(* other (ActiveControlSession, PinnedSessionIngress,                       *)
(* AuthenticatedInboundActivity, SessionControlStream and                   *)
(* ControlStreamDecoder).                                                   *)
(*                                                                         *)
(* A frame is HeaderBytes + BodyBytes bytes; a byte is known by its frame   *)
(* and its place.  Writes and reads move any number of bytes.  TLS keeps    *)
(* the bytes in order; the connection may break at any moment and then      *)
(* lose what was not read.  Time is the millisecond clock of the reader,    *)
(* which saturates.                                                         *)
(***************************************************************************)
EXTENDS Naturals, Sequences, SequencesExt

CONSTANTS
  HeaderBytes,     \* HEADER_LEN
  BodyBytes,       \* payload bytes of a frame
  MaxChunk,        \* plaintext bytes of one read: the buffer of receive_next
  MaxFrames,       \* MAX_FRAMES_PER_FEED
  Capacity,        \* bytes the connection holds
  MaxSeq,          \* u64::MAX, the sequence that is never used
  IdleTimeout,     \* ConnectionStage::Active
  ClosingTimeout,  \* ConnectionStage::Closing
  Slice,           \* the bounded wait of a polling owner
  MaxTime,         \* u64::MAX, the last instant of the model
  MaxFaults        \* frames no SessionControlWriter would produce, at most

FrameBytes == HeaderBytes + BodyBytes

\* A read is too small to hold more frames than a feed accepts.
ASSUME StreamConstants ==
  /\ {HeaderBytes, BodyBytes, MaxChunk, MaxFrames, Capacity, Slice} \subseteq Nat \ {0}
  /\ {IdleTimeout, ClosingTimeout, MaxTime, MaxFaults} \subseteq Nat
  /\ MaxSeq \in Nat /\ MaxSeq > 3
  /\ MaxChunk <= MaxFrames * FrameBytes

VARIABLES
  writer,     \* SessionControlWriter: next_sequence, closed, poisoned
  out,        \* bytes of the frame being written that are not on the wire
  writing,    \* a write is in progress, and of which message
  wire,       \* bytes written and not read
  ending,     \* "open", "clean" after close-notify, "broken"
  decoder,    \* ControlStreamDecoder: partial, poisoned, finished
  stream,     \* SessionControlStream: last_sequence, closed, poisoned
  deadline,   \* ConnectionDeadline: stage, last_ms, expires_ms
  activity,   \* AuthenticatedInboundActivity: terminal, goodbye_seen
  reading,    \* the blocking read in progress: start and timeout, or NoRead
  approved,   \* the peer is approved and its key enrolled
  clock,      \* the time of the reader
  faults,     \* how many frames no writer would produce were sent (history)
  heardAt,    \* when frames were last delivered (history)
  sent,       \* frames of the writer (history)
  delivered,  \* frames returned by receive_next (history)
  outcome     \* "open", or how receive_next ended the session (history)

writerVars == <<writer, out, writing, faults, sent>>
readerVars == <<decoder, stream, deadline, activity, reading, heardAt, delivered, outcome>>
vars == <<writerVars, wire, ending, readerVars, approved, clock>>

None == "none"

NoRead == [start |-> 0, timeout |-> 0]

Frame(seq, msg) == [context |-> "ours", seq |-> seq, msg |-> msg, form |-> "valid"]

Bytes(f) == [i \in 1..FrameBytes |-> [frame |-> f, at |-> i]]

IsGoodbye(f) == f.msg = "Goodbye"

SaturatingAdd(t, d) == IF t + d > MaxTime THEN MaxTime ELSE t + d

LesserOf(a, b) == IF a < b THEN a ELSE b

-----------------------------------------------------------------------------
\* The writer.

\* Bytes under way may be lost with the connection.
Breaks ==
  /\ ending' = "broken"
  /\ wire' \in Prefixes(wire)

\* encode: a sequence is never used twice; at the end of its range the writer is
\* poisoned, and the session closes its socket.
Encode(msg) ==
  IF writer.next + 1 > MaxSeq
  THEN /\ writer' = [writer EXCEPT !.poisoned = TRUE]
       /\ Breaks
       /\ UNCHANGED <<out, writing, sent>>
  ELSE /\ writer' = [writer EXCEPT !.next = @ + 1, !.closed = msg = "Goodbye"]
       /\ sent' = Append(sent, Frame(writer.next, msg))
       /\ out' = Bytes(Frame(writer.next, msg))
       /\ writing' = msg
       /\ UNCHANGED <<wire, ending>>

\* send_heartbeat_until, send_goodbye_until: encode, then write.
BeginWrite(msg) ==
  /\ writing = None /\ ~writer.poisoned /\ ~writer.closed /\ ending = "open"
  /\ Encode(msg)
  /\ UNCHANGED <<faults, readerVars, approved, clock>>

\* write_one_control_frame_with_deadline: a partial write.
WriteSome ==
  /\ out # <<>> /\ ending = "open"
  /\ \E n \in 1..Len(out) :
       /\ Len(wire) + n <= Capacity
       /\ wire' = wire \o SubSeq(out, 1, n)
       /\ out' = SubSeq(out, n + 1, Len(out))
  /\ UNCHANGED <<writer, writing, faults, sent, ending, readerVars, approved, clock>>

\* The frame is on the wire in time; after a Goodbye close-notify follows.
EndWrite ==
  /\ writing # None /\ out = <<>> /\ ending = "open"
  /\ writing' = None
  /\ ending' = IF writing = "Goodbye" THEN "clean" ELSE ending
  /\ UNCHANGED <<writer, out, faults, sent, wire, readerVars, approved, clock>>

\* A write that fails, is late or only partial poisons the writer, and the
\* session closes its socket.
FailWrite ==
  /\ writing # None /\ ending = "open"
  /\ writer' = [writer EXCEPT !.poisoned = TRUE]
  /\ writing' = None /\ out' = <<>>
  /\ Breaks
  /\ UNCHANGED <<faults, sent, readerVars, approved, clock>>

\* The peer or the link goes away; so does a peer that no longer approves this
\* node (authorize_outbound).
LoseConnection ==
  /\ ending = "open" /\ writing = None
  /\ Breaks
  /\ UNCHANGED <<writerVars, readerVars, approved, clock>>

\* A peer that does not use the writer: another session's frame, a repeated
\* sequence, a second handshake, an invalid length or payload, a Goodbye that
\* is not the end.
FaultFrames ==
  LET next == Frame(writer.next, "Heartbeat")
  IN {[next EXCEPT !.context = "other"], [next EXCEPT !.seq = @ - 1], [next EXCEPT !.msg = "Hello"],
      [next EXCEPT !.form = "length"], [next EXCEPT !.form = "payload"],
      [next EXCEPT !.msg = "Goodbye"]}

EmitFault ==
  /\ writing = None /\ ending = "open" /\ faults < MaxFaults
  /\ writer.next < MaxSeq
  /\ \E f \in FaultFrames :
       /\ sent' = Append(sent, f)
       /\ out' = Bytes(f)
  /\ writing' = "Heartbeat"
  /\ faults' = faults + 1
  /\ writer' = [writer EXCEPT !.next = @ + 1]
  /\ UNCHANGED <<wire, ending, readerVars, approved, clock>>

-----------------------------------------------------------------------------
\* The decoder and the checks of the session.

\* read_control_length and decode_control_frame on the bytes of one frame.
HeaderIsValid(p) ==
  p = SubSeq(Bytes(p[1].frame), 1, HeaderBytes) /\ p[1].frame.form # "length"

PayloadIsValid(p) == p = Bytes(p[1].frame) /\ p[1].frame.form = "valid"

\* Mutant of DecodeByte: the frame limit is one too small.
DecodeByteTight(d, b) ==
  LET p == Append(d.partial, b)
  IN IF d.poisoned THEN d
     ELSE IF \/ Len(p) = HeaderBytes /\ ~HeaderIsValid(p)
             \/ Len(p) = FrameBytes /\ (~PayloadIsValid(p) \/ Len(d.completed) + 1 >= MaxFrames)
     THEN [d EXCEPT !.partial = <<>>, !.poisoned = TRUE]
     ELSE IF Len(p) = FrameBytes
     THEN [d EXCEPT !.partial = <<>>, !.completed = Append(@, b.frame)]
     ELSE [d EXCEPT !.partial = p]

\* ControlStreamDecoder::feed, one byte after the other.
DecodeByte(d, b) ==
  LET p == Append(d.partial, b)
  IN IF d.poisoned THEN d
     ELSE IF \/ Len(p) = HeaderBytes /\ ~HeaderIsValid(p)
             \/ Len(p) = FrameBytes /\ (~PayloadIsValid(p) \/ Len(d.completed) >= MaxFrames)
     THEN [d EXCEPT !.partial = <<>>, !.poisoned = TRUE]
     ELSE IF Len(p) = FrameBytes
     THEN [d EXCEPT !.partial = <<>>, !.completed = Append(@, b.frame)]
     ELSE [d EXCEPT !.partial = p]

\* Mutant of Rejects: a repeated sequence is taken.
RejectsOlderOnly(s, f) ==
  f.context # "ours" \/ f.seq < s.last \/ s.closed \/ f.msg \notin {"Heartbeat", "Goodbye"}

\* Mutant of Rejects: a Goodbye need not be the last frame.
RejectsNothingAfterGoodbye(s, f) ==
  f.context # "ours" \/ f.seq <= s.last \/ f.msg \notin {"Heartbeat", "Goodbye"}

\* SessionControlStream::feed refuses a frame: wrong context, replay, after
\* Goodbye, or another handshake.
Rejects(s, f) ==
  f.context # "ours" \/ f.seq <= s.last \/ s.closed \/ f.msg \notin {"Heartbeat", "Goodbye"}

AcceptFrame(s, f) ==
  IF s.poisoned THEN s
  ELSE IF Rejects(s, f) THEN [s EXCEPT !.poisoned = TRUE]
  ELSE [s EXCEPT !.last = f.seq, !.closed = IsGoodbye(f)]

\* All frames of a chunk or none; a Goodbye is the last byte of the stream.
Fed(d) ==
  LET s == IF d.poisoned THEN [stream EXCEPT !.poisoned = TRUE]
           ELSE FoldLeft(AcceptFrame, stream, d.completed)
  IN IF s.closed /\ d.partial # <<>> THEN [s EXCEPT !.poisoned = TRUE] ELSE s

-----------------------------------------------------------------------------
\* The deadline.

\* ConnectionDeadline::check.
InTime(now) == deadline.last <= now /\ now < deadline.expires

\* Mutant of Renewed: any read renews the deadline, an idle slice included.
RenewedByPolling(now, frames) ==
  [deadline EXCEPT !.last = now, !.expires = SaturatingAdd(now, IdleTimeout)]

\* authenticated_activity and, for a Goodbye, abort.
Renewed(now, frames) ==
  IF frames = <<>> THEN deadline
  ELSE IF \E i \in DOMAIN frames : IsGoodbye(frames[i])
  THEN [stage |-> "Closing", last |-> now, expires |-> SaturatingAdd(now, ClosingTimeout)]
  ELSE [deadline EXCEPT !.last = now, !.expires = SaturatingAdd(now, IdleTimeout)]

-----------------------------------------------------------------------------
\* The reader.

\* Mutant of Terminate: a failed session is left for another poll.
TerminateOnlyGraceful(how) ==
  /\ activity' = [activity EXCEPT !.terminal = how = "graceful"]
  /\ outcome' = how

\* Every error is final: the session closes its socket.
Terminate(how) ==
  /\ activity' = [activity EXCEPT !.terminal = TRUE]
  /\ outcome' = how

Refuse ==
  /\ Terminate("failed")
  /\ UNCHANGED <<decoder, stream, deadline, heardAt, delivered>>

\* receive_verified_plaintext and feed_verified_plaintext: approval, Goodbye,
\* deadline, frames, and only then renewal.
FeedPlaintext(chunk, now) ==
  /\ reading' = NoRead
  /\ IF ~approved \/ activity.goodbyeSeen \/ ~InTime(now) THEN Refuse
     ELSE LET d == FoldLeft(DecodeByte, [partial |-> decoder.partial, completed |-> <<>>,
                                         poisoned |-> FALSE], chunk)
              s == Fed(d)
              frames == d.completed
          IN /\ decoder' = [decoder EXCEPT !.partial = d.partial, !.poisoned = d.poisoned]
             /\ stream' = s
             /\ IF s.poisoned
                THEN Terminate("failed") /\ UNCHANGED <<deadline, heardAt, delivered>>
                ELSE /\ deadline' = Renewed(now, frames)
                     /\ activity' = [activity EXCEPT !.goodbyeSeen = s.closed]
                     /\ delivered' = delivered \o frames
                     /\ heardAt' = IF frames = <<>> THEN heardAt ELSE now
                     /\ UNCHANGED outcome

\* receive_next_with_budget_at up to the read: idle deadline, approval, budget.
BeginRead(wait) ==
  /\ ~activity.terminal /\ reading = NoRead
  /\ IF ~InTime(clock) \/ ~approved
     THEN Refuse /\ UNCHANGED reading
     ELSE /\ reading' = [start |-> clock, timeout |-> LesserOf(wait, deadline.expires - clock)]
          /\ UNCHANGED <<decoder, stream, deadline, activity, heardAt, delivered, outcome>>
  /\ UNCHANGED <<writerVars, wire, ending, approved, clock>>

Late == clock >= SaturatingAdd(reading.start, reading.timeout)

\* The read returns bytes; what completes after the slice counts for nothing.
ReadBytes ==
  /\ reading # NoRead /\ wire # <<>>
  /\ \E n \in 1..LesserOf(Len(wire), MaxChunk) :
       /\ wire' = SubSeq(wire, n + 1, Len(wire))
       /\ IF Late THEN Refuse /\ reading' = NoRead
          ELSE FeedPlaintext(SubSeq(wire, 1, n), clock)
  /\ UNCHANGED <<writerVars, ending, approved, clock>>

\* A timeout of the whole idle budget is final, although the socket may wake up
\* a fraction of a millisecond early.
Expires == reading.timeout = deadline.expires - reading.start

\* The read times out: the end of the idle budget, or an idle slice.
ReadTimesOut ==
  /\ reading # NoRead
  /\ clock + 1 >= SaturatingAdd(reading.start, reading.timeout)
  /\ IF Expires THEN Refuse /\ reading' = NoRead
     ELSE FeedPlaintext(<<>>, clock)
  /\ UNCHANGED <<writerVars, wire, ending, approved, clock>>

\* EOF: finish_at and SessionControlStream::finish.  Graceful only in time, with
\* approval, after a Goodbye and at a frame boundary.
ReadEof ==
  /\ reading # NoRead /\ wire = <<>> /\ ending = "clean"
  /\ reading' = NoRead
  /\ IF Late \/ ~approved \/ ~InTime(clock) THEN Refuse
     ELSE /\ decoder' = [decoder EXCEPT !.partial = <<>>, !.poisoned = decoder.partial # <<>>,
                                        !.finished = decoder.partial = <<>>]
          /\ stream' = [stream EXCEPT !.poisoned = TRUE]
          /\ Terminate(IF stream.closed /\ decoder.partial = <<>> THEN "graceful" ELSE "failed")
          /\ UNCHANGED <<deadline, heardAt, delivered>>
  /\ UNCHANGED <<writerVars, wire, ending, approved, clock>>

\* Any other transport error.
ReadError ==
  /\ reading # NoRead /\ ending = "broken"
  /\ reading' = NoRead
  /\ Refuse
  /\ UNCHANGED <<writerVars, wire, ending, approved, clock>>

\* close_owned_socket: the owner drops the session.
CloseOwned ==
  /\ ~activity.terminal /\ reading = NoRead
  /\ Refuse
  /\ UNCHANGED <<writerVars, wire, ending, reading, approved, clock>>

Revoke == approved /\ approved' = FALSE /\ UNCHANGED <<writerVars, wire, ending, readerVars, clock>>

Tick == clock < MaxTime /\ clock' = clock + 1
        /\ UNCHANGED <<writerVars, wire, ending, readerVars, approved>>

\* after_verified_hello: sequences 1 and 2 were used by Hello and HelloAck.
Init ==
  /\ writer = [next |-> 3, closed |-> FALSE, poisoned |-> FALSE]
  /\ out = <<>> /\ writing = None /\ wire = <<>> /\ ending = "open"
  /\ decoder = [partial |-> <<>>, poisoned |-> FALSE, finished |-> FALSE]
  /\ stream = [last |-> 2, closed |-> FALSE, poisoned |-> FALSE]
  /\ deadline = [stage |-> "Active", last |-> 0, expires |-> SaturatingAdd(0, IdleTimeout)]
  /\ activity = [terminal |-> FALSE, goodbyeSeen |-> FALSE]
  /\ reading = NoRead /\ approved = TRUE /\ clock = 0
  /\ faults = 0 /\ heardAt = 0 /\ sent = <<>> /\ delivered = <<>> /\ outcome = "open"

Next ==
  \/ \E msg \in {"Heartbeat", "Goodbye"} : BeginWrite(msg)
  \/ WriteSome \/ EndWrite \/ FailWrite \/ LoseConnection \/ EmitFault
  \/ \E wait \in {Slice, MaxTime} : BeginRead(wait)
  \/ ReadBytes \/ ReadTimesOut \/ ReadEof \/ ReadError \/ CloseOwned
  \/ Revoke \/ Tick

Spec == Init /\ [][Next]_vars

\* The worker keeps reading in slices, the socket honours its timeout, and time
\* passes.
FairSpec ==
  Spec /\ WF_vars(Tick) /\ WF_vars(BeginRead(Slice)) /\ WF_vars(ReadTimesOut)

-----------------------------------------------------------------------------
\* Type invariant.
TypeOK ==
  /\ writer \in [next: 3..MaxSeq, closed: BOOLEAN, poisoned: BOOLEAN]
  /\ Len(out) <= FrameBytes /\ Len(wire) <= Capacity
  /\ writing \in {None, "Heartbeat", "Goodbye"}
  /\ ending \in {"open", "clean", "broken"}
  /\ Len(decoder.partial) < FrameBytes
  /\ stream \in [last: 2..MaxSeq, closed: BOOLEAN, poisoned: BOOLEAN]
  /\ deadline \in [stage: {"Active", "Closing"}, last: 0..MaxTime, expires: 0..MaxTime]
  /\ activity \in [terminal: BOOLEAN, goodbyeSeen: BOOLEAN]
  /\ clock \in 0..MaxTime /\ approved \in BOOLEAN
  /\ outcome \in {"open", "graceful", "failed"}

\* The session delivers what was sent, in order and without gaps, and ends
\* gracefully only after all of it: bytes split anywhere, frames in one read,
\* faulty frames and broken connections make no difference
\* (control_stream.rs:51-93, session_stream.rs:83-126, 168-180).
Delivery == INSTANCE OrderedDelivery
ImplementsDelivery == Delivery!Spec

\* A peer from which no whole frame arrived within the idle timeout is not heard
\* again: neither partial frames, nor idle slices, nor a read that started in
\* time and completed late keep its session alive
\* (control_tls.rs:1249-1298, session_activity.rs:72-112).
SilenceIsFinal ==
  delivered' # delivered => clock < SaturatingAdd(heardAt, IdleTimeout)

\* Frames are only refused to a peer that sent a faulty one: no split of the
\* bytes, no backlog of frames and no end of the stream makes the parser refuse a
\* writer (control_stream.rs:84-86, session_stream.rs:97-124).
WritersAreUnderstood ==
  stream.poisoned /\ faults = 0 => outcome = "graceful"

\* A faulty frame is never delivered, nor anything after it
\* (session_stream.rs:97-118).
OnlyValidFrames ==
  \A i \in DOMAIN delivered :
    /\ delivered[i].context = "ours" /\ delivered[i].form = "valid"
    /\ delivered[i].msg \in {"Heartbeat", "Goodbye"}
    /\ i > 1 => delivered[i - 1].seq < delivered[i].seq

\* No session outlives its peer: with a polling owner every session ends, its
\* socket closed, although the peer may neither speak nor close
\* (control_worker.rs:245-287, control_tls.rs:1208-1344).
StreamEnded == activity.terminal
====
