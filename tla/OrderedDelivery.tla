---------------------------- MODULE OrderedDelivery ----------------------------
(***************************************************************************)
(* What one direction of a control session promises, without bytes, chunks, *)
(* deadlines or parsers: the receiver is handed the frames of the sender in *)
(* order and without a gap, in batches, until the session ends; it ends     *)
(* gracefully only when the sender has said Goodbye and nothing it sent was *)
(* left out.                                                                *)
(***************************************************************************)
EXTENDS Naturals, Sequences

CONSTANT IsGoodbye(_)  \* whether a frame is a Goodbye

VARIABLES
  sent,       \* the frames of the sender, in order
  delivered,  \* the frames handed to the receiver
  outcome     \* "open", "graceful" or "failed"

vars == <<sent, delivered, outcome>>

Init == sent = <<>> /\ delivered = <<>> /\ outcome = "open"

Send ==
  /\ \E f \in {sent'[i] : i \in DOMAIN sent'} : sent' = Append(sent, f)
  /\ UNCHANGED <<delivered, outcome>>

\* A batch of frames; nothing follows a Goodbye.
Deliver ==
  /\ outcome = "open"
  /\ \A i \in DOMAIN delivered : ~IsGoodbye(delivered[i])
  /\ \E n \in (Len(delivered) + 1)..Len(sent) : delivered' = SubSeq(sent, 1, n)
  /\ \A i \in 1..(Len(delivered') - 1) : ~IsGoodbye(delivered'[i])
  /\ UNCHANGED <<sent, outcome>>

Close ==
  /\ outcome = "open"
  /\ delivered = sent /\ sent # <<>> /\ IsGoodbye(sent[Len(sent)])
  /\ outcome' = "graceful"
  /\ UNCHANGED <<sent, delivered>>

Fail ==
  /\ outcome = "open"
  /\ outcome' = "failed"
  /\ UNCHANGED <<sent, delivered>>

Next == Send \/ Deliver \/ Close \/ Fail

Spec == Init /\ [][Next]_vars
====
