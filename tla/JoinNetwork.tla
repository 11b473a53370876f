----------------------------- MODULE JoinNetwork -----------------------------
(***************************************************************************)
(* TransactionalJoinNetworkOperations::join_network of join_network.rs:    *)
(* claim the join flag, establish PANU, IP address and control session,    *)
(* commit durable membership, and roll back in reverse order on failure.   *)
(* The flag is the quarantine: a call whose resources may survive it never *)
(* releases the flag.                                                      *)
(*                                                                         *)
(* Every runtime call (JoinRuntime, external) is a step of its own, at     *)
(* which the future may be dropped; it may fail, and a failing call may    *)
(* have created, or may have left behind, its resource.  The membership    *)
(* file may be unreadable, may be changed by another writer, and a save    *)
(* that fails may fail before or after the new contents are visible        *)
(* (membership_store.rs: rename, then sync_directory).                     *)
(***************************************************************************)
EXTENDS Naturals, Sequences, FiniteSets

CONSTANTS
  Calls,         \* calls of join_network
  Joinable,      \* nonzero NetworkIds
  ZeroNetwork,   \* the zero NetworkId
  NoMembership   \* no durable membership

ASSUME JoinConstants ==
  /\ ZeroNetwork \notin Joinable
  /\ NoMembership \notin Joinable \cup {ZeroNetwork}

VARIABLES
  membership, \* current_network of the membership file
  joining,    \* join_in_progress
  joinPc,     \* what each call awaits
  want,       \* the network each call asks for
  mayLive,    \* may_have_live_resources of each call's guard
  live,       \* resources of each call that exist
  foreign,    \* the lease of the call is not the planned one
  undo,       \* rollback steps left
  clean,      \* no rollback step failed so far, and a clean rollback reconciles
  committed,  \* the call's membership became visible in the file (history)
  result      \* "none", "Ok", "Err" or "Cancelled"

joinVars == <<membership, joining, joinPc, want, mayLive, live, foreign, undo, clean, committed, result>>

JoinResources == {"panu", "ip", "control"}

Running == {"preflight", "panu", "ip", "control", "commit", "rollback"}

Unwinds == {<<>>, <<"panu">>, <<"ip", "panu">>, <<"control", "ip", "panu">>}

-----------------------------------------------------------------------------
\* Mutants of the operations below.

\* Mutant of DropGuard: the flag is released whatever may still live.
DropGuardAlways(c, m) == joining' = FALSE /\ mayLive' = [mayLive EXCEPT ![c] = m]

\* Mutant of DropGuard: only the successful return releases the flag.
DropGuardOnSuccess(c, m) ==
  /\ joining' = (joining /\ (m \/ joinPc[c] # "commit"))
  /\ mayLive' = [mayLive EXCEPT ![c] = m]

\* Mutant of MembershipUnchanged: the file is not read again before the commit.
MembershipAssumed == TRUE

-----------------------------------------------------------------------------
\* Drop of the guard with this final may_have_live_resources.
DropGuard(c, m) ==
  /\ joining' = (joining /\ m)
  /\ mayLive' = [mayLive EXCEPT ![c] = m]

\* return, with the guard dropped.
Return(c, r, m) ==
  /\ joinPc' = [joinPc EXCEPT ![c] = "done"]
  /\ result' = [result EXCEPT ![c] = r]
  /\ DropGuard(c, m)

\* An error enters rollback; the call is reconciled at its end only when
\* every step succeeds and a clean rollback is proof enough.
RollBack(c, steps, reconciles) ==
  /\ joinPc' = [joinPc EXCEPT ![c] = "rollback"]
  /\ undo' = [undo EXCEPT ![c] = steps]
  /\ clean' = [clean EXCEPT ![c] = reconciles]

\* A lease with another owner, interface, family or prefix: only PANU goes.
LeaseMismatch == <<"panu">>

MembershipUnchanged == membership = NoMembership

-----------------------------------------------------------------------------
\* Claim of the flag, load, and the refusal of a second membership.  The call
\* holds the flag across its first await only when there is no membership.
Claim(c, n) ==
  /\ joinPc[c] = "idle"
  /\ want' = [want EXCEPT ![c] = n]
  /\ \/ /\ n # ZeroNetwork /\ ~joining /\ membership = NoMembership
        /\ joinPc' = [joinPc EXCEPT ![c] = "preflight"]
        /\ joining' = TRUE
        /\ UNCHANGED result
     \/ \* zero id, claimed by another, unreadable file, or a member already
        /\ joinPc' = [joinPc EXCEPT ![c] = "done"]
        /\ result' = [result EXCEPT ![c] = "Err"]
        /\ UNCHANGED joining
  /\ UNCHANGED <<membership, mayLive, live, foreign, undo, clean, committed>>

\* preflight; mutation_started follows its success without an await.
Preflight(c) ==
  /\ joinPc[c] = "preflight"
  /\ \/ /\ joinPc' = [joinPc EXCEPT ![c] = "panu"]
        /\ mayLive' = [mayLive EXCEPT ![c] = TRUE]
        /\ UNCHANGED <<joining, result>>
     \/ Return(c, "Err", FALSE)
  /\ UNCHANGED <<membership, want, live, foreign, undo, clean, committed>>

\* establish_panu; an error returns with the flag held.
EstablishPanu(c) ==
  /\ joinPc[c] = "panu"
  /\ \/ /\ joinPc' = [joinPc EXCEPT ![c] = "ip"]
        /\ live' = [live EXCEPT ![c] = @ \cup {"panu"}]
        /\ UNCHANGED <<joining, mayLive, result>>
     \/ /\ live' \in {live, [live EXCEPT ![c] = @ \cup {"panu"}]}
        /\ Return(c, "Err", TRUE)
  /\ UNCHANGED <<membership, want, foreign, undo, clean, committed>>

\* configure_ip and the checks of its lease.
ConfigureIp(c) ==
  /\ joinPc[c] = "ip"
  /\ \/ /\ joinPc' = [joinPc EXCEPT ![c] = "control"]
        /\ live' = [live EXCEPT ![c] = @ \cup {"ip"}]
        /\ UNCHANGED <<foreign, undo, clean>>
     \/ \* a lease that is not the planned one
        /\ live' = [live EXCEPT ![c] = @ \cup {"ip"}]
        /\ foreign' = [foreign EXCEPT ![c] = TRUE]
        /\ RollBack(c, LeaseMismatch, FALSE)
     \/ \* an error, after which no lease can prove cleanup
        /\ live' \in {live, [live EXCEPT ![c] = @ \cup {"ip"}]}
        /\ RollBack(c, <<"panu">>, FALSE)
        /\ UNCHANGED foreign
  /\ UNCHANGED <<membership, joining, want, mayLive, committed, result>>

\* start_control_session, and the check of the session's network.
StartControlSession(c) ==
  /\ joinPc[c] = "control"
  /\ \/ /\ joinPc' = [joinPc EXCEPT ![c] = "commit"]
        /\ live' = [live EXCEPT ![c] = @ \cup {"control"}]
        /\ UNCHANGED <<undo, clean>>
     \/ \* a session of another network
        /\ live' = [live EXCEPT ![c] = @ \cup {"control"}]
        /\ RollBack(c, <<"control", "ip", "panu">>, TRUE)
     \/ \* an error: a socket may exist that nobody owns
        /\ live' \in {live, [live EXCEPT ![c] = @ \cup {"control"}]}
        /\ RollBack(c, <<"ip", "panu">>, FALSE)
  /\ UNCHANGED <<membership, joining, want, mayLive, foreign, committed, result>>

\* Reload, recheck, Joining -> Member, save.  mark_local_membership_joined
\* cannot fail here: a readable file without current network has only
\* NotMember entries.
Commit(c) ==
  /\ joinPc[c] = "commit"
  /\ \/ /\ MembershipUnchanged
        /\ membership' = want[c]
        /\ committed' = [committed EXCEPT ![c] = TRUE]
        /\ Return(c, "Ok", FALSE)
        /\ UNCHANGED <<undo, clean>>
     \/ \* the save fails after the rename
        /\ MembershipUnchanged
        /\ membership' = want[c]
        /\ committed' = [committed EXCEPT ![c] = TRUE]
        /\ RollBack(c, <<"control", "ip", "panu">>, TRUE)
        /\ UNCHANGED <<joining, mayLive, result>>
     \/ \* unreadable, changed in the meantime, or not written
        /\ RollBack(c, <<"control", "ip", "panu">>, TRUE)
        /\ UNCHANGED <<membership, joining, mayLive, committed, result>>
  /\ UNCHANGED <<want, live, foreign>>

\* One step of rollback_after_control, rollback_after_ip or a lone
\* disconnect_panu; later steps run whether or not earlier ones failed.
Undo(c) ==
  /\ joinPc[c] = "rollback" /\ undo[c] # <<>>
  /\ \/ /\ live' = [live EXCEPT ![c] = @ \ {Head(undo[c])}]
        /\ UNCHANGED clean
     \/ /\ live' \in {live, [live EXCEPT ![c] = @ \ {Head(undo[c])}]}
        /\ clean' = [clean EXCEPT ![c] = FALSE]
  /\ undo' = [undo EXCEPT ![c] = Tail(@)]
  /\ UNCHANGED <<membership, joining, joinPc, want, mayLive, foreign, committed, result>>

\* The error is returned; the guard is reconciled after a clean rollback.
EndUndo(c) ==
  /\ joinPc[c] = "rollback" /\ undo[c] = <<>>
  /\ Return(c, "Err", ~clean[c])
  /\ UNCHANGED <<membership, want, live, foreign, undo, clean, committed>>

\* The future is dropped at an await; the runtime call it awaited may or may
\* not have had its effect.
Cancel(c) ==
  /\ joinPc[c] \in Running \ {"commit"}
  /\ joinPc[c] = "rollback" => undo[c] # <<>>
  /\ CASE joinPc[c] \in JoinResources ->
            live' \in {live, [live EXCEPT ![c] = @ \cup {joinPc[c]}]}
       [] joinPc[c] = "rollback" ->
            live' \in {live, [live EXCEPT ![c] = @ \ {Head(undo[c])}]}
       [] OTHER -> UNCHANGED live
  /\ foreign' \in {foreign, [foreign EXCEPT ![c] = @ \/ joinPc[c] = "ip"]}
  /\ Return(c, "Cancelled", mayLive[c])
  /\ UNCHANGED <<membership, want, undo, clean, committed>>

\* Another writer of the membership file.
OtherWriter(n) ==
  /\ membership' = n
  /\ UNCHANGED <<joining, joinPc, want, mayLive, live, foreign, undo, clean, committed, result>>

JoinInit ==
  /\ membership = NoMembership
  /\ joining = FALSE
  /\ joinPc = [c \in Calls |-> "idle"]
  /\ want = [c \in Calls |-> NoMembership]
  /\ mayLive = [c \in Calls |-> FALSE]
  /\ live = [c \in Calls |-> {}]
  /\ foreign = [c \in Calls |-> FALSE]
  /\ undo = [c \in Calls |-> <<>>]
  /\ clean = [c \in Calls |-> FALSE]
  /\ committed = [c \in Calls |-> FALSE]
  /\ result = [c \in Calls |-> "none"]

CallStep(c) ==
  \/ \E n \in Joinable \cup {ZeroNetwork} : Claim(c, n)
  \/ Preflight(c) \/ EstablishPanu(c) \/ ConfigureIp(c) \/ StartControlSession(c)
  \/ Commit(c) \/ Undo(c) \/ EndUndo(c) \/ Cancel(c)

JoinNext ==
  \/ \E c \in Calls : CallStep(c)
  \/ \E n \in Joinable \cup {NoMembership} : OtherWriter(n)

JoinSpec == JoinInit /\ [][JoinNext]_joinVars

-----------------------------------------------------------------------------
\* Type invariant; rollback always runs control, IP, PANU, from some point on.
JoinTypeOK ==
  /\ membership \in Joinable \cup {NoMembership}
  /\ joining \in BOOLEAN
  /\ joinPc \in [Calls -> Running \cup {"idle", "done"}]
  /\ want \in [Calls -> Joinable \cup {ZeroNetwork, NoMembership}]
  /\ mayLive \in [Calls -> BOOLEAN]
  /\ live \in [Calls -> SUBSET JoinResources]
  /\ foreign \in [Calls -> BOOLEAN]
  /\ undo \in [Calls -> Unwinds]
  /\ clean \in [Calls -> BOOLEAN]
  /\ committed \in [Calls -> BOOLEAN]
  /\ result \in [Calls -> {"none", "Ok", "Err", "Cancelled"}]

\* As long as a call that did not succeed has a PANU link, an address or a
\* control session, the join flag is taken and no other call runs: an
\* overlapping join never meets, and never undoes, what an earlier one left
\* behind, however it failed or was dropped (join_network.rs:113-148, 234-250).
LeftoversBlockJoins ==
  \A c \in Calls : live[c] # {} /\ result[c] # "Ok" =>
    /\ joining
    /\ \A d \in Calls \ {c} : joinPc[d] \notin Running

\* Joins are refused only while a call runs, or after one that had begun to
\* change the runtime ended without proof of cleanup: failures before
\* establish_panu leave nothing blocked (join_network.rs:142-148, 257-261).
BlockedOnlyForCause ==
  joining => \E c \in Calls :
    \/ joinPc[c] \in Running
    \/ joinPc[c] = "done" /\ result[c] # "Ok" /\ mayLive[c]

\* Membership is written by a call only over no membership, with all its
\* resources live and its lease the planned one; and success is reported only
\* with that membership written (join_network.rs:278-416).
CommitIsBacked ==
  \A c \in Calls :
    /\ committed'[c] /\ ~committed[c] =>
         /\ membership = NoMembership /\ membership' = want[c] /\ want[c] \in Joinable
         /\ live[c] = JoinResources /\ ~foreign[c]
    /\ result'[c] = "Ok" /\ result[c] # "Ok" => committed'[c] /\ live'[c] = JoinResources

\* What a failed join left behind blocks other joins, nothing else does, and a
\* membership is committed only over resources that are up (join_network.rs).
MembershipIsBacked ==
  [][(JoinTypeOK /\ LeftoversBlockJoins /\ BlockedOnlyForCause)' /\ CommitIsBacked]_joinVars
=============================================================================
