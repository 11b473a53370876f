------------------------------ MODULE DaemonApi ------------------------------
(***************************************************************************)
(* The daemon from its start (apps/daemon/src/main.rs) through the requests *)
(* of its D-Bus interface (apps/daemon/src/lib.rs, authorization.rs), down  *)
(* to the membership file every mutation reads, changes and replaces        *)
(* (crates/blueroute-core/src/membership.rs, blueroute-linux's              *)
(* membership_store.rs).                                                    *)
(* Requests of several clients interleave at every await; PolicyKit may ask *)
(* a user and wait; saves fail before or after the new file is visible;     *)
(* daemons are killed, started twice, and the power goes.  What a host does *)
(* while a request waits for it is StarHost's subject, a join's JoinNetwork's.*)
(*                                                                          *)
(* The document is a header line with the schema version, then one line per *)
(* network followed by one line per peer.  A line is the tuple of its       *)
(* fields, an identity is a natural number (0 is the all-zero identity),    *)
(* and a name is the sequence of its bytes, which the document holds as     *)
(* hexadecimal digits.                                                      *)
(***************************************************************************)
EXTENDS Integers, SequencesExt, DurableFile

CONSTANTS Bad,           \* the result of a document, a line or a change that is refused
          Daemons, Clients,
          Documents,     \* what the state directory may hold at first
          Networks, Peers,
          Name,          \* the bytes of a network's name
          MaxRequests,   \* bound: requests
          MaxFailures,   \* bound: calls that fail
          MaxCrashes     \* bound: kills and power losses

VARIABLES file,     \* the membership file
          stage,    \* per daemon: where its start is, or "serving"
          loaded,   \* per daemon: the registry its start read
          guard,    \* mutation_in_progress of the serving daemon
          current,  \* status.current_network of the serving daemon, 0 for none
          req,      \* per client: its request
          may,      \* history: registries the acknowledged changes allow
          overtaken,\* history: a migration replaced a file changed since it was read
          sent, failures, crashes

vars == <<file, stage, loaded, guard, current, req, may, overtaken,
          sent, failures, crashes>>
daemonVars == <<stage, loaded, current>>
bounds == <<sent, failures, crashes>>

Current == 2   \* CURRENT_FORMAT_VERSION
Legacy == 1    \* LEGACY_FORMAT_VERSION

\* ------------------------------------------------------------------------
\* membership.rs: a registry maps network identities to memberships

NewMembership(name) == [name |-> name, state |-> "not-member", peers |-> <<>>]
NewPeer == [member |-> FALSE, trusted |-> FALSE]

\* The function f with k mapped to v.
Put(f, k, v) == [x \in DOMAIN f \cup {k} |-> IF x = k THEN v ELSE f[x]]
Drop(f, k) == [x \in DOMAIN f \ {k} |-> f[x]]

PeerOf(m, p) == IF p \in DOMAIN m.peers THEN m.peers[p] ELSE NewPeer
RememberPeer(m, p) == [m EXCEPT !.peers = Put(@, p, PeerOf(m, p))]
SetPeerMember(m, p, b) == [m EXCEPT !.peers = Put(@, p, [PeerOf(m, p) EXCEPT !.member = b])]
TrustPeer(m, p) == [m EXCEPT !.peers = Put(@, p, [PeerOf(m, p) EXCEPT !.trusted = TRUE])]
ForgetPeer(m, p) == [m EXCEPT !.peers = Drop(@, p)]

\* current_network (single_star.rs): at most one membership is active.
Members(r) == {n \in DOMAIN r : r[n].state = "member"}
CurrentNetwork(r) ==
    CASE Members(r) = {} -> 0
      [] Cardinality(Members(r)) = 1 -> CHOOSE n \in Members(r) : TRUE
      [] OTHER -> Bad

\* ------------------------------------------------------------------------
\* serialize_registry

EncodeHex(bytes) == FlattenSeq([i \in DOMAIN bytes |-> <<bytes[i] \div 16, bytes[i] % 16>>])
DecodeHex(digits) ==
    IF Len(digits) % 2 = 1 \/ \E i \in DOMAIN digits : digits[i] \notin 0 .. 15 THEN Bad
    ELSE [i \in 1 .. Len(digits) \div 2 |-> 16 * digits[2 * i - 1] + digits[2 * i]]

\* DisplayName::new: no control byte, and not empty once trimmed.
DisplayName(bytes) ==
    IF \E i \in DOMAIN bytes : bytes[i] < 32 \/ bytes[i] = 127 THEN Bad
    ELSE LET ink == {i \in DOMAIN bytes : bytes[i] # 32}
         IN IF ink = {} THEN Bad ELSE SubSeq(bytes, Min(ink), Max(ink))

\* The elements of a BTreeMap, by key.
Ascending(S) == SetToSortSeq(S, <)

PeerLines(n, m) ==
    [i \in 1 .. Cardinality(DOMAIN m.peers) |->
        LET p == Ascending(DOMAIN m.peers)[i]
        IN <<"peer", n, p, m.peers[p].member, m.peers[p].trusted>>]

NetworkLines(n, m) == <<<<"network", n, m.state, EncodeHex(m.name)>>>> \o PeerLines(n, m)

\* No all-zero identity and no transient state reaches the disk.
Serialize(r) ==
    IF \E n \in DOMAIN r : \/ n = 0 \/ 0 \in DOMAIN r[n].peers
                           \/ r[n].state \notin {"member", "not-member"}
    THEN Bad
    ELSE <<<<"version", Current>>>> \o
         FlattenSeq([i \in 1 .. Cardinality(DOMAIN r) |->
             LET n == Ascending(DOMAIN r)[i] IN NetworkLines(n, r[n])])

\* ------------------------------------------------------------------------
\* parse_registry

ParseNetwork(r, line) ==
    LET decoded == DecodeHex(line[4])
        name == IF decoded = Bad THEN Bad ELSE DisplayName(decoded)
    IN IF \/ line[2] = 0 \/ line[2] \in DOMAIN r
          \/ line[3] \notin {"member", "not-member"} \/ name = Bad
       THEN Bad
       ELSE Put(r, line[2], [NewMembership(name) EXCEPT !.state = line[3]])

ParsePeer(r, line) ==
    IF \/ line[2] = 0 \/ line[3] = 0 \/ line[2] \notin DOMAIN r
       \/ line[3] \in DOMAIN r[line[2]].peers
    THEN Bad
    ELSE LET known == SetPeerMember(RememberPeer(r[line[2]], line[3]), line[3], line[4])
         IN Put(r, line[2], IF line[5] THEN TrustPeer(known, line[3]) ELSE known)

ParseLine(r, line) ==
    CASE r = Bad -> Bad
      [] r # Bad /\ line[1] = "network" /\ Len(line) = 4 -> ParseNetwork(r, line)
      [] r # Bad /\ line[1] = "peer" /\ Len(line) = 5 -> ParsePeer(r, line)
      [] OTHER -> Bad

ParseRegistry(doc) ==
    IF doc = <<>> \/ Head(doc) # <<"version", Current>> THEN Bad
    ELSE FoldLeft(ParseLine, <<>>, Tail(doc))

\* migrate_to_current: a newer schema is refused, the older one gets the new
\* header, and the result must parse.
MigrateToCurrent(doc) ==
    IF doc = <<>> \/ Head(doc) \notin {<<"version", Legacy>>, <<"version", Current>>} THEN Bad
    ELSE LET migrated == <<<<"version", Current>>>> \o Tail(doc)
         IN IF ParseRegistry(migrated) = Bad THEN Bad ELSE migrated

\* What load makes of a document.
Registry(doc) == IF MigrateToCurrent(doc) = Bad THEN Bad ELSE ParseRegistry(MigrateToCurrent(doc))

\* ------------------------------------------------------------------------
\* The state at first

Content(doc) == IF doc = NoFile THEN <<>> ELSE Registry(doc)

\* The document v holds one of the registries R.
Holds(v, R) ==
    \E r \in R : CASE v = NoFile -> r = <<>>
                    [] v # NoFile /\ r = Bad -> Registry(v) = Bad
                    [] OTHER -> Tail(v) = Tail(Serialize(r))

NoRequest == [op |-> "none", at |-> "idle", net |-> 0, peer |-> 0, reg |-> <<>>, base |-> {}]

Init ==
    /\ \E d \in Documents : file = At(d) /\ may = {Content(d)}
    /\ stage = [d \in Daemons |-> "down"] /\ loaded = [d \in Daemons |-> <<>>]
    /\ guard = FALSE /\ current = 0 /\ overtaken = FALSE
    /\ req = [c \in Clients |-> NoRequest]
    /\ sent = 0 /\ failures = 0 /\ crashes = 0

Serving == \E d \in Daemons : stage[d] = "serving"
Failure == failures < MaxFailures /\ failures' = failures + 1

\* ------------------------------------------------------------------------
\* main: load, migrate, take the bus name

To(d, s) == stage' = [stage EXCEPT ![d] = s]

IsLegacy == file.seen # NoFile /\ Head(file.seen) = <<"version", Legacy>>

\* store.load: a refused document ends the start; an older one is rewritten.
StartLoad(d) ==
    /\ stage[d] = "down"
    /\ LET r == Content(file.seen)
       IN r # Bad /\ loaded' = [loaded EXCEPT ![d] = r]
    /\ To(d, IF IsLegacy THEN "migrate" ELSE "named")
    /\ UNCHANGED <<file, guard, current, req, may, overtaken, bounds>>

\* The save of a migrated document; `loaded` may be stale by now.
StartMigrate(d) ==
    /\ stage[d] = "migrate" /\ To(d, "migrated")
    /\ file' = Placed(file, Serialize(loaded[d]))
    /\ overtaken' = (overtaken \/ ~IsLegacy)
    /\ UNCHANGED <<loaded, guard, current, req, may, bounds>>

StartMigrated(d) ==
    /\ stage[d] = "migrated" /\ To(d, "named")
    /\ file' = DirSynced(file)
    /\ UNCHANGED <<loaded, guard, current, req, may, overtaken, bounds>>

StartFails(d) ==
    /\ stage[d] \in {"migrate", "migrated"} /\ Failure /\ To(d, "down")
    /\ loaded' = [loaded EXCEPT ![d] = <<>>]
    /\ UNCHANGED <<overtaken, file, guard, current, req, may, sent, crashes>>

\* More than one active network, or a bus name that is taken, ends the start.
StartServe(d) ==
    /\ stage[d] = "named"
    /\ IF Serving \/ CurrentNetwork(loaded[d]) = Bad
       THEN To(d, "down") /\ UNCHANGED <<guard, current>>
       ELSE /\ To(d, "serving") /\ guard' = FALSE
            /\ current' = CurrentNetwork(loaded[d])
    /\ loaded' = [loaded EXCEPT ![d] = <<>>]
    /\ UNCHANGED <<file, req, may, overtaken, bounds>>

\* ------------------------------------------------------------------------
\* DaemonService::request

Go(c, at) == req' = [req EXCEPT ![c].at = at]

\* The request ends; a mutation's guard is dropped on every path.
Finish(c) == req' = [req EXCEPT ![c] = NoRequest]

Mutations == {"create", "join", "leave", "trust", "forget", "discover"}

\* decode_command; reads need no authorization.
Request(c) ==
    /\ Serving /\ req[c].at = "idle" /\ sent < MaxRequests
    /\ \E op \in Mutations \cup {"list"}, n \in Networks, p \in Peers :
         req' = [req EXCEPT ![c] =
                   [NoRequest EXCEPT !.op = op,
                        !.at = IF op \in Mutations THEN "authorize" ELSE "load",
                        !.net = IF op = "join" THEN n ELSE 0,
                        !.peer = IF op \in {"trust", "forget"} THEN p ELSE 0]]
    /\ sent' = sent + 1
    /\ UNCHANGED <<overtaken, file, daemonVars, guard, may, failures, crashes>>

\* authorize_command: PolicyKit grants it, denies it, or cannot be asked.
Authorize(c) ==
    /\ req[c].at = "authorize"
    /\ Go(c, "claim") \/ Finish(c)
    /\ UNCHANGED <<overtaken, file, daemonVars, guard, may, bounds>>

ClaimAlways(c) ==
    /\ req[c].at = "claim"
    /\ Go(c, "load") /\ guard' = TRUE
    /\ UNCHANGED <<overtaken, file, daemonVars, may, bounds>>

\* MutationGuard::claim.
Claim(c) ==
    /\ req[c].at = "claim"
    /\ IF guard THEN Finish(c) /\ UNCHANGED guard ELSE Go(c, "load") /\ guard' = TRUE
    /\ UNCHANGED <<overtaken, file, daemonVars, may, bounds>>

\* The guard is released when the mutation's future ends.
Release(c) == guard' = (guard /\ req[c].op \notin Mutations)

\* The change a request makes to a registry, for the network it is about.
Joined(m) == [m EXCEPT !.state = "member"]
Left(m) == [m EXCEPT !.state = "not-member",
                     !.peers = [p \in DOMAIN m.peers |-> [m.peers[p] EXCEPT !.member = FALSE]]]
Change(q, r) ==
    CASE q.op = "create" -> Put(r, q.net, Joined(NewMembership(Name)))
      [] q.op = "join" -> Put(r, q.net, Joined(IF q.net \in DOMAIN r THEN r[q.net]
                                               ELSE NewMembership(Name)))
      [] q.op \in {"leave", "trust", "forget"} /\ q.net \notin DOMAIN r -> r
      [] q.op = "leave" /\ q.net \in DOMAIN r -> Put(r, q.net, Left(r[q.net]))
      [] q.op = "trust" /\ q.net \in DOMAIN r -> Put(r, q.net, TrustPeer(r[q.net], q.peer))
      [] q.op = "forget" /\ q.net \in DOMAIN r -> Put(r, q.net, ForgetPeer(r[q.net], q.peer))

\* Each operation loads the file and checks it against its precondition.
Load(c) ==
    /\ req[c].at = "load"
    /\ LET r == Content(file.seen)
           n == IF r = Bad THEN Bad ELSE CurrentNetwork(r)
           q == req[c]
           with(net, at) == req' = [req EXCEPT ![c].reg = r, ![c].net = net, ![c].at = at]
           give == Finish(c) /\ Release(c) /\ UNCHANGED current
       IN \/ q.op = "list" /\ give
          \/ q.op = "discover" /\ Go(c, "await") /\ UNCHANGED <<guard, current>>
          \/ /\ q.op = "create" /\ n = 0
             /\ \E new \in Networks \ DOMAIN r : with(new, "await")
             /\ UNCHANGED <<guard, current>>
          \/ q.op = "join" /\ n = 0 /\ with(q.net, "await") /\ UNCHANGED <<guard, current>>
          \/ /\ q.op = "leave" /\ n # Bad /\ n # 0 /\ with(n, "await")
             /\ UNCHANGED <<guard, current>>
          \/ q.op = "leave" /\ n = 0 /\ Finish(c) /\ Release(c) /\ current' = 0
          \/ /\ q.op \in {"trust", "forget"} /\ n # Bad /\ n # 0
             /\ IF Change([q EXCEPT !.net = n], r) # r
                THEN with(n, "save") /\ UNCHANGED <<guard, current>> ELSE give
          \/ /\ \/ n = Bad /\ q.op \notin {"list", "discover"}
                \/ q.op \in {"create", "join"} /\ n # 0
                \/ q.op \in {"trust", "forget"} /\ n = 0
             /\ give
    /\ UNCHANGED <<overtaken, file, stage, loaded, may, bounds>>

\* The host, the join's runtime or BlueZ answers; a join loads again.
Await(c) ==
    /\ req[c].at = "await"
    /\ \/ /\ req[c].op = "discover" /\ Finish(c) /\ Release(c) /\ UNCHANGED failures
       \/ /\ req[c].op \in {"create", "leave"} /\ Go(c, "save") /\ UNCHANGED <<guard, failures>>
       \/ /\ req[c].op = "join" /\ UNCHANGED failures
          /\ LET r == Content(file.seen)
             IN IF r = Bad \/ CurrentNetwork(r) # 0
                THEN Finish(c) /\ Release(c)
                ELSE /\ req' = [req EXCEPT ![c].reg = r, ![c].at = "save"]
                     /\ UNCHANGED guard
       \/ Failure /\ Finish(c) /\ Release(c)
    /\ UNCHANGED <<overtaken, file, daemonVars, may, sent, crashes>>

\* NetworkMembershipStore::save up to the rename of the synchronised file.
SaveRename(c) ==
    /\ req[c].at = "save"
    /\ LET q == req[c]
       IN /\ file' = Placed(file, Serialize(Change(q, q.reg)))
          /\ may' = may \cup {Change(q, r) : r \in may}
          /\ req' = [req EXCEPT ![c].at = "synced", ![c].base = may]
    /\ UNCHANGED <<overtaken, daemonVars, guard, bounds>>

\* ... and the synchronisation of the directory; then the status and the Ack.
SaveSync(c) ==
    /\ req[c].at = "synced"
    /\ file' = DirSynced(file)
    /\ may' = {Change(req[c], r) : r \in req[c].base}
    /\ current' = CASE req[c].op \in {"create", "join"} -> req[c].net
                    [] req[c].op = "leave" -> 0
                    [] OTHER -> current
    /\ Finish(c) /\ Release(c)
    /\ UNCHANGED <<overtaken, stage, loaded, bounds>>

\* A step of the save fails; after the rename the new file stays visible.
SaveFails(c) ==
    /\ req[c].at \in {"save", "synced"} /\ Failure
    /\ Finish(c) /\ Release(c)
    /\ UNCHANGED <<overtaken, file, daemonVars, may, sent, crashes>>

\* ------------------------------------------------------------------------
\* The environment

\* Requests end with the daemon that serves them.
Kill(d) ==
    /\ stage[d] # "down" /\ crashes < MaxCrashes /\ crashes' = crashes + 1
    /\ To(d, "down")
    /\ IF stage[d] = "serving"
       THEN req' = [c \in Clients |-> NoRequest] /\ guard' = FALSE /\ current' = 0
       ELSE UNCHANGED <<req, guard, current>>
    /\ loaded' = [loaded EXCEPT ![d] = <<>>]
    /\ UNCHANGED <<overtaken, file, may, sent, failures>>

PowerLoss ==
    /\ crashes < MaxCrashes /\ crashes' = crashes + 1
    /\ \E v \in Survivors(file) : file' = At(v) /\ may' = {r \in may : Holds(v, {r})}
    /\ stage' = [d \in Daemons |-> "down"] /\ loaded' = [d \in Daemons |-> <<>>]
    /\ req' = [c \in Clients |-> NoRequest] /\ guard' = FALSE /\ current' = 0
    /\ UNCHANGED <<overtaken, sent, failures>>

Next ==
    \/ \E d \in Daemons : \/ StartLoad(d) \/ StartMigrate(d) \/ StartMigrated(d)
                          \/ StartFails(d) \/ StartServe(d) \/ Kill(d)
    \/ \E c \in Clients : \/ Request(c) \/ Authorize(c) \/ Claim(c) \/ Load(c) \/ Await(c)
                          \/ SaveRename(c) \/ SaveSync(c) \/ SaveFails(c)
    \/ PowerLoss

Spec == Init /\ [][Next]_vars

\* ------------------------------------------------------------------------
\* Properties

\* P6-003-TRUST.md:72: mutations are serialized so that no read-modify-write
\* overwrites another's durable change.  Whatever a power loss may leave of the
\* file is the document of a registry that results from the acknowledged changes
\* and, of the others, those that had got as far as the rename.  The exception
\* is a migration that another daemon's requests overtook.  A document the
\* daemon refuses is never touched.
AcknowledgedChangesStay ==
    /\ ~overtaken' => \A v \in Survivors(file') : Holds(v, may')
    /\ Bad \in may => UNCHANGED file
==============================================================================
