-------------------------- MODULE SegmentAddresses --------------------------
(***************************************************************************)
(* IPv4 prefixes of PAN segments: the pool (config.rs), the plan of the    *)
(* first star and the overlap test (addressing.rs), and the allocator      *)
(* (segment_allocator.rs).  Addresses have Width bits; a prefix is a pair  *)
(* <<address, length>>.  Prefixes in use on the host come and go.          *)
(***************************************************************************)
EXTENDS Integers, FiniteSets, FiniteSetsExt, TLC

CONSTANTS
  Width,        \* bits of an address (32)
  Pools,        \* configured pools: [network, poolLen, segLen]
  Private,      \* private ranges, as prefixes
  Segments,     \* segment and network identities: their leading 32 bits
  MaxReserved, MaxProbes,
  HostPrefixes  \* prefixes the host may have in use

\* What an instance must satisfy.
AddressConstants ==
  /\ Width \in Nat \ {0} /\ MaxReserved \in Nat /\ MaxProbes \in Nat
  /\ Segments \subseteq Nat /\ IsFiniteSet(Segments)

VARIABLES pool, reservations, host
vars == <<pool, reservations, host>>

Size(len) == 2 ^ (Width - len)

\* pool_is_rfc1918 and Ipv4AddressPool::validate; a segment keeps two host bits.
ValidPool(p) ==
  /\ p.poolLen \in 0 .. Width /\ p.segLen <= Width - 2 /\ p.segLen >= p.poolLen
  /\ p.network % Size(p.poolLen) = 0
  /\ \E r \in Private :
       p.poolLen >= r[2] /\ p.network - (p.network % Size(r[2])) = r[1]

Normalized(p) == <<p[1] - (p[1] % Size(p[2])), p[2]>>
LastAddress(p) == Normalized(p)[1] + Size(p[2]) - 1

\* Mutant of Overlaps: only the same prefix collides.
OverlapsEqual(p, q) == Normalized(p) = Normalized(q)

Overlaps(p, q) ==
  Normalized(p)[1] <= LastAddress(q) /\ Normalized(q)[1] <= LastAddress(p)

\* ensure_ipv4_segment_available: a default route is no collision.
Available(p, active) == \A q \in active : q[2] = 0 \/ ~Overlaps(p, q)

SlotCount == 2 ^ (pool.segLen - pool.poolLen)
PrefixAt(slot) == <<pool.network + slot * Size(pool.segLen), pool.segLen>>

\* Ipv4StarAddressPlan::for_network.
StarPlan(network) ==
  LET segment == PrefixAt(network % SlotCount)
  IN [segment |-> segment, host |-> segment[1] + 1, client |-> segment[1] + 2]

InPool(p) ==
  /\ p[2] = pool.segLen /\ Normalized(p) = p
  /\ p[1] >= pool.network
  /\ (p[1] - pool.network) % Size(pool.segLen) = 0
  /\ (p[1] - pool.network) \div Size(pool.segLen) < SlotCount

Reserved == {reservations[s] : s \in DOMAIN reservations}
HasRoom == Cardinality(DOMAIN reservations) < MaxReserved

Init == pool \in {p \in Pools : ValidPool(p)} /\ reservations = <<>> /\ host = {}

\* A segment that has a prefix keeps it; the call then only reports whether
\* the prefix is still free of conflicts.
ReserveExact(s, p) ==
  /\ s \notin DOMAIN reservations /\ InPool(p) /\ HasRoom
  /\ Available(p, Reserved) /\ Available(p, host)
  /\ reservations' = (s :> p) @@ reservations
  /\ UNCHANGED <<pool, host>>

ReserveBootstrap(network, s) == ReserveExact(s, StarPlan(network).segment)

\* Mutant of Probed: probing does not wrap around.
ProbedForward(s) ==
  LET start == s % SlotCount
  IN {offset \in 0 .. (Min({SlotCount, MaxProbes}) - 1) :
        start + offset < SlotCount /\ Available(PrefixAt(start + offset), Reserved \cup host)}

\* Offsets from the segment's own slot at which a probe succeeds.
Probed(s) ==
  LET start == s % SlotCount
  IN {offset \in 0 .. (Min({SlotCount, MaxProbes}) - 1) :
        Available(PrefixAt((start + offset) % SlotCount), Reserved \cup host)}

Allocate(s) ==
  /\ s \notin DOMAIN reservations /\ HasRoom /\ Probed(s) # {}
  /\ reservations' = (s :> PrefixAt((s + Min(Probed(s))) % SlotCount)) @@ reservations
  /\ UNCHANGED <<pool, host>>

Release(s) ==
  /\ s \in DOMAIN reservations
  /\ reservations' = [x \in DOMAIN reservations \ {s} |-> reservations[x]]
  /\ UNCHANGED <<pool, host>>

\* The host gains or loses an address or a route.
HostChange ==
  /\ \E p \in HostPrefixes : host' = IF p \in host THEN host \ {p} ELSE host \cup {p}
  /\ UNCHANGED <<pool, reservations>>

Next ==
  \/ \E s \in Segments : Allocate(s) \/ Release(s)
  \/ \E s, n \in Segments : ReserveBootstrap(n, s)
  \/ \E s \in Segments, p \in HostPrefixes : ReserveExact(s, p)
  \/ HostChange

Spec == Init /\ [][Next]_vars

-----------------------------------------------------------------------------
AddressesOf(p) == p[1] .. LastAddress(p)

\* A reserved prefix shares no address with another one and lies inside the
\* pool; and the host and first client of a star have addresses of their own in
\* its segment, neither the network's nor the broadcast address
\* (segment_allocator.rs:60-120, addressing.rs:17-131).
SegmentsAreDisjoint ==
  /\ \A s \in DOMAIN reservations :
       /\ AddressesOf(reservations[s]) \subseteq AddressesOf(<<pool.network, pool.poolLen>>)
       /\ \A t \in DOMAIN reservations \ {s} :
            AddressesOf(reservations[s]) \cap AddressesOf(reservations[t]) = {}
  /\ \A n \in Segments :
       LET plan == StarPlan(n)
       IN {plan.host, plan.client} \subseteq
            AddressesOf(plan.segment) \ {plan.segment[1], LastAddress(plan.segment)}

\* Nothing is reserved that shares an address with a prefix the host has in use
\* (segment_allocator.rs:60-120).
ReservedIsUnused ==
  \A s \in DOMAIN reservations' \ DOMAIN reservations, p \in host :
    p[2] > 0 => AddressesOf(reservations'[s]) \cap AddressesOf(Normalized(p)) = {}

\* The probe misses nothing: it fails only when every segment of the pool that
\* it may look at collides with a reservation or with the host; in a pool of at
\* most MaxProbes segments, only when none is free (segment_allocator.rs:88-120).
ProbeIsComplete ==
  \A s \in Segments \ DOMAIN reservations :
    Probed(s) = {} =>
      Cardinality({slot \in 0 .. (SlotCount - 1) :
        Available(PrefixAt(slot), Reserved \cup host)}) <= Max({0, SlotCount - MaxProbes})
====
