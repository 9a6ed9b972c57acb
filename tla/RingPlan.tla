----------------------------- MODULE RingPlan -----------------------------
(***************************************************************************)
(* src/mesh-fabric/plan.py: from the cabling of four hosts to the topology *)
(* document.  A host has two fabric ports in each of two PCIe domains; the *)
(* planner walks the cables of domain 0 once round, names the directions,  *)
(* and then demands that domain 1 closes the same ring.                    *)
(***************************************************************************)
EXTENDS Integers, Sequences, FiniteSets

CONSTANT Wirings   \* the cablings: sets of fabric subnets, each the set of its ports

Hosts == 0..3      \* in tensor-parallel rank order, the head first
Domains == {0, 1}
Ports == Hosts \X Domains \X {0, 1}
Directions == {"clockwise", "counter_clockwise"}

\* Every port has one address, so it is in one subnet.
EachPortOnce(w) ==
  /\ UNION w = Ports
  /\ \A m, n \in w : m \cap n # {} => m = n

VARIABLES
  wiring,  \* the cabling of the hosts
  plan     \* what the planner made of it

vars == <<wiring, plan>>

HostOf(p) == p[1]
DomainOf(p) == p[2]

\* _fabric_graph: the other end of each cable.
OneDacPerSubnet(w) == \A n \in w : Cardinality(n) = 2
Peer(w, p) == CHOOSE q \in Ports : q # p /\ {p, q} \in w

\* The other port of the host in that domain, the first one if p is neither.
OtherPort(h, f, p) == IF p = <<h, f, 0>> THEN <<h, f, 1>> ELSE <<h, f, 0>>

\* Variant for a mutant: every host leaves by its first port, as on a ring that
\* is cabled the same way on every leg.
UniformFollow(w, f, s) ==
  LET p == Peer(w, s.port[<<s.cur, "clockwise", f>>])
      h == HostOf(p)
  IN  [cur |-> h,
       order |-> Append(s.order, s.cur),
       port |-> [s.port EXCEPT ![<<h, "counter_clockwise", f>>] = p,
                               ![<<h, "clockwise", f>>] = <<h, f, 0>>]]

\* One step of a walk in domain f: along the clockwise cable of s.cur; the port
\* it ends in is the counter-clockwise one of the next host.
Follow(w, f, s) ==
  LET p == Peer(w, s.port[<<s.cur, "clockwise", f>>])
      h == HostOf(p)
  IN  [cur |-> h,
       order |-> Append(s.order, s.cur),
       port |-> [s.port EXCEPT ![<<h, "counter_clockwise", f>>] = p,
                               ![<<h, "clockwise", f>>] = OtherPort(h, f, p)]]

\* Every label at first: the domain's ports as the head would name them.
Unlabelled == [l \in Hosts \X Directions \X Domains |->
                 <<l[1], l[3], IF l[2] = "clockwise" THEN 0 ELSE 1>>]

Walk(w, f, start) ==
  LET walk[i \in 0..4] ==
        IF i = 0 THEN [cur |-> 0, order |-> <<>>, port |-> start]
                 ELSE Follow(w, f, walk[i - 1])
  IN  walk

Refused == [ok |-> FALSE]

\* Variant for a mutant: domain 1 has to close, on any ring.
ClosedRing(walk, order) == walk[4].cur = order[1]

\* Domain 1 meets the hosts in the order of domain 0.
SameRing(walk, order) == \A i \in 1..4 : walk[i].cur = order[(i % 4) + 1]

\* ring_order. The second walk stops at the first host that is not the next one
\* of the first walk, and leaves the head's clockwise port alone at its end.
RingOrder(w) ==
  LET first == Walk(w, 0, Unlabelled)[4]
      cands == {i \in {0, 1} : HostOf(Peer(w, <<0, 1, i>>)) = first.order[2]}
      p == <<0, 1, CHOOSE i \in cands : TRUE>>
      walk == Walk(w, 1, [first.port EXCEPT
                ![<<0, "clockwise", 1>>] = p,
                ![<<0, "counter_clockwise", 1>>] = OtherPort(0, 1, p)])
  IN
  IF ~OneDacPerSubnet(w) THEN Refused
  ELSE IF first.cur # 0 \/ {first.order[i] : i \in 1..4} # Hosts THEN Refused
  ELSE IF Cardinality(cands) # 1 THEN Refused
  ELSE IF ~SameRing(walk, first.order) THEN Refused
  ELSE [ok |-> TRUE, order |-> first.order,
        port |-> [walk[4].port EXCEPT ![<<0, "clockwise", 1>>] = p]]

\* topology: for each ring rank, direction and function, the port and what it
\* says of the other end.
Topology(o) ==
  [r \in 0..3 |-> [d \in Directions |-> [f \in Domains |->
     [port |-> o.port[<<o.order[r + 1], d, f>>],
      peerRank |-> (r + (IF d = "clockwise" THEN 1 ELSE -1)) % 4,
      peerDirection |-> IF d = "clockwise" THEN "counter_clockwise" ELSE "clockwise",
      peerFunction |-> f]]]]

\* A planner that has not run yet.
Idle == [ok |-> FALSE, pending |-> TRUE]

Init == wiring \in Wirings /\ plan = Idle

\* main: plan the ring, write the topology.
Plan ==
  LET o == RingOrder(wiring) IN
  /\ plan = Idle
  /\ plan' = IF o.ok THEN [ok |-> TRUE, order |-> o.order, topology |-> Topology(o)]
                     ELSE Refused
  /\ UNCHANGED wiring

Done == plan # Idle /\ UNCHANGED vars

Next == Plan \/ Done

Spec == Init /\ [][Next]_vars

-----------------------------------------------------------------------------
(***************************************************************************)
(* Properties.                                                             *)
(***************************************************************************)

\* The neighbours of a host over the cables of one domain.
Near(f, h) == {HostOf(Peer(wiring, <<h, f, i>>)) : i \in {0, 1}}

\* Every cable stays in its domain.
Straight == \A p \in Ports : DomainOf(Peer(wiring, p)) = DomainOf(p)

\* Every cable stays in its domain, and both domains close one and the same
\* four-cycle: what the docstring of ring_order asks of the cabling.
OneRing ==
  /\ OneDacPerSubnet(wiring)
  /\ Straight
  /\ \A h \in Hosts : Near(0, h) = Near(1, h) /\ Cardinality(Near(0, h) \ {h}) = 2

\* A plan describes the cabling: each entry names a port of its own, the other
\* end of whose cable is exactly the entry that it names as its peer. A port
\* stands under the function of its domain, unless cables cross the domains,
\* which the planner does not notice as long as the ring closes.
PlanMatchesCables ==
  plan.ok =>
    /\ {plan.order[i] : i \in 1..4} = Hosts
    /\ \A r \in 0..3, d \in Directions, f \in Domains :
         LET e == plan.topology[r][d][f] IN
         /\ HostOf(e.port) = plan.order[r + 1]
         /\ Peer(wiring, e.port)
              = plan.topology[e.peerRank][e.peerDirection][e.peerFunction].port
         /\ \A c \in Directions, g \in Domains :
              plan.topology[r][c][g].port = e.port => c = d /\ g = f
         /\ Straight => DomainOf(e.port) = f

\* No cabling that is one ring is refused, whichever of its two ports a host
\* uses for which leg and whatever order the hosts are given in.
EveryRingIsPlanned == OneRing /\ plan # Idle => plan.ok
=============================================================================
