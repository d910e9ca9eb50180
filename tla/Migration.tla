------------------------------ MODULE Migration ------------------------------
(***************************************************************************)
(* The exchange of parent states at a resampling boundary                  *)
(* (rust/pineland-hpc/src/migration.rs): every rank packs, for every rank, *)
(* the parents it owns of the children that rank owns, and every rank      *)
(* makes its children of the packets it received.  A frame is the set of   *)
(* its packets: both sides sort by child, and a source packs a child once. *)
(***************************************************************************)
EXTENDS Partition, FiniteSets, Sequences

\* Variant of Bucket: packets go to the owner of the parent.
BucketByParentOwner(source, destination, ps, parents, N, R) ==
  {[source |-> source, child |-> c, parent |-> parents[c], payload |-> ps[parents[c]]] :
     c \in {c \in 0 .. N - 1 : /\ Owner(parents[c], N, R) = source
                               /\ Owner(parents[c], N, R) = destination}}

\* pack_local_parent_states: what source sends to destination.  ps are the
\* particles source holds.
Bucket(source, destination, ps, parents, N, R) ==
  {[source |-> source, child |-> c, parent |-> parents[c], payload |-> ps[parents[c]]] :
     c \in {c \in 0 .. N - 1 : /\ Owner(parents[c], N, R) = source
                               /\ Owner(c, N, R) = destination}}

\* The packets that rank destination receives from all ranks.
Received(buckets, destination) ==
  UNION {buckets[s][destination] : s \in DOMAIN buckets}

\* materialize_children_for_range accepts one packet for each child of range.
Accepted(packets, range) ==
  /\ Cardinality(packets) = Cardinality(range)
  /\ {packet.child : packet \in packets} = range

\* The child a packet becomes; start is the first particle of the range.
MaterializedChild(packet, start, b) ==
  [packet.payload EXCEPT
     !.logical_id = packet.child, !.lineage = Append(@, packet.child),
     !.rng.forks = Append(@, [boundary |-> b, child |-> packet.child,
                              parent |-> packet.parent]),
     !.filter_boundary = b, !.weights_log = 1]

\* materialize_children_for_range
Children(packets, range, start, b) ==
  [c \in range |->
     MaterializedChild(CHOOSE packet \in packets : packet.child = c, start, b)]
=============================================================================
