----------------------------- MODULE MCNeighbour -----------------------------
(* Instances of Neighbour for TLC. *)
EXTENDS Neighbour, TLC

CONSTANTS k1, k2, m1, m2, m3

\* The first host changes its hardware address now and then.
MCMacsOf == k1 :> {m1, m2} @@ k2 :> {m3}

\* Packets, heap addresses and the two hardware addresses of the first host are
\* only ever compared for equality.
MCSymmetry == Permutations(Skbs) \cup Permutations(Entries) \cup Permutations({m1, m2})
=============================================================================
