------------------------------ MODULE MCSockets ------------------------------
(* Instances of Sockets for TLC. *)
EXTENDS Sockets, TLC

\* Heap addresses are only ever compared for equality.
MCSymmetry == Permutations(Sks)
=============================================================================
