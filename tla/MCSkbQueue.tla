----------------------------- MODULE MCSkbQueue -----------------------------
(* Instances of SkbQueue for TLC. *)
EXTENDS SkbQueue, TLC

\* Packets and receivers are only ever compared for equality.
MCSymmetry == Permutations(Skbs) \cup Permutations(Receivers)
=============================================================================
