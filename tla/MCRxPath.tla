------------------------------ MODULE MCRxPath ------------------------------
(* Instances of RxPath for TLC. *)
EXTENDS RxPath

\* From a frame too short for an Ethernet header past the longest header chain
\* (14 + 24 + 8), so that every length check meets its boundary from both sides.
MCSizes == 13 .. 50

MCTotLens == {0, 19, 20, 21, 24, 27, 28, 29, 32, 36, 40}
=============================================================================
