------------------------------ MODULE MCTransmit ------------------------------
(* Instances of Transmit for TLC. *)
EXTENDS Transmit

CONSTANTS h1, h2

\* The longest datagram IP can carry, and one whose length is zero in 16 bits.
MCSends == {[host |-> h1, port |-> 7, len |-> MaxUdp],
            [host |-> h2, port |-> 9, len |-> U16 - L4_HLEN]}

\* A ping with data, and one without as well.
MCPing == {[host |-> h1, len |-> 9]}
MCEchos == {[host |-> h1, len |-> 0], [host |-> h1, len |-> 9]}

\* Nothing is claimed of a process whose queues are torn: of what it does then
\* only the calls of the two senders are followed, and no new ones.
TornBound ==
  torn => pc[Rx] = "idle" /\ \A t \in Apps : pc[t] \notin {"cork", "append"}
=============================================================================
