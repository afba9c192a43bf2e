------------------------------ MODULE MCChecksum ------------------------------
(***************************************************************************)
(* Checks Checksum on every buffer of up to MaxLen bytes, grown byte by    *)
(* byte, against the definition of RFC 1071: big-endian words added with   *)
(* end-around carry, as a peer of the other byte order computes it.        *)
(***************************************************************************)
EXTENDS Checksum

CONSTANTS MaxLen, Addresses, Protocols

\* Lengths are uint16_t, addresses uint32_t and protocols uint8_t.
ASSUME MaxLenAssumption == MaxLen \in Nat /\ MaxLen < Word
ASSUME AddressesAssumption == Addresses \subseteq 0 .. Acc - 1
ASSUME ProtocolsAssumption == Protocols \subseteq 0 .. Byte - 1

VARIABLE buf

MCInit == buf = <<>>

Grow(b) == Len(buf) < MaxLen /\ buf' = Append(buf, b)

MCNext == \E b \in 0 .. Byte - 1 : Grow(b)

MCSpec == MCInit /\ [][MCNext]_buf

-----------------------------------------------------------------------------
\* Addition with end-around carry.
Plus(a, b) == IF a + b >= Word THEN a + b - Word + 1 ELSE a + b

\* The one's complement sum of the big-endian words of s.
NetworkSum(s) ==
  LET sum[n \in 0 .. (Len(s) + 1) \div 2] ==
        IF n = 0 THEN 0 ELSE Plus(sum[n - 1], htons(WordAt(s, n)))
  IN  sum[(Len(s) + 1) \div 2]

\* The words of the buffer that may hold its checksum.
Fields == 1 .. Len(buf) \div 2

\* checksum() puts the same two bytes into memory as the big-endian definition,
\* for odd and even lengths: two folds of the wide accumulator lose no carry, and
\* summing in host order changes nothing but the order of the result's bytes.
SumIsReference == htons(checksum(buf)) = Word - 1 - NetworkSum(buf)

\* What ip_rcv tests: a header whose checksum field was filled in as
\* ip_push_pending_frames does sums to zero wherever the field is, and no longer
\* does when any one byte of it was changed on the way.
CorruptionDetected ==
  \A n \in Fields :
    LET sent == Protect(buf, n)
    IN  /\ checksum(sent) = 0
        /\ \A i \in DOMAIN sent : \A b \in (0 .. Byte - 1) \ {sent[i]} :
             checksum([sent EXCEPT ![i] = b]) # 0

\* A receiver that sums the pseudo header and the datagram in one go, in network
\* order, finds the checksum udp_push_pending_frames computed in two parts right.
UdpVerifies ==
  \A n \in Fields, saddr, daddr \in Addresses, proto \in Protocols :
    NetworkSum(Bytes4(saddr) \o Bytes4(daddr) \o <<0, proto>> \o Bytes(htons(Len(buf)))
                 \o ProtectUdp(buf, n, saddr, daddr, proto))
      = Word - 1
=============================================================================
