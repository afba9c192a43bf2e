------------------------------- MODULE Checksum -------------------------------
(***************************************************************************)
(* The Internet checksum as core/checksum.c computes it on a little-endian *)
(* host, for bytes of any number of values (256 in the program): words of  *)
(* two bytes are summed in an accumulator of four, carries folded back     *)
(* twice, the result complemented.  A uint16_t is the number the host      *)
(* loads: for bytes a, b in memory order that is a + Byte * b.             *)
(***************************************************************************)
EXTENDS Naturals, Sequences

CONSTANT Byte  \* values of a byte

\* Two bits at least: with one, the sum of csum_tcpudp_magic would not fit.
ASSUME ByteAssumption == Byte \in Nat /\ Byte >= 4

Word == Byte * Byte
Acc == Word * Word

\* htons and ntohs.
htons(w) == (w % Byte) * Byte + (w \div Byte)

\* The word at position n; a last odd byte counts as if a zero byte followed.
WordAt(buf, n) == buf[2 * n - 1] + (IF 2 * n <= Len(buf) THEN Byte * buf[2 * n] ELSE 0)

\* The loop of checksum().
Total(buf) ==
  LET cksum[n \in 0 .. (Len(buf) + 1) \div 2] ==
        IF n = 0 THEN 0 ELSE (cksum[n - 1] + WordAt(buf, n)) % Acc
  IN  cksum[(Len(buf) + 1) \div 2]

\* Mutant: the carry of the first fold is dropped.
Finish_OneFold(cksum) == Word - 1 - (((cksum \div Word) + (cksum % Word)) % Word)

\* The two folds and the complement both functions end with.
Finish(cksum) ==
  LET once == (cksum \div Word) + (cksum % Word)
  IN  Word - 1 - ((once + (once \div Word)) % Word)

\* Mutant: the odd byte at the end is left out.
checksum_Even(buf) == Finish(Total(SubSeq(buf, 1, 2 * (Len(buf) \div 2))))

checksum(buf) == Finish(Total(buf))

\* Mutant: the sum of the datagram goes in complemented.
csum_tcpudp_magic_Complement(saddr, daddr, len, proto, sum) ==
  Finish((sum + (saddr % Word) + (saddr \div Word)
              + (daddr % Word) + (daddr \div Word) + len + htons(proto)) % Acc)

\* Adds the pseudo header to the checksum of a datagram; the addresses and len are
\* in network order, as they are loaded from the headers.
csum_tcpudp_magic(saddr, daddr, len, proto, sum) ==
  Finish((Word - 1 - sum + (saddr % Word) + (saddr \div Word)
                         + (daddr % Word) + (daddr \div Word) + len + htons(proto)) % Acc)

\* Storing a word, and an address, in memory.
Bytes(w) == <<w % Byte, w \div Byte>>
Bytes4(a) == Bytes(a % Word) \o Bytes(a \div Word)

\* A header or datagram with w stored as its n-th word.
Store(buf, n, w) == [buf EXCEPT ![2 * n - 1] = Bytes(w)[1], ![2 * n] = Bytes(w)[2]]

\* ip_push_pending_frames: the field is cleared, the header summed, the result
\* stored.
Protect(buf, n) == Store(buf, n, checksum(Store(buf, n, 0)))

\* udp_push_pending_frames: the same with the pseudo header added.
ProtectUdp(buf, n, saddr, daddr, proto) ==
  Store(buf, n, csum_tcpudp_magic(saddr, daddr, htons(Len(buf)), proto, checksum(Store(buf, n, 0))))
=============================================================================
