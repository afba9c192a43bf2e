---------------------------- MODULE TransmitProofs ----------------------------
(***************************************************************************)
(* Proofs about Transmit, for any number of threads, sockets, hosts and    *)
(* buffers, and datagrams of any length.                                   *)
(***************************************************************************)
EXTENDS Transmit, TLAPS

USE DEF ETH_HLEN, IP_HLEN, L4_HLEN, ARP_LEN

-----------------------------------------------------------------------------
(* The operations on a buffer *)

\* Nothing was refused on the buffer.
Sane(b) == ~ b.refused

\* A buffer with the given fields.
Fields(b, data, tail, end, len, nh, h) ==
  /\ b \in Buffers
  /\ b.data = data /\ b.tail = tail /\ b.end = end
  /\ b.len = len /\ b.nh = nh /\ b.h = h

\* skb_reserve, skb_put, skb_pull and skb_push where there is room.
LEMMA Reserve ==
  ASSUME NEW b, NEW n \in Nat, NEW end \in Nat, n <= end,
         Fields(b, 0, 0, end, 0, 0, 0)
  PROVE  /\ Fields(skb_reserve(b, n), n, n, end, 0, 0, 0)
         /\ Sane(b) => Sane(skb_reserve(b, n))
  <1> DEFINE c == skb_reserve(b, n)
             x == b.data + n
             y == b.tail + n
  <1>1. c = [b EXCEPT !.data = x, !.tail = y]
    BY DEF Fields, skb_reserve, Buffers
  <1>2. b \in Buffers /\ x \in Nat /\ y \in Nat
    BY DEF Fields, Buffers
  <1> HIDE DEF c, x, y
  <1>3. /\ c \in Buffers /\ c.data = x /\ c.tail = y
        /\ c.end = b.end /\ c.len = b.len /\ c.nh = b.nh /\ c.h = b.h
    BY <1>1, <1>2 DEF Buffers
  <1>4. Fields(c, n, n, end, 0, 0, 0)
    BY <1>3 DEF Fields, x, y
  <1>5. Sane(b) => Sane(c)
    BY <1>1, <1>2 DEF Buffers, Sane
  <1> QED
    BY <1>4, <1>5 DEF c

LEMMA Put ==
  ASSUME NEW b, NEW n \in Nat, NEW data \in Nat, NEW end \in Nat, data + n <= end,
         Fields(b, data, data, end, 0, 0, 0)
  PROVE  /\ Fields(skb_put(b, n), data, data + n, end, n, 0, 0)
         /\ Sane(b) => Sane(skb_put(b, n))
  <1> DEFINE c == skb_put(b, n)
             x == b.tail + n
             y == b.len + n
  <1>1. c = [b EXCEPT !.tail = x, !.len = y]
    BY DEF Fields, skb_put, Buffers
  <1>2. b \in Buffers /\ x \in Nat /\ y \in Nat
    BY DEF Fields, Buffers
  <1> HIDE DEF c, x, y
  <1>3. /\ c \in Buffers /\ c.tail = x /\ c.len = y
        /\ c.data = b.data /\ c.end = b.end /\ c.nh = b.nh /\ c.h = b.h
    BY <1>1, <1>2 DEF Buffers
  <1>4. Fields(c, data, data + n, end, n, 0, 0)
    BY <1>3 DEF Fields, x, y
  <1>5. Sane(b) => Sane(c)
    BY <1>1, <1>2 DEF Buffers, Sane
  <1> QED
    BY <1>4, <1>5 DEF c

LEMMA Pull ==
  ASSUME NEW b, NEW n \in Nat, NEW data \in Nat, NEW tail \in Nat, NEW end \in Nat,
         NEW len \in Nat, NEW nh \in Nat, NEW h \in Nat, n <= len,
         Fields(b, data, tail, end, len, nh, h)
  PROVE  /\ Fields(skb_pull(b, n), data + n, tail, end, len - n, nh, h)
         /\ Sane(b) => Sane(skb_pull(b, n))
  <1> DEFINE c == skb_pull(b, n)
             x == b.data + n
             y == b.len - n
  <1>1. c = [b EXCEPT !.data = x, !.len = y]
    BY DEF Fields, skb_pull, Buffers
  <1>2. b \in Buffers /\ x \in Nat /\ y \in Nat
    BY DEF Fields, Buffers
  <1> HIDE DEF c, x, y
  <1>3. /\ c \in Buffers /\ c.data = x /\ c.len = y
        /\ c.tail = b.tail /\ c.end = b.end /\ c.nh = b.nh /\ c.h = b.h
    BY <1>1, <1>2 DEF Buffers
  <1>4. Fields(c, data + n, tail, end, len - n, nh, h)
    BY <1>3 DEF Fields, x, y
  <1>5. Sane(b) => Sane(c)
    BY <1>1, <1>2 DEF Buffers, Sane
  <1> QED
    BY <1>4, <1>5 DEF c

LEMMA PushFits ==
  ASSUME NEW b, NEW n \in Nat, NEW data \in Nat, NEW tail \in Nat, NEW end \in Nat,
         NEW len \in Nat, NEW nh \in Nat, NEW h \in Nat, n <= data,
         Fields(b, data, tail, end, len, nh, h)
  PROVE  /\ Fields(skb_push(b, n), data - n, tail, end, len + n, nh, h)
         /\ Sane(b) => Sane(skb_push(b, n))
  <1> DEFINE c == skb_push(b, n)
             x == b.data - n
             y == b.len + n
  <1>1. c = [b EXCEPT !.data = x, !.len = y]
    BY DEF Fields, skb_push, Buffers
  <1>2. b \in Buffers /\ x \in Nat /\ y \in Nat
    BY DEF Fields, Buffers
  <1> HIDE DEF c, x, y
  <1>3. /\ c \in Buffers /\ c.data = x /\ c.len = y
        /\ c.tail = b.tail /\ c.end = b.end /\ c.nh = b.nh /\ c.h = b.h
    BY <1>1, <1>2 DEF Buffers
  <1>4. Fields(c, data - n, tail, end, len + n, nh, h)
    BY <1>3 DEF Fields, x, y
  <1>5. Sane(b) => Sane(c)
    BY <1>1, <1>2 DEF Buffers, Sane
  <1> QED
    BY <1>4, <1>5 DEF c

\* Where ip_append_data leaves the payload.
LEMMA LaidIs ==
  ASSUME NEW n \in Nat
  PROVE  Fields(Laid(n), 42, n + 42, n + 42, n, 14, 34) /\ Sane(Laid(n))
  <1> DEFINE a == alloc_skb(n + 8 + 20 + 14)
             r == skb_reserve(a, 14)
             p == skb_put(r, n + 8 + 20)
             q == [p EXCEPT !.nh = p.data, !.h = p.data + 20]
             i == skb_pull(q, 20)
  <1>0. Laid(n) = skb_pull(i, 8) /\ n + 8 + 20 = n + 28 /\ n + 8 + 20 + 14 = n + 42
    BY DEF Laid
  <1>1. Fields(a, 0, 0, n + 42, 0, 0, 0) /\ Sane(a)
    BY DEF Fields, Sane, alloc_skb, Buffers
  <1> HIDE DEF a
  <1>2. Fields(r, 14, 14, n + 42, 0, 0, 0) /\ Sane(r)
    BY <1>1, Reserve
  <1> HIDE DEF r
  <1>3. Fields(p, 14, n + 42, n + 42, n + 28, 0, 0) /\ Sane(p)
    <2>1. Fields(skb_put(r, n + 28), 14, 14 + (n + 28), n + 42, n + 28, 0, 0) /\ Sane(skb_put(r, n + 28))
      BY <1>2, Put
    <2>2. 14 + (n + 28) = n + 42
      OBVIOUS
    <2> QED
      BY <1>0, <2>1, <2>2
  <1> HIDE DEF p
  <1>4. Fields(q, 14, n + 42, n + 42, n + 28, 14, 34) /\ Sane(q)
    <2> DEFINE x == p.data
               y == p.data + 20
    <2>1. p \in Buffers /\ x \in Nat /\ y \in Nat /\ x = 14 /\ y = 34
      BY <1>3 DEF Fields, Buffers
    <2>2. q = [p EXCEPT !.nh = x, !.h = y]
      OBVIOUS
    <2> HIDE DEF q, x, y
    <2>3. /\ q \in Buffers /\ q.nh = x /\ q.h = y
          /\ q.data = p.data /\ q.tail = p.tail /\ q.end = p.end /\ q.len = p.len
      BY <2>1, <2>2 DEF Buffers
    <2>4. Fields(q, 14, n + 42, n + 42, n + 28, 14, 34)
      BY <1>3, <2>1, <2>3 DEF Fields
    <2>5. Sane(q)
      BY <1>3, <2>1, <2>2 DEF Buffers, Sane
    <2> QED
      BY <2>4, <2>5
  <1> HIDE DEF q
  <1>5. Fields(i, 34, n + 42, n + 42, n + 8, 14, 34) /\ Sane(i)
    <2>1. Fields(i, 14 + 20, n + 42, n + 42, n + 28 - 20, 14, 34) /\ Sane(i)
      BY <1>4, Pull
    <2>2. 14 + 20 = 34 /\ n + 28 - 20 = n + 8
      OBVIOUS
    <2> QED
      BY <2>1, <2>2
  <1> HIDE DEF i
  <1>6. Fields(skb_pull(i, 8), 42, n + 42, n + 42, n, 14, 34) /\ Sane(skb_pull(i, 8))
    <2> DEFINE m == n + 8
    <2>1. m \in Nat /\ 8 <= m /\ m - 8 = n /\ 34 + 8 = 42 /\ n + 42 \in Nat
      OBVIOUS
    <2>2. Fields(i, 34, n + 42, n + 42, m, 14, 34) /\ Sane(i)
      BY <1>5
    <2> HIDE DEF m
    <2>3. Fields(skb_pull(i, 8), 34 + 8, n + 42, n + 42, m - 8, 14, 34) /\ Sane(skb_pull(i, 8))
      BY <2>1, <2>2, Pull, ZenonT(60)
    <2> QED
      BY <2>1, <2>3
  <1> QED
    BY <1>0, <1>6

-----------------------------------------------------------------------------
(* What is written into a packet *)

\* Nothing was refused on the buffer and its data ends where it ends.
Clean(b) == b \in Buffers /\ Sane(b) /\ b.data + b.len = b.end /\ b.end >= 42

\* On a write queue, between the queue and the driver, and on the wire.  Where
\* the data starts tells the three apart.
Queued(p) == p \in Packets /\ Clean(p.buf) /\ p.buf.nh = 14 /\ p.buf.data > 14
Ready(p) == p \in Packets /\ Clean(p.buf) /\ p.buf.data = 14
Framed(p) == p \in Packets /\ Clean(p.buf) /\ p.buf.data = 0

\* What the headers of a packet for the call c are to have.
HasBody(p, c) == p.body = c /\ p.buf.end = c.len + 42 /\ p.l4.covers <= c.len + 8

\* What fits in 16 bits.
LEMMA U16Type == U16 \in Nat \ {0}
  BY DEF U16

LEMMA Words == 0 \in uint16 /\ uint16 \subseteq Nat
  BY U16Type DEF uint16

LEMMA Mod ==
  ASSUME NEW m \in Nat \ {0}, NEW n \in Nat
  PROVE  n % m \in 0 .. m - 1 /\ n % m <= n
  OBVIOUS

LEMMA WordOf ==
  ASSUME NEW n \in Nat
  PROVE  n % U16 \in uint16 /\ n % U16 <= n
  BY U16Type, Mod, Zenon DEF uint16

LEMMA Fits ==
  ASSUME NEW n \in Nat, n < U16
  PROVE  n % U16 = n
  <1>1. \A m \in Nat \ {0} : n < m => n % m = n
    OBVIOUS
  <1> QED
    BY <1>1, U16Type, Zenon

LEMMA NoPacketType == NoPacket \in Packets /\ NoPacket.buf.end = 0
  <1> DEFINE e == alloc_skb(0)
             n == NoPacket
  <1>1. e \in Buffers /\ e.end = 0
    BY DEF alloc_skb, Buffers
  <1>2. n = [buf |-> e, body |-> NULL, l4 |-> Unset, tot_len |-> 0, daddr |-> NULL]
    BY Zenon DEF NoPacket
  <1> HIDE DEF e, n
  <1>3. n \in Packets /\ n.buf.end = 0
    BY <1>1, <1>2, Words DEF Packets, Unset
  <1> QED
    BY <1>3 DEF n

LEMMA UdpDataIs ==
  ASSUME NEW c \in Calls
  PROVE  Queued(UdpData(c)) /\ HasBody(UdpData(c), c) /\ UdpData(c).l4 = Unset
  <1>1. c.len \in Nat
    BY DEF Calls
  <1> DEFINE b == Laid(c.len)
             e == alloc_skb(0)
             n == NoPacket
             u == UdpData(c)
  <1>2. Fields(b, 42, c.len + 42, c.len + 42, c.len, 14, 34) /\ Sane(b)
    BY <1>1, LaidIs
  <1>3. n = [buf |-> e, body |-> NULL, l4 |-> Unset, tot_len |-> 0, daddr |-> NULL]
    BY Zenon DEF NoPacket
  <1>4. u = [n EXCEPT !.buf = b, !.body = c]
    BY Zenon DEF UdpData
  <1> HIDE DEF b, e, n, u
  <1>5. u = [buf |-> b, body |-> c, l4 |-> Unset, tot_len |-> 0, daddr |-> NULL]
    BY <1>3, <1>4
  <1>6. Clean(b) 
    BY <1>1, <1>2 DEF Clean, Fields
  <1>7. u \in Packets
    BY <1>2, <1>5, Words DEF Packets, Unset, Fields
  <1> QED
    BY <1>1, <1>2, <1>5, <1>6, <1>7 DEF Queued, HasBody, Fields, Unset, u

LEMMA EchoDataIs ==
  ASSUME NEW c \in Calls
  PROVE  Queued(EchoData(c)) /\ HasBody(EchoData(c), c)
  <1>1. CASE c.len = 0
    BY <1>1, UdpDataIs DEF EchoData
  <1>2. CASE c.len # 0
    <2>1. c.len \in Nat
      BY DEF Calls
    <2> DEFINE b == Laid(c.len)
               u == UdpData(c)
               d == skb_push(u.buf, 8)
               h == [Unset EXCEPT !.covers = b.len]
               r == EchoData(c)
    <2>2. Fields(b, 42, c.len + 42, c.len + 42, c.len, 14, 34) /\ Sane(b)
      BY <2>1, LaidIs
    <2>3. u \in Packets /\ u.buf = b /\ u.body = c
      BY UdpDataIs, Zenon DEF Queued, UdpData, NoPacket, HasBody
    <2>4. Fields(d, 34, c.len + 42, c.len + 42, c.len + 8, 14, 34) /\ Sane(d)
      <3>1. Fields(skb_push(b, 8), 42 - 8, c.len + 42, c.len + 42, c.len + 8, 14, 34) /\ Sane(skb_push(b, 8))
        <4> DEFINE n == c.len
                   e == c.len + 42
        <4>1. n \in Nat /\ e \in Nat /\ Fields(b, 42, e, e, n, 14, 34)
          BY <2>1, <2>2
        <4> HIDE DEF b, n, e
        <4>2. Fields(skb_push(b, 8), 42 - 8, e, e, n + 8, 14, 34) /\ Sane(skb_push(b, 8))
          BY <2>2, <4>1, PushFits, SMTT(40)
        <4> QED
          BY <4>2 DEF n, e
      <3>2. 42 - 8 = 34
        OBVIOUS
      <3> QED
        BY <3>1, <3>2, <2>3
    <2>5. r = [u EXCEPT !.buf = d, !.l4 = h]
      BY <1>2, Zenon DEF EchoData
    <2>6. h \in [port : uint16, len : uint16, covers : Nat, pseudo : Hosts \cup {NULL}] /\ h.covers = c.len
      <3> HIDE DEF b
      <3> QED
        BY <2>1, <2>2, Words DEF Unset, Fields
    <2> HIDE DEF b, u, d, h, r
    <2>7. r \in Packets /\ r.buf = d /\ r.body = c /\ r.l4 = h
      BY <2>3, <2>4, <2>5, <2>6 DEF Packets, Fields
    <2>8. Clean(d)
      BY <2>1, <2>4 DEF Clean, Fields
    <2>9. Queued(r) /\ HasBody(r, c)
      BY <2>1, <2>4, <2>6, <2>7, <2>8 DEF Queued, HasBody, Fields
    <2> QED
      BY <2>9 DEF r
  <1> QED
    BY <1>1, <1>2

\* The fields of a socket a send goes through.
SockFields == [len : uint16, rt : Hosts \cup {NULL}, daddr : Hosts \cup {NULL}, dport : uint16]

\* Writing the UDP header leaves the buffer and the data alone.
LEMMA UdpHeaderIs ==
  ASSUME NEW p, Queued(p), NEW so \in SockFields
  PROVE  /\ Queued(UdpHeader(p, so))
         /\ UdpHeader(p, so).body = p.body /\ UdpHeader(p, so).buf = p.buf
         /\ UdpHeader(p, so).l4 = [port |-> so.dport, len |-> so.len, covers |-> so.len, pseudo |-> so.daddr]
  <1> DEFINE h == [port |-> so.dport, len |-> so.len, covers |-> so.len, pseudo |-> so.daddr]
             u == UdpHeader(p, so)
  <1>0. uint16 \subseteq Nat
    BY Words
  <1>1. h \in [port : uint16, len : uint16, covers : Nat, pseudo : Hosts \cup {NULL}]
    BY <1>0 DEF SockFields
  <1>2. u = [p EXCEPT !.l4 = h]
    BY DEF UdpHeader
  <1> HIDE DEF h, u
  <1>3. u \in Packets /\ u.body = p.body /\ u.buf = p.buf /\ u.l4 = h
    BY <1>1, <1>2 DEF Packets, Queued
  <1>4. Queued(u)
    BY <1>3 DEF Queued
  <1> QED
    BY <1>3, <1>4 DEF u, h

\* Pushing n bytes on a clean buffer that has the room.
LEMMA CleanPush ==
  ASSUME NEW b, Clean(b), NEW n \in Nat, n <= b.data
  PROVE  /\ Clean(skb_push(b, n)) /\ skb_push(b, n).data = b.data - n
         /\ skb_push(b, n).end = b.end
  <1> DEFINE c == skb_push(b, n)
  <1>1. /\ b \in Buffers /\ b.data \in Nat /\ b.tail \in Nat /\ b.end \in Nat /\ b.len \in Nat
        /\ b.nh \in Nat /\ b.h \in Nat
    BY DEF Clean, Buffers
  <1>2. Fields(b, b.data, b.tail, b.end, b.len, b.nh, b.h)
    BY <1>1 DEF Fields
  <1>3. Fields(c, b.data - n, b.tail, b.end, b.len + n, b.nh, b.h)
    BY <1>1, <1>2, PushFits
  <1>4. Sane(b) => Sane(c)
    BY <1>1, <1>2, PushFits
  <1> HIDE DEF c
  <1>5. Clean(c) /\ c.data = b.data - n /\ c.end = b.end
    BY <1>1, <1>3, <1>4 DEF Fields, Clean
  <1> QED
    BY <1>5 DEF c

\* ip_push_pending_frames leaves the packet at its network header.
LEMMA IpHeaderIs ==
  ASSUME NEW p, Queued(p), NEW rt \in Hosts \cup {NULL}
  PROVE  /\ Ready(IpHeader(p, rt))
         /\ IpHeader(p, rt).body = p.body /\ IpHeader(p, rt).l4 = p.l4
         /\ IpHeader(p, rt).buf.end = p.buf.end
         /\ IpHeader(p, rt).tot_len = (p.buf.end - 14) % U16
         /\ IpHeader(p, rt).daddr = rt
  <1> DEFINE n == p.buf.data - p.buf.nh
             b == ToNetworkHeader(p.buf)
             u == IpHeader(p, rt)
  <1>1. Clean(p.buf) /\ p.buf.data \in Nat /\ p.buf.end \in Nat /\ p.buf.nh = 14 /\ p.buf.data > 14
    BY DEF Queued, Clean, Buffers
  <1>2. n \in Nat /\ n <= p.buf.data /\ p.buf.data - n = 14
    BY <1>1
  <1>3. Clean(b) /\ b.data = p.buf.data - n /\ b.end = p.buf.end
    <2>1. b = skb_push(p.buf, n)
      BY <1>1 DEF ToNetworkHeader
    <2> HIDE DEF n, b
    <2> QED
      BY <1>1, <1>2, <2>1, CleanPush
  <1>4. u = [p EXCEPT !.buf = b, !.tot_len = b.len % U16, !.daddr = rt]
    BY DEF IpHeader
  <1> HIDE DEF n, b, u
  <1>5. b \in Buffers /\ b.len \in Nat /\ b.len = p.buf.end - 14
    BY <1>1, <1>2, <1>3 DEF Clean, Buffers
  <1>6. b.len % U16 \in uint16
    BY <1>5, WordOf
  <1>7. /\ u \in Packets /\ u.body = p.body /\ u.l4 = p.l4 /\ u.buf = b
        /\ u.tot_len = b.len % U16 /\ u.daddr = rt
    <2> DEFINE l == b.len % U16
    <2>1. u = [p EXCEPT !.buf = b, !.tot_len = l, !.daddr = rt] /\ l \in uint16
      BY <1>4, <1>6
    <2> HIDE DEF l
    <2>2. u \in Packets /\ u.body = p.body /\ u.l4 = p.l4 /\ u.buf = b /\ u.tot_len = l /\ u.daddr = rt
      BY <2>1, <1>5 DEF Packets, Queued
    <2> QED
      BY <2>2 DEF l
  <1>8. Ready(u)
    BY <1>2, <1>3, <1>7 DEF Ready
  <1> QED
    BY <1>3, <1>5, <1>7, <1>8 DEF u

\* eth_header fills the room in front.
LEMMA EthHeaderIs ==
  ASSUME NEW p, Ready(p)
  PROVE  Framed(EthHeader(p))
  <1> DEFINE b == skb_push(p.buf, 14)
             u == EthHeader(p)
  <1>1. Clean(b) /\ b.data = 0
    BY CleanPush DEF Ready
  <1>2. u = [p EXCEPT !.buf = b]
    BY DEF EthHeader
  <1> HIDE DEF b, u
  <1>3. u \in Packets /\ u.buf = b
    BY <1>1, <1>2 DEF Packets, Ready, Clean
  <1>4. Framed(u)
    BY <1>1, <1>3 DEF Framed
  <1> QED
    BY <1>4 DEF u

\* An ARP packet fills its buffer.
LEMMA ArpCreateIs == Framed(arp_create)
  <1> DEFINE a == alloc_skb(28 + 14)
             r == skb_reserve(a, 14)
             p == skb_put(r, 28)
             b == skb_push(p, 14)
             n == NoPacket
             u == arp_create
  <1>1. Fields(a, 0, 0, 42, 0, 0, 0) /\ Sane(a)
    BY DEF Fields, Sane, alloc_skb, Buffers
  <1>2. u = [n EXCEPT !.buf = b]
    BY Zenon DEF arp_create
  <1> HIDE DEF a
  <1>3. Fields(r, 14, 14, 42, 0, 0, 0) /\ Sane(r)
    BY <1>1, Reserve
  <1> HIDE DEF r
  <1>4. Fields(p, 14, 14 + 28, 42, 28, 0, 0) /\ Sane(p)
    BY <1>3, Put
  <1> HIDE DEF p
  <1>5. Clean(p) /\ p.data = 14
    BY <1>4 DEF Clean, Fields
  <1>6. Clean(b) /\ b.data = 0
    BY <1>5, CleanPush
  <1> HIDE DEF b, n, u
  <1>7. n \in Packets
    BY NoPacketType DEF n
  <1>8. u \in Packets /\ u.buf = b
    BY <1>2, <1>6, <1>7 DEF Packets, Clean
  <1>9. Framed(u)
    BY <1>6, <1>8 DEF Framed
  <1> QED
    BY <1>9 DEF u

\* Whatever packet a header is written into, it is a packet.
LEMMA PushTyped ==
  ASSUME NEW b \in Buffers, NEW n \in Nat
  PROVE  skb_push(b, n) \in Buffers
  <1>1. CASE b.data < n
    BY <1>1 DEF skb_push, Refuse, Buffers
  <1>2. CASE ~ (b.data < n)
    <2> DEFINE x == b.data - n
               y == b.len + n
    <2>1. x \in Nat /\ y \in Nat
      BY <1>2 DEF Buffers
    <2>2. skb_push(b, n) = [b EXCEPT !.data = x, !.len = y]
      BY <1>2 DEF skb_push, Buffers
    <2> HIDE DEF x, y
    <2> QED
      BY <2>1, <2>2 DEF Buffers
  <1> QED
    BY <1>1, <1>2

LEMMA HeadersTyped ==
  ASSUME NEW p \in Packets, NEW so \in SockFields, NEW rt \in Hosts \cup {NULL}
  PROVE  UdpHeader(p, so) \in Packets /\ IpHeader(p, rt) \in Packets /\ EthHeader(p) \in Packets
  <1>1. UdpHeader(p, so) \in Packets
    <2> DEFINE h == [port |-> so.dport, len |-> so.len, covers |-> so.len, pseudo |-> so.daddr]
    <2>0. uint16 \subseteq Nat
      BY Words
    <2>1. h \in [port : uint16, len : uint16, covers : Nat, pseudo : Hosts \cup {NULL}]
      BY <2>0 DEF SockFields
    <2>2. UdpHeader(p, so) = [p EXCEPT !.l4 = h]
      BY DEF UdpHeader
    <2> HIDE DEF h
    <2> QED
      BY <2>1, <2>2 DEF Packets
  <1>2. IpHeader(p, rt) \in Packets
    <2> DEFINE b == ToNetworkHeader(p.buf)
               l == b.len % U16
               n == p.buf.data - p.buf.nh
    <2>1. b \in Buffers
      <3>1. p.buf \in Buffers /\ p.buf.data \in Nat /\ p.buf.nh \in Nat
        BY DEF Packets, Buffers
      <3>2. p.buf.nh < p.buf.data => n \in Nat /\ b = skb_push(p.buf, n)
        BY <3>1 DEF ToNetworkHeader
      <3>3. ~ (p.buf.nh < p.buf.data) => b = p.buf
        BY DEF ToNetworkHeader
      <3> HIDE DEF n, b
      <3> QED
        BY <3>1, <3>2, <3>3, PushTyped
    <2>2. IpHeader(p, rt) = [p EXCEPT !.buf = b, !.tot_len = l, !.daddr = rt]
      BY DEF IpHeader
    <2> HIDE DEF b
    <2>3. l \in uint16
      <3>1. b.len \in Nat
        BY <2>1 DEF Buffers
      <3> QED
        BY <3>1, WordOf
    <2> HIDE DEF l
    <2> QED
      BY <2>1, <2>2, <2>3 DEF Packets
  <1>3. EthHeader(p) \in Packets
    <2> DEFINE b == skb_push(p.buf, 14)
    <2>1. p.buf \in Buffers
      BY DEF Packets
    <2>2. b \in Buffers
      BY <2>1, PushTyped
    <2>3. EthHeader(p) = [p EXCEPT !.buf = b]
      BY DEF EthHeader
    <2> HIDE DEF b
    <2> QED
      BY <2>2, <2>3 DEF Packets
  <1> QED
    BY <1>1, <1>2, <1>3

-----------------------------------------------------------------------------
(* The inductive invariant *)

\* A thread has a call while it is inside one and a packet in hand while it puts
\* it on a write queue and from skb_dequeue to the neighbour; the receive loop has
\* no UDP header to write.
Control ==
  \A t \in Threads :
    /\ pc[t] = "idle" <=> call[t] = NULL
    /\ skb[t] # NULL <=> pc[t] \in {"link", "unlink", "output", "hold"}
    /\ pc[t] \in {"dest", "header"} => call[t].sk # Icmp

\* How far a packet is built follows from where it is.
Staged ==
  /\ \A k \in Socks : \A i \in 1 .. Len(wq[k]) : Queued(pkt[wq[k][i]])
  /\ \A t \in Threads : /\ pc[t] \in {"link", "unlink"} => Queued(pkt[skb[t]])
                        /\ pc[t] \in {"output", "hold"} => Ready(pkt[skb[t]])
  /\ \A s \in held : Ready(pkt[s])
  /\ \A s \in out : Framed(pkt[s])

\* No packet is twice on the write queues, in two hands, or in a hand and on a
\* queue or held.
Apart ==
  /\ \A k, l \in Socks : \A i \in 1 .. Len(wq[k]), j \in 1 .. Len(wq[l]) :
       wq[k][i] = wq[l][j] => k = l /\ i = j
  /\ \A t, u \in Threads : skb[t] # NULL /\ skb[t] = skb[u] => t = u
  /\ \A t \in Threads : skb[t] \notin held
  /\ \A t \in Threads, k \in Socks : \A i \in 1 .. Len(wq[k]) : wq[k][i] # skb[t]

\* A packet that was built is somewhere.
Kept ==
  \A s \in Skbs :
    \/ Free(s)
    \/ \E k \in Socks : \E i \in 1 .. Len(wq[k]) : wq[k][i] = s
    \/ \E t \in Threads : skb[t] = s
    \/ s \in held \cup out

\* Two threads inside calls on one socket know of each other.
Exclusive ==
  \A t, u \in Threads :
    t # u /\ call[t] # NULL /\ call[u] # NULL /\ call[t].sk = call[u].sk => t \in mixed

\* up->len and cork.rt as the call set them.
Corked(t) ==
  LET c == call[t] IN
  sock[c.sk].rt = c.host /\ (c.sk # Icmp => sock[c.sk].len = (c.len + 8) % U16)

\* The UDP header of a call.
HeaderOf(c) ==
  LET n == (c.len + 8) % U16
  IN  [port |-> c.port, len |-> n, covers |-> n, pseudo |-> c.host]

\* The first packet on the write queue of the socket of t.
First(t) == pkt[wq[call[t].sk][1]]

\* A call that no other call on the socket overlapped finds what it has written.
Own(t) ==
  LET c == call[t]
      p == pkt[skb[t]]
  IN
  /\ pc[t] \in {"append", "link", "dest", "header", "push", "unlink"} => Corked(t)
  /\ pc[t] \in {"dest", "header", "push"} => HasBody(First(t), c)
  /\ pc[t] = "header" => sock[c.sk].daddr = c.host /\ sock[c.sk].dport = c.port
  /\ pc[t] = "push" /\ c.sk # Icmp => First(t).l4 = HeaderOf(c)
  /\ pc[t] \in {"link", "unlink", "output"} => HasBody(p, c)
  /\ pc[t] \in {"unlink", "output"} /\ c.sk # Icmp => p.l4 = HeaderOf(c)
  /\ pc[t] = "output" => p.daddr = c.host /\ p.tot_len = (c.len + 28) % U16

OwnPackets == \A t \in Threads : t \notin mixed => Own(t)

\* Each place of the queue q stands for one of the threads P, and each thread for
\* one place: what NeverEmpty says of a socket.
Matched(q, P) == \E f \in [DOMAIN q -> P] :
  /\ \A t \in P : \E i \in DOMAIN q : f[i] = t
  /\ \A i, j \in DOMAIN q : f[i] = f[j] => i = j

Served == \A k \in Socks : Matched(wq[k], Pending(k))

\* What holds until two list operations on one write queue overlap.
IInv ==
  /\ TypeOK
  /\ Control
  /\ Served
  /\ Staged
  /\ Apart
  /\ Kept
  /\ Exclusive
  /\ OwnPackets

Untorn == ~ torn

\* What always holds.
Sound == TypeOK /\ Control /\ (Untorn => IInv)

-----------------------------------------------------------------------------
(* Write queues *)

LEMMA MatchedHead ==
  ASSUME NEW q \in Seq(Skbs), NEW P, Matched(q, P), NEW t \in P
  PROVE  Len(q) >= 1 /\ Head(q) = q[1] /\ q[1] \in Skbs
  BY DEF Matched

LEMMA MatchedNone ==
  ASSUME NEW q \in Seq(Skbs), Matched(q, {})
  PROVE  Len(q) = 0
  <1>1. PICK f \in [DOMAIN q -> {}] : TRUE
    BY DEF Matched
  <1>2. SUFFICES ASSUME Len(q) # 0 PROVE FALSE
    OBVIOUS
  <1>3. 1 \in DOMAIN q
    BY <1>2
  <1> QED
    BY <1>1, <1>3

\* One more thread puts one more packet on the queue.
LEMMA MatchedAppend ==
  ASSUME NEW q \in Seq(Skbs), NEW P, Matched(q, P), NEW t, t \notin P, NEW s \in Skbs
  PROVE  Matched(Append(q, s), P \cup {t})
  <1> DEFINE n == Len(q)
             r == Append(q, s)
             Q == P \cup {t}
  <1>1. n \in Nat /\ DOMAIN q = 1 .. n /\ DOMAIN r = 1 .. n + 1
    OBVIOUS
  <1>2. PICK f \in [1 .. n -> P] : /\ \A u \in P : \E i \in 1 .. n : f[i] = u
                                   /\ \A i, j \in 1 .. n : f[i] = f[j] => i = j
    BY <1>1 DEF Matched
  <1> HIDE DEF n, r
  <1> DEFINE g == [i \in 1 .. n + 1 |-> IF i = n + 1 THEN t ELSE f[i]]
  <1>3. \A i \in 1 .. n : i \in 1 .. n + 1 /\ i # n + 1 /\ g[i] = f[i]
    BY <1>1
  <1>4. n + 1 \in 1 .. n + 1 /\ g[n + 1] = t /\ \A i \in 1 .. n + 1 : i = n + 1 \/ i \in 1 .. n
    BY <1>1
  <1>5. g \in [1 .. n + 1 -> Q]
    BY <1>1, <1>2
  <1> HIDE DEF g
  <1>6. \A u \in Q : \E i \in 1 .. n + 1 : g[i] = u
    BY <1>2, <1>3, <1>4
  <1>7. \A i, j \in 1 .. n + 1 : g[i] = g[j] => i = j
    BY <1>2, <1>3, <1>4
  <1>8. Matched(r, Q)
    BY <1>1, <1>5, <1>6, <1>7 DEF Matched
  <1> QED
    BY <1>8 DEF r

\* One of the threads takes the first packet, which may be another's.
LEMMA MatchedTail ==
  ASSUME NEW q \in Seq(Skbs), NEW P, Matched(q, P), NEW t \in P
  PROVE  Matched(Tail(q), P \ {t})
  <1> DEFINE n == Len(q)
             r == Tail(q)
             Q == P \ {t}
  <1>1. n \in Nat /\ DOMAIN q = 1 .. n
    OBVIOUS
  <1>2. PICK f \in [1 .. n -> P] : /\ \A u \in P : \E i \in 1 .. n : f[i] = u
                                   /\ \A i, j \in 1 .. n : f[i] = f[j] => i = j
    BY <1>1 DEF Matched
  <1>3. PICK m \in 1 .. n : f[m] = t
    BY <1>2
  <1>4. DOMAIN r = 1 .. n - 1
    BY <1>3
  <1> HIDE DEF n, r
  <1> DEFINE g == [i \in 1 .. n - 1 |-> IF f[i + 1] = t THEN f[1] ELSE f[i + 1]]
  <1>5. \A i \in 1 .. n - 1 : i + 1 \in 1 .. n /\ i + 1 # 1 /\ 1 \in 1 .. n
    BY <1>1
  <1>6. g \in [1 .. n - 1 -> Q]
    <2>1. ASSUME NEW i \in 1 .. n - 1 PROVE g[i] \in Q
      BY <1>2, <1>5
    <2> QED
      BY <2>1
  <1>7. \A i \in 1 .. n - 1 : g[i] = IF f[i + 1] = t THEN f[1] ELSE f[i + 1]
    OBVIOUS
  <1> HIDE DEF g
  <1>8. ASSUME NEW u \in Q PROVE \E i \in 1 .. n - 1 : g[i] = u
    <2>1. PICK j \in 1 .. n : f[j] = u
      BY <1>2
    <2>2. CASE j = 1
      <3>1. m # 1 /\ m - 1 \in 1 .. n - 1 /\ (m - 1) + 1 = m
        BY <1>1, <1>3, <2>1, <2>2
      <3> QED
        BY <1>3, <1>7, <2>1, <2>2, <3>1
    <2>3. CASE j # 1
      <3>1. j - 1 \in 1 .. n - 1 /\ (j - 1) + 1 = j
        BY <1>1, <2>3
      <3> QED
        BY <1>7, <2>1, <3>1
    <2> QED
      BY <2>2, <2>3
  <1>9. ASSUME NEW i \in 1 .. n - 1, NEW j \in 1 .. n - 1, g[i] = g[j] PROVE i = j
    <2>1. f[i + 1] = f[j + 1] => i = j
      BY <1>1, <1>2, <1>5
    <2>2. f[i + 1] # f[1] /\ f[j + 1] # f[1]
      BY <1>2, <1>5
    <2> QED
      BY <1>7, <1>9, <2>1, <2>2
  <1>10. Matched(r, Q)
    BY <1>4, <1>6, <1>8, <1>9 DEF Matched
  <1> QED
    BY <1>10 DEF r

-----------------------------------------------------------------------------
(* The initial state, which is also what is left after a fault *)

Fresh ==
  /\ sock = NewSocks /\ wq = NoQueues /\ pkt = NoPackets
  /\ pc = AllIdle /\ call = NoCalls /\ skb = NoCalls
  /\ held = {} /\ out = {} /\ mixed = {}
  /\ torn \in BOOLEAN /\ faulted \in BOOLEAN

LEMMA FreshIInv == Fresh => IInv
  <1> SUFFICES ASSUME Fresh PROVE IInv
    OBVIOUS
  <1>0. /\ \A t \in Threads : pc[t] = "idle" /\ call[t] = NULL /\ skb[t] = NULL
        /\ \A k \in Socks : wq[k] = <<>>
        /\ \A s \in Skbs : pkt[s] = NoPacket
        /\ held = {} /\ out = {}
    BY DEF Fresh, AllIdle, NoCalls, NoQueues, NoPackets
  <1>1. sock \in [Socks -> SockFields]
    BY Words DEF Fresh, NewSocks, SockFields
  <1>2. pkt \in [Skbs -> Packets]
    BY NoPacketType DEF Fresh, NoPackets
  <1>3. wq \in [Socks -> Seq(Skbs)]
    BY DEF Fresh, NoQueues
  <1>4. pc \in [Threads -> Labels] /\ call \in [Threads -> Calls \cup {NULL}] /\ skb \in [Threads -> Skbs \cup {NULL}]
    BY DEF Fresh, AllIdle, NoCalls, Labels
  <1>5. TypeOK
    BY <1>1, <1>2, <1>3, <1>4, Zenon DEF TypeOK, SockFields, Fresh
  <1>6. Control /\ Staged /\ Apart /\ Kept /\ Exclusive /\ OwnPackets
    <2>1. Control
      BY <1>0 DEF Control
    <2>2. Staged /\ Apart
      BY <1>0, NullAssumption DEF Staged, Apart
    <2>3. Kept
      BY <1>0 DEF Kept, Free
    <2>4. Exclusive /\ OwnPackets
      BY <1>0 DEF Exclusive, OwnPackets, Own
    <2> QED
      BY <2>1, <2>2, <2>3, <2>4
  <1>7. Served
    <2> SUFFICES ASSUME NEW k \in Socks
                 PROVE  \E f \in [DOMAIN wq[k] -> Pending(k)] :
                          /\ \A t \in Pending(k) : \E i \in DOMAIN wq[k] : f[i] = t
                          /\ \A i, j \in DOMAIN wq[k] : f[i] = f[j] => i = j
      BY DEF Served, Matched
    <2>1. DOMAIN wq[k] = {} /\ Pending(k) = {}
      BY <1>0 DEF Pending, Using
    <2>2. [i \in {} |-> NULL] \in [{} -> {}]
      OBVIOUS
    <2> QED
      BY <2>1, <2>2
  <1> QED
    BY <1>5, <1>6, <1>7 DEF IInv

LEMMA CrashKeeps ==
  ASSUME Crash
  PROVE  IInv'
  <1>1. faulted' \in BOOLEAN /\ torn' \in BOOLEAN
    BY Zenon DEF Crash
  <1>2. Fresh'
    BY <1>1, Zenon DEF Crash, Fresh, NewSocks, NoQueues, NoPackets, AllIdle, NoCalls
  <1>3. Fresh' => IInv'
    BY FreshIInv, PTL
  <1> QED
    BY <1>2, <1>3

-----------------------------------------------------------------------------
(* Facts every step uses *)

\* A thread that is not idle has a call.
LEMMA CallTyped ==
  ASSUME TypeOK, Control, NEW t \in Threads, pc[t] # "idle"
  PROVE  /\ call[t] \in Calls /\ call[t] # NULL /\ call[t].sk \in Socks
         /\ call[t].host \in Hosts /\ call[t].port \in uint16 /\ call[t].len \in Nat
  BY NullAssumption DEF TypeOK, Control, Calls

LEMMA InCall ==
  ASSUME IInv, NEW t \in Threads, pc[t] # "idle"
  PROVE  /\ call[t] \in Calls /\ call[t] # NULL /\ call[t].sk \in Socks
         /\ call[t].host \in Hosts /\ call[t].port \in uint16 /\ call[t].len \in Nat
  BY CallTyped DEF IInv

\* A call that nobody overlaps has its socket to itself.
LEMMA OwnSocket ==
  ASSUME IInv, NEW t \in Threads, pc[t] # "idle",
         NEW u \in Threads, u # t, u \notin mixed, pc[u] # "idle"
  PROVE  call[u].sk # call[t].sk
  BY InCall DEF IInv, Exclusive

\* Where nothing was put on a queue or taken off and no thread began or ended
\* needing one, the queues stay matched.
LEMMA MatchedFrame ==
  ASSUME Served, wq' = wq, \A k \in Socks : Pending(k)' = Pending(k)
  PROVE  Served'
  <1>1. ASSUME NEW k \in Socks PROVE Matched(wq'[k], Pending(k)')
    <2>1. Matched(wq[k], Pending(k))
      BY DEF Served
    <2> QED
      BY <2>1, Zenon
  <1> QED
    BY <1>1, Zenon DEF Served

LEMMA MatchedAll ==
  ASSUME \A k \in Socks : Matched(wq'[k], Pending(k)')
  PROVE  Served'
  BY Zenon DEF Served

LEMMA MatchedAt == Served <=> \A k \in Socks : Matched(wq[k], Pending(k))
  BY DEF Served

\* A call keeps what it has written while nobody else writes there.
LEMMA OwnFrame ==
  ASSUME NEW t \in Threads, Own(t),
         call'[t] = call[t], pc'[t] = pc[t], skb'[t] = skb[t],
         pc[t] \in {"append", "link", "dest", "header", "push", "unlink"} =>
           sock'[call[t].sk] = sock[call[t].sk],
         pc[t] \in {"dest", "header", "push"} => First(t)' = First(t),
         pc[t] \in {"link", "unlink", "output"} => pkt'[skb[t]] = pkt[skb[t]]
  PROVE  Own(t)'
  <1>1. Corked(t) /\ pc[t] \in {"append", "link", "dest", "header", "push", "unlink"} => Corked(t)'
    BY DEF Corked
  <1> HIDE DEF Corked, First
  <1> QED
    BY <1>1 DEF Own

-----------------------------------------------------------------------------
(* Types and control, torn queues or not *)

LEMMA BeginTyped ==
  ASSUME TypeOK, Control, NEW t \in Threads, NEW c \in Calls, Begin(t, c)
  PROVE  TypeOK' /\ Control'
  <1> USE DEF Begin
  <1>1. /\ pc'[t] = "cork" /\ call'[t] = c /\ c # NULL /\ skb[t] = NULL
        /\ \A u \in Threads : u # t => pc'[u] = pc[u] /\ call'[u] = call[u]
    BY NullAssumption DEF TypeOK, Control
  <1>2. mixed' \subseteq Threads
    BY DEF TypeOK, Using
  <1>3. TypeOK'
    BY <1>2 DEF TypeOK, Labels
  <1>4. Control'
    BY <1>1 DEF Control
  <1> QED
    BY <1>3, <1>4

LEMMA CorkTyped ==
  ASSUME TypeOK, Control, NEW t \in Threads, Cork(t)
  PROVE  TypeOK' /\ Control'
  <1> DEFINE c == call[t]
             k == c.sk
             n == IF k = Icmp THEN sock[k].len ELSE (c.len + 8) % U16
  <1>1. pc[t] = "cork"
    BY DEF Cork, At
  <1>2. k \in Socks /\ c.host \in Hosts /\ c.len \in Nat
    BY <1>1, CallTyped
  <1>3. n \in uint16
    <2>1. (c.len + 8) % U16 \in uint16
      BY <1>2, WordOf
    <2>2. sock[k].len \in uint16
      BY <1>2 DEF TypeOK
    <2> QED
      BY <2>1, <2>2
  <1>4. /\ sock' = [sock EXCEPT ![k].len = n, ![k].rt = c.host]
        /\ pc' = [pc EXCEPT ![t] = "append"]
        /\ UNCHANGED <<wq, pkt, call, skb, held, out, mixed, torn, faulted>>
    BY DEF Cork
  <1> HIDE DEF n
  <1>5. sock' \in [Socks -> SockFields]
    BY <1>2, <1>3, <1>4, ZenonT(40) DEF TypeOK, SockFields
  <1> HIDE DEF c, k
  <1>6. TypeOK'
    BY <1>4, <1>5 DEF TypeOK, SockFields, Labels
  <1>7. Control'
    BY <1>1, <1>4 DEF TypeOK, Control
  <1> QED
    BY <1>6, <1>7

LEMMA SetDestTyped ==
  ASSUME TypeOK, Control, NEW t \in Threads, SetDest(t)
  PROVE  TypeOK' /\ Control'
  <1> DEFINE c == call[t]
             k == c.sk
  <1>1. pc[t] = "dest"
    BY DEF SetDest, At
  <1>2. k \in Socks /\ c.host \in Hosts /\ c.port \in uint16
    BY <1>1, CallTyped
  <1>3. /\ sock' = [sock EXCEPT ![k].daddr = c.host, ![k].dport = c.port]
        /\ pc' = [pc EXCEPT ![t] = "header"]
        /\ UNCHANGED <<wq, pkt, call, skb, held, out, mixed, torn, faulted>>
    BY DEF SetDest
  <1>4. sock' \in [Socks -> SockFields]
    <2>1. sock \in [Socks -> SockFields]
      BY DEF TypeOK, SockFields
    <2> HIDE DEF c, k
    <2> QED
      BY <1>2, <1>3, <2>1 DEF SockFields
  <1> HIDE DEF c, k
  <1>5. TypeOK'
    BY <1>3, <1>4 DEF TypeOK, SockFields, Labels
  <1>6. Control'
    BY <1>1, <1>3 DEF TypeOK, Control
  <1> QED
    BY <1>5, <1>6

LEMMA ReturnTyped ==
  ASSUME TypeOK, Control, NEW t \in Threads, Return(t)
  PROVE  /\ pc' \in [Threads -> Labels] /\ call' \in [Threads -> Calls \cup {NULL}]
         /\ skb' \in [Threads -> Skbs \cup {NULL}] /\ mixed' \subseteq Threads
         /\ Control'
         /\ pc'[t] = "idle" /\ call'[t] = NULL /\ skb'[t] = NULL
         /\ \A u \in Threads : u # t => pc'[u] = pc[u] /\ call'[u] = call[u] /\ skb'[u] = skb[u]
         /\ \A u \in Threads : u # t /\ u \notin mixed' => u \notin mixed
  <1> USE DEF Return
  <1>1. /\ pc' \in [Threads -> Labels] /\ call' \in [Threads -> Calls \cup {NULL}]
        /\ skb' \in [Threads -> Skbs \cup {NULL}] /\ mixed' \subseteq Threads
    BY DEF TypeOK, Labels
  <1>2. /\ pc'[t] = "idle" /\ call'[t] = NULL /\ skb'[t] = NULL
        /\ \A u \in Threads : u # t => pc'[u] = pc[u] /\ call'[u] = call[u] /\ skb'[u] = skb[u]
        /\ \A u \in Threads : u # t /\ u \notin mixed' => u \notin mixed
    BY DEF TypeOK
  <1>3. Control'
    BY <1>2 DEF Control
  <1> QED
    BY <1>1, <1>2, <1>3

\* The packet in the hand of a thread that has one.
LEMMA HandTyped ==
  ASSUME TypeOK, Control, NEW t \in Threads, pc[t] \in {"link", "unlink", "output", "hold"}
  PROVE  skb[t] \in Skbs /\ skb[t] # NULL
  BY DEF TypeOK, Control

LEMMA ReturnsTyped ==
  ASSUME TypeOK, Control, NEW t \in Threads,
         AppendFails(t) \/ PushNothing(t) \/ Xmit(t) \/ Hold(t)
  PROVE  TypeOK' /\ Control'
  <1>1. Return(t)
    BY DEF AppendFails, PushNothing, Xmit, Hold
  <1>2. /\ pc' \in [Threads -> Labels] /\ call' \in [Threads -> Calls \cup {NULL}]
        /\ skb' \in [Threads -> Skbs \cup {NULL}] /\ mixed' \subseteq Threads
        /\ Control'
    BY <1>1, ReturnTyped
  <1>3. CASE AppendFails(t) \/ PushNothing(t)
    BY <1>2, <1>3 DEF AppendFails, PushNothing, TypeOK
  <1>4. CASE Hold(t)
    <2>1. skb[t] \in Skbs
      BY <1>4, HandTyped DEF Hold, At
    <2> QED
      BY <1>2, <1>4, <2>1 DEF Hold, TypeOK
  <1>5. CASE Xmit(t)
    <2> DEFINE s == skb[t]
               p == EthHeader(pkt[s])
    <2>1. s \in Skbs
      BY <1>5, HandTyped DEF Xmit, At
    <2>2. p \in Packets
      <3>1. pkt[s] \in Packets
        BY <2>1 DEF TypeOK
      <3>2. \E so \in SockFields : TRUE
        <4>1. [len |-> 0, rt |-> NULL, daddr |-> NULL, dport |-> 0] \in SockFields
          BY Words DEF SockFields
        <4> QED
          BY <4>1
      <3> QED
        BY <3>1, <3>2, HeadersTyped
    <2>3. /\ pkt' = [pkt EXCEPT ![s] = p] /\ out' = out \cup {s}
          /\ UNCHANGED <<sock, wq, held, torn, faulted>>
      BY <1>5 DEF Xmit
    <2> HIDE DEF s, p
    <2> QED
      BY <1>2, <2>1, <2>2, <2>3 DEF TypeOK
  <1> QED
    BY <1>3, <1>4, <1>5

\* A new packet, a list operation that begins.
LEMMA NewTyped ==
  ASSUME CanAlloc
  PROVE  NewSkb \in Skbs /\ Free(NewSkb)
  BY DEF CanAlloc, NewSkb

LEMMA BeginListTyped ==
  ASSUME NEW t, BeginList(t)
  PROVE  torn' \in BOOLEAN
  BY Zenon DEF BeginList

LEMMA AppendTyped ==
  ASSUME TypeOK, Control, NEW t \in Threads, AppendData(t)
  PROVE  TypeOK' /\ Control'
  <1> DEFINE c == call[t]
             s == NewSkb
             p == IF c.sk = Icmp THEN EchoData(c) ELSE UdpData(c)
  <1>1. pc[t] = "append" /\ CanAlloc
    BY DEF AppendData, At
  <1>2. s \in Skbs /\ s # NULL
    BY <1>1, NewTyped, NullAssumption
  <1>3. p \in Packets
    <2>1. c \in Calls
      BY <1>1, CallTyped
    <2>2. Queued(p)
      BY <2>1, EchoDataIs, UdpDataIs
    <2> QED
      BY <2>2 DEF Queued
  <1>4. /\ pkt' = [pkt EXCEPT ![s] = p] /\ skb' = [skb EXCEPT ![t] = s] /\ pc' = [pc EXCEPT ![t] = "link"]
        /\ UNCHANGED <<sock, wq, call, held, out, mixed, faulted>>
    BY DEF AppendData
  <1>5. torn' \in BOOLEAN
    BY BeginListTyped DEF AppendData
  <1> HIDE DEF c, s, p
  <1>6. TypeOK'
    BY <1>2, <1>3, <1>4, <1>5 DEF TypeOK, Labels
  <1>7. Control'
    BY <1>1, <1>2, <1>4 DEF TypeOK, Control
  <1> QED
    BY <1>6, <1>7

LEMMA AfterTyped ==
  ASSUME TypeOK, NEW k \in Socks, NEW s \in Skbs
  PROVE  /\ \A q \in AfterLink(wq[k], s) : q \in Seq(Skbs)
         /\ \A q \in AfterUnlink(k, wq[k]) : q \in Seq(Skbs)
  <1>1. PICK w : w = wq[k]
    OBVIOUS
  <1>2. w \in Seq(Skbs) /\ Len(w) \in Nat
    BY <1>1 DEF TypeOK
  <1>3. ASSUME NEW i \in 0 .. Len(w) PROVE Append(SubSeq(w, 1, i), s) \in Seq(Skbs)
    <2>1. SubSeq(w, 1, i) \in Seq(Skbs)
      BY <1>2, <1>3
    <2> QED
      BY <2>1
  <1>4. ASSUME NEW i \in 2 .. Len(w) + 1 PROVE SubSeq(w, i, Len(w)) \in Seq(Skbs)
    BY <1>2, <1>4
  <1>5. Append(w, s) \in Seq(Skbs) /\ \A r \in Skbs : <<r>> \in Seq(Skbs)
    BY <1>2
  <1>6. ASSUME NEW q \in AfterLink(w, s) PROVE q \in Seq(Skbs)
    BY <1>2, <1>3, <1>5, <1>6, Zenon DEF AfterLink
  <1>7. ASSUME NEW q \in AfterUnlink(k, w) PROVE q \in Seq(Skbs)
    BY <1>2, <1>4, <1>5, <1>7, Zenon DEF AfterUnlink
  <1> QED
    BY <1>1, <1>6, <1>7

LEMMA LinkTyped ==
  ASSUME TypeOK, Control, NEW t \in Threads, Link(t)
  PROVE  TypeOK' /\ Control'
  <1> DEFINE k == call[t].sk
             label == IF k = Icmp THEN "push" ELSE "dest"
  <1>1. pc[t] = "link"
    BY DEF Link, At
  <1>2. k \in Socks /\ call[t] # NULL
    BY <1>1, CallTyped
  <1>3. skb[t] \in Skbs
    BY <1>1, HandTyped
  <1>4. PICK q \in AfterLink(wq[k], skb[t]) : wq' = [wq EXCEPT ![k] = q]
    BY DEF Link
  <1>5. q \in Seq(Skbs)
    BY <1>2, <1>3, AfterTyped
  <1>6. /\ skb' = [skb EXCEPT ![t] = NULL] /\ pc' = [pc EXCEPT ![t] = label]
        /\ UNCHANGED <<sock, pkt, call, held, out, mixed, torn, faulted>>
    BY DEF Link
  <1>7. label \in {"push", "dest"} /\ (label = "push" <=> k = Icmp)
    OBVIOUS
  <1> HIDE DEF k, label
  <1>8. TypeOK'
    BY <1>2, <1>4, <1>5, <1>6, <1>7 DEF TypeOK, Labels
  <1>9. Control'
    BY <1>1, <1>2, <1>6, <1>7 DEF TypeOK, Control, k
  <1> QED
    BY <1>8, <1>9

LEMMA HeaderTyped ==
  ASSUME TypeOK, Control, NEW t \in Threads, Header(t)
  PROVE  TypeOK' /\ Control'
  <1> DEFINE k == call[t].sk
             s == Head(wq[k])
             p == UdpHeader(pkt[s], sock[k])
  <1>1. pc[t] = "header" /\ wq[k] # <<>>
    BY DEF Header, At
  <1>2. k \in Socks /\ call[t] # NULL
    BY <1>1, CallTyped
  <1>3. s \in Skbs
    <2>1. wq[k] \in Seq(Skbs)
      BY <1>2 DEF TypeOK
    <2> HIDE DEF k
    <2> QED
      BY <1>1, <2>1
  <1>4. p \in Packets
    <2>1. pkt[s] \in Packets /\ sock[k] \in SockFields
      BY <1>2, <1>3 DEF TypeOK, SockFields
    <2> HIDE DEF s, k
    <2> QED
      BY <2>1, HeadersTyped
  <1>5. /\ pkt' = [pkt EXCEPT ![s] = p] /\ pc' = [pc EXCEPT ![t] = "push"]
        /\ UNCHANGED <<sock, wq, call, skb, held, out, mixed, torn, faulted>>
    BY DEF Header
  <1> HIDE DEF k, s, p
  <1>6. TypeOK'
    BY <1>3, <1>4, <1>5 DEF TypeOK, Labels
  <1>7. Control'
    BY <1>1, <1>2, <1>5 DEF TypeOK, Control
  <1> QED
    BY <1>6, <1>7

LEMMA PushTypes ==
  ASSUME TypeOK, Control, NEW t \in Threads, Push(t) \/ \E u \in Threads : PushSame(t, u)
  PROVE  TypeOK' /\ Control'
  <1> DEFINE k == call[t].sk
  <1>1. pc[t] = "push" /\ BeginList(t)
    BY DEF Push, PushSame, At
  <1>2. k \in Socks /\ call[t] # NULL
    BY <1>1, CallTyped
  <1>3. torn' \in BOOLEAN
    BY <1>1, BeginListTyped
  <1>4. \E s \in Skbs, q \in Seq(Skbs) :
          wq' = [wq EXCEPT ![k] = q] /\ skb' = [skb EXCEPT ![t] = s]
    <2>1. CASE Push(t)
      <3>1. wq[k] \in Seq(Skbs) /\ wq[k] # <<>>
        BY <1>2, <2>1 DEF TypeOK, Push
      <3>2. wq' = [wq EXCEPT ![k] = Tail(wq[k])] /\ skb' = [skb EXCEPT ![t] = Head(wq[k])]
        BY <2>1 DEF Push
      <3>3. Head(wq[k]) \in Skbs /\ Tail(wq[k]) \in Seq(Skbs)
        <4> HIDE DEF k
        <4> QED
          BY <3>1
      <3> QED
        BY <3>2, <3>3
    <2>2. ASSUME NEW u \in Threads, PushSame(t, u)
          PROVE  \E s \in Skbs, q \in Seq(Skbs) :
                   wq' = [wq EXCEPT ![k] = q] /\ skb' = [skb EXCEPT ![t] = s]
      <3>1. pc[u] = "unlink" /\ skb' = [skb EXCEPT ![t] = skb[u]] /\ wq' = wq
        BY <2>2 DEF PushSame
      <3>2. skb[u] \in Skbs
        BY <3>1, HandTyped
      <3>3. wq[k] \in Seq(Skbs) /\ wq' = [wq EXCEPT ![k] = wq[k]]
        BY <1>2, <3>1 DEF TypeOK
      <3> QED
        BY <3>1, <3>2, <3>3
    <2> QED
      BY <2>1, <2>2
  <1>5. PICK s \in Skbs, q \in Seq(Skbs) :
          wq' = [wq EXCEPT ![k] = q] /\ skb' = [skb EXCEPT ![t] = s]
    BY <1>4
  <1>6. pc' = [pc EXCEPT ![t] = "unlink"] /\ UNCHANGED <<sock, pkt, call, held, out, mixed, faulted>>
    BY DEF Push, PushSame
  <1>7. s # NULL
    BY NullAssumption
  <1> HIDE DEF k
  <1>8. TypeOK'
    BY <1>2, <1>3, <1>5, <1>6 DEF TypeOK, Labels
  <1>9. Control'
    BY <1>1, <1>2, <1>5, <1>6, <1>7 DEF TypeOK, Control
  <1> QED
    BY <1>8, <1>9

LEMMA UnlinkTyped ==
  ASSUME TypeOK, Control, NEW t \in Threads, Unlink(t)
  PROVE  TypeOK' /\ Control'
  <1> DEFINE k == call[t].sk
             s == skb[t]
             p == IpHeader(pkt[s], sock[k].rt)
  <1>1. pc[t] = "unlink"
    BY DEF Unlink, At
  <1>2. k \in Socks /\ call[t] # NULL
    BY <1>1, CallTyped
  <1>3. s \in Skbs /\ s # NULL
    BY <1>1, HandTyped
  <1>4. PICK q \in AfterUnlink(k, wq[k]) : wq' = [wq EXCEPT ![k] = q]
    BY DEF Unlink
  <1>5. q \in Seq(Skbs)
    BY <1>2, <1>3, AfterTyped
  <1>6. p \in Packets
    <2>1. pkt[s] \in Packets /\ sock[k] \in SockFields /\ sock[k].rt \in Hosts \cup {NULL}
      BY <1>2, <1>3 DEF TypeOK, SockFields
    <2> HIDE DEF s, k
    <2> QED
      BY <2>1, HeadersTyped
  <1>7. /\ pkt' = [pkt EXCEPT ![s] = p] /\ pc' = [pc EXCEPT ![t] = "output"]
        /\ UNCHANGED <<sock, call, skb, held, out, mixed, torn, faulted>>
    BY DEF Unlink
  <1> HIDE DEF k, s, p
  <1>8. TypeOK'
    BY <1>2, <1>3, <1>4, <1>5, <1>6, <1>7 DEF TypeOK, Labels
  <1>9. Control'
    BY <1>1, <1>2, <1>7 DEF TypeOK, Control
  <1> QED
    BY <1>8, <1>9

LEMMA SolicitTyped ==
  ASSUME TypeOK, Control, NEW t \in Threads, Solicit(t)
  PROVE  TypeOK' /\ Control'
  <1>1. /\ pc[t] = "output" /\ pc' = [pc EXCEPT ![t] = "hold"]
        /\ UNCHANGED <<sock, wq, call, skb, held, mixed, torn, faulted>>
    BY DEF Solicit, At
  <1>2. pkt' \in [Skbs -> Packets] /\ out' \subseteq Skbs
    <2>1. CASE CanAlloc /\ pkt' = [pkt EXCEPT ![NewSkb] = arp_create] /\ out' = out \cup {NewSkb}
      BY <2>1, NewTyped, ArpCreateIs DEF TypeOK, Framed
    <2>2. CASE UNCHANGED <<pkt, out>>
      BY <2>2 DEF TypeOK
    <2> QED
      BY <2>1, <2>2 DEF Solicit
  <1>3. TypeOK'
    BY <1>1, <1>2 DEF TypeOK, Labels
  <1>4. Control'
    BY <1>1 DEF TypeOK, Control
  <1> QED
    BY <1>3, <1>4

LEMMA LoopTyped ==
  ASSUME TypeOK, Control, ArpReply \/ \E s \in Skbs : Drain(s)
  PROVE  TypeOK' /\ Control'
  <1>1. UNCHANGED <<sock, wq, pc, call, skb, mixed, torn, faulted>>
    BY DEF ArpReply, Drain
  <1>2. pkt' \in [Skbs -> Packets] /\ out' \subseteq Skbs /\ held' \subseteq Skbs
    <2>1. CASE ArpReply
      BY <2>1, NewTyped, ArpCreateIs DEF ArpReply, TypeOK, Framed
    <2>2. ASSUME NEW s \in Skbs, Drain(s)
          PROVE  pkt' \in [Skbs -> Packets] /\ out' \subseteq Skbs /\ held' \subseteq Skbs
      <3> DEFINE p == EthHeader(pkt[s])
      <3>1. p \in Packets
        <4>1. pkt[s] \in Packets
          BY DEF TypeOK
        <4>2. [len |-> 0, rt |-> NULL, daddr |-> NULL, dport |-> 0] \in SockFields
          BY Words DEF SockFields
        <4> QED
          BY <4>1, <4>2, HeadersTyped
      <3>2. pkt' = [pkt EXCEPT ![s] = p] /\ out' = out \cup {s} /\ held' = held \ {s}
        BY <2>2 DEF Drain
      <3> HIDE DEF p
      <3> QED
        BY <3>1, <3>2 DEF TypeOK
    <2> QED
      BY <2>1, <2>2
  <1>3. TypeOK'
    BY <1>1, <1>2 DEF TypeOK
  <1>4. Control'
    BY <1>1 DEF Control
  <1> QED
    BY <1>3, <1>4

-----------------------------------------------------------------------------
(* Steps that move no packet *)

LEMMA BeginKeeps ==
  ASSUME IInv, NEW t \in Threads, NEW c \in Calls, Begin(t, c)
  PROVE  IInv'
  <1> USE DEF Begin
  <1>1. /\ TypeOK /\ Control /\ Served /\ Staged /\ Apart /\ Kept /\ Exclusive /\ OwnPackets
    BY DEF IInv
  <1>2. /\ pc'[t] = "cork" /\ call'[t] = c /\ c # NULL /\ skb[t] = NULL
        /\ \A u \in Threads : u # t => pc'[u] = pc[u] /\ call'[u] = call[u]
    BY <1>1, NullAssumption DEF TypeOK, Control
  <1>3. mixed \subseteq mixed' /\ mixed' \subseteq Threads
    BY <1>1 DEF TypeOK, Using
  <1>4. TypeOK' /\ Control'
    BY <1>1, BeginTyped
  <1>6. Served'
    <2>1. ASSUME NEW k \in Socks PROVE Pending(k)' = Pending(k)
      BY <1>2 DEF Pending, Using
    <2> QED
      BY <1>1, <2>1, MatchedFrame
  <1>7. Staged' /\ Apart' /\ Kept'
    <2>1. Staged'
      BY <1>1, <1>2 DEF Staged
    <2> QED
      BY <1>1, <2>1 DEF Apart, Kept, Free
  <1>8. Exclusive'
    <2> SUFFICES ASSUME NEW u \in Threads, NEW v \in Threads, u # v, call'[u] # NULL, call'[v] # NULL,
                        call'[u].sk = call'[v].sk
                 PROVE  u \in mixed'
      BY DEF Exclusive
    <2>1. CASE u # t /\ v # t
      BY <1>1, <1>2, <1>3, <2>1 DEF Exclusive
    <2>2. CASE u = t
      BY <1>2, <2>2 DEF Using
    <2>3. CASE v = t
      BY <1>2, <2>3 DEF Using
    <2> QED
      BY <2>1, <2>2, <2>3
  <1>9. OwnPackets'
    <2> SUFFICES ASSUME NEW u \in Threads, u \notin mixed' PROVE Own(u)'
      BY DEF OwnPackets
    <2>1. CASE u = t
      BY <1>2, <2>1 DEF Own
    <2>2. CASE u # t
      <3>1. Own(u)
        BY <1>1, <1>3 DEF OwnPackets
      <3>2. First(u)' = First(u)
        BY <1>2, <2>2 DEF First
      <3> QED
        BY <1>2, <2>2, <3>1, <3>2, OwnFrame
    <2> QED
      BY <2>1, <2>2
  <1> QED
    BY <1>4, <1>6, <1>7, <1>8, <1>9 DEF IInv

LEMMA SendtoKeeps ==
  ASSUME IInv, NEW t \in Apps, NEW k \in Udps, NEW m \in Sends, Sendto(t, k, m)
  PROVE  IInv'
  <1> DEFINE c == [sk |-> k, host |-> m.host, port |-> m.port, len |-> m.len]
  <1>1. m.host \in Hosts /\ m.port \in uint16 /\ m.len \in Nat
    BY SendsAssumption
  <1>2. c \in Calls
    BY <1>1 DEF Calls, Socks
  <1> QED
    BY <1>2, BeginKeeps DEF Sendto, Threads

LEMMA EchoKeeps ==
  ASSUME IInv, NEW m \in Echos, Echo(m)
  PROVE  IInv'
  <1> DEFINE c == [sk |-> Icmp, host |-> m.host, port |-> 0, len |-> m.len]
  <1>1. m.host \in Hosts /\ m.len \in Nat
    BY SendsAssumption
  <1>2. c \in Calls
    BY <1>1, Words DEF Calls, Socks
  <1> QED
    BY <1>2, BeginKeeps DEF Echo, Threads
LEMMA CorkKeeps ==
  ASSUME IInv, NEW t \in Threads, Cork(t)
  PROVE  IInv'
  <1> DEFINE c == call[t]
             k == c.sk
             n == IF k = Icmp THEN sock[k].len ELSE (c.len + 8) % U16
  <1>1. /\ TypeOK /\ Control /\ Served /\ Staged /\ Apart /\ Kept /\ Exclusive /\ OwnPackets
    BY DEF IInv
  <1>2. pc[t] = "cork"
    BY DEF Cork, At
  <1>3. c \in Calls /\ c # NULL /\ k \in Socks /\ c.host \in Hosts /\ c.len \in Nat
    BY <1>2, InCall
  <1>5. /\ sock' = [sock EXCEPT ![k].len = n, ![k].rt = c.host]
        /\ pc' = [pc EXCEPT ![t] = "append"]
        /\ UNCHANGED <<wq, pkt, call, skb, held, out, mixed, torn, faulted>>
    BY DEF Cork
  <1>6. /\ sock'[k].rt = c.host /\ (k # Icmp => sock'[k].len = (c.len + 8) % U16)
        /\ \A l \in Socks : l # k => sock'[l] = sock[l]
    <2>1. k # Icmp => n = (c.len + 8) % U16
      OBVIOUS
    <2> HIDE DEF n
    <2> QED
      BY <1>1, <1>3, <1>5, <2>1 DEF TypeOK
  <1> HIDE DEF n
  <1> HIDE DEF c, k
  <1>8. /\ pc'[t] = "append"
        /\ \A u \in Threads : u # t => pc'[u] = pc[u]
    BY <1>1, <1>5 DEF TypeOK
  <1>9. TypeOK' /\ Control'
    BY <1>1, CorkTyped
  <1>11. Served'
    <2>1. ASSUME NEW l \in Socks PROVE Pending(l)' = Pending(l)
      BY <1>2, <1>5, <1>8 DEF Pending, Using
    <2> QED
      BY <1>1, <1>5, <2>1, MatchedFrame
  <1>12. Staged' /\ Apart' /\ Kept' /\ Exclusive'
    <2>1. Staged'
      BY <1>1, <1>2, <1>5, <1>8 DEF Staged
    <2> QED
      BY <1>1, <1>5, <2>1 DEF Apart, Kept, Free, Exclusive
  <1>13. OwnPackets'
    <2> SUFFICES ASSUME NEW u \in Threads, u \notin mixed' PROVE Own(u)'
      BY DEF OwnPackets
    <2>1. CASE u = t
      BY <1>5, <1>6, <1>8, <2>1 DEF Own, Corked, c, k
    <2>2. CASE u # t
      <3>1. Own(u) /\ u \notin mixed
        BY <1>1, <1>5 DEF OwnPackets
      <3>2. First(u)' = First(u)
        BY <1>5 DEF First
      <3>3. pc[u] # "idle" => sock'[call[u].sk] = sock[call[u].sk]
        BY <1>2, <1>6, <2>2, <3>1, InCall, OwnSocket DEF c, k
      <3>4. call'[u] = call[u] /\ pc'[u] = pc[u] /\ skb'[u] = skb[u] /\ pkt'[skb[u]] = pkt[skb[u]]
        BY <1>5, <1>8, <2>2
      <3> QED
        BY <3>1, <3>2, <3>3, <3>4, OwnFrame
    <2> QED
      BY <2>1, <2>2
  <1> QED
    BY <1>9, <1>11, <1>12, <1>13 DEF IInv

LEMMA SetDestKeeps ==
  ASSUME IInv, NEW t \in Threads, SetDest(t)
  PROVE  IInv'
  <1> DEFINE c == call[t]
             k == c.sk
  <1>1. /\ TypeOK /\ Control /\ Served /\ Staged /\ Apart /\ Kept /\ Exclusive /\ OwnPackets
    BY DEF IInv
  <1>2. pc[t] = "dest" /\ k # Icmp
    BY <1>1 DEF SetDest, At, Control
  <1>3. c \in Calls /\ c # NULL /\ k \in Socks /\ c.host \in Hosts /\ c.port \in uint16
    BY <1>2, InCall
  <1>4. /\ sock' = [sock EXCEPT ![k].daddr = c.host, ![k].dport = c.port]
        /\ pc' = [pc EXCEPT ![t] = "header"]
        /\ UNCHANGED <<wq, pkt, call, skb, held, out, mixed, torn, faulted>>
    BY DEF SetDest
  <1>5. /\ sock'[k].daddr = c.host /\ sock'[k].dport = c.port
        /\ sock'[k].rt = sock[k].rt /\ sock'[k].len = sock[k].len
        /\ \A l \in Socks : l # k => sock'[l] = sock[l]
    BY <1>1, <1>3, <1>4 DEF TypeOK
  <1> HIDE DEF c, k
  <1>7. /\ pc'[t] = "header"
        /\ \A u \in Threads : u # t => pc'[u] = pc[u]
    BY <1>1, <1>4 DEF TypeOK
  <1>8. TypeOK' /\ Control'
    BY <1>1, SetDestTyped
  <1>10. Served'
    <2>1. ASSUME NEW l \in Socks PROVE Pending(l)' = Pending(l)
      BY <1>2, <1>4, <1>7 DEF Pending, Using
    <2> QED
      BY <1>1, <1>4, <2>1, MatchedFrame
  <1>11. Staged' /\ Apart' /\ Kept' /\ Exclusive'
    <2>1. Staged'
      BY <1>1, <1>2, <1>4, <1>7 DEF Staged
    <2> QED
      BY <1>1, <1>4, <2>1 DEF Apart, Kept, Free, Exclusive
  <1>12. OwnPackets'
    <2> SUFFICES ASSUME NEW u \in Threads, u \notin mixed' PROVE Own(u)'
      BY DEF OwnPackets
    <2>1. Own(u) /\ u \notin mixed
      BY <1>1, <1>4 DEF OwnPackets
    <2>2. CASE u = t
      BY <1>2, <1>4, <1>5, <1>7, <2>1, <2>2, ZenonT(60) DEF Own, Corked, First, c, k
    <2>3. CASE u # t
      <3>1. First(u)' = First(u)
        BY <1>4 DEF First
      <3>2. pc[u] # "idle" => sock'[call[u].sk] = sock[call[u].sk]
        BY <1>2, <1>5, <2>1, <2>3, InCall, OwnSocket DEF c, k
      <3>3. call'[u] = call[u] /\ pc'[u] = pc[u] /\ skb'[u] = skb[u] /\ pkt'[skb[u]] = pkt[skb[u]]
        BY <1>4, <1>7, <2>3
      <3> QED
        BY <2>1, <3>1, <3>2, <3>3, OwnFrame
    <2> QED
      BY <2>2, <2>3
  <1> QED
    BY <1>8, <1>10, <1>11, <1>12 DEF IInv

\* A call that ends where it has no packet on a queue.
LEMMA ReturnKeeps ==
  ASSUME IInv, NEW t \in Threads, pc[t] \in {"append", "output", "hold"}, Return(t), UNCHANGED <<sock, wq>>
  PROVE  /\ pc' \in [Threads -> Labels] /\ call' \in [Threads -> Calls \cup {NULL}]
         /\ skb' \in [Threads -> Skbs \cup {NULL}] /\ mixed' \subseteq Threads
         /\ Control' /\ Served' /\ Exclusive'
         /\ pc'[t] = "idle" /\ call'[t] = NULL /\ skb'[t] = NULL
         /\ \A u \in Threads : u # t => pc'[u] = pc[u] /\ call'[u] = call[u] /\ skb'[u] = skb[u]
         /\ \A u \in Threads : u # t /\ u \notin mixed' => u \notin mixed
  <1>1. TypeOK /\ Control /\ Served /\ Exclusive
    BY DEF IInv
  <1>3. /\ pc' \in [Threads -> Labels] /\ call' \in [Threads -> Calls \cup {NULL}]
        /\ skb' \in [Threads -> Skbs \cup {NULL}] /\ mixed' \subseteq Threads
        /\ Control'
        /\ pc'[t] = "idle" /\ call'[t] = NULL /\ skb'[t] = NULL
        /\ \A u \in Threads : u # t => pc'[u] = pc[u] /\ call'[u] = call[u] /\ skb'[u] = skb[u]
        /\ \A u \in Threads : u # t /\ u \notin mixed' => u \notin mixed
    BY <1>1, ReturnTyped
  <1>5. Served'
    <2>1. ASSUME NEW k \in Socks PROVE Pending(k)' = Pending(k)
      BY <1>3 DEF Pending, Using
    <2> QED
      BY <1>1, <2>1, MatchedFrame
  <1>6. Exclusive'
    BY <1>1, <1>3 DEF Exclusive
  <1> QED
    BY <1>3, <1>5, <1>6

LEMMA AppendFailsKeeps ==
  ASSUME IInv, NEW t \in Threads, AppendFails(t)
  PROVE  IInv'
  <1>1. /\ TypeOK /\ Control /\ Staged /\ Apart /\ Kept /\ OwnPackets
    BY DEF IInv
  <1>2. pc[t] = "append" /\ Return(t) /\ UNCHANGED <<sock, wq, pkt, held, out, torn, faulted>>
    BY DEF AppendFails, At
  <1>3. /\ pc' \in [Threads -> Labels] /\ call' \in [Threads -> Calls \cup {NULL}]
        /\ skb' \in [Threads -> Skbs \cup {NULL}] /\ mixed' \subseteq Threads
        /\ Control' /\ Served' /\ Exclusive'
        /\ pc'[t] = "idle" /\ call'[t] = NULL /\ skb'[t] = NULL
        /\ \A u \in Threads : u # t => pc'[u] = pc[u] /\ call'[u] = call[u] /\ skb'[u] = skb[u]
        /\ \A u \in Threads : u # t /\ u \notin mixed' => u \notin mixed
    BY <1>2, ReturnKeeps
  <1>4. TypeOK'
    BY <1>1, ReturnsTyped
  <1>5. skb' = skb
    BY <1>1, <1>2, <1>3 DEF Return, Control, TypeOK
  <1>6. Staged' /\ Apart' /\ Kept'
    <2>1. Staged'
      BY <1>1, <1>2, <1>3 DEF Staged
    <2> QED
      BY <1>1, <1>2, <1>5, <2>1 DEF Apart, Kept, Free
  <1>7. OwnPackets'
    <2> SUFFICES ASSUME NEW u \in Threads, u \notin mixed' PROVE Own(u)'
      BY DEF OwnPackets
    <2>1. CASE u = t
      BY <1>3, <2>1 DEF Own
    <2>2. CASE u # t
      <3>1. Own(u) /\ call'[u] = call[u] /\ pc'[u] = pc[u] /\ skb'[u] = skb[u]
        BY <1>1, <1>3, <2>2 DEF OwnPackets
      <3>2. First(u)' = First(u)
        BY <1>2, <3>1 DEF First
      <3> QED
        BY <1>2, <3>1, <3>2, OwnFrame
    <2> QED
      BY <2>1, <2>2
  <1> QED
    BY <1>3, <1>4, <1>6, <1>7 DEF IInv

-----------------------------------------------------------------------------
(* Steps that move a packet *)

\* Packets at different stages, and one alloc_skb has not handed out, are different.
LEMMA StagesDiffer ==
  ASSUME NEW p
  PROVE  /\ ~ (Queued(p) /\ Ready(p)) /\ ~ (Queued(p) /\ Framed(p)) /\ ~ (Ready(p) /\ Framed(p))
         /\ p = NoPacket => ~ Queued(p) /\ ~ Ready(p) /\ ~ Framed(p)
  <1>1. Queued(p) \/ Ready(p) \/ Framed(p) => p.buf.end \in Nat /\ p.buf.end >= 42 /\ p.buf.data \in Nat
    BY DEF Queued, Ready, Framed, Clean, Buffers
  <1>2. Queued(p) => p.buf.data > 14
    BY DEF Queued
  <1>3. Ready(p) => p.buf.data = 14
    BY DEF Ready
  <1>4. Framed(p) => p.buf.data = 0
    BY DEF Framed
  <1> QED
    BY <1>1, <1>2, <1>3, <1>4, NoPacketType

\* The buffer alloc_skb hands out is in none of the places.
LEMMA NewIsUnused ==
  ASSUME IInv, CanAlloc
  PROVE  /\ NewSkb \in Skbs /\ pkt[NewSkb] = NoPacket
         /\ \A k \in Socks : \A i \in 1 .. Len(wq[k]) : wq[k][i] # NewSkb
         /\ \A t \in Threads : skb[t] # NewSkb
         /\ NewSkb \notin held /\ NewSkb \notin out
  <1>1. NewSkb \in Skbs /\ Free(NewSkb)
    BY DEF CanAlloc, NewSkb
  <1>2. pkt[NewSkb] = NoPacket /\ NewSkb # NULL
    BY <1>1, NullAssumption DEF Free
  <1> HIDE DEF NewSkb
  <1>3. Staged /\ Control /\ TypeOK
    BY DEF IInv
  <1>4. ASSUME NEW t \in Threads PROVE skb[t] # NewSkb
    <2>1. skb[t] # NULL => Queued(pkt[skb[t]]) \/ Ready(pkt[skb[t]])
      BY <1>3 DEF Staged, Control
    <2> QED
      BY <1>2, <2>1, StagesDiffer
  <1> QED
    BY <1>1, <1>2, <1>3, <1>4, StagesDiffer DEF Staged

\* Where packets are, as far as the first on a queue and one in hand go.
LEMMA PlacesDiffer ==
  ASSUME IInv
  PROVE  /\ \A k \in Socks : \A i \in 1 .. Len(wq[k]) :
              /\ wq[k][i] \in Skbs /\ wq[k][i] \notin held /\ wq[k][i] \notin out
              /\ \A t \in Threads : skb[t] # wq[k][i]
         /\ \A t \in Threads : skb[t] # NULL => skb[t] \in Skbs /\ skb[t] \notin held /\ skb[t] \notin out
         /\ \A s \in held : s \in Skbs /\ s \notin out
  <1>1. TypeOK /\ Control /\ Staged /\ Apart
    BY DEF IInv
  <1>2. ASSUME NEW k \in Socks, NEW i \in 1 .. Len(wq[k])
        PROVE  /\ wq[k][i] \in Skbs /\ Queued(pkt[wq[k][i]])
               /\ \A t \in Threads : skb[t] # wq[k][i]
    BY <1>1 DEF TypeOK, Staged, Apart
  <1>3. ASSUME NEW t \in Threads, skb[t] # NULL
        PROVE  skb[t] \in Skbs /\ skb[t] \notin held /\ (Queued(pkt[skb[t]]) \/ Ready(pkt[skb[t]]))
    BY <1>1, <1>3 DEF TypeOK, Control, Apart, Staged
  <1>4. \A s \in held : s \in Skbs /\ Ready(pkt[s])
    BY <1>1 DEF TypeOK, Staged
  <1>5. \A s \in out : Framed(pkt[s])
    BY <1>1 DEF Staged
  <1> QED
    BY <1>2, <1>3, <1>4, <1>5, StagesDiffer

\* A thread that has yet to take a packet finds one.
LEMMA HeadIs ==
  ASSUME IInv, NEW t \in Threads, pc[t] \in {"dest", "header", "push"}
  PROVE  /\ call[t].sk \in Socks /\ t \in Pending(call[t].sk)
         /\ Len(wq[call[t].sk]) \in Nat /\ Len(wq[call[t].sk]) >= 1
         /\ Head(wq[call[t].sk]) = wq[call[t].sk][1]
         /\ wq[call[t].sk][1] \in Skbs
  <1>1. call[t].sk \in Socks /\ t \in Pending(call[t].sk)
    BY InCall DEF Pending, Using
  <1>2. wq[call[t].sk] \in Seq(Skbs) /\ Matched(wq[call[t].sk], Pending(call[t].sk))
    BY <1>1, MatchedAt DEF IInv, TypeOK
  <1> QED
    BY <1>1, <1>2, MatchedHead

\* A new packet in hand, that skb_queue_tail is about to link.
LEMMA AppendKeeps ==
  ASSUME IInv, NEW t \in Threads, AppendData(t)
  PROVE  IInv'
  <1> DEFINE c == call[t]
             k == c.sk
             s == NewSkb
             p == IF k = Icmp THEN EchoData(c) ELSE UdpData(c)
  <1>1. /\ TypeOK /\ Control /\ Served /\ Staged /\ Apart /\ Kept /\ Exclusive /\ OwnPackets
    BY DEF IInv
  <1>2. pc[t] = "append" /\ CanAlloc
    BY DEF AppendData, At
  <1>3. c \in Calls /\ k \in Socks
    BY <1>2, InCall
  <1>4. Queued(p) /\ HasBody(p, c)
    BY <1>3, EchoDataIs, UdpDataIs
  <1>5. /\ s \in Skbs
        /\ \A l \in Socks : \A i \in 1 .. Len(wq[l]) : wq[l][i] # s
        /\ \A u \in Threads : skb[u] # s
        /\ s \notin held /\ s \notin out
    BY <1>2, NewIsUnused
  <1>6. /\ pkt' = [pkt EXCEPT ![s] = p]
        /\ skb' = [skb EXCEPT ![t] = s]
        /\ pc' = [pc EXCEPT ![t] = "link"]
        /\ UNCHANGED <<sock, wq, call, held, out, mixed, faulted>>
    BY DEF AppendData
  <1> HIDE DEF c, k, s, p
  <1>7. pkt'[s] = p /\ \A r \in Skbs : r # s => pkt'[r] = pkt[r]
    BY <1>1, <1>5, <1>6 DEF TypeOK
  <1>8. /\ pc'[t] = "link" /\ skb'[t] = s /\ skb[t] = NULL
        /\ \A u \in Threads : u # t => pc'[u] = pc[u] /\ skb'[u] = skb[u]
    BY <1>1, <1>2, <1>6 DEF TypeOK, Control
  <1>9. TypeOK' /\ Control'
    BY <1>1, AppendTyped
  <1>10. Served'
    <2>1. ASSUME NEW l \in Socks PROVE Pending(l)' = Pending(l)
      BY <1>2, <1>6, <1>8 DEF Pending, Using
    <2> QED
      BY <1>1, <1>6, <2>1, MatchedFrame
  <1>11. /\ \A l \in Socks : \A i \in 1 .. Len(wq[l]) : pkt'[wq[l][i]] = pkt[wq[l][i]]
         /\ \A u \in Threads : skb[u] # NULL => pkt'[skb[u]] = pkt[skb[u]]
    BY <1>5, <1>7, PlacesDiffer
  <1>12. Staged'
    <2>1. \A l \in Socks : \A i \in 1 .. Len(wq[l]) : Queued(pkt'[wq[l][i]])
      BY <1>1, <1>11 DEF Staged
    <2>2. ASSUME NEW u \in Threads
          PROVE  /\ pc'[u] \in {"link", "unlink"} => Queued(pkt'[skb'[u]])
                 /\ pc'[u] \in {"output", "hold"} => Ready(pkt'[skb'[u]])
      <3>1. CASE u = t
        BY <1>4, <1>7, <1>8, <3>1
      <3>2. CASE u # t
        BY <1>1, <1>8, <1>11, <3>2 DEF Staged, Control
      <3> QED
        BY <3>1, <3>2
    <2>3. (\A r \in held : Ready(pkt'[r])) /\ (\A r \in out : Framed(pkt'[r]))
      BY <1>1, <1>5, <1>7 DEF Staged, TypeOK
    <2> QED
      BY <1>6, <2>1, <2>2, <2>3 DEF Staged
  <1>13. Apart'
    <2>1. \A u, v \in Threads : skb'[u] # NULL /\ skb'[u] = skb'[v] => u = v
      BY <1>1, <1>5, <1>8 DEF Apart
    <2>2. \A u \in Threads : skb'[u] \notin held
      BY <1>1, <1>5, <1>8 DEF Apart
    <2>3. \A u \in Threads, l \in Socks : \A i \in 1 .. Len(wq[l]) : wq[l][i] # skb'[u]
      BY <1>1, <1>5, <1>8 DEF Apart
    <2> QED
      BY <1>1, <1>6, <2>1, <2>2, <2>3 DEF Apart
  <1>14. Kept'
    <2> SUFFICES ASSUME NEW r \in Skbs
                 PROVE  \/ pkt'[r] = NoPacket
                        \/ \E l \in Socks : \E i \in 1 .. Len(wq[l]) : wq[l][i] = r
                        \/ \E u \in Threads : skb'[u] = r
                        \/ r \in held \cup out
      BY <1>6 DEF Kept, Free
    <2>1. CASE r = s
      BY <1>8, <2>1
    <2>2. CASE r # s
      <3>1. pkt'[r] = pkt[r] /\ \A u \in Threads : skb[u] = r => skb'[u] = r
        BY <1>7, <1>8, <2>2, NullAssumption
      <3> QED
        BY <1>1, <3>1 DEF Kept, Free
    <2> QED
      BY <2>1, <2>2
  <1>15. Exclusive'
    BY <1>1, <1>6 DEF Exclusive
  <1>16. OwnPackets'
    <2> SUFFICES ASSUME NEW u \in Threads, u \notin mixed' PROVE Own(u)'
      BY DEF OwnPackets
    <2>1. Own(u) /\ u \notin mixed
      BY <1>1, <1>6 DEF OwnPackets
    <2>2. CASE u = t
      <3>1. Corked(t)'
        BY <1>2, <1>6, <2>1, <2>2 DEF Own, Corked
      <3> QED
        BY <1>4, <1>6, <1>7, <1>8, <2>2, <3>1 DEF Own, c
    <2>3. CASE u # t
      <3>1. pc[u] \in {"dest", "header", "push"} => First(u)' = First(u)
        <4> SUFFICES ASSUME pc[u] \in {"dest", "header", "push"} PROVE First(u)' = First(u)
          OBVIOUS
        <4>1. call[u].sk \in Socks /\ 1 \in 1 .. Len(wq[call[u].sk])
          BY HeadIs
        <4> QED
          BY <1>6, <1>11, <4>1 DEF First
      <3>2. pc[u] \in {"link", "unlink", "output"} => pkt'[skb[u]] = pkt[skb[u]]
        BY <1>1, <1>11 DEF Control
      <3>3. call'[u] = call[u] /\ pc'[u] = pc[u] /\ skb'[u] = skb[u] /\ sock'[call[u].sk] = sock[call[u].sk]
        BY <1>6, <1>8, <2>3
      <3> QED
        BY <2>1, <3>1, <3>2, <3>3, OwnFrame
    <2> QED
      BY <2>2, <2>3
  <1> QED
    BY <1>9, <1>10, <1>12, <1>13, <1>14, <1>15, <1>16 DEF IInv

LEMMA QueuesApart ==
  ASSUME Apart, NEW k \in Socks, NEW l \in Socks,
         NEW i \in 1 .. Len(wq[k]), NEW j \in 1 .. Len(wq[l])
  PROVE  wq[k][i] = wq[l][j] => k = l /\ i = j
  BY DEF Apart

\* skb_queue_tail on a queue that is not torn.
LEMMA LinkKeeps ==
  ASSUME IInv, Untorn, NEW t \in Threads, Link(t)
  PROVE  IInv'
  <1> DEFINE c == call[t]
             k == c.sk
             s == skb[t]
             q == wq[k]
             n == Len(q)
             label == IF k = Icmp THEN "push" ELSE "dest"
  <1>1. /\ TypeOK /\ Control /\ Served /\ Staged /\ Apart /\ Kept /\ Exclusive /\ OwnPackets
    BY DEF IInv
  <1>2. pc[t] = "link"
    BY DEF Link, At
  <1>3. c \in Calls /\ k \in Socks
    BY <1>2, InCall
  <1>5. /\ s \in Skbs /\ s # NULL /\ Queued(pkt[s])
        /\ \A l \in Socks : \A i \in 1 .. Len(wq[l]) : wq[l][i] # s
        /\ \A u \in Threads : u # t => skb[u] # s
    BY <1>1, <1>2, HandTyped DEF Apart, Staged
  <1>6. /\ wq' = [wq EXCEPT ![k] = Append(q, s)]
        /\ skb' = [skb EXCEPT ![t] = NULL]
        /\ pc' = [pc EXCEPT ![t] = label]
        /\ UNCHANGED <<sock, pkt, call, held, out, mixed, torn, faulted>>
    <2>1. AfterLink(q, s) = {Append(q, s)}
      BY Zenon DEF AfterLink, Untorn
    <2> QED
      BY <2>1 DEF Link
  <1>7. q \in Seq(Skbs) /\ n \in Nat
    BY <1>1, <1>3 DEF TypeOK
  <1>l. label \in {"push", "dest"} /\ (label = "push" <=> k = Icmp)
    OBVIOUS
  <1> HIDE DEF c, k, s, q, n, label
  <1>8. /\ wq' \in [Socks -> Seq(Skbs)]
        /\ wq'[k] = Append(q, s)
        /\ \A l \in Socks : l # k => wq'[l] = wq[l]
    BY <1>1, <1>3, <1>5, <1>6, <1>7 DEF TypeOK
  <1>9. /\ Len(wq'[k]) = n + 1 /\ wq'[k][n + 1] = s
        /\ \A i \in 1 .. n : wq'[k][i] = wq[k][i] /\ i \in 1 .. n + 1
        /\ \A i \in 1 .. n + 1 : i = n + 1 \/ i \in 1 .. n
    BY <1>5, <1>7, <1>8 DEF q, n
  <1>11. /\ pc'[t] = label /\ skb'[t] = NULL
         /\ \A u \in Threads : u # t => pc'[u] = pc[u] /\ skb'[u] = skb[u]
    BY <1>1, <1>6 DEF TypeOK
  <1>12. TypeOK' /\ Control'
    BY <1>1, LinkTyped
  <1>14. Served'
    <2>1. ASSUME NEW l \in Socks PROVE Matched(wq'[l], Pending(l)')
      <3>1. wq[l] \in Seq(Skbs) /\ Matched(wq[l], Pending(l))
        BY <1>1, MatchedAt DEF TypeOK
      <3>2. CASE l = k
        <4>1. Pending(l)' = Pending(l) \cup {t} /\ t \notin Pending(l)
          BY <1>2, <1>6, <1>11, <1>l, <3>2, InCall DEF Pending, Using, c, k
        <4>2. wq'[l] = Append(wq[l], s)
          BY <1>8, <3>2 DEF q
        <4>3. Matched(Append(wq[l], s), Pending(l) \cup {t})
          BY <1>5, <3>1, <4>1, MatchedAppend
        <4> QED
          BY <4>1, <4>2, <4>3
      <3>3. CASE l # k
        <4>1. Pending(l)' = Pending(l)
          BY <1>2, <1>6, <1>11, <3>3 DEF Pending, Using, c, k
        <4> QED
          BY <1>8, <3>1, <3>3, <4>1
      <3> QED
        BY <3>2, <3>3
    <2> QED
      BY <2>1, MatchedAll
  <1>0. ASSUME NEW l \in Socks, NEW i \in 1 .. Len(wq'[l])
        PROVE  \/ l = k /\ i = n + 1 /\ wq'[l][i] = s
               \/ i \in 1 .. Len(wq[l]) /\ wq'[l][i] = wq[l][i]
    BY <1>8, <1>9 DEF q, n
  <1>15. Staged'
    <2>1. ASSUME NEW l \in Socks, NEW i \in 1 .. Len(wq'[l]) PROVE Queued(pkt[wq'[l][i]])
      BY <1>0, <1>1, <1>5 DEF Staged
    <2>2. ASSUME NEW u \in Threads
          PROVE  /\ pc'[u] \in {"link", "unlink"} => Queued(pkt[skb'[u]])
                 /\ pc'[u] \in {"output", "hold"} => Ready(pkt[skb'[u]])
      BY <1>1, <1>11, <1>l DEF Staged
    <2> QED
      BY <1>1, <1>6, <2>1, <2>2 DEF Staged
  <1>16. Apart'
    <2>1. ASSUME NEW l \in Socks, NEW m \in Socks,
                 NEW i \in 1 .. Len(wq'[l]), NEW j \in 1 .. Len(wq'[m]), wq'[l][i] = wq'[m][j]
          PROVE  l = m /\ i = j
      <3>1. \/ l = k /\ i = n + 1 /\ wq'[l][i] = s
            \/ i \in 1 .. Len(wq[l]) /\ wq'[l][i] = wq[l][i] /\ wq[l][i] # s
        BY <1>0, <1>5
      <3>2. \/ m = k /\ j = n + 1 /\ wq'[m][j] = s
            \/ j \in 1 .. Len(wq[m]) /\ wq'[m][j] = wq[m][j] /\ wq[m][j] # s
        BY <1>0, <1>5
      <3>3. CASE wq'[l][i] = s
        BY <2>1, <3>1, <3>2, <3>3
      <3>4. CASE wq'[l][i] # s
        <4>1. /\ i \in 1 .. Len(wq[l]) /\ wq'[l][i] = wq[l][i]
              /\ j \in 1 .. Len(wq[m]) /\ wq'[m][j] = wq[m][j]
          BY <2>1, <3>1, <3>2, <3>4
        <4>2. wq[l][i] = wq[m][j]
          BY <2>1, <4>1
        <4>3. wq[l][i] = wq[m][j] => l = m /\ i = j
          BY <1>1, <4>1, QueuesApart
        <4> QED
          BY <4>2, <4>3
      <3> QED
        BY <3>3, <3>4
    <2>2. \A u, v \in Threads : skb'[u] # NULL /\ skb'[u] = skb'[v] => u = v
      BY <1>1, <1>11 DEF Apart
    <2>3. \A u \in Threads : skb'[u] \notin held
      BY <1>1, <1>11, NullAssumption DEF Apart, TypeOK
    <2>4. ASSUME NEW u \in Threads, NEW l \in Socks, NEW i \in 1 .. Len(wq'[l])
          PROVE  wq'[l][i] # skb'[u]
      <3>1. wq'[l][i] # NULL
        BY <1>8, NullAssumption
      <3> QED
        BY <1>0, <1>1, <1>5, <1>11, <3>1 DEF Apart
    <2> QED
      BY <1>6, <2>1, <2>2, <2>3, <2>4 DEF Apart
  <1>17. Kept'
    <2> SUFFICES ASSUME NEW r \in Skbs
                 PROVE  \/ pkt[r] = NoPacket
                        \/ \E l \in Socks : \E i \in 1 .. Len(wq'[l]) : wq'[l][i] = r
                        \/ \E u \in Threads : skb'[u] = r
                        \/ r \in held \cup out
      BY <1>6 DEF Kept, Free
    <2>1. CASE r = s
      <3>1. n + 1 \in 1 .. Len(wq'[k])
        BY <1>7, <1>9
      <3> QED
        BY <1>3, <1>9, <2>1, <3>1
    <2>2. ASSUME NEW l \in Socks, NEW i \in 1 .. Len(wq[l]), wq[l][i] = r
          PROVE  i \in 1 .. Len(wq'[l]) /\ wq'[l][i] = r
      BY <1>8, <1>9, <2>2 DEF q, n
    <2>3. r # s => \A u \in Threads : skb[u] = r => skb'[u] = r
      BY <1>11 DEF s
    <2> QED
      BY <1>1, <2>1, <2>2, <2>3 DEF Kept, Free
  <1>18. Exclusive'
    BY <1>1, <1>6 DEF Exclusive
  <1>19. OwnPackets'
    <2> SUFFICES ASSUME NEW u \in Threads, u \notin mixed' PROVE Own(u)'
      BY DEF OwnPackets
    <2>1. Own(u) /\ u \notin mixed
      BY <1>1, <1>6 DEF OwnPackets
    <2>2. CASE u = t
      <3>1. Pending(k) = {}
        <4>1. ASSUME NEW v \in Pending(k) PROVE FALSE
          <5>1. v \in Threads /\ call[v] # NULL /\ call[v].sk = k /\ v # t
            BY <1>2 DEF Pending, Using
          <5> QED
            BY <1>1, <1>2, <2>1, <2>2, <5>1, InCall DEF Exclusive, c, k
        <4> QED
          BY <4>1
      <3>2. n = 0
        BY <1>1, <1>3, <1>7, <3>1, MatchedAt, MatchedNone DEF q, n
      <3>3. First(t)' = pkt[s]
        BY <1>6, <1>9, <3>2 DEF First, c, k
      <3>4. Corked(t)' /\ HasBody(pkt[s], c)
        BY <1>2, <1>6, <2>1, <2>2 DEF Own, Corked, c, s
      <3>5. HasBody(First(t)', c)
        BY <3>3, <3>4
      <3>6. Corked(t)' /\ HasBody(First(t)', call'[t])
        BY <1>6, <3>4, <3>5 DEF c
      <3>7. k = Icmp => pc'[t] = "push" /\ call'[t].sk = Icmp
        BY <1>6, <1>11, <1>l DEF c, k
      <3> HIDE DEF First, Corked
      <3> QED
        BY <1>11, <1>l, <2>2, <3>6, <3>7 DEF Own
    <2>3. CASE u # t
      <3>1. pc[u] \in {"dest", "header", "push"} => First(u)' = First(u)
        <4> SUFFICES ASSUME pc[u] \in {"dest", "header", "push"} PROVE First(u)' = First(u)
          OBVIOUS
        <4>1. call[u].sk \in Socks /\ call[u].sk # k
          BY <1>2, <2>1, <2>3, InCall, OwnSocket DEF c, k
        <4> QED
          BY <1>6, <1>8, <4>1 DEF First
      <3>2. call'[u] = call[u] /\ pc'[u] = pc[u] /\ skb'[u] = skb[u] /\ sock' = sock /\ pkt' = pkt
        BY <1>6, <1>11, <2>3
      <3> QED
        BY <2>1, <3>1, <3>2, OwnFrame
    <2> QED
      BY <2>2, <2>3
  <1> QED
    BY <1>12, <1>14, <1>15, <1>16, <1>17, <1>18, <1>19 DEF IInv

LEMMA HeaderKeeps ==
  ASSUME IInv, NEW t \in Threads, Header(t)
  PROVE  IInv'
  <1> DEFINE c == call[t]
             k == c.sk
             s == wq[k][1]
             p == UdpHeader(pkt[s], sock[k])
  <1>1. /\ TypeOK /\ Control /\ Served /\ Staged /\ Apart /\ Kept /\ Exclusive /\ OwnPackets
    BY DEF IInv
  <1>2. pc[t] = "header" /\ k # Icmp
    BY <1>1 DEF Header, At, Control
  <1>3. c \in Calls /\ k \in Socks /\ c.len \in Nat
    BY <1>2, InCall
  <1>4. s \in Skbs /\ Head(wq[k]) = s /\ 1 \in 1 .. Len(wq[k])
    BY <1>2, HeadIs
  <1>5. /\ pkt' = [pkt EXCEPT ![s] = p]
        /\ pc' = [pc EXCEPT ![t] = "push"]
        /\ UNCHANGED <<sock, wq, call, skb, held, out, mixed, torn, faulted>>
    BY <1>4 DEF Header
  <1>6. /\ Queued(p) /\ p.body = pkt[s].body /\ p.buf = pkt[s].buf
        /\ p.l4 = [port |-> sock[k].dport, len |-> sock[k].len, covers |-> sock[k].len, pseudo |-> sock[k].daddr]
    <2>1. Queued(pkt[s]) /\ sock[k] \in SockFields
      BY <1>1, <1>3, <1>4 DEF Staged, TypeOK, SockFields
    <2> HIDE DEF s, k
    <2> QED
      BY <2>1, UdpHeaderIs
  <1> HIDE DEF c, k, s, p
  <1>7. pkt'[s] = p /\ \A r \in Skbs : r # s => pkt'[r] = pkt[r]
    BY <1>1, <1>4, <1>5 DEF TypeOK
  <1>8. /\ pc'[t] = "push"
        /\ \A u \in Threads : u # t => pc'[u] = pc[u]
    BY <1>1, <1>5 DEF TypeOK
  <1>9. TypeOK' /\ Control'
    BY <1>1, HeaderTyped
  <1>11. Served'
    <2>1. ASSUME NEW l \in Socks PROVE Pending(l)' = Pending(l)
      BY <1>2, <1>5, <1>8 DEF Pending, Using
    <2> QED
      BY <1>1, <1>5, <2>1, MatchedFrame
  <1>12. s \notin held /\ s \notin out /\ \A u \in Threads : skb[u] # s
    BY <1>3, <1>4, PlacesDiffer DEF s
  <1>13. Staged'
    <2>1. ASSUME NEW l \in Socks, NEW i \in 1 .. Len(wq[l]) PROVE Queued(pkt'[wq[l][i]])
      BY <1>1, <1>6, <1>7, PlacesDiffer DEF Staged
    <2>2. ASSUME NEW u \in Threads
          PROVE  /\ pc'[u] \in {"link", "unlink"} => Queued(pkt'[skb[u]])
                 /\ pc'[u] \in {"output", "hold"} => Ready(pkt'[skb[u]])
      <3>1. skb[u] # NULL => pkt'[skb[u]] = pkt[skb[u]]
        BY <1>7, <1>12, PlacesDiffer
      <3> QED
        BY <1>1, <1>2, <1>8, <3>1 DEF Staged, Control
    <2>3. (\A r \in held : Ready(pkt'[r])) /\ (\A r \in out : Framed(pkt'[r]))
      BY <1>1, <1>7, <1>12 DEF Staged, TypeOK
    <2> QED
      BY <1>5, <2>1, <2>2, <2>3 DEF Staged
  <1>14. Apart' /\ Exclusive'
    BY <1>1, <1>5 DEF Apart, Exclusive
  <1>15. Kept'
    <2> SUFFICES ASSUME NEW r \in Skbs
                 PROVE  \/ pkt'[r] = NoPacket
                        \/ \E l \in Socks : \E i \in 1 .. Len(wq[l]) : wq[l][i] = r
                        \/ \E u \in Threads : skb[u] = r
                        \/ r \in held \cup out
      BY <1>5 DEF Kept, Free
    <2>1. CASE r = s
      BY <1>3, <1>4, <2>1 DEF s
    <2> QED
      BY <1>1, <1>7, <2>1 DEF Kept, Free
  <1>16. OwnPackets'
    <2> SUFFICES ASSUME NEW u \in Threads, u \notin mixed' PROVE Own(u)'
      BY DEF OwnPackets
    <2>1. Own(u) /\ u \notin mixed
      BY <1>1, <1>5 DEF OwnPackets
    <2>2. CASE u = t
      <3>1. First(t) = pkt[s] /\ First(t)' = p
        BY <1>5, <1>7 DEF First, s, k, c
      <3>2. Corked(t) /\ HasBody(pkt[s], c) /\ sock[k].daddr = c.host /\ sock[k].dport = c.port
        BY <1>2, <2>1, <2>2, <3>1 DEF Own, c, k
      <3>3. sock[k].len = (c.len + 8) % U16
        BY <1>2, <3>2 DEF Corked, c, k
      <3>4. p.l4 = HeaderOf(c)
        BY <1>6, <3>2, <3>3 DEF HeaderOf
      <3>5. p.l4.covers <= c.len + 8
        <4>1. (c.len + 8) % U16 <= c.len + 8
          BY <1>3, WordOf
        <4> QED
          BY <1>6, <3>3, <4>1
      <3>6. HasBody(p, c)
        BY <1>6, <3>2, <3>5 DEF HasBody
      <3>7. Corked(t)'
        BY <1>5, <3>2 DEF Corked
      <3> QED
        BY <1>5, <1>8, <2>2, <3>1, <3>4, <3>6, <3>7 DEF Own, c
    <2>3. CASE u # t
      <3>1. pc[u] \in {"dest", "header", "push"} => First(u)' = First(u)
        <4> SUFFICES ASSUME pc[u] \in {"dest", "header", "push"} PROVE First(u)' = First(u)
          OBVIOUS
        <4>1. call[u].sk \in Socks /\ call[u].sk # k
          BY <1>2, <2>1, <2>3, InCall, OwnSocket DEF c, k
        <4>2. wq[call[u].sk][1] \in Skbs /\ 1 \in 1 .. Len(wq[call[u].sk])
          BY HeadIs
        <4>3. wq[call[u].sk][1] # s
          BY <1>1, <1>3, <1>4, <4>1, <4>2 DEF Apart, s
        <4> QED
          BY <1>5, <1>7, <4>1, <4>2, <4>3 DEF First
      <3>2. skb[u] # NULL => pkt'[skb[u]] = pkt[skb[u]]
        BY <1>7, <1>12, PlacesDiffer
      <3>3. pc[u] \in {"link", "unlink", "output"} => skb[u] # NULL
        BY <1>1 DEF Control
      <3>4. call'[u] = call[u] /\ pc'[u] = pc[u] /\ skb'[u] = skb[u] /\ sock'[call[u].sk] = sock[call[u].sk]
        BY <1>5, <1>8, <2>3
      <3> QED
        BY <2>1, <3>1, <3>2, <3>3, <3>4, OwnFrame
    <2> QED
      BY <2>2, <2>3
  <1> QED
    BY <1>9, <1>11, <1>13, <1>14, <1>15, <1>16 DEF IInv

LEMMA PushKeeps ==
  ASSUME IInv, NEW t \in Threads, Push(t)
  PROVE  IInv'
  <1> DEFINE c == call[t]
             k == c.sk
             q == wq[k]
             n == Len(q)
             s == q[1]
  <1>1. /\ TypeOK /\ Control /\ Served /\ Staged /\ Apart /\ Kept /\ Exclusive /\ OwnPackets
    BY DEF IInv
  <1>2. pc[t] = "push"
    BY DEF Push, At
  <1>3. c \in Calls /\ k \in Socks /\ c.len \in Nat
    BY <1>2, InCall
  <1>4. q \in Seq(Skbs) /\ s \in Skbs /\ Head(q) = s /\ n \in Nat /\ n >= 1 /\ t \in Pending(k)
    BY <1>1, <1>2, <1>3, HeadIs DEF TypeOK
  <1>5. /\ wq' = [wq EXCEPT ![k] = Tail(q)]
        /\ skb' = [skb EXCEPT ![t] = s]
        /\ pc' = [pc EXCEPT ![t] = "unlink"]
        /\ UNCHANGED <<sock, pkt, call, held, out, mixed, faulted>>
    BY <1>4 DEF Push
  <1>6. Queued(pkt[s])
    BY <1>1, <1>3, <1>4 DEF Staged
  <1> HIDE DEF c, k, q, n, s
  <1>7. /\ wq' \in [Socks -> Seq(Skbs)]
        /\ wq'[k] = Tail(q)
        /\ \A l \in Socks : l # k => wq'[l] = wq[l]
    BY <1>1, <1>3, <1>4, <1>5 DEF TypeOK, n
  <1>8. /\ Len(wq'[k]) = n - 1
        /\ \A i \in 1 .. n - 1 : wq'[k][i] = wq[k][i + 1] /\ i + 1 \in 1 .. n /\ i + 1 # 1
        /\ \A i \in 1 .. n : i = 1 \/ (i - 1 \in 1 .. n - 1 /\ wq'[k][i - 1] = wq[k][i])
    BY <1>4, <1>7 DEF q, n
  <1>10. /\ pc'[t] = "unlink" /\ skb'[t] = s /\ s # NULL
         /\ \A u \in Threads : u # t => pc'[u] = pc[u] /\ skb'[u] = skb[u]
    BY <1>1, <1>4, <1>5, NullAssumption DEF TypeOK
  <1>11. /\ s \notin held /\ s \notin out /\ \A u \in Threads : skb[u] # s
         /\ \A l \in Socks : \A i \in 1 .. Len(wq[l]) : wq[l][i] = s => l = k /\ i = 1
    <2>1. 1 \in 1 .. Len(wq[k]) /\ wq[k][1] = s
      BY <1>4 DEF s, q, n
    <2> QED
      BY <1>1, <1>3, <2>1, PlacesDiffer DEF Apart
  <1>12. TypeOK' /\ Control'
    BY <1>1, PushTypes
  <1>14. Served'
    <2>1. ASSUME NEW l \in Socks PROVE Matched(wq'[l], Pending(l)')
      <3>1. wq[l] \in Seq(Skbs) /\ Matched(wq[l], Pending(l))
        BY <1>1, MatchedAt DEF TypeOK
      <3>2. CASE l = k
        <4>1. Pending(l)' = Pending(l) \ {t} /\ t \in Pending(l)
          BY <1>4, <1>5, <1>10, <3>2 DEF Pending, Using
        <4>2. wq'[l] = Tail(wq[l])
          BY <1>7, <3>2 DEF q
        <4>3. Matched(Tail(wq[l]), Pending(l) \ {t})
          BY <3>1, <4>1, MatchedTail
        <4> QED
          BY <4>1, <4>2, <4>3
      <3>3. CASE l # k
        <4>1. Pending(l)' = Pending(l)
          BY <1>2, <1>5, <1>10, <3>3 DEF Pending, Using, c, k
        <4> QED
          BY <1>7, <3>1, <3>3, <4>1
      <3> QED
        BY <3>2, <3>3
    <2> QED
      BY <2>1, MatchedAll
  <1>15. ASSUME NEW l \in Socks, NEW i \in 1 .. Len(wq'[l])
         PROVE  \/ l = k /\ i + 1 \in 1 .. Len(wq[l]) /\ wq'[l][i] = wq[l][i + 1] /\ wq[l][i + 1] # s
                \/ l # k /\ i \in 1 .. Len(wq[l]) /\ wq'[l][i] = wq[l][i] /\ wq[l][i] # s
    BY <1>7, <1>8, <1>11, ZenonT(40) DEF q, n
  <1>16. Staged'
    <2>1. ASSUME NEW l \in Socks, NEW i \in 1 .. Len(wq'[l]) PROVE Queued(pkt[wq'[l][i]])
      <3>1. PICK j \in 1 .. Len(wq[l]) : wq'[l][i] = wq[l][j]
        BY <1>15
      <3> QED
        BY <1>1, <3>1 DEF Staged
    <2>2. ASSUME NEW u \in Threads
          PROVE  /\ pc'[u] \in {"link", "unlink"} => Queued(pkt[skb'[u]])
                 /\ pc'[u] \in {"output", "hold"} => Ready(pkt[skb'[u]])
      BY <1>1, <1>6, <1>10 DEF Staged
    <2> QED
      BY <1>1, <1>5, <2>1, <2>2 DEF Staged
  <1>17. Apart'
    <2>1. ASSUME NEW l \in Socks, NEW m \in Socks,
                 NEW i \in 1 .. Len(wq'[l]), NEW j \in 1 .. Len(wq'[m]), wq'[l][i] = wq'[m][j]
          PROVE  l = m /\ i = j
      <3>1. Len(wq'[l]) \in Nat /\ Len(wq'[m]) \in Nat
        BY <1>7
      <3> QED
        BY <1>1, <1>15, <2>1, <3>1 DEF Apart
    <2>2. \A u, v \in Threads : skb'[u] # NULL /\ skb'[u] = skb'[v] => u = v
      BY <1>1, <1>10, <1>11 DEF Apart
    <2>3. \A u \in Threads : skb'[u] \notin held'
      BY <1>1, <1>5, <1>10, <1>11 DEF Apart
    <2>4. ASSUME NEW u \in Threads, NEW l \in Socks, NEW i \in 1 .. Len(wq'[l])
          PROVE  wq'[l][i] # skb'[u]
      <3>1. PICK j \in 1 .. Len(wq[l]) : wq'[l][i] = wq[l][j] /\ wq[l][j] # s
        BY <1>15
      <3> QED
        BY <1>1, <1>10, <3>1 DEF Apart
    <2> QED
      BY <2>1, <2>2, <2>3, <2>4 DEF Apart
  <1>18. Kept'
    <2> SUFFICES ASSUME NEW r \in Skbs
                 PROVE  \/ pkt[r] = NoPacket
                        \/ \E l \in Socks : \E i \in 1 .. Len(wq'[l]) : wq'[l][i] = r
                        \/ \E u \in Threads : skb'[u] = r
                        \/ r \in held' \cup out'
      BY <1>5 DEF Kept, Free
    <2>1. CASE r = s
      BY <1>10, <2>1
    <2>2. CASE r # s
      <3>1. ASSUME NEW l \in Socks, NEW i \in 1 .. Len(wq[l]), wq[l][i] = r
            PROVE  \E j \in 1 .. Len(wq'[l]) : wq'[l][j] = r
        BY <1>7, <1>8, <1>11, <2>2, <3>1, ZenonT(40) DEF q, n, s
      <3>2. ASSUME NEW u \in Threads, skb[u] = r PROVE skb'[u] = r
        <4>1. skb[t] = NULL
          BY <1>1, <1>2 DEF Control
        <4>2. r # NULL
          BY NullAssumption
        <4> QED
          BY <1>10, <3>2, <4>1, <4>2
      <3>3. held' = held /\ out' = out
        BY <1>5
      <3> QED
        BY <1>1, <3>1, <3>2, <3>3 DEF Kept, Free
    <2> QED
      BY <2>1, <2>2
  <1>19. Exclusive'
    BY <1>1, <1>5 DEF Exclusive
  <1>20. OwnPackets'
    <2> SUFFICES ASSUME NEW u \in Threads, u \notin mixed' PROVE Own(u)'
      BY DEF OwnPackets
    <2>1. Own(u) /\ u \notin mixed
      BY <1>1, <1>5 DEF OwnPackets
    <2>2. CASE u = t
      <3>1. First(t) = pkt[s] /\ pkt'[skb'[t]] = pkt[s] /\ call'[t] = c
        BY <1>5, <1>10 DEF First, s, q, k, c
      <3>2. HasBody(pkt[s], c) /\ (k # Icmp => pkt[s].l4 = HeaderOf(c))
        BY <1>2, <2>1, <2>2, <3>1 DEF Own, c, k
      <3>3. Corked(t)'
        BY <1>2, <1>5, <2>1, <2>2 DEF Own, Corked
      <3> HIDE DEF Corked, First
      <3> QED
        BY <1>10, <2>2, <3>1, <3>2, <3>3 DEF Own, k
    <2>3. CASE u # t
      <3>1. pc[u] \in {"dest", "header", "push"} => First(u)' = First(u)
        <4> SUFFICES ASSUME pc[u] \in {"dest", "header", "push"} PROVE First(u)' = First(u)
          OBVIOUS
        <4>1. call[u].sk \in Socks /\ call[u].sk # k
          BY <1>2, <2>1, <2>3, InCall, OwnSocket DEF c, k
        <4> QED
          BY <1>5, <1>7, <4>1 DEF First
      <3>2. call'[u] = call[u] /\ pc'[u] = pc[u] /\ skb'[u] = skb[u] /\ sock' = sock /\ pkt' = pkt
        BY <1>5, <1>10, <2>3
      <3> QED
        BY <2>1, <3>1, <3>2, OwnFrame
    <2> QED
      BY <2>2, <2>3
  <1> QED
    BY <1>12, <1>14, <1>16, <1>17, <1>18, <1>19, <1>20 DEF IInv

\* The rest of skb_dequeue and the IP header.
LEMMA UnlinkKeeps ==
  ASSUME IInv, Untorn, NEW t \in Threads, Unlink(t)
  PROVE  IInv'
  <1> DEFINE c == call[t]
             k == c.sk
             s == skb[t]
             p == IpHeader(pkt[s], sock[k].rt)
  <1>1. /\ TypeOK /\ Control /\ Served /\ Staged /\ Apart /\ Kept /\ Exclusive /\ OwnPackets
    BY DEF IInv
  <1>2. pc[t] = "unlink"
    BY DEF Unlink, At
  <1>3. c \in Calls /\ k \in Socks /\ c.len \in Nat
    BY <1>2, InCall
  <1>4. /\ s \in Skbs /\ s # NULL /\ Queued(pkt[s]) /\ s \notin held /\ s \notin out
        /\ \A l \in Socks : \A i \in 1 .. Len(wq[l]) : wq[l][i] # s
        /\ \A u \in Threads : u # t => skb[u] # s
    BY <1>1, <1>2, HandTyped, PlacesDiffer DEF Apart, Staged
  <1>5. /\ wq' = wq
        /\ pkt' = [pkt EXCEPT ![s] = p]
        /\ pc' = [pc EXCEPT ![t] = "output"]
        /\ UNCHANGED <<sock, call, skb, held, out, mixed, torn, faulted>>
    <2>1. AfterUnlink(k, wq[k]) = {wq[k]}
      BY Zenon DEF AfterUnlink, Untorn
    <2>2. wq' = [wq EXCEPT ![k] = wq[k]]
      BY <2>1 DEF Unlink
    <2> QED
      BY <1>1, <1>3, <2>2 DEF TypeOK, Unlink
  <1>6. /\ Ready(p) /\ p.body = pkt[s].body /\ p.l4 = pkt[s].l4
        /\ p.buf.end = pkt[s].buf.end /\ p.tot_len = (pkt[s].buf.end - 14) % U16
        /\ p.daddr = sock[k].rt
    <2>1. Queued(pkt[s]) /\ sock[k].rt \in Hosts \cup {NULL}
      BY <1>1, <1>3, <1>4 DEF TypeOK
    <2> HIDE DEF s, k
    <2> QED
      BY <2>1, IpHeaderIs
  <1> HIDE DEF c, k, s, p
  <1>7. pkt'[s] = p /\ \A r \in Skbs : r # s => pkt'[r] = pkt[r]
    BY <1>1, <1>4, <1>5 DEF TypeOK
  <1>8. pc'[t] = "output" /\ \A u \in Threads : u # t => pc'[u] = pc[u]
    BY <1>1, <1>5 DEF TypeOK
  <1>9. TypeOK' /\ Control'
    BY <1>1, UnlinkTyped
  <1>10. Served'
    <2>1. ASSUME NEW l \in Socks PROVE Pending(l)' = Pending(l)
      BY <1>2, <1>5, <1>8 DEF Pending, Using
    <2> QED
      BY <1>1, <1>5, <2>1, MatchedFrame
  <1>11. /\ \A l \in Socks : \A i \in 1 .. Len(wq[l]) : pkt'[wq[l][i]] = pkt[wq[l][i]]
         /\ \A u \in Threads : u # t /\ skb[u] # NULL => pkt'[skb[u]] = pkt[skb[u]]
    BY <1>4, <1>7, PlacesDiffer
  <1>12. Staged'
    <2>1. \A l \in Socks : \A i \in 1 .. Len(wq[l]) : Queued(pkt'[wq[l][i]])
      BY <1>1, <1>11 DEF Staged
    <2>2. ASSUME NEW u \in Threads
          PROVE  /\ pc'[u] \in {"link", "unlink"} => Queued(pkt'[skb[u]])
                 /\ pc'[u] \in {"output", "hold"} => Ready(pkt'[skb[u]])
      <3>1. CASE u = t
        BY <1>6, <1>7, <1>8, <3>1 DEF s
      <3>2. CASE u # t
        BY <1>1, <1>8, <1>11, <3>2 DEF Staged, Control
      <3> QED
        BY <3>1, <3>2
    <2>3. (\A r \in held : Ready(pkt'[r])) /\ (\A r \in out : Framed(pkt'[r]))
      BY <1>1, <1>4, <1>7 DEF Staged, TypeOK
    <2> QED
      BY <1>5, <2>1, <2>2, <2>3 DEF Staged
  <1>13. Apart' /\ Exclusive'
    BY <1>1, <1>5 DEF Apart, Exclusive
  <1>14. Kept'
    <2> SUFFICES ASSUME NEW r \in Skbs
                 PROVE  \/ pkt'[r] = NoPacket
                        \/ \E l \in Socks : \E i \in 1 .. Len(wq[l]) : wq[l][i] = r
                        \/ \E u \in Threads : skb[u] = r
                        \/ r \in held \cup out
      BY <1>5 DEF Kept, Free
    <2>1. CASE r = s
      BY <2>1 DEF s
    <2> QED
      BY <1>1, <1>7, <2>1 DEF Kept, Free
  <1>15. OwnPackets'
    <2> SUFFICES ASSUME NEW u \in Threads, u \notin mixed' PROVE Own(u)'
      BY DEF OwnPackets
    <2>1. Own(u) /\ u \notin mixed
      BY <1>1, <1>5 DEF OwnPackets
    <2>2. CASE u = t
      <3>1. pkt'[skb'[t]] = p /\ call'[t] = c
        BY <1>5, <1>7 DEF s, c
      <3>2. Corked(t) /\ HasBody(pkt[s], c) /\ (k # Icmp => pkt[s].l4 = HeaderOf(c))
        BY <1>2, <2>1, <2>2 DEF Own, c, k, s
      <3>3. p.daddr = c.host
        BY <1>6, <3>2 DEF Corked, c, k
      <3>4. p.tot_len = (c.len + 28) % U16
        <4>1. pkt[s].buf.end - 14 = c.len + 28
          BY <1>3, <3>2 DEF HasBody
        <4> QED
          BY <1>6, <4>1
      <3>5. HasBody(p, c)
        BY <1>6, <3>2 DEF HasBody
      <3> QED
        BY <1>6, <1>8, <2>2, <3>1, <3>2, <3>3, <3>4, <3>5 DEF Own, k
    <2>3. CASE u # t
      <3>1. pc[u] \in {"dest", "header", "push"} => First(u)' = First(u)
        <4> SUFFICES ASSUME pc[u] \in {"dest", "header", "push"} PROVE First(u)' = First(u)
          OBVIOUS
        <4>1. call[u].sk \in Socks /\ 1 \in 1 .. Len(wq[call[u].sk])
          BY HeadIs
        <4> QED
          BY <1>5, <1>11, <4>1 DEF First
      <3>2. pc[u] \in {"link", "unlink", "output"} => pkt'[skb[u]] = pkt[skb[u]]
        BY <1>1, <1>11, <2>3 DEF Control
      <3>3. call'[u] = call[u] /\ pc'[u] = pc[u] /\ skb'[u] = skb[u] /\ sock'[call[u].sk] = sock[call[u].sk]
        BY <1>5, <1>8, <2>3
      <3> QED
        BY <2>1, <3>1, <3>2, <3>3, OwnFrame
    <2> QED
      BY <2>2, <2>3
  <1> QED
    BY <1>9, <1>10, <1>12, <1>13, <1>14, <1>15 DEF IInv

\* A packet between the queue and the driver, in a hand or held, gets its
\* Ethernet header and goes out; the hand is emptied or the packet no longer held.
LEMMA OutKeeps ==
  ASSUME IInv, NEW s \in Skbs, Ready(pkt[s]),
         pkt' = [pkt EXCEPT ![s] = EthHeader(pkt[s])], out' = out \cup {s}, wq' = wq,
         \A u \in Threads : skb'[u] = skb[u] \/ (skb[u] = s /\ skb'[u] = NULL),
         \A u \in Threads : (pc'[u] = pc[u] /\ skb'[u] = skb[u]) \/ pc'[u] = "idle",
         held' = held \ {s}, \A u \in Threads : skb'[u] # s
  PROVE  /\ pkt' \in [Skbs -> Packets] /\ out' \subseteq Skbs /\ held' \subseteq Skbs
         /\ Staged' /\ Apart' /\ Kept'
         /\ \A k \in Socks : \A i \in 1 .. Len(wq[k]) : pkt'[wq[k][i]] = pkt[wq[k][i]]
         /\ \A u \in Threads : skb[u] # NULL /\ skb[u] # s => pkt'[skb[u]] = pkt[skb[u]]
  <1> DEFINE p == EthHeader(pkt[s])
  <1>1. TypeOK /\ Control /\ Staged /\ Apart /\ Kept
    BY DEF IInv
  <1>2. Framed(p)
    BY EthHeaderIs
  <1> HIDE DEF p
  <1>3. pkt'[s] = p /\ \A r \in Skbs : r # s => pkt'[r] = pkt[r]
    BY <1>1 DEF TypeOK, p
  <1>4. pkt' \in [Skbs -> Packets] /\ out' \subseteq Skbs /\ held' \subseteq Skbs
    BY <1>1, <1>2 DEF TypeOK, Framed, p
  <1>5. ASSUME NEW k \in Socks, NEW i \in 1 .. Len(wq[k])
        PROVE  wq[k][i] \in Skbs /\ wq[k][i] # s /\ Queued(pkt[wq[k][i]])
    BY <1>1, PlacesDiffer, StagesDiffer DEF Staged
  <1>6. Staged'
    <2>1. \A k \in Socks : \A i \in 1 .. Len(wq[k]) : Queued(pkt'[wq[k][i]])
      BY <1>3, <1>5
    <2>2. ASSUME NEW u \in Threads
          PROVE  /\ pc'[u] \in {"link", "unlink"} => Queued(pkt'[skb'[u]])
                 /\ pc'[u] \in {"output", "hold"} => Ready(pkt'[skb'[u]])
      <3> SUFFICES ASSUME pc'[u] \in {"link", "unlink", "output", "hold"}
                   PROVE  /\ pc'[u] \in {"link", "unlink"} => Queued(pkt'[skb'[u]])
                          /\ pc'[u] \in {"output", "hold"} => Ready(pkt'[skb'[u]])
        OBVIOUS
      <3>1. pc'[u] = pc[u] /\ skb'[u] = skb[u] /\ skb[u] \in Skbs /\ skb[u] # s
        BY <1>1, HandTyped
      <3> QED
        BY <1>1, <1>3, <3>1 DEF Staged
    <2>3. \A r \in held' : Ready(pkt'[r])
      BY <1>1, <1>3 DEF Staged, TypeOK
    <2>4. \A r \in out' : Framed(pkt'[r])
      BY <1>1, <1>2, <1>3 DEF Staged, TypeOK
    <2> QED
      BY <2>1, <2>2, <2>3, <2>4 DEF Staged
  <1>7. Apart'
    <2>1. NULL \notin held'
      BY <1>4, NullAssumption
    <2>2. \A u, v \in Threads : skb'[u] # NULL /\ skb'[u] = skb'[v] => u = v
      BY <1>1 DEF Apart
    <2>3. \A u \in Threads : skb'[u] \notin held'
      BY <1>1, <2>1 DEF Apart
    <2>4. ASSUME NEW u \in Threads, NEW k \in Socks, NEW i \in 1 .. Len(wq[k])
          PROVE  wq[k][i] # skb'[u]
      BY <1>1, <1>5, NullAssumption DEF Apart
    <2> QED
      BY <1>1, <2>2, <2>3, <2>4 DEF Apart
  <1>8. Kept'
    <2> SUFFICES ASSUME NEW r \in Skbs
                 PROVE  \/ pkt'[r] = NoPacket
                        \/ \E k \in Socks : \E i \in 1 .. Len(wq[k]) : wq[k][i] = r
                        \/ \E u \in Threads : skb'[u] = r
                        \/ r \in held' \cup out'
      BY DEF Kept, Free
    <2>1. CASE r = s
      BY <2>1
    <2>2. CASE r # s
      <3>1. pkt'[r] = pkt[r] /\ \A u \in Threads : skb[u] = r => skb'[u] = r
        BY <1>3, <2>2
      <3> QED
        BY <1>1, <2>2, <3>1 DEF Kept, Free
    <2> QED
      BY <2>1, <2>2
  <1> QED
    BY <1>3, <1>4, <1>5, <1>6, <1>7, <1>8, PlacesDiffer

LEMMA XmitKeeps ==
  ASSUME IInv, NEW t \in Threads, Xmit(t)
  PROVE  IInv'
  <1> DEFINE s == skb[t]
  <1>1. TypeOK /\ Control /\ Staged /\ Apart /\ OwnPackets
    BY DEF IInv
  <1>2. /\ pc[t] = "output" /\ Return(t) /\ UNCHANGED <<sock, wq, held, torn, faulted>>
        /\ pkt' = [pkt EXCEPT ![s] = EthHeader(pkt[s])] /\ out' = out \cup {s}
    BY DEF Xmit, At
  <1>3. s # NULL /\ s \in Skbs /\ s \notin held /\ Ready(pkt[s])
    BY <1>1, <1>2, PlacesDiffer DEF Control, Staged
  <1>4. /\ pc' \in [Threads -> Labels] /\ call' \in [Threads -> Calls \cup {NULL}]
        /\ skb' \in [Threads -> Skbs \cup {NULL}] /\ mixed' \subseteq Threads
        /\ Control' /\ Served' /\ Exclusive'
        /\ pc'[t] = "idle" /\ call'[t] = NULL /\ skb'[t] = NULL
        /\ \A u \in Threads : u # t => pc'[u] = pc[u] /\ call'[u] = call[u] /\ skb'[u] = skb[u]
        /\ \A u \in Threads : u # t /\ u \notin mixed' => u \notin mixed
    BY <1>2, ReturnKeeps
  <1>5. /\ \A u \in Threads : skb'[u] = skb[u] \/ (skb[u] = s /\ skb'[u] = NULL)
        /\ \A u \in Threads : (pc'[u] = pc[u] /\ skb'[u] = skb[u]) \/ pc'[u] = "idle"
        /\ \A u \in Threads : u # t => skb[u] # s
        /\ \A u \in Threads : skb'[u] # s
        /\ held' = held \ {s}
    BY <1>1, <1>2, <1>3, <1>4 DEF Apart
  <1> HIDE DEF s
  <1>6. /\ pkt' \in [Skbs -> Packets] /\ out' \subseteq Skbs /\ held' \subseteq Skbs
        /\ Staged' /\ Apart' /\ Kept'
        /\ \A k \in Socks : \A i \in 1 .. Len(wq[k]) : pkt'[wq[k][i]] = pkt[wq[k][i]]
        /\ \A u \in Threads : skb[u] # NULL /\ skb[u] # s => pkt'[skb[u]] = pkt[skb[u]]
    BY <1>2, <1>3, <1>5, OutKeeps
  <1>7. TypeOK'
    BY <1>1, <1>2, <1>4, <1>6 DEF TypeOK
  <1>8. OwnPackets'
    <2> SUFFICES ASSUME NEW u \in Threads, u \notin mixed' PROVE Own(u)'
      BY DEF OwnPackets
    <2>1. CASE u = t
      BY <1>4, <2>1 DEF Own
    <2>2. CASE u # t
      <3>1. Own(u) /\ call'[u] = call[u] /\ pc'[u] = pc[u] /\ skb'[u] = skb[u]
        BY <1>1, <1>4, <2>2 DEF OwnPackets
      <3>2. pc[u] \in {"dest", "header", "push"} => First(u)' = First(u)
        BY <1>2, <1>6, <3>1, HeadIs DEF First
      <3>3. pc[u] \in {"link", "unlink", "output"} => pkt'[skb[u]] = pkt[skb[u]]
        BY <1>1, <1>5, <1>6, <2>2 DEF Control
      <3>4. sock'[call[u].sk] = sock[call[u].sk]
        BY <1>2
      <3> QED
        BY <3>1, <3>2, <3>3, <3>4, OwnFrame
    <2> QED
      BY <2>1, <2>2
  <1> QED
    BY <1>4, <1>6, <1>7, <1>8 DEF IInv

LEMMA DrainKeeps ==
  ASSUME IInv, NEW s \in Skbs, Drain(s)
  PROVE  IInv'
  <1>1. TypeOK /\ Control /\ Served /\ Exclusive /\ Staged /\ Apart /\ OwnPackets
    BY DEF IInv
  <1>2. /\ s \in held /\ held' = held \ {s}
        /\ pkt' = [pkt EXCEPT ![s] = EthHeader(pkt[s])] /\ out' = out \cup {s}
        /\ UNCHANGED <<sock, wq, pc, call, skb, mixed, torn, faulted>>
    BY DEF Drain
  <1>3. Ready(pkt[s]) /\ \A u \in Threads : skb[u] # s
    BY <1>1, <1>2 DEF Staged, Apart
  <1>4. /\ pkt' \in [Skbs -> Packets] /\ out' \subseteq Skbs /\ held' \subseteq Skbs
        /\ Staged' /\ Apart' /\ Kept'
        /\ \A k \in Socks : \A i \in 1 .. Len(wq[k]) : pkt'[wq[k][i]] = pkt[wq[k][i]]
        /\ \A u \in Threads : skb[u] # NULL /\ skb[u] # s => pkt'[skb[u]] = pkt[skb[u]]
    BY <1>2, <1>3, OutKeeps, ZenonT(40)
  <1>5. TypeOK'
    BY <1>1, <1>2, <1>4 DEF TypeOK
  <1>6. Control' /\ Exclusive'
    BY <1>1, <1>2 DEF Control, Exclusive
  <1>7. Served'
    BY <1>1, <1>2, MatchedFrame DEF Pending, Using
  <1>8. OwnPackets'
    <2> SUFFICES ASSUME NEW u \in Threads, u \notin mixed' PROVE Own(u)'
      BY DEF OwnPackets
    <2>1. Own(u) /\ call'[u] = call[u] /\ pc'[u] = pc[u] /\ skb'[u] = skb[u]
      BY <1>1, <1>2 DEF OwnPackets
    <2>2. pc[u] \in {"dest", "header", "push"} => First(u)' = First(u)
      BY <1>2, <1>4, <2>1, HeadIs DEF First
    <2>3. pc[u] \in {"link", "unlink", "output"} => pkt'[skb[u]] = pkt[skb[u]]
      BY <1>1, <1>3, <1>4 DEF Control
    <2>4. sock'[call[u].sk] = sock[call[u].sk]
      BY <1>2
    <2> QED
      BY <2>1, <2>2, <2>3, <2>4, OwnFrame
  <1> QED
    BY <1>4, <1>5, <1>6, <1>7, <1>8 DEF IInv

LEMMA HoldKeeps ==
  ASSUME IInv, NEW t \in Threads, Hold(t)
  PROVE  IInv'
  <1> DEFINE s == skb[t]
  <1>1. TypeOK /\ Control /\ Staged /\ Apart /\ Kept /\ OwnPackets
    BY DEF IInv
  <1>2. /\ pc[t] \in {"output", "hold"} /\ Return(t) /\ UNCHANGED <<sock, wq, pkt, out, torn, faulted>>
        /\ held' = held \cup {s}
    BY DEF Hold, At
  <1>3. s # NULL /\ s \in Skbs /\ Ready(pkt[s])
    BY <1>1, <1>2, PlacesDiffer DEF Control, Staged
  <1>4. /\ pc' \in [Threads -> Labels] /\ call' \in [Threads -> Calls \cup {NULL}]
        /\ skb' \in [Threads -> Skbs \cup {NULL}] /\ mixed' \subseteq Threads
        /\ Control' /\ Served' /\ Exclusive'
        /\ pc'[t] = "idle" /\ call'[t] = NULL /\ skb'[t] = NULL
        /\ \A u \in Threads : u # t => pc'[u] = pc[u] /\ call'[u] = call[u] /\ skb'[u] = skb[u]
        /\ \A u \in Threads : u # t /\ u \notin mixed' => u \notin mixed
    BY <1>2, ReturnKeeps
  <1>5. \A u \in Threads : u # t => skb[u] # s
    BY <1>1, <1>3 DEF Apart
  <1> HIDE DEF s
  <1>6. TypeOK'
    BY <1>1, <1>2, <1>3, <1>4 DEF TypeOK
  <1>7. Staged'
    <2>1. \A k \in Socks : \A i \in 1 .. Len(wq'[k]) : Queued(pkt'[wq'[k][i]])
      BY <1>1, <1>2 DEF Staged
    <2>2. ASSUME NEW u \in Threads
          PROVE  /\ pc'[u] \in {"link", "unlink"} => Queued(pkt'[skb'[u]])
                 /\ pc'[u] \in {"output", "hold"} => Ready(pkt'[skb'[u]])
      BY <1>1, <1>2, <1>4 DEF Staged
    <2>3. (\A r \in held' : Ready(pkt'[r])) /\ (\A r \in out' : Framed(pkt'[r]))
      BY <1>1, <1>2, <1>3 DEF Staged
    <2> QED
      BY <2>1, <2>2, <2>3 DEF Staged
  <1>8. Apart'
    <2>1. NULL \notin held'
      BY <1>6, NullAssumption DEF TypeOK
    <2>2. \A k, l \in Socks : \A i \in 1 .. Len(wq'[k]), j \in 1 .. Len(wq'[l]) :
            wq'[k][i] = wq'[l][j] => k = l /\ i = j
      BY <1>1, <1>2 DEF Apart
    <2>3. \A u, v \in Threads : skb'[u] # NULL /\ skb'[u] = skb'[v] => u = v
      BY <1>1, <1>4 DEF Apart
    <2>4. \A u \in Threads : skb'[u] \notin held'
      BY <1>1, <1>2, <1>4, <1>5, <2>1 DEF Apart
    <2>5. ASSUME NEW u \in Threads, NEW k \in Socks, NEW i \in 1 .. Len(wq[k])
          PROVE  wq[k][i] # skb'[u]
      <3>1. wq[k][i] \in Skbs /\ wq[k][i] # NULL
        BY NullAssumption, PlacesDiffer
      <3> QED
        BY <1>1, <1>4, <3>1 DEF Apart
    <2> QED
      BY <1>2, <2>2, <2>3, <2>4, <2>5 DEF Apart
  <1>9. Kept'
    <2> SUFFICES ASSUME NEW r \in Skbs
                 PROVE  \/ pkt'[r] = NoPacket
                        \/ \E k \in Socks : \E i \in 1 .. Len(wq'[k]) : wq'[k][i] = r
                        \/ \E u \in Threads : skb'[u] = r
                        \/ r \in held' \cup out'
      BY DEF Kept, Free
    <2>1. CASE r = s
      BY <1>2, <2>1
    <2>2. CASE r # s
      <3>1. \A u \in Threads : skb[u] = r => skb'[u] = r
        BY <1>4, <2>2 DEF s
      <3> QED
        BY <1>1, <1>2, <3>1 DEF Kept, Free
    <2> QED
      BY <2>1, <2>2
  <1>10. OwnPackets'
    <2> SUFFICES ASSUME NEW u \in Threads, u \notin mixed' PROVE Own(u)'
      BY DEF OwnPackets
    <2>1. CASE u = t
      BY <1>4, <2>1 DEF Own
    <2>2. CASE u # t
      <3>1. Own(u) /\ call'[u] = call[u] /\ pc'[u] = pc[u] /\ skb'[u] = skb[u]
        BY <1>1, <1>4, <2>2 DEF OwnPackets
      <3>2. First(u)' = First(u)
        BY <1>2, <3>1 DEF First
      <3> QED
        BY <1>2, <3>1, <3>2, OwnFrame
    <2> QED
      BY <2>1, <2>2
  <1> QED
    BY <1>4, <1>6, <1>7, <1>8, <1>9, <1>10 DEF IInv

\* A new ARP packet goes out.
LEMMA ArpKeeps ==
  ASSUME IInv, CanAlloc, pkt' = [pkt EXCEPT ![NewSkb] = arp_create], out' = out \cup {NewSkb},
         UNCHANGED <<wq, skb, held>>,
         \A u \in Threads : pc'[u] = pc[u] \/ (pc[u] = "output" /\ pc'[u] = "hold")
  PROVE  /\ pkt' \in [Skbs -> Packets] /\ out' \subseteq Skbs
         /\ Staged' /\ Apart' /\ Kept'
         /\ \A k \in Socks : \A i \in 1 .. Len(wq[k]) : pkt'[wq[k][i]] = pkt[wq[k][i]]
         /\ \A u \in Threads : skb[u] # NULL => pkt'[skb[u]] = pkt[skb[u]]
  <1> DEFINE s == NewSkb
             p == arp_create
  <1>1. TypeOK /\ Control /\ Staged /\ Apart /\ Kept
    BY DEF IInv
  <1>2. /\ s \in Skbs /\ s \notin held
        /\ \A k \in Socks : \A i \in 1 .. Len(wq[k]) : wq[k][i] # s
        /\ \A u \in Threads : skb[u] # s
    BY NewIsUnused
  <1>3. Framed(p)
    BY ArpCreateIs
  <1> HIDE DEF s, p
  <1>4. pkt'[s] = p /\ \A r \in Skbs : r # s => pkt'[r] = pkt[r]
    BY <1>1, <1>2 DEF TypeOK, s, p
  <1>5. pkt' \in [Skbs -> Packets] /\ out' \subseteq Skbs
    BY <1>1, <1>2, <1>3 DEF TypeOK, Framed, s, p
  <1>6. /\ \A k \in Socks : \A i \in 1 .. Len(wq[k]) : pkt'[wq[k][i]] = pkt[wq[k][i]]
        /\ \A u \in Threads : skb[u] # NULL => pkt'[skb[u]] = pkt[skb[u]]
    BY <1>2, <1>4, PlacesDiffer
  <1>7. Staged'
    <2>1. \A r \in held : Ready(pkt'[r])
      BY <1>1, <1>2, <1>4 DEF Staged, TypeOK
    <2>2. \A r \in out' : Framed(pkt'[r])
      BY <1>1, <1>3, <1>4 DEF Staged, TypeOK, s
    <2>3. ASSUME NEW u \in Threads
          PROVE  /\ pc'[u] \in {"link", "unlink"} => Queued(pkt'[skb[u]])
                 /\ pc'[u] \in {"output", "hold"} => Ready(pkt'[skb[u]])
      BY <1>1, <1>6 DEF Staged, Control
    <2> QED
      BY <1>1, <1>6, <2>1, <2>2, <2>3 DEF Staged
  <1>8. Apart'
    BY <1>1 DEF Apart
  <1>9. Kept'
    <2> SUFFICES ASSUME NEW r \in Skbs
                 PROVE  \/ pkt'[r] = NoPacket
                        \/ \E k \in Socks : \E i \in 1 .. Len(wq[k]) : wq[k][i] = r
                        \/ \E u \in Threads : skb[u] = r
                        \/ r \in held \cup out'
      BY DEF Kept, Free
    <2>1. CASE r = s
      BY <2>1 DEF s
    <2>2. CASE r # s
      BY <1>1, <1>4, <2>2 DEF Kept, Free
    <2> QED
      BY <2>1, <2>2
  <1> QED
    BY <1>5, <1>6, <1>7, <1>8, <1>9

LEMMA ArpReplyKeeps ==
  ASSUME IInv, ArpReply
  PROVE  IInv'
  <1>1. TypeOK /\ Control /\ Served /\ Exclusive /\ OwnPackets
    BY DEF IInv
  <1>2. /\ CanAlloc /\ pkt' = [pkt EXCEPT ![NewSkb] = arp_create] /\ out' = out \cup {NewSkb}
        /\ UNCHANGED <<sock, wq, pc, call, skb, held, mixed, torn, faulted>>
    BY DEF ArpReply
  <1>3. /\ pkt' \in [Skbs -> Packets] /\ out' \subseteq Skbs
        /\ Staged' /\ Apart' /\ Kept'
        /\ \A k \in Socks : \A i \in 1 .. Len(wq[k]) : pkt'[wq[k][i]] = pkt[wq[k][i]]
        /\ \A u \in Threads : skb[u] # NULL => pkt'[skb[u]] = pkt[skb[u]]
    BY <1>2, ArpKeeps
  <1>4. TypeOK'
    BY <1>1, <1>2, <1>3 DEF TypeOK
  <1>5. Control' /\ Exclusive'
    BY <1>1, <1>2 DEF Control, Exclusive
  <1>6. Served'
    BY <1>1, <1>2, MatchedFrame DEF Pending, Using
  <1>7. OwnPackets'
    <2> SUFFICES ASSUME NEW u \in Threads, u \notin mixed' PROVE Own(u)'
      BY DEF OwnPackets
    <2>1. Own(u) /\ call'[u] = call[u] /\ pc'[u] = pc[u] /\ skb'[u] = skb[u]
      BY <1>1, <1>2 DEF OwnPackets
    <2>2. pc[u] \in {"dest", "header", "push"} => First(u)' = First(u)
      BY <1>2, <1>3, <2>1, HeadIs DEF First
    <2>3. pc[u] \in {"link", "unlink", "output"} => pkt'[skb[u]] = pkt[skb[u]]
      BY <1>1, <1>3 DEF Control
    <2>4. sock'[call[u].sk] = sock[call[u].sk]
      BY <1>2
    <2> QED
      BY <2>1, <2>2, <2>3, <2>4, OwnFrame
  <1> QED
    BY <1>3, <1>4, <1>5, <1>6, <1>7 DEF IInv

LEMMA SolicitKeeps ==
  ASSUME IInv, NEW t \in Threads, Solicit(t)
  PROVE  IInv'
  <1>1. TypeOK /\ Control /\ Served /\ Exclusive /\ Staged /\ Apart /\ Kept /\ OwnPackets
    BY DEF IInv
  <1>2. /\ pc[t] = "output" /\ pc' = [pc EXCEPT ![t] = "hold"]
        /\ UNCHANGED <<sock, wq, call, skb, held, mixed, torn, faulted>>
    BY DEF Solicit, At
  <1>4. pc'[t] = "hold" /\ \A u \in Threads : u # t => pc'[u] = pc[u]
    BY <1>1, <1>2 DEF TypeOK
  <1>3. /\ pkt' \in [Skbs -> Packets] /\ out' \subseteq Skbs
        /\ Staged' /\ Apart' /\ Kept'
        /\ \A k \in Socks : \A i \in 1 .. Len(wq[k]) : pkt'[wq[k][i]] = pkt[wq[k][i]]
        /\ \A u \in Threads : skb[u] # NULL => pkt'[skb[u]] = pkt[skb[u]]
    <2>0. \A u \in Threads : pc'[u] = pc[u] \/ (pc[u] = "output" /\ pc'[u] = "hold")
      BY <1>2, <1>4
    <2>1. CASE CanAlloc /\ pkt' = [pkt EXCEPT ![NewSkb] = arp_create] /\ out' = out \cup {NewSkb}
      BY <1>2, <2>0, <2>1, ArpKeeps
    <2>2. CASE UNCHANGED <<pkt, out>>
      <3>1. pkt' \in [Skbs -> Packets] /\ out' \subseteq Skbs /\ Apart' /\ Kept'
        BY <1>1, <1>2, <2>2 DEF TypeOK, Apart, Kept, Free
      <3>2. Staged'
        BY <1>1, <1>2, <2>0, <2>2 DEF Staged
      <3> QED
        BY <2>2, <3>1, <3>2
    <2> QED
      BY <2>1, <2>2 DEF Solicit
  <1>5. TypeOK'
    BY <1>1, <1>2, <1>3 DEF TypeOK, Labels
  <1>6. Control' /\ Exclusive'
    BY <1>1, <1>2, <1>4 DEF Control, Exclusive
  <1>7. Served'
    <2>1. ASSUME NEW k \in Socks PROVE Pending(k)' = Pending(k)
      BY <1>2, <1>4 DEF Pending, Using
    <2> QED
      BY <1>1, <1>2, <2>1, MatchedFrame
  <1>8. OwnPackets'
    <2> SUFFICES ASSUME NEW u \in Threads, u \notin mixed' PROVE Own(u)'
      BY DEF OwnPackets
    <2>1. CASE u = t
      BY <1>4, <2>1 DEF Own
    <2>2. CASE u # t
      <3>1. Own(u) /\ call'[u] = call[u] /\ pc'[u] = pc[u] /\ skb'[u] = skb[u]
        BY <1>1, <1>2, <1>4, <2>2 DEF OwnPackets
      <3>2. pc[u] \in {"dest", "header", "push"} => First(u)' = First(u)
        BY <1>2, <1>3, <3>1, HeadIs DEF First
      <3>3. pc[u] \in {"link", "unlink", "output"} => pkt'[skb[u]] = pkt[skb[u]]
        BY <1>1, <1>3 DEF Control
      <3>4. sock'[call[u].sk] = sock[call[u].sk]
        BY <1>2
      <3> QED
        BY <3>1, <3>2, <3>3, <3>4, OwnFrame
    <2> QED
      BY <2>1, <2>2
  <1> QED
    BY <1>3, <1>5, <1>6, <1>7, <1>8 DEF IInv

-----------------------------------------------------------------------------
(* Theorems *)

\* Types and control, whatever happened to the queues.
LEMMA NextTyped ==
  ASSUME TypeOK, Control, [Next]_vars
  PROVE  TypeOK' /\ Control'
  <1>0. ASSUME Crash PROVE TypeOK' /\ Control'
    BY <1>0, CrashKeeps DEF IInv
  <1>1. ASSUME NEW t \in Threads, Step(t) PROVE TypeOK' /\ Control'
    <2>1. CASE HeaderFaults(t) \/ UnlinkFaults(t)
      BY <1>0, <2>1 DEF HeaderFaults, UnlinkFaults
    <2>2. CASE Cork(t) \/ AppendData(t) \/ Link(t) \/ SetDest(t) \/ Header(t)
      BY <2>2, CorkTyped, AppendTyped, LinkTyped, SetDestTyped, HeaderTyped
    <2>3. CASE Push(t) \/ \E u \in Threads : PushSame(t, u)
      BY <2>3, PushTypes
    <2>4. CASE AppendFails(t) \/ PushNothing(t) \/ Xmit(t) \/ Hold(t)
      BY <2>4, ReturnsTyped
    <2>5. CASE Unlink(t) \/ Solicit(t)
      BY <2>5, UnlinkTyped, SolicitTyped
    <2> QED
      BY <1>1, <2>1, <2>2, <2>3, <2>4, <2>5, Zenon DEF Step
  <1>2. ASSUME NEW t \in Threads, RouteFaults(t) PROVE TypeOK' /\ Control'
    BY <1>0, <1>2 DEF RouteFaults
  <1>3. ASSUME NEW t \in Threads, NEW c \in Calls, Begin(t, c) PROVE TypeOK' /\ Control'
    BY <1>3, BeginTyped
  <1>4. ASSUME NEW t \in Apps, NEW k \in Udps, NEW m \in Sends, Sendto(t, k, m) PROVE TypeOK' /\ Control'
    <2>1. t \in Threads /\ [sk |-> k, host |-> m.host, port |-> m.port, len |-> m.len] \in Calls
      BY SendsAssumption DEF Threads, Socks, Calls
    <2> QED
      BY <1>3, <1>4, <2>1 DEF Sendto
  <1>5. ASSUME NEW m \in Echos, Echo(m) PROVE TypeOK' /\ Control'
    <2>1. Rx \in Threads /\ [sk |-> Icmp, host |-> m.host, port |-> 0, len |-> m.len] \in Calls
      BY SendsAssumption, Words DEF Threads, Socks, Calls
    <2> QED
      BY <1>3, <1>5, <2>1 DEF Echo
  <1>6. CASE ArpReply \/ \E s \in Skbs : Drain(s)
    BY <1>6, LoopTyped
  <1>7. CASE UNCHANGED vars
    BY <1>7 DEF vars, TypeOK, Control
  <1> QED
    BY <1>1, <1>2, <1>4, <1>5, <1>6, <1>7, Zenon DEF Next

\* A queue that a thread has yet to take from is not empty.
LEMMA NothingFails ==
  ASSUME IInv, NEW t \in Threads
  PROVE  ~ PushNothing(t) /\ ~ HeaderFaults(t)
  <1> SUFFICES ASSUME PushNothing(t) \/ HeaderFaults(t) PROVE FALSE
    OBVIOUS
  <1>1. pc[t] \in {"header", "push"} /\ wq[call[t].sk] = <<>>
    BY DEF PushNothing, HeaderFaults, At
  <1> QED
    BY <1>1, HeadIs

\* Two threads in list operations on one queue: it is torn from now on.
LEMMA PushSameTears ==
  ASSUME IInv, NEW t \in Threads, NEW u \in Threads, PushSame(t, u)
  PROVE  torn'
  BY DEF PushSame, BeginList, At

\* While nothing is torn, every step keeps the invariant.
LEMMA NextWhole ==
  ASSUME IInv, Untorn, Untorn', [Next]_vars
  PROVE  IInv'
  <1>1. ASSUME NEW t \in Threads, Step(t) PROVE IInv'
    <2>1. ~ PushNothing(t) /\ ~ HeaderFaults(t) /\ ~ UnlinkFaults(t)
      BY NothingFails DEF UnlinkFaults, Untorn
    <2>2. ~ \E u \in Threads : PushSame(t, u)
      BY PushSameTears DEF Untorn
    <2> QED
      BY <1>1, <2>1, <2>2, CorkKeeps, AppendKeeps, AppendFailsKeeps, LinkKeeps, SetDestKeeps,
         HeaderKeeps, PushKeeps, UnlinkKeeps, XmitKeeps, SolicitKeeps, HoldKeeps DEF Step
  <1>2. ASSUME NEW t \in Threads, RouteFaults(t) PROVE IInv'
    BY <1>2, CrashKeeps DEF RouteFaults
  <1>3. ASSUME NEW t \in Apps, NEW k \in Udps, NEW m \in Sends, Sendto(t, k, m) PROVE IInv'
    BY <1>3, SendtoKeeps
  <1>4. ASSUME NEW m \in Echos, Echo(m) PROVE IInv'
    BY <1>4, EchoKeeps
  <1>5. ASSUME NEW s \in Skbs, Drain(s) PROVE IInv'
    BY <1>5, DrainKeeps
  <1>6. CASE ArpReply
    BY <1>6, ArpReplyKeeps
  <1>7. CASE UNCHANGED vars
    <2>1. /\ sock' = sock /\ wq' = wq /\ pkt' = pkt /\ pc' = pc /\ call' = call /\ skb' = skb
          /\ held' = held /\ out' = out /\ mixed' = mixed /\ torn' = torn /\ faulted' = faulted
      BY <1>7 DEF vars
    <2>2. TypeOK /\ Control /\ Served /\ Staged /\ Apart /\ Kept /\ Exclusive /\ OwnPackets
      BY DEF IInv
    <2>3. TypeOK' /\ Control' /\ Exclusive' /\ Staged' /\ Apart' /\ Kept'
      BY <2>1, <2>2 DEF TypeOK, Control, Exclusive, Staged, Apart, Kept, Free
    <2>4. Served'
      BY <2>1, <2>2, MatchedFrame DEF Pending, Using
    <2>5. OwnPackets'
      BY <2>1, <2>2 DEF OwnPackets, Own, Corked, First
    <2> QED
      BY <2>3, <2>4, <2>5 DEF IInv
  <1> QED
    BY <1>1, <1>2, <1>3, <1>4, <1>5, <1>6, <1>7, Zenon DEF Next

\* A torn queue is mended by nothing but the end of the process.
LEMMA TornStays ==
  ASSUME torn, ~ torn', [Next]_vars
  PROVE  Crash
  <1>1. ASSUME NEW t \in Threads, Step(t) PROVE Crash
    <2>1. Cork(t) \/ SetDest(t) => torn' = torn
      <3>1. ASSUME Cork(t) PROVE UNCHANGED <<torn, faulted>>
        BY <3>1 DEF Cork
      <3>2. ASSUME SetDest(t) PROVE UNCHANGED <<torn, faulted>>
        BY <3>2 DEF SetDest
      <3> QED
        BY <3>1, <3>2
    <2>5. Header(t) \/ Solicit(t) => torn' = torn
      BY DEF Header, Solicit
    <2>6. Link(t) \/ Unlink(t) => torn' = torn
      BY DEF Link, Unlink
    <2>2. AppendFails(t) \/ PushNothing(t) \/ Xmit(t) \/ Hold(t) => torn' = torn
      BY DEF AppendFails, PushNothing, Xmit, Hold
    <2>3. ~ BeginList(t)
      BY Zenon DEF BeginList
    <2>4. ~ AppendData(t) /\ ~ Push(t) /\ ~ \E u \in Threads : PushSame(t, u)
      BY <2>3 DEF AppendData, Push, PushSame
    <2> QED
      BY <1>1, <2>1, <2>2, <2>4, <2>5, <2>6, Zenon DEF Step, HeaderFaults, UnlinkFaults
  <1>2. ~ UNCHANGED vars /\ ~ ArpReply /\ (\A s \in Skbs : ~ Drain(s))
    BY DEF vars, ArpReply, Drain
  <1>3. \A t, c : ~ Begin(t, c)
    BY DEF Begin
  <1> QED
    BY <1>1, <1>2, <1>3, Zenon DEF Next, RouteFaults, Sendto, Echo

LEMMA NextSound == Sound /\ [Next]_vars => Sound'
  <1> SUFFICES ASSUME Sound, [Next]_vars PROVE Sound'
    OBVIOUS
  <1>1. TypeOK' /\ Control'
    BY NextTyped DEF Sound
  <1>2. ASSUME Untorn' PROVE IInv'
    <2>1. CASE Untorn
      BY <1>2, <2>1, NextWhole DEF Sound
    <2>2. CASE ~ Untorn
      BY <1>2, <2>2, TornStays, CrashKeeps DEF Untorn
    <2> QED
      BY <2>1, <2>2
  <1> QED
    BY <1>1, <1>2 DEF Sound

LEMMA InitSound == Init => Sound
  <1>1. Init => Fresh
    BY Zenon DEF Init, Fresh
  <1> QED
    BY <1>1, FreshIInv DEF Sound, IInv

\* The invariant holds always.
THEOREM Inductive == Spec => []Sound
  BY InitSound, NextSound, PTL DEF Spec

\* Every variable stays in its type, torn queues or not; in particular up->len and
\* tot_len are what fits in 16 bits, for payloads of any length.
THEOREM TypesHold == Spec => []TypeOK
  <1>1. Sound => TypeOK
    BY DEF Sound
  <1> QED
    BY <1>1, Inductive, PTL

\* Until two list operations on one write queue overlap, skb_peek and skb_dequeue
\* never meet an empty one, for any number of threads whose calls on a socket are
\* interleaved in any other way.
THEOREM QueuesServe == Spec => []NeverEmpty
  <1>1. Sound => NeverEmpty
    BY Zenon DEF Sound, IInv, Served, Matched, NeverEmpty, Untorn
  <1> QED
    BY <1>1, Inductive, PTL

\* Until then no header is refused its room, for payloads of any length, and a
\* frame on the wire is exactly its buffer.
THEOREM FramesWhole == Spec => []WholeFrame
  <1>1. Sound => WholeFrame
    <2> SUFFICES ASSUME Sound, Untorn PROVE WholeFrame
      BY Zenon DEF WholeFrame, Untorn
    <2>1. Staged /\ Kept /\ TypeOK /\ Control
      BY DEF Sound, IInv
    <2>2. ASSUME NEW s \in Skbs PROVE Sane(pkt[s].buf)
      <3>1. \/ Free(s) \/ Queued(pkt[s]) \/ Ready(pkt[s]) \/ Framed(pkt[s])
        <4>1. ASSUME NEW t \in Threads, skb[t] = s PROVE Queued(pkt[s]) \/ Ready(pkt[s])
          BY <2>1, <4>1, NullAssumption DEF Control, Staged
        <4> QED
          BY <2>1, <4>1 DEF Kept, Staged
      <3>2. Free(s) => Sane(pkt[s].buf)
        BY DEF Free, NoPacket, alloc_skb, Sane
      <3> QED
        BY <3>1, <3>2 DEF Queued, Ready, Framed, Clean
    <2>3. \A s \in Skbs : ~ pkt[s].buf.refused
      BY <2>2, Zenon DEF Sane
    <2>4. ASSUME NEW s \in out PROVE pkt[s].buf.data = 0 /\ pkt[s].buf.len = pkt[s].buf.end
      <3>1. /\ pkt[s].buf.data = 0 /\ pkt[s].buf.data + pkt[s].buf.len = pkt[s].buf.end
            /\ pkt[s].buf.len \in Nat
        BY <2>1 DEF Staged, Framed, Clean, Buffers
      <3> QED
        BY <3>1
    <2> QED
      BY <2>3, <2>4, Zenon DEF WholeFrame
  <1> QED
    BY <1>1, Inductive, PTL

\* As long as no write queue was torn, a call that overlaps no other call on its
\* socket sends its own data under its own headers, for datagrams of any length,
\* whatever happens on other sockets.
THEOREM HeadersOwn == Spec => []OwnHeaders
  <1>1. Sound => OwnHeaders
    <2> SUFFICES ASSUME Sound, NEW t \in Threads, pc[t] = "output", t \notin mixed, ~ torn
                 PROVE  LET p == pkt[skb[t]]
                            c == call[t]
                            n == 8 + c.len
                        IN  /\ p.body = c
                            /\ p.daddr = c.host
                            /\ p.l4.covers <= n
                            /\ c.len <= 65507 => p.tot_len = 20 + n
                            /\ c.len <= 65507 /\ c.sk # Icmp =>
                                 p.l4 = [port |-> c.port, len |-> n, covers |-> n, pseudo |-> p.daddr]
      BY DEF OwnHeaders, MaxUdp
    <2> DEFINE p == pkt[skb[t]]
               c == call[t]
               n == c.len + 8
    <2>0. IInv
      BY DEF Sound, Untorn
    <2>1. c.len \in Nat
      BY <2>0, InCall
    <2>2. /\ HasBody(p, c) /\ p.daddr = c.host /\ p.tot_len = (c.len + 28) % U16
          /\ c.sk # Icmp => p.l4 = HeaderOf(c)
      BY <2>0 DEF IInv, OwnPackets, Own
    <2>3. c.len <= 65507 => n % U16 = n /\ (c.len + 28) % U16 = 20 + n
      <3>1. c.len <= 65507 => c.len + 8 < U16 /\ c.len + 28 < U16
        BY <2>1 DEF U16
      <3>2. c.len + 8 \in Nat /\ c.len + 28 \in Nat /\ c.len + 28 = 20 + n
        BY <2>1
      <3> QED
        BY <3>1, <3>2, Fits DEF n
    <2>4. c.len <= 65507 /\ c.sk # Icmp =>
            p.l4 = [port |-> c.port, len |-> n, covers |-> n, pseudo |-> p.daddr]
      BY <2>2, <2>3 DEF HeaderOf
    <2>5. 8 + c.len = n
      BY <2>1
    <2> HIDE DEF p, c, n
    <2>6. p.body = c /\ p.l4.covers <= n
      BY <2>2 DEF HasBody, n
    <2> QED
      BY <2>2, <2>3, <2>4, <2>5, <2>6 DEF p, c
  <1> QED
    BY <1>1, Inductive, PTL

\* As long as no two list operations on one write queue have overlapped, a packet
\* that was built is in exactly one place: no two threads send the same one, none
\* is sent again, none is forgotten.
THEOREM PacketsSentOnce == Spec => []SentOnce
  <1>1. Sound => SentOnce
    <2> SUFFICES ASSUME Sound, Untorn, NEW s \in Skbs
                 PROVE  /\ \A p, q \in Places(s) : p = q
                        /\ ~ Free(s) => Places(s) # {}
      BY DEF SentOnce, Untorn
    <2>0. IInv
      BY DEF Sound
    <2>1. TypeOK /\ Apart /\ Kept
      BY <2>0 DEF IInv
    <2>2. \A k \in Socks : DOMAIN wq[k] = 1 .. Len(wq[k])
      BY <2>1 DEF TypeOK
    <2>3. s # NULL
      BY NullAssumption
    <2>4. ASSUME NEW p \in Places(s)
          PROVE  \/ \E t \in Threads : skb[t] = s /\ p = <<"hand", t>>
                 \/ \E k \in Socks : \E i \in 1 .. Len(wq[k]) : wq[k][i] = s /\ p = <<"queue", k, i>>
                 \/ s \in held /\ p = "held"
                 \/ s \in out /\ p = "out"
      BY <2>2 DEF Places
    <2>5. ASSUME NEW p \in Places(s), NEW q \in Places(s) PROVE p = q
      <3>1. CASE \E t \in Threads : skb[t] = s /\ p = <<"hand", t>>
        BY <2>0, <2>1, <2>3, <2>4, <3>1, PlacesDiffer DEF Apart
      <3>2. CASE \E k \in Socks : \E i \in 1 .. Len(wq[k]) : wq[k][i] = s /\ p = <<"queue", k, i>>
        BY <2>0, <2>1, <2>3, <2>4, <3>2, PlacesDiffer DEF Apart
      <3>3. CASE s \in held /\ p = "held"
        BY <2>0, <2>1, <2>3, <2>4, <3>3, PlacesDiffer DEF Apart
      <3>4. CASE s \in out /\ p = "out"
        BY <2>0, <2>1, <2>3, <2>4, <3>4, PlacesDiffer DEF Apart
      <3> QED
        BY <2>4, <3>1, <3>2, <3>3, <3>4
    <2>6. ~ Free(s) => Places(s) # {}
      <3>1. ASSUME NEW k \in Socks, NEW i \in 1 .. Len(wq[k]), wq[k][i] = s
            PROVE  <<"queue", k, i>> \in Places(s)
        BY <2>2, <3>1 DEF Places
      <3>2. ASSUME NEW t \in Threads, skb[t] = s PROVE <<"hand", t>> \in Places(s)
        BY <3>2 DEF Places
      <3>3. s \in held => "held" \in Places(s)
        BY DEF Places
      <3>4. s \in out => "out" \in Places(s)
        BY DEF Places
      <3> QED
        BY <2>1, <3>1, <3>2, <3>3, <3>4 DEF Kept
    <2> QED
      BY <2>5, <2>6
  <1> QED
    BY <1>1, Inductive, PTL
=============================================================================
