----------------------------- MODULE RxPathProofs -----------------------------
(***************************************************************************)
(* Proofs about RxPath, for every set of frame lengths and of values of    *)
(* the length fields in the headers.                                       *)
(***************************************************************************)
EXTENDS RxPath, TLAPS

\* A layer still works on the frame.
Working == pc \notin {"read", "return"}

\* What the checks of ip_rcv have established for the layers after it.
IpChecked ==
  pkt_type = "HOST" /\ valid /\ ihl >= 5 /\ tot >= ihl * 4

\* Where data, nh and h stand, layer by layer, and how much is known to follow.
Geometry ==
  /\ data + len = size
  /\ Working => size >= ETH_HLEN
  /\ pc = "eth" => data = 0
  /\ pc \in {"ip", "arp", "route"} => nh = data /\ h = data /\ data = ETH_HLEN
  /\ pc = "route" => IpChecked /\ len >= ihl * 4 /\ len >= tot
  /\ pc \in {"icmp", "udp"} => IpChecked /\ h = data /\ len + ihl * 4 >= tot
                              /\ data = ETH_HLEN + ihl * 4

\* A datagram that waits in a receive queue keeps its UDP header in front.
QueuedSound ==
  owner = "socket" => data = ETH_HLEN + ihl * 4 /\ len >= UDP_HLEN /\ len + ihl * 4 >= tot

\* Who has the buffer while a layer works on it.
Ownership == Working => owner = "stack" /\ frees = 0 /\ reply = NoReply

\* The protocol field is read when the datagram is handed to its protocol.
Dispatched ==
  /\ pc \in {"eth", "ip", "arp", "route"} => proto = NoProto
  /\ pc = "icmp" => proto = "icmp"

\* What a handler leaves to netif_receive_skb: a buffer that is not released yet
\* with NET_RX_DROP, and otherwise one that was released or taken over, but for
\* the two cases in which it is forgotten.
Returned ==
  pc = "return" =>
    /\ ret = NET_RX_DROP => owner = "stack" /\ frees = 0
    /\ ret # NET_RX_DROP /\ owner = "stack" /\ frees = 0 =>
         \/ proto = "other"
         \/ proto = "icmp" /\ size < h + ICMP_HLEN

IInv ==
  /\ TypeOK
  /\ Geometry
  /\ QueuedSound
  /\ Ownership
  /\ Dispatched
  /\ Returned
  /\ ReadsInFrame
  /\ Released
  /\ OnlyValidServed
  /\ RecvWhole

USE DEF ETH_HLEN, IP_HLEN, ARP_LEN, ICMP_HLEN, UDP_HLEN, ICMP_ECHO, NR_ICMP_TYPES, NoReply, NoCopy,
    NoProto, NET_RX_SUCCESS, NET_RX_DROP, ptype_base, inet_protos

\* The invariant holds before the first frame.
LEMMA InitIInv == Init => IInv
  <1> SUFFICES ASSUME Init PROVE IInv
    OBVIOUS
  <1>1. valid \in BOOLEAN
    BY Zenon DEF Init
  <1>2. /\ pc = "read" /\ pkt_type = "HOST" /\ owner = "nobody" /\ reply = NoReply /\ frees = 0
        /\ data = 0 /\ len = 0 /\ size = 0
    BY DEF Init
  <1>3. TypeOK
    BY <1>1 DEF Init, TypeOK, PktTypes
  <1>4. Geometry /\ QueuedSound /\ Ownership /\ Dispatched /\ Returned
    BY <1>2 DEF Geometry, QueuedSound, Ownership, Dispatched, Returned, Working
  <1>5. ReadsInFrame /\ Released /\ OnlyValidServed /\ RecvWhole
    BY <1>2 DEF Init, ReadsInFrame, Released, OnlyValidServed, RecvWhole
  <1> QED
    BY <1>3, <1>4, <1>5 DEF IInv

\* Every layer preserves the invariant.
LEMMA NextIInv == IInv /\ [Next]_vars => IInv'
  <1> SUFFICES ASSUME IInv, [Next]_vars PROVE IInv'
    OBVIOUS
  <1> USE LengthsAssumption DEF IInv, TypeOK, Geometry, QueuedSound, Ownership, Dispatched, Returned,
         ReadsInFrame, Released, OnlyValidServed, RecvWhole, Working, IpChecked, PktTypes, Look,
         kfree_skb, Return, FreeAndReturn, Pass, Pull, ip, app
  <1>1. ASSUME NEW n \in Sizes, EtherRx(n) PROVE IInv'
    <2>1. valid' \in BOOLEAN
      BY <1>1, Zenon DEF EtherRx, Blank
    <2> QED
      BY <1>1, <2>1 DEF EtherRx, Blank, Alloc
  <1>2. ASSUME NEW type \in PktTypes, NEW protocol \in {"ip", "arp", "other"},
               NetifRx(type, protocol)
        PROVE  IInv'
    BY <1>2 DEF NetifRx, eth_type_trans
  <1>3. CASE IpRcvShort
    BY <1>3 DEF IpRcvShort, buf
  <1>4. ASSUME NEW hl \in Ihls, NEW tl \in TotLens, NEW good \in BOOLEAN, IpRcv(hl, tl, good)
        PROVE  IInv'
    BY <1>4 DEF IpRcv, IpHeaderThere, buf
  <1>5. ASSUME NEW local \in BOOLEAN, NEW protocol \in {"icmp", "udp", "other"},
               IpLocalDeliver(local, protocol)
        PROVE  IInv'
    BY <1>5 DEF IpLocalDeliver
  <1>6. CASE IcmpRcvShort
    BY <1>6 DEF IcmpRcvShort, buf
  <1>7. ASSUME NEW type \in IcmpTypes, NEW routed \in BOOLEAN, IcmpRcv(type, routed)
        PROVE  IInv'
    BY <1>7 DEF IcmpRcv, icmp_echo
  <1>8. ASSUME NEW found \in BOOLEAN, UdpRcv(found) PROVE IInv'
    BY <1>8 DEF UdpRcv, Queue, buf
  <1>9. ASSUME NEW sane \in BOOLEAN, ArpRcv(sane) PROVE IInv'
    BY <1>9 DEF ArpRcv, buf
  <1>10. ASSUME NEW n \in Rooms, SysRecv(n) PROVE IInv'
    BY <1>10 DEF SysRecv, skb_copy_datagram_iovec
  <1>12. CASE NetifReturn
    BY <1>12 DEF NetifReturn, buf
  <1>11. CASE UNCHANGED vars
    BY <1>11 DEF vars
  <1>q. QED
    BY <1>1, <1>2, <1>3, <1>4, <1>5, <1>6, <1>7, <1>8, <1>9, <1>10, <1>11, <1>12 DEF Next

\* The invariant holds always.
THEOREM Inductive == Spec => []IInv
  BY InitIInv, NextIInv, PTL DEF Spec

\* No layer looks beyond the frame, for frames and header fields of any length:
\* the length checks from ether_rx to __udp4_lib_rcv suffice for what is read.
THEOREM ReadsStayInFrame == Spec => []ReadsInFrame
  <1>1. IInv => ReadsInFrame
    BY DEF IInv
  <1> QED
    BY <1>1, Inductive, PTL

\* skb->len never goes below zero, that is, no skb_pull is refused whose caller
\* ignores it, for frames and header fields of any length.
THEOREM LengthsNeverWrap == Spec => []TypeOK
  <1>1. IInv => TypeOK
    BY DEF IInv
  <1> QED
    BY <1>1, Inductive, PTL

\* However the layers pull, data always ends at the tail.
THEOREM LengthsConsistent == Spec => []DataEndsAtTail
  <1>1. IInv => DataEndsAtTail
    BY DEF IInv, Geometry, DataEndsAtTail
  <1> QED
    BY <1>1, Inductive, PTL

\* A buffer is released at most once and never after a socket took it over, and
\* only a datagram of a protocol without a handler and an ICMP message shorter
\* than its header are forgotten, for frames and header fields of any length.
THEOREM BuffersReleased == Spec => []Released
  <1>1. IInv => Released
    BY DEF IInv
  <1> QED
    BY <1>1, Inductive, PTL

\* Only valid unicast datagrams are served, and an echo is complete.
THEOREM ValidServed == Spec => []OnlyValidServed
  <1>1. IInv => OnlyValidServed
    BY DEF IInv
  <1> QED
    BY <1>1, Inductive, PTL

\* A datagram that fills its frame and fits the buffer of the caller is received
\* whole and alone, for frames, header fields and buffers of any length.
THEOREM WholeDatagrams == Spec => []RecvWhole
  <1>1. IInv => RecvWhole
    BY DEF IInv
  <1> QED
    BY <1>1, Inductive, PTL
=============================================================================
