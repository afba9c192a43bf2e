-------------------------------- MODULE RxPath --------------------------------
(***************************************************************************)
(* The way of one received frame through the stack: ether_rx of            *)
(* driver/ethernet.c, netif_receive_skb of core/dev.c, ip_rcv and          *)
(* ip_local_deliver of ipv4/ip_input.c, icmp_rcv of ipv4/icmp.c,           *)
(* __udp4_lib_rcv and udp_recvmsg of ipv4/udp.c with                       *)
(* skb_copy_datagram_iovec of core/datagram.c, and arp_rcv of ipv4/arp.c,  *)
(* with the arithmetic skb_put, skb_pull and skb_may_pull do on the buffer.*)
(*                                                                         *)
(* The receive loop handles one frame at a time, one action per layer.     *)
(* Fields of the frame are chosen by the layer that reads them.  Offsets   *)
(* count bytes from skb->head.  What a frame means to the ARP cache and to *)
(* the port table is in modules Neighbour and Sockets: here it only        *)
(* matters who owns the buffer afterwards.                                 *)
(***************************************************************************)
EXTENDS Integers

CONSTANTS Sizes,      \* lengths read() may return
          Ihls,       \* values of the 4-bit header length field of IP
          TotLens,    \* values of the total length field of IP
          IcmpTypes,  \* values of the ICMP type field
          Rooms       \* lengths of the buffers applications receive into

ASSUME LengthsAssumption ==
  /\ Sizes \subseteq Nat /\ Ihls \subseteq Nat /\ TotLens \subseteq Nat
  /\ IcmpTypes \subseteq Nat /\ Rooms \subseteq Nat

ETH_HLEN == 14
IP_HLEN == 20       \* sizeof(struct iphdr)
ARP_LEN == 28       \* sizeof(struct arphdr) + 2 * (addr_len + 4)
ICMP_HLEN == 8      \* sizeof(struct icmphdr)
UDP_HLEN == 8       \* sizeof(struct udphdr)
ICMP_ECHO == 8
NR_ICMP_TYPES == 18

\* The handlers registered at boot, before the first frame is read, and never
\* removed: by arp_init and inet_init (dev_add_pack), and by inet_init
\* (inet_add_protocol).
ptype_base == {"arp", "ip"}
inet_protos == {"icmp", "udp"}

\* What handlers return.
NET_RX_SUCCESS == 0
NET_RX_DROP == 1

PktTypes == {"HOST", "BROADCAST", "MULTICAST", "OTHERHOST"}

VARIABLES
  pc,         \* the layer that has the frame
  size,       \* length of the buffer: the frame as read
  data, len,  \* skb->data and skb->len
  nh, h,      \* skb->nh.raw and skb->h.raw
  pkt_type,   \* skb->pkt_type
  ihl, tot,   \* the length fields of the IP header, once checked
  valid,      \* version and checksum of the IP header were right
  proto,      \* the protocol field of the IP header, once it was dispatched on
  ret,        \* what the handler of the frame returned to netif_receive_skb
  seen,       \* bytes 0 .. seen-1 of the buffer have been looked at
  frees,      \* times kfree_skb was called on the buffer
  owner,      \* who had the buffer last: nobody, the stack, a socket, or the
              \* application that received it
  reply,      \* bytes of ICMP data echoed back; -1 stands for no reply
  room,       \* length of the buffer the application received into
  copied      \* bytes copied there; -1 stands for nothing copied

vars == <<pc, size, data, len, nh, h, pkt_type, ihl, tot, valid, proto, ret, seen, frees,
          owner, reply, room, copied>>
buf == <<size, data, len, nh, h, pkt_type>>
ip == <<ihl, tot, valid, proto>>
app == <<room, copied>>

NoReply == -1
NoCopy == -1
NoProto == "none"

\* Nothing is known of the frame yet.
Blank ==
  /\ ihl' = 0 /\ tot' = 0 /\ valid' = FALSE /\ proto' = NoProto /\ ret' = NET_RX_DROP
  /\ seen' = 0 /\ frees' = 0 /\ reply' = NoReply /\ room' = 0 /\ copied' = NoCopy

Init ==
  /\ pc = "read"
  /\ size = 0 /\ data = 0 /\ len = 0 /\ nh = 0 /\ h = 0
  /\ pkt_type = "HOST"
  /\ ihl = 0 /\ tot = 0 /\ valid = FALSE /\ proto = NoProto /\ ret = NET_RX_DROP
  /\ seen = 0 /\ frees = 0 /\ owner = "nobody"
  /\ reply = NoReply /\ room = 0 /\ copied = NoCopy

-----------------------------------------------------------------------------
(* Ways out of a layer *)

\* The frame goes to the next layer.
Pass(l) == pc' = l /\ UNCHANGED <<frees, owner, ret>>

\* kfree_skb gives back the struct, not the data, and would do so a second time.
kfree_skb == frees' = frees + 1

\* The handler returns to netif_receive_skb and leaves the buffer alone, ...
Return(r) == pc' = "return" /\ ret' = r /\ UNCHANGED <<frees, owner>>

\* ... or after it has released it.
FreeAndReturn(r) == kfree_skb /\ pc' = "return" /\ ret' = r /\ UNCHANGED owner

\* The handler looks at n bytes from offset o.
Look(o, n) == seen' = IF o + n > seen THEN o + n ELSE seen

\* skb_pull of n bytes.  icmp_rcv looks at its result; ip_local_deliver_finish and
\* skb_copy_datagram_iovec do not, and where it would refuse len is negative here.
Pull(n) == data' = data + n /\ len' = len - n

-----------------------------------------------------------------------------
(* driver/ethernet.c, core/dev.c *)

\* alloc_skb and skb_put of the whole frame.
Alloc(n) == size' = n /\ data' = 0 /\ len' = n /\ nh' = 0 /\ h' = 0 /\ pkt_type' = "HOST"

\* ether_rx: a frame shorter than an Ethernet header is ignored.
EtherRx(n) ==
  /\ pc = "read"
  /\ n >= ETH_HLEN
  /\ Alloc(n)
  /\ Blank
  /\ owner' = "stack"
  /\ pc' = "eth"

\* The header is stripped and its destination address classified.
eth_type_trans(type) ==
  /\ Pull(ETH_HLEN)
  /\ Look(0, ETH_HLEN)
  /\ pkt_type' = type

\* netif_receive_skb sets nh and h and calls the handler of the protocol;
\* without one ret is still NET_RX_DROP.
NetifRx(type, protocol) ==
  /\ pc = "eth"
  /\ eth_type_trans(type)
  /\ nh' = data' /\ h' = data'
  /\ IF protocol \in ptype_base THEN Pass(protocol) ELSE Return(NET_RX_DROP)
  /\ UNCHANGED <<size, ip, reply, app>>

\* netif_receive_skb releases what its handler wants to be dropped.
NetifReturn ==
  /\ pc = "return"
  /\ IF ret = NET_RX_DROP THEN kfree_skb ELSE UNCHANGED frees
  /\ pc' = "read"
  /\ UNCHANGED <<buf, ip, ret, seen, owner, reply, app>>

-----------------------------------------------------------------------------
(* ipv4/ip_input.c *)

\* ip_rcv drops on the packet type and on a frame too short for a header before
\* it looks at the header, ...
IpRcvShort ==
  /\ pc = "ip"
  /\ pkt_type # "HOST" \/ len < IP_HLEN
  /\ Return(NET_RX_DROP)
  /\ UNCHANGED <<buf, ip, seen, reply, app>>

\* Mutant: the header is taken to be as long as it says.
IpHeaderThere_Trusted(hl) == TRUE

\* skb_may_pull of the whole header.
IpHeaderThere(hl) == len >= hl * 4

\* Mutant: the result of checksum() is not looked at.
IpRcv_NoChecksum(hl, tl, good) ==
  /\ pc = "ip"
  /\ pkt_type = "HOST" /\ len >= IP_HLEN
  /\ ihl' = hl /\ tot' = tl /\ valid' = good
  /\ IF hl < 5 \/ ~ IpHeaderThere(hl)
       THEN Look(nh, IP_HLEN) /\ Return(NET_RX_DROP)
       ELSE /\ Look(nh, hl * 4)
            /\ IF len < tl \/ tl < hl * 4 THEN Return(NET_RX_DROP) ELSE Pass("route")
  /\ UNCHANGED <<buf, proto, reply, app>>

\* ... then on header length, version, checksum and total length.  The checksum
\* covers the whole header.
IpRcv(hl, tl, good) ==
  /\ pc = "ip"
  /\ pkt_type = "HOST" /\ len >= IP_HLEN
  /\ ihl' = hl /\ tot' = tl /\ valid' = good
  /\ IF hl < 5 \/ ~ IpHeaderThere(hl)
       THEN Look(nh, IP_HLEN) /\ Return(NET_RX_DROP)
       ELSE /\ Look(nh, hl * 4)
            /\ IF ~ good \/ len < tl \/ tl < hl * 4 THEN Return(NET_RX_DROP) ELSE Pass("route")
  /\ UNCHANGED <<buf, proto, reply, app>>

\* Mutant: ip_local_deliver_finish moves data and forgets len.
IpLocalDeliver_KeepLen(local, protocol) ==
  /\ pc = "route"
  /\ \/ ~ local /\ Return(NET_RX_DROP) /\ UNCHANGED <<data, len, h, proto>>
     \/ /\ local
        /\ data' = data + ihl * 4 /\ UNCHANGED len
        /\ h' = data' /\ proto' = protocol
        /\ IF protocol \in inet_protos THEN Pass(protocol) ELSE Return(0)
  /\ UNCHANGED <<size, nh, pkt_type, ihl, tot, valid, seen, reply, app>>

\* ip_route_input accepts only an RTN_LOCAL destination; ip_local_deliver_finish
\* strips the IP header and calls the handler of the protocol.  Without one the
\* result is 0 and nobody releases the buffer.
IpLocalDeliver(local, protocol) ==
  /\ pc = "route"
  /\ \/ ~ local /\ Return(NET_RX_DROP) /\ UNCHANGED <<data, len, h, proto>>
     \/ /\ local
        /\ Pull(ihl * 4)
        /\ h' = data' /\ proto' = protocol
        /\ IF protocol \in inet_protos THEN Pass(protocol) ELSE Return(0)
  /\ UNCHANGED <<size, nh, pkt_type, ihl, tot, valid, seen, reply, app>>

-----------------------------------------------------------------------------
(* ipv4/icmp.c *)

\* skb_pull refuses: icmp_rcv returns -1, which is not NET_RX_DROP.
IcmpRcvShort ==
  /\ pc = "icmp"
  /\ len < ICMP_HLEN
  /\ Return(-1)
  /\ UNCHANGED <<buf, ip, seen, reply, app>>

\* icmp_echo and icmp_reply: all that is left of the buffer is echoed, if there is
\* a route back to the source.
icmp_echo(routed) ==
  /\ Look(h, IF routed THEN ICMP_HLEN + len' ELSE ICMP_HLEN)
  /\ reply' = IF routed THEN len' ELSE NoReply

\* icmp_rcv strips the ICMP header and dispatches on the type.  Only ICMP_ECHO
\* has a handler in icmp_pointers.  A type above 18 is discarded, any other one is
\* a call through NULL.
IcmpRcv(type, routed) ==
  /\ pc = "icmp"
  /\ len >= ICMP_HLEN
  /\ Pull(ICMP_HLEN)
  /\ \/ type > NR_ICMP_TYPES /\ FreeAndReturn(0) /\ Look(h, ICMP_HLEN) /\ UNCHANGED reply
     \/ type = ICMP_ECHO /\ icmp_echo(routed) /\ FreeAndReturn(0)
     \/ /\ type <= NR_ICMP_TYPES /\ type # ICMP_ECHO
        /\ Pass("fault") /\ Look(h, ICMP_HLEN) /\ UNCHANGED reply
  /\ UNCHANGED <<size, nh, h, pkt_type, ip, app>>

-----------------------------------------------------------------------------
(* ipv4/udp.c *)

\* The buffer waits in the receive queue of a socket.
Queue(r) == owner' = "socket" /\ pc' = "return" /\ ret' = r /\ UNCHANGED frees

\* Mutant: __udp4_lib_rcv reports NET_RX_DROP for a buffer it has queued.
UdpRcv_QueueAndDrop(found) ==
  /\ pc = "udp"
  /\ IF len < UDP_HLEN THEN UNCHANGED seen ELSE Look(h, UDP_HLEN)
  /\ IF len >= UDP_HLEN /\ found THEN Queue(NET_RX_DROP) ELSE FreeAndReturn(0)
  /\ UNCHANGED <<buf, ip, reply, app>>

\* Mutant: __udp4_lib_rcv does not ask skb_may_pull for its header.
UdpRcv_NoCheck(found) ==
  /\ pc = "udp"
  /\ Look(h, UDP_HLEN)
  /\ IF found THEN Queue(0) ELSE FreeAndReturn(0)
  /\ UNCHANGED <<buf, ip, reply, app>>

\* __udp4_lib_rcv: the buffer goes to the receive queue of the socket that has
\* the port, or is released.  The UDP header stays in front of the data.
UdpRcv(found) ==
  /\ pc = "udp"
  /\ IF len < UDP_HLEN THEN UNCHANGED seen ELSE Look(h, UDP_HLEN)
  /\ IF len >= UDP_HLEN /\ found THEN Queue(0) ELSE FreeAndReturn(0)
  /\ UNCHANGED <<buf, ip, reply, app>>

\* Mutant: the UDP header is not skipped.
SysRecv_WithHeader(n) ==
  /\ owner = "socket"
  /\ room' = n
  /\ copied' = len
  /\ Look(data, len)
  /\ owner' = "app"
  /\ UNCHANGED <<pc, buf, ip, ret, frees, reply>>

\* Whatever number of bytes it is told to copy, it copies all of skb->len.
skb_copy_datagram_iovec(offset) ==
  /\ Pull(offset)
  /\ copied' = len'
  /\ Look(data', len')

\* sys_recv into a buffer of n bytes, in the thread of the application.
\* udp_recvmsg cuts its count of the data to n and passes it on, to no effect.
\* Nobody releases the buffer afterwards.
SysRecv(n) ==
  /\ owner = "socket"
  /\ room' = n
  /\ skb_copy_datagram_iovec(UDP_HLEN)
  /\ owner' = "app"
  /\ UNCHANGED <<pc, size, nh, h, pkt_type, ip, ret, frees, reply>>

-----------------------------------------------------------------------------
(* ipv4/arp.c *)

\* arp_rcv and arp_process release the buffer on every path; they look at the
\* packet only if it is long enough and, beyond its fixed part, only if the
\* address lengths and formats are the ones of IP over Ethernet.
ArpRcv(sane) ==
  /\ pc = "arp"
  /\ \/ len < ARP_LEN /\ UNCHANGED seen
     \/ /\ len >= ARP_LEN
        /\ Look(nh, IF sane /\ pkt_type # "OTHERHOST" THEN ARP_LEN ELSE 8)
  /\ FreeAndReturn(0)
  /\ UNCHANGED <<buf, ip, reply, app>>

-----------------------------------------------------------------------------
Next ==
  \/ \E n \in Sizes : EtherRx(n)
  \/ \E type \in PktTypes, protocol \in {"ip", "arp", "other"} : NetifRx(type, protocol)
  \/ NetifReturn
  \/ IpRcvShort
  \/ \E hl \in Ihls, tl \in TotLens, good \in BOOLEAN : IpRcv(hl, tl, good)
  \/ \E local \in BOOLEAN, protocol \in {"icmp", "udp", "other"} : IpLocalDeliver(local, protocol)
  \/ IcmpRcvShort
  \/ \E type \in IcmpTypes, routed \in BOOLEAN : IcmpRcv(type, routed)
  \/ \E found \in BOOLEAN : UdpRcv(found)
  \/ \E n \in Rooms : SysRecv(n)
  \/ \E sane \in BOOLEAN : ArpRcv(sane)

Spec == Init /\ [][Next]_vars

-----------------------------------------------------------------------------
(* Properties *)

\* Every variable stays in its type; in particular len never goes below zero, that
\* is, no skb_pull is refused whose caller does not look at the result.
TypeOK ==
  /\ pc \in {"read", "eth", "ip", "route", "icmp", "udp", "arp", "return", "fault"}
  /\ size \in Nat /\ data \in Nat /\ len \in Nat /\ nh \in Nat /\ h \in Nat
  /\ pkt_type \in PktTypes
  /\ ihl \in Nat /\ tot \in Nat /\ valid \in BOOLEAN
  /\ proto \in {NoProto, "icmp", "udp", "other"} /\ ret \in {-1, NET_RX_SUCCESS, NET_RX_DROP}
  /\ seen \in Nat /\ frees \in Nat
  /\ owner \in {"stack", "socket", "app", "nobody"}
  /\ reply \in Nat \cup {NoReply}
  /\ room \in Nat
  /\ copied \in Nat \cup {NoCopy}

\* No layer looks beyond the bytes that were received, whatever lengths the
\* headers claim: each check (skb_may_pull, skb_pull, the lengths of ip_rcv)
\* covers what the layers after it read.
ReadsInFrame == seen <= size

\* The data of a buffer ends where the frame ends: pulls move data and len
\* together, so the length a socket or an echo sees is what was received.
DataEndsAtTail == data + len = size

\* A buffer is released at most once, by its handler or by netif_receive_skb for a
\* handler that returned NET_RX_DROP, and never once a socket or an application
\* has it.  netif_receive_skb returns with a buffer that nobody has released or
\* taken over in two cases only: the IP datagram has a protocol without a
\* handler, or an ICMP message shorter than its header.
Released ==
  /\ frees <= 1
  /\ frees = 1 => owner = "stack"
  /\ pc = "read" /\ owner = "stack" /\ frees = 0 =>
       \/ proto # NoProto /\ proto \notin inet_protos
       \/ proto = "icmp" /\ size < h + ICMP_HLEN

\* Only a valid unicast IP datagram is answered or reaches a socket ("MUST
\* silently discard any IP frame that fails the checksum"), and an echo carries
\* all the data of the request ("Data received in the ICMP_ECHO request MUST be
\* included in the reply").
OnlyValidServed ==
  owner \in {"socket", "app"} \/ reply # NoReply =>
    /\ pkt_type = "HOST" /\ valid /\ ihl >= 5 /\ tot >= ihl * 4
    /\ reply # NoReply => reply + ICMP_HLEN >= tot - ihl * 4

\* A datagram that is the whole of its frame and fits the buffer of the caller is
\* received whole, and nothing else with it: neither headers nor a byte from
\* beyond the frame.  (Where link-layer padding follows, the copy includes it.)
RecvWhole ==
  owner = "app" /\ size = ETH_HLEN + tot =>
    LET payload == tot - (ihl * 4 + UDP_HLEN)
    IN  payload <= room => copied = payload /\ seen = size

\* The comment on sys_recvfrom: "We verify the buffers are writable".  What is
\* copied fits the buffer of the caller.
RecvInRoom == owner = "app" => copied <= room

\* The comment in icmp_rcv: "Unkown ICMP messages types MUST be silently
\* discarded".
UnknownIcmpDiscarded == pc # "fault"
=============================================================================
