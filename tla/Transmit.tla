------------------------------- MODULE Transmit -------------------------------
(***************************************************************************)
(* Building and sending a datagram: udp_sendmsg and                        *)
(* udp_push_pending_frames of ipv4/udp.c, icmp_reply, icmp_push_reply and  *)
(* icmp_glue_bits of ipv4/icmp.c, ip_append_data and                       *)
(* ip_push_pending_frames of ipv4/ip_output.c, arp_create of ipv4/arp.c,   *)
(* eth_header and ether_tx of driver/ethernet.c.                           *)
(*                                                                         *)
(* On its way a datagram lives in the socket: its length in up->len, its   *)
(* route in cork.rt, its destination in inet->daddr and dport, the packet  *)
(* on sk_write_queue.  Nothing is locked, so the threads that call         *)
(* sys_sendto and the receive loop, which answers pings through its own    *)
(* socket, interleave between any two accesses to a socket.  Adjacent      *)
(* loads and stores are one action: only overlapping calls on one socket   *)
(* could tell them apart, and nothing is claimed of what those write into  *)
(* headers.  An operation on a write queue has a beginning and an end, and *)
(* when two of them overlap the queue is torn (module SkbQueue looks       *)
(* inside): packets are lost or taken twice, and the properties end there. *)
(* Which of the three ways a packet takes at the neighbour (sent, held,    *)
(* held after an ARP request) is left open (module Neighbour).             *)
(***************************************************************************)
EXTENDS SkBuff, Sequences

CONSTANTS Apps,     \* threads that call sys_sendto
          Rx,       \* the receive loop
          Udps,     \* UDP sockets
          Icmp,     \* the socket icmp_init creates
          Hosts,    \* IPv4 addresses with a route
          Sends,    \* what sys_sendto may be asked: host, port and length
          Echos,    \* what a ping may ask: host and length of the data
          Skbs,     \* what alloc_skb may return: never freed once it was sent
          NULL

Threads == Apps \cup {Rx}
Socks == Udps \cup {Icmp}

\* up->len, uh->len and tot_len are uint16_t.
U16 == 65536
uint16 == 0 .. U16 - 1

\* A call sends len bytes to a port of a host; an echo reply has no port.
Calls == [sk : Socks, host : Hosts, port : uint16, len : Nat]

ASSUME ThreadsAssumption == Rx \notin Apps /\ Icmp \notin Udps
\* udp_sendmsg refuses port 0.
ASSUME SendsAssumption ==
  /\ Sends \subseteq [host : Hosts, port : uint16 \ {0}, len : Nat]
  /\ Echos \subseteq [host : Hosts, len : Nat]
ASSUME NullAssumption == NULL \notin Hosts \cup Skbs \cup Socks \cup Calls

ETH_HLEN == 14
IP_HLEN == 20      \* sizeof(struct iphdr)
L4_HLEN == 8       \* sizeof(struct udphdr) = sizeof(struct icmphdr)
ARP_LEN == 28      \* sizeof(struct arphdr) + 2 * (addr_len + 4)

VARIABLES
  sock,     \* the fields of a socket a send goes through
  wq,       \* sk->sk_write_queue
  pkt,      \* the packets: buffer and what was written into it
  pc,       \* where each thread stands
  call,     \* the call a thread executes
  skb,      \* the packet a thread is putting on a write queue or has dequeued
  held,     \* packets waiting on some arp_queue
  out,      \* packets written to the device
  mixed,    \* threads whose call overlapped another one on the same socket
  torn,     \* two operations on one write queue have overlapped
  faulted   \* the process died of a NULL pointer

vars == <<sock, wq, pkt, pc, call, skb, held, out, mixed, torn, faulted>>

\* A header that was not written: the buffer comes from malloc.
Unset == [port |-> 0, len |-> 0, covers |-> 0, pseudo |-> NULL]

NoPacket == [buf |-> alloc_skb(0), body |-> NULL, l4 |-> Unset, tot_len |-> 0, daddr |-> NULL]

\* The memory of the process before the first call.
NewSocks == [k \in Socks |-> [len |-> 0, rt |-> NULL, daddr |-> NULL, dport |-> 0]]
NoQueues == [k \in Socks |-> <<>>]
NoPackets == [s \in Skbs |-> NoPacket]
NoCalls == [t \in Threads |-> NULL]
AllIdle == [t \in Threads |-> "idle"]

Init ==
  /\ sock = NewSocks /\ wq = NoQueues /\ pkt = NoPackets
  /\ pc = AllIdle /\ call = NoCalls /\ skb = NoCalls
  /\ held = {} /\ out = {} /\ mixed = {}
  /\ torn = FALSE /\ faulted = FALSE

-----------------------------------------------------------------------------
(* What is written into a packet *)

\* A buffer alloc_skb has not handed out yet, and the one it hands out next: which
\* one that is makes no difference.
Free(s) == pkt[s] = NoPacket
CanAlloc == \E s \in Skbs : Free(s)
NewSkb == CHOOSE s \in Skbs : Free(s)

\* Room for the Ethernet header, then both headers and the payload; data is
\* left at the payload.
Laid(n) ==
  LET put == skb_put(skb_reserve(alloc_skb(n + L4_HLEN + IP_HLEN + ETH_HLEN), ETH_HLEN),
                     n + L4_HLEN + IP_HLEN)
  IN  skb_pull(skb_pull([put EXCEPT !.nh = put.data, !.h = put.data + IP_HLEN], IP_HLEN), L4_HLEN)

\* The packet ip_append_data builds for a call, with ip_generic_getfrag.
UdpData(c) == [NoPacket EXCEPT !.buf = Laid(c.len), !.body = c]

\* With icmp_glue_bits, which also writes the header.  It sums skb->len bytes
\* from the header on, and skb->len counts the data only.  ip_append_data does
\* not call it when there is no data: the header stays as malloc left it.
EchoData(c) ==
  IF c.len = 0 THEN UdpData(c)
  ELSE [UdpData(c) EXCEPT !.buf = skb_push(@, L4_HLEN),
                          !.l4 = [Unset EXCEPT !.covers = Laid(c.len).len]]

\* The UDP header, from the fields of the socket; the checksum covers up->len
\* bytes of the packet and a pseudo header with inet->daddr.
UdpHeader(p, so) ==
  [p EXCEPT !.l4 = [port |-> so.dport, len |-> so.len, covers |-> so.len, pseudo |-> so.daddr]]

\* ip_push_pending_frames: back to the network header.
ToNetworkHeader(b) == IF b.nh < b.data THEN skb_push(b, b.data - b.nh) ELSE b

\* The IP header is written from the length of the packet and the route in cork.rt.
IpHeader(p, rt) ==
  LET b == ToNetworkHeader(p.buf)
  IN  [p EXCEPT !.buf = b, !.tot_len = b.len % U16, !.daddr = rt]

\* eth_header.
EthHeader(p) == [p EXCEPT !.buf = skb_push(@, ETH_HLEN)]

\* An ARP packet with its Ethernet header.
arp_create ==
  [NoPacket EXCEPT
     !.buf = skb_push(skb_put(skb_reserve(alloc_skb(ARP_LEN + ETH_HLEN), ETH_HLEN), ARP_LEN), ETH_HLEN)]

-----------------------------------------------------------------------------
(* Calls *)

Using(k) == {t \in Threads : call[t] # NULL /\ call[t].sk = k}

Begin(t, c) ==
  /\ ~ faulted
  /\ pc[t] = "idle"
  /\ pc' = [pc EXCEPT ![t] = "cork"]
  /\ call' = [call EXCEPT ![t] = c]
  /\ mixed' = IF Using(c.sk) = {} THEN mixed ELSE mixed \cup Using(c.sk) \cup {t}
  /\ UNCHANGED <<sock, wq, pkt, skb, held, out, torn, faulted>>

\* udp_sendmsg has found a route.  A call it refuses (name, family, port 0) or
\* that has no route returns without touching the socket.
Sendto(t, k, m) ==
  Begin(t, [sk |-> k, host |-> m.host, port |-> m.port, len |-> m.len])

\* icmp_echo has found a route back.
Echo(m) == Begin(Rx, [sk |-> Icmp, host |-> m.host, port |-> 0, len |-> m.len])

At(t, label) == ~ faulted /\ pc[t] = label

\* The process dies: nothing it had in memory is left.
Crash ==
  /\ faulted' = TRUE
  /\ sock' = NewSocks /\ wq' = NoQueues /\ pkt' = NoPackets
  /\ pc' = AllIdle /\ call' = NoCalls /\ skb' = NoCalls
  /\ held' = {} /\ out' = {} /\ mixed' = {} /\ torn' = FALSE

\* malloc fails in __mkroute_output: ip_mkroute_output_def prints a message and
\* reads rth->rt_type.
RouteFaults(t) == At(t, "idle") /\ Crash

Return(t) ==
  /\ pc' = [pc EXCEPT ![t] = "idle"]
  /\ call' = [call EXCEPT ![t] = NULL]
  /\ skb' = [skb EXCEPT ![t] = NULL]
  /\ mixed' = mixed \ {t}

-----------------------------------------------------------------------------
(* udp_sendmsg and ip_append_data *)

\* Mutant: up->len is not cut to 16 bits.
Cork_Wide(t) ==
  LET c == call[t] IN
  /\ At(t, "cork")
  /\ sock' = [sock EXCEPT ![c.sk].len = IF c.sk = Icmp THEN @ ELSE c.len + L4_HLEN, ![c.sk].rt = c.host]
  /\ pc' = [pc EXCEPT ![t] = "append"]
  /\ UNCHANGED <<wq, pkt, call, skb, held, out, mixed, torn, faulted>>

\* Mutant: the length of the UDP header is not counted.
Cork_NoHeader(t) ==
  LET c == call[t] IN
  /\ At(t, "cork")
  /\ sock' = [sock EXCEPT ![c.sk].len = IF c.sk = Icmp THEN @ ELSE c.len % U16, ![c.sk].rt = c.host]
  /\ pc' = [pc EXCEPT ![t] = "append"]
  /\ UNCHANGED <<wq, pkt, call, skb, held, out, mixed, torn, faulted>>

\* up->len = ulen in udp_sendmsg, cork.rt = rt in ip_append_data.
Cork(t) ==
  LET c == call[t] IN
  /\ At(t, "cork")
  /\ sock' = [sock EXCEPT ![c.sk].len = IF c.sk = Icmp THEN @ ELSE (c.len + L4_HLEN) % U16,
                          ![c.sk].rt = c.host]
  /\ pc' = [pc EXCEPT ![t] = "append"]
  /\ UNCHANGED <<wq, pkt, call, skb, held, out, mixed, torn, faulted>>

\* A list operation of t on the write queue of its socket begins: it loads the
\* links it will store to.  No lock keeps out a thread that is in one already;
\* from then on both work on stale links.  A packet that two threads have taken
\* ends up on two lists, so the damage does not stay on this queue.
BeginList(t) ==
  torn' = (torn \/ \E u \in Threads \ {t} :
             pc[u] \in {"link", "unlink"} /\ call[u].sk = call[t].sk)

\* The rest of ip_append_data, up to the load of list->prev in skb_queue_tail.
AppendData(t) ==
  LET c == call[t] IN
  /\ At(t, "append")
  /\ CanAlloc
  /\ pkt' = [pkt EXCEPT ![NewSkb] = IF c.sk = Icmp THEN EchoData(c) ELSE UdpData(c)]
  /\ skb' = [skb EXCEPT ![t] = NewSkb]
  /\ BeginList(t)
  /\ pc' = [pc EXCEPT ![t] = "link"]
  /\ UNCHANGED <<sock, wq, call, held, out, mixed, faulted>>

\* What the write queue q may be once skb_queue_tail has stored its links to put
\* s on it.  Where queues are torn s may be linked behind a packet that is no
\* longer on the list (s is lost), or that is not the last any more (what
\* followed it is lost).
AfterLink(q, s) ==
  {Append(q, s)} \cup
    IF torn THEN {q} \cup {Append(SubSeq(q, 1, i), s) : i \in 0 .. Len(q)} ELSE {}

\* skb_queue_tail stores its links and ip_append_data returns.
Link(t) ==
  LET k == call[t].sk IN
  /\ At(t, "link")
  /\ \E q \in AfterLink(wq[k], skb[t]) : wq' = [wq EXCEPT ![k] = q]
  /\ skb' = [skb EXCEPT ![t] = NULL]
  /\ pc' = [pc EXCEPT ![t] = IF k = Icmp THEN "push" ELSE "dest"]
  /\ UNCHANGED <<sock, pkt, call, held, out, mixed, torn, faulted>>

\* alloc_skb fails: the call returns, the socket keeps the length and the route.
AppendFails(t) == At(t, "append") /\ Return(t) /\ UNCHANGED <<sock, wq, pkt, held, out, torn, faulted>>

\* inet->daddr, saddr and dport.
SetDest(t) ==
  /\ At(t, "dest")
  /\ sock' = [sock EXCEPT ![call[t].sk].daddr = call[t].host, ![call[t].sk].dport = call[t].port]
  /\ pc' = [pc EXCEPT ![t] = "header"]
  /\ UNCHANGED <<wq, pkt, call, skb, held, out, mixed, torn, faulted>>

-----------------------------------------------------------------------------
(* udp_push_pending_frames and ip_push_pending_frames *)

\* The UDP header goes into the packet skb_peek finds.
Header(t) ==
  LET k == call[t].sk IN
  /\ At(t, "header")
  /\ wq[k] # <<>>
  /\ pkt' = [pkt EXCEPT ![Head(wq[k])] = UdpHeader(@, sock[k])]
  /\ pc' = [pc EXCEPT ![t] = "push"]
  /\ UNCHANGED <<sock, wq, call, skb, held, out, mixed, torn, faulted>>

\* For an empty queue skb_peek returns the list head, never NULL, and the header
\* goes to wherever the memory behind it happens to point.
HeaderFaults(t) == At(t, "header") /\ wq[call[t].sk] = <<>> /\ Crash

\* Mutant: the whole write queue is taken, as one datagram.
Push_All(t) ==
  LET k == call[t].sk IN
  /\ At(t, "push")
  /\ wq[k] # <<>>
  /\ BeginList(t)
  /\ wq' = [wq EXCEPT ![k] = <<>>]
  /\ skb' = [skb EXCEPT ![t] = Head(wq[k])]
  /\ pc' = [pc EXCEPT ![t] = "unlink"]
  /\ UNCHANGED <<sock, pkt, call, held, out, mixed, faulted>>

\* Mutant: skb_peek instead of skb_dequeue.
Push_Peek(t) ==
  LET k == call[t].sk IN
  /\ At(t, "push")
  /\ wq[k] # <<>>
  /\ BeginList(t)
  /\ skb' = [skb EXCEPT ![t] = Head(wq[k])]
  /\ pc' = [pc EXCEPT ![t] = "unlink"]
  /\ UNCHANGED <<sock, wq, pkt, call, held, out, mixed, faulted>>

\* skb_dequeue loads list->next, the packet it will return.  Nobody who comes
\* after its stores will find it.
Push(t) ==
  LET k == call[t].sk IN
  /\ At(t, "push")
  /\ wq[k] # <<>>
  /\ BeginList(t)
  /\ wq' = [wq EXCEPT ![k] = Tail(@)]
  /\ skb' = [skb EXCEPT ![t] = Head(wq[k])]
  /\ pc' = [pc EXCEPT ![t] = "unlink"]
  /\ UNCHANGED <<sock, pkt, call, held, out, mixed, faulted>>

\* Before them list->next is still the packet that u is dequeuing.
PushSame(t, u) ==
  /\ At(t, "push")
  /\ pc[u] = "unlink" /\ call[u].sk = call[t].sk
  /\ BeginList(t)
  /\ skb' = [skb EXCEPT ![t] = skb[u]]
  /\ pc' = [pc EXCEPT ![t] = "unlink"]
  /\ UNCHANGED <<sock, wq, pkt, call, held, out, mixed, faulted>>

\* skb_dequeue finds nothing: ip_push_pending_frames returns -1.
PushNothing(t) ==
  /\ At(t, "push")
  /\ wq[call[t].sk] = <<>>
  /\ Return(t)
  /\ UNCHANGED <<sock, wq, pkt, held, out, torn, faulted>>

\* What the write queue q of k may be once skb_dequeue has stored its links.
\* Where queues are torn it may store a packet that is not the next any more
\* (what came before is lost), or one that another thread has taken since.
AfterUnlink(k, q) ==
  {q} \cup
    IF torn
      THEN {SubSeq(q, i, Len(q)) : i \in 2 .. Len(q) + 1}
             \cup {<<s>> : s \in {r \in Skbs : pkt[r].body # NULL /\ pkt[r].body.sk = k}}
      ELSE {}

\* skb_dequeue stores its links; the IP header is written, from the route that
\* was read before.
Unlink(t) ==
  LET k == call[t].sk IN
  /\ At(t, "unlink")
  /\ \E q \in AfterUnlink(k, wq[k]) : wq' = [wq EXCEPT ![k] = q]
  /\ pkt' = [pkt EXCEPT ![skb[t]] = IpHeader(@, sock[k].rt)]
  /\ pc' = [pc EXCEPT ![t] = "output"]
  /\ UNCHANGED <<sock, call, skb, held, out, mixed, torn, faulted>>

\* The packet was taken by another thread too, which has set its next to NULL.
UnlinkFaults(t) == At(t, "unlink") /\ torn /\ Crash

-----------------------------------------------------------------------------
(* dst_output: neigh_resolve_output and ether_tx *)

\* The neighbour is REACHABLE.
Xmit(t) ==
  /\ At(t, "output")
  /\ pkt' = [pkt EXCEPT ![skb[t]] = EthHeader(@)]
  /\ out' = out \cup {skb[t]}
  /\ Return(t)
  /\ UNCHANGED <<sock, wq, held, torn, faulted>>

\* It is not: the first packet broadcasts an ARP request, if one can be built.
Solicit(t) ==
  /\ At(t, "output")
  /\ \/ CanAlloc /\ pkt' = [pkt EXCEPT ![NewSkb] = arp_create] /\ out' = out \cup {NewSkb}
     \/ UNCHANGED <<pkt, out>>
  /\ pc' = [pc EXCEPT ![t] = "hold"]
  /\ UNCHANGED <<sock, wq, call, skb, held, mixed, torn, faulted>>

\* Mutant: the packet is freed, as on the error path of neigh_resolve_output.
Hold_Dropped(t) ==
  /\ At(t, "hold") \/ At(t, "output")
  /\ Return(t)
  /\ UNCHANGED <<sock, wq, pkt, held, out, torn, faulted>>

Hold(t) ==
  /\ At(t, "hold") \/ At(t, "output")
  /\ held' = held \cup {skb[t]}
  /\ Return(t)
  /\ UNCHANGED <<sock, wq, pkt, out, torn, faulted>>

\* neigh_update, in the receive loop, sends a packet that was held.
Drain(s) ==
  /\ At(Rx, "idle")
  /\ s \in held
  /\ held' = held \ {s}
  /\ pkt' = [pkt EXCEPT ![s] = EthHeader(@)]
  /\ out' = out \cup {s}
  /\ UNCHANGED <<sock, wq, pc, call, skb, mixed, torn, faulted>>

\* arp_process answers a request for our address.
ArpReply ==
  /\ At(Rx, "idle")
  /\ CanAlloc
  /\ pkt' = [pkt EXCEPT ![NewSkb] = arp_create]
  /\ out' = out \cup {NewSkb}
  /\ UNCHANGED <<sock, wq, pc, call, skb, held, mixed, torn, faulted>>

-----------------------------------------------------------------------------
\* A thread inside a call.
Step(t) ==
  \/ Cork(t) \/ AppendData(t) \/ AppendFails(t) \/ Link(t)
  \/ SetDest(t) \/ Header(t) \/ HeaderFaults(t)
  \/ Push(t) \/ PushNothing(t) \/ (\E u \in Threads : PushSame(t, u))
  \/ Unlink(t) \/ UnlinkFaults(t)
  \/ Xmit(t) \/ Solicit(t) \/ Hold(t)

Next ==
  \/ \E t \in Threads : Step(t) \/ RouteFaults(t)
  \/ \E t \in Apps, k \in Udps, m \in Sends : Sendto(t, k, m)
  \/ \E m \in Echos : Echo(m)
  \/ \E s \in Skbs : Drain(s)
  \/ ArpReply

\* No step of a call blocks: a thread inside one keeps running.
Spec == Init /\ [][Next]_vars /\ \A t \in Threads : WF_vars(Step(t))

-----------------------------------------------------------------------------
(* Properties *)

\* A buffer, whose data it carries, its transport header and two fields of its IP header.
Packets ==
  [buf : Buffers, body : Calls \cup {NULL},
   l4 : [port : uint16, len : uint16, covers : Nat, pseudo : Hosts \cup {NULL}],
   tot_len : uint16, daddr : Hosts \cup {NULL}]

Labels == {"idle", "cork", "append", "link", "dest", "header", "push", "unlink", "output", "hold"}

\* Every variable stays in its type.
TypeOK ==
  /\ sock \in [Socks -> [len : uint16, rt : Hosts \cup {NULL},
                         daddr : Hosts \cup {NULL}, dport : uint16]]
  /\ wq \in [Socks -> Seq(Skbs)]
  /\ pkt \in [Skbs -> Packets]
  /\ pc \in [Threads -> Labels]
  /\ call \in [Threads -> Calls \cup {NULL}]
  /\ skb \in [Threads -> Skbs \cup {NULL}]
  /\ held \subseteq Skbs /\ out \subseteq Skbs /\ mixed \subseteq Threads
  /\ torn \in BOOLEAN /\ faulted \in BOOLEAN

\* Threads that have a packet on the write queue of k.
Pending(k) == {t \in Using(k) : pc[t] \in {"dest", "header", "push"}}

\* Until two list operations on one write queue overlap, skb_peek and skb_dequeue
\* never meet an empty one (skb_peek would hand out the list head as a packet),
\* however else the calls on the socket are interleaved and wherever they fail:
\* each thread still has to take out as many packets as it has put in.
NeverEmpty == ~ torn => \A k \in Socks : \E f \in [DOMAIN wq[k] -> Pending(k)] :
  /\ \A t \in Pending(k) : \E i \in DOMAIN wq[k] : f[i] = t
  /\ \A i, j \in DOMAIN wq[k] : f[i] = f[j] => i = j

\* The room each layer reserves is what the layers after it use: until then no
\* push, pull or put is refused (eth_header would go through the NULL that
\* skb_push returns), and a frame on the wire is exactly its buffer.
WholeFrame == ~ torn =>
  /\ \A s \in Skbs : ~ pkt[s].buf.refused
  /\ \A s \in out : pkt[s].buf.data = 0 /\ pkt[s].buf.len = pkt[s].buf.end

\* The longest payload of a UDP datagram.
MaxUdp == 65507

\* A call that overlaps no other call on its socket, whatever other threads do
\* on other sockets, and though earlier calls on it overlapped or failed, hands
\* the neighbour its own data under its own headers, as long as no write queue was
\* torn (two threads that dequeue the same packet leave one behind, which the next
\* call would send): destination and lengths are the ones of the call, and the
\* UDP checksum covers exactly what the receiver will sum.  A longer datagram
\* than IP can carry still never has bytes summed that it has not.
OwnHeaders ==
  \A t \in Threads : pc[t] = "output" /\ t \notin mixed /\ ~ torn =>
    LET p == pkt[skb[t]]
        c == call[t]
        n == L4_HLEN + c.len
    IN  /\ p.body = c
        /\ p.daddr = c.host
        /\ p.l4.covers <= n
        /\ c.len <= MaxUdp => p.tot_len = IP_HLEN + n
        /\ c.len <= MaxUdp /\ c.sk # Icmp =>
             p.l4 = [port |-> c.port, len |-> n, covers |-> n, pseudo |-> p.daddr]

\* The places a packet is in.
Places(s) ==
  {<<"hand", t>> : t \in {u \in Threads : skb[u] = s}}
    \cup (UNION {{<<"queue", k, i>> : i \in {j \in DOMAIN wq[k] : wq[k][j] = s}} : k \in Socks})
    \cup (IF s \in held THEN {"held"} ELSE {})
    \cup (IF s \in out THEN {"out"} ELSE {})

\* However calls overlap outside of the list operations, a packet that was built
\* is in exactly one place, although a thread may send what another has built: no
\* two threads send the same one, none is sent again, none is forgotten.
SentOnce ==
  ~ torn => \A s \in Skbs :
    /\ \A p, q \in Places(s) : p = q
    /\ ~ Free(s) => Places(s) # {}

\* A packet that reached the write queue leaves it for the wire or for the
\* arp_queue of its neighbour, unless a write queue is torn or the process dies.
AllSent ==
  \A s \in Skbs :
    (\E k \in Socks : \E i \in DOMAIN wq[k] : wq[k][i] = s) ~>
      (s \in held \cup out \/ torn \/ faulted)

\* The comment on icmp_glue_bits, "include headers and final checksum": the
\* checksum of an echo reply covers its header and all its data.
ReplyChecksummed ==
  \A s \in Skbs : s \in held \cup out /\ pkt[s].body # NULL =>
    (pkt[s].body.sk = Icmp => pkt[s].l4.covers = L4_HLEN + pkt[s].body.len)
=============================================================================
