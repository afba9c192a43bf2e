# A TLA+ model of yustack

yustack is a small user-space TCP/IP stack in C: it reads Ethernet frames from a
TAP device, answers ARP requests and pings, and offers UDP sockets to threads of
the same process. This directory holds TLA+ modules for its core logic, TLC
configurations that check them on small instances, and TLAPS proofs.

## The system

Two kinds of actors share all memory, without a single lock:

* the **receive loop** (`main/main.c`): `ether_rx` reads one frame and carries it
  through the whole stack before the next one is read, including the transmission
  of ping replies and ARP replies;
* **application threads** (`test/test.c` starts one), which call `sys_socket`,
  `sys_bind`, `sys_sendto` and `sys_recv`. The thread shipped with the
  repository binds and receives; its `sys_sendto` is commented out.

| Component | State | Operations | Talks to |
|---|---|---|---|
| neighbour cache, `core/neighbour.c`, `ipv4/arp.c` | `arp_tbl.buckets`; per neighbour `nud_state`, `ha`, `arp_queue` | lookup, create, resolve a packet, update from an ARP packet | called by routing (bind), IP output (send), ARP input (update) |
| socket layer, `core/socket.c`, `ipv4/af_inet.c`, `ipv4/udp.c` | `socket_maps`, `udptable`; per socket `num`, `sport`, receive queue | the system calls, autobind, delivery | receive loop delivers, threads take |
| buffers and lists, `core/skbuff.c`, `core/datagram.c` | links of every list; `data`, `len` of a buffer | `skb_queue_tail`, `skb_dequeue`, put, pull | used by every layer |
| receive path, `driver/ethernet.c`, `core/dev.c`, `ipv4/ip_input.c`, `ipv4/icmp.c` | the buffer in flight | strip, check, dispatch, release | hands buffers to sockets, ARP, ICMP |
| forwarding tables, `ipv4/fib_*.c` | two tables of zones | add the routes of an interface address, look up | used by input and output routing |
| transmit path, `ipv4/udp.c`, `ipv4/icmp.c`, `ipv4/ip_output.c`, `driver/ethernet.c` | per socket write queue, `cork.rt`, `up->len`, `daddr`, `dport`; the buffer | append, write headers, push, transmit | starts at routing, ends in the neighbour cache |
| checksums, `core/checksum.c` | none | sum a buffer, add a pseudo header | used by IP input and output, UDP, ICMP |

What is hard here: unlocked sharing between the loop and the threads; ARP resolution
that never retries; a datagram under construction that lives in fields of its socket;
tables at their limits and the double meaning of port 0; lengths claimed by headers
against bytes received; who releases a buffer when both the handler and its caller may.
`PROJECT.json` lists these hazards with their lines.

## Modules

| Module | Models | How state and actions correspond |
|---|---|---|
| `Neighbour` | the ARP cache and its callers | one variable per field; per-thread `pc` and locals; one action per access to shared memory, in program order, named after the statement (`SetReachable`, then `SetHa` and `CopyHa`: the store of `nud_state` and the `memcpy` of `ha` in `neigh_update`); an operation on an `arp_queue` has a beginning and an end (`Enqueue` and `Link`, `Drain` and `Unlink`) |
| `Holding` | what the cache promises, abstractly | per address the packets held and the packets gone |
| `Sockets` | descriptors, ports, delivery | one action per system call, `sys_recv` split where it waits |
| `SkbQueue` | a linked list under concurrent use | one action per load or store of a link |
| `RxPath` | one frame through the layers, up to the copy to the application | one action per layer, which passes the frame on or returns to `netif_receive_skb` (`ret`, `NetifReturn`); offsets and lengths as numbers; every `kfree_skb` is counted where the code calls it |
| `SkBuff` | the geometry of a buffer | `alloc_skb`, `skb_reserve`, `skb_put`, `skb_push`, `skb_pull` as operators on offsets; a refusal is remembered |
| `Transmit` (extends `SkBuff`) | building and sending a datagram | the socket's fields as a record, the write queue as a sequence, per packet its buffer and what was written into its headers; one action per access to the socket, in program order; list operations have a beginning and an end (`AppendData` and `Link`, `Push` and `Unlink`) |
| `Checksum` | the Internet checksum | `checksum`, `csum_tcpudp_magic` for bytes of any number of values; the places where they are filled in |
| `Fib` | addresses of the interface, route insertion, lookup, and the use routing makes of it | zones as sequences, newest first; addresses as W-bit numbers (`Pow2` is a recursive function and not `^`, so that the provers know it) |
| `MC*` | instances for TLC | constants, symmetry, bounds |
| `RxPathProofs`, `SocketsProofs`, `NeighbourProofs`, `NeighbourRxProofs`, `SkbQueueProofs`, `TransmitProofs`, `FibProofs`, `ChecksumProofs` | proofs | see below |

Definitions ending in `_Something` marked *Mutant* are plausible bugs; they are
not used by any specification and document which mistake each property catches.

Abstractions. Packets, hardware addresses and heap addresses are model values; a
heap address is used once (the program never frees neighbours or sockets), and memory
is sequentially consistent. Failing `malloc` is modelled for neighbours, outgoing
buffers and routes.

List operations. `SkbQueue` has every load and store of `skb_queue_tail` and
`skb_dequeue`. `Neighbour` and `Transmit`, which have much else to interleave, give each
operation two steps: the first loads the links, the second stores them. If another
thread begins an operation on the same list in between, both work on stale links and the
list is *torn*. What a torn list may be afterwards is a choice over the kinds of outcome
the loads and stores of `SkbQueue` lead to (`AfterLink`, `AfterUnlink`): the new packet is lost, or packets
before or after it are, or one that was taken is back on the list, and two threads may
take one packet (`PushSame`) or one of them follow the `next` it has cleared
(`UnlinkFaults`). An `arp_queue` is emptied by the receive loop alone, so there packets
can be lost but not taken twice; in `Neighbour` `torn` is a set of neighbours and
everything about other neighbours goes on being claimed. A dequeue that finds a packet
whose `next` the sender has not stored yet goes through NULL: the process ends, and
`Neighbour` has no step for that. In `Transmit` a packet taken twice ends up on two
lists, so `torn` is a flag of the whole program and the properties claim nothing from
then on.

The `memcpy` of the 6-byte `ha` has a beginning and an end as well: between the two `ha`
is `TornMac`, and a sender that copies it then sends to that.

`struct rtable` is not cleared and `arp_bind_neighbour` reads its
`neighbour` field; in the 64-bit glibc build the only freed objects
(`struct sk_buff`, 120 bytes) are in another size class than `struct rtable`
(88 bytes), so the field is NULL, the one outcome modelled. In `Sockets` a system call is
atomic, calls that fail without effect are stuttering steps, and `htons` is
undone by the lookup, so ports are in host order. In `RxPath` a field of the
frame is chosen by the layer that reads it; `kfree_skb` gives back the struct and not
the data, and nothing is said of what the allocator does with either. In `Transmit`
adjacent accesses to a socket are one action; only calls that overlap on one socket
could tell them apart, and `OwnHeaders` claims nothing of those (`mixed` remembers
them). Which of the three ways a packet takes at the neighbour is left open there and
decided in `Neighbour`; a buffer is used once, because a transmitted `sk_buff` is never
released; a push that `skb_push` refuses is remembered in the buffer (`refused`), where
the code would go through the NULL it returns. Contents are abstracted to the call they
come from, and a header to the fields a property is about. In `Fib` the interface may
get several addresses before it comes up; `config_netdevice` gives it one, so the model
allows more than the program does and `OwnAddressLocal` is about the case it has. In
`Checksum` a byte has `Byte` values, a word two bytes and the accumulator four, the
proportions of the code, where `Byte` is 256.

## Runs

| Run | Instance | What it shows |
|---|---|---|
| `neigh_main` | receive loop only (the program as shipped), fairness, 2 hosts of which one changes its MAC, 2 packets, 3 heap addresses, ARP exchanges that may be lost; 222,431 states | a packet is stranded only by a loss; packets leave in order, once (refinement of `Holding`); always to the MAC announced last; every packet is sent, unless its ARP exchange was lost, and then as soon as the host sends ARP packets of its own; the loop always returns to the device |
| `neigh_threads` | one sending thread and the loop, 2 packets, 3 heap addresses, symmetric in packets, heap addresses and the two hardware addresses; 2,558,490 states | a packet never has two owners, and has none only after the operations on its `arp_queue` overlapped; no frame reaches another host; no thread creates a second entry for an address while its first is in the table; a REACHABLE neighbour that no sender is about to mark INCOMPLETE stays REACHABLE |
| `sock_main` | 3 sockets, 2 descriptors, 4 ports | the tables past their limits; ports keep their owner; answers to autobound datagrams come back |
| `queue_fifo` | 4 packets, two receivers and the loop | FIFO while operations do not overlap; when a receiver overlaps the loop a datagram may be missed, never repeated or reordered; the same for two receivers that do not overlap each other |
| `queue_race` (violation) | 2 packets | "if there is something there we return it" fails: a datagram is lost |
| `rx_main` | frame lengths 13..50, header lengths and total lengths around every boundary, four sizes of the application's buffer; 6,950 states | no read past the frame; lengths consistent; a buffer is released at most once, by its handler or by `netif_receive_skb`, and forgotten on two named paths only; only valid datagrams served; a datagram that fits the caller's buffer copied whole |
| `rx_icmp` (violation) | | "Unkown ICMP messages types MUST be silently discarded" fails for types up to 18 |
| `rx_room` (violation) | buffers of 0 and 4 bytes | "We verify the buffers are writable" fails: a datagram longer than the caller's buffer is copied beyond its end |
| `fib_main` | 4-bit addresses, every pair of interface addresses, every destination | lookup agrees with a definition from the addresses alone; what is sent can be answered |
| `tx_main` | two threads sending on one socket, the loop answering pings and ARP requests, 2 buffers; 405,621 states | until two list operations overlap on a write queue: a call that overlaps no other on its socket sends its own data under its own headers, also after a failed one and for lengths beyond 16 bits; however calls overlap outside the list operations, no packet is sent twice or forgotten, no header is written over an empty queue, every push has its room; what was queued is sent or held |
| `tx_icmp` (violation) | the same | "on the first include headers and final checksum" fails: the last 8 bytes of a ping reply are not summed, and a reply without data has no header |
| `checksum` | every buffer of up to six 2-bit bytes, every place of the checksum in it | the little-endian sum with two folds is the sum of RFC 1071; `ip_rcv` accepts what `ip_push_pending_frames` fills in and notices any one changed byte; a receiver verifies the UDP checksum computed in two parts |

Bounds. Two addresses are enough for packets and entries to be confused, two packets
for an order to be disturbed, one more heap address
than the two threads need for duplicate entries to appear. Three sockets over two
descriptors and four ports fill both tables; the 512 of the code only makes the scans
longer. `MaxQueue` bounds datagrams waiting at a socket, `MaxIfaddrs` the
addresses of the interface. Frame lengths run from below an Ethernet header to
beyond the longest chain of headers. Two buffers are two packets of two callers on
one write queue, or one packet and the ARP request it causes; a third would only be
sent after the others. The lengths of `tx_main` are the longest datagram IP carries
and one whose `up->len` is 0. Six 2-bit bytes are three words whose sum needs both
folds; `ChecksumMain.cfg` has addresses with and without carries. Deadlock checking is
off where the model may
stop for good: all packets or buffers used, the tables filled, the process ended by a
fault. In `Neighbour` it is on: the network can always send another ARP packet.

Fairness. Weak fairness of each thread inside a call (`Neighbour`, `Transmit`): no
operation of the cache or the transmit path blocks, and threads are scheduled. Strong
fairness of a host's answer to an ARP request (`Neighbour`): a request that was not lost
is answered, and the answer waits in the device until the loop, which is between
frames again and again, reads it. The action `Lose` may remove a request or its answer
at any time, and the code never repeats one, so `EventuallySent` exempts packets behind
a lost exchange. `Recovers` says what frees them: any later ARP packet of the host,
which the code neither asks for nor can force.

What does not hold with a sending thread beside the loop. `NoStranded`, `FreshMac`, the
refinement of `Holding` and the three liveness properties of `neigh_main` are about the
program as shipped, where the loop alone sends. A sender opens these windows, all in
`neigh_threads`: both threads may miss an entry and both create it, and the store of one
to `tbl->buckets` may drop the other's; `neigh_event_send` may store INCOMPLETE after
`neigh_update` has stored REACHABLE (`neighbour.c:147`), and packets then wait for
another ARP packet; a frame may leave with an `ha` that is not copied yet, or half; and
list operations on an `arp_queue` may overlap. `OneOwner`, `RightHost`, `OwnEntryOnce` and
`StaysReachable` say how far the damage goes. `OwnEntryOnce` is true of two threads: from
three on, a thread that read `tbl->buckets` long ago can bring back an entry whose
maker has since replaced it.

A second `sys_bind`, and the second send of a socket that got port 0, leave a port in `udptable` whose socket has another `num`, against the comment
at `udp.c:128`; `PortKeepsOwner` and `OnlyOwnDatagrams` show what still holds then.

Findings. Each violation run contradicts a comment of the source, quoted in
`PROJECT.json` under `findings`. Two more comments the code does not keep can be read off
the models and have no run of their own:

* `udp.c:110`, "inet->sport has already been configured". Only `inet_autobind` sets
  `sport` (`af_inet.c:43`); `inet_bind` does not, so a datagram of a bound socket leaves with
  source port 0, or with the port of an earlier autobind (`udp.c:32`).
  `SourceNotStolen` says that it is never another socket's.
* `route.c:18-24`, "We drop all the packets that has local source addresses" and "IP
  spoofing attempts are filtered with 100% of guarantee". `ip_route_input_slow` puts the
  source into the key of the lookup, and `fib_lookup` and the test of `res.type`
  (`route.c:42-48`) look at the destination alone: in `Fib` the second argument of
  `ip_route_input` is not used. A packet with our own address as its source is accepted.

## Proofs

All theorems hold for every value of the constants satisfying the `ASSUME`s of
the modules (positive table sizes; `NULL` is not an object; lengths are naturals; a byte
has at least four values, buffers that are summed a length that fits in a word, as
`uint16_t` lengths do, addresses and protocols the width of their types).

* `RxPathProofs`. The layers trust one another: `ip_local_deliver` pulls what `ip_rcv`
  has compared, and `icmp_echo` copies what the pull left. The invariant therefore says,
  for each value of `pc`, what is already known of `data`, `len`, `nh`, `h` and `ihl`,
  and for a buffer on a receive queue what `udp_recvmsg` will find (`QueuedSound`), and
  at `NetifReturn` how often the buffer was released for each result of the handler.
  From it follow `ReadsInFrame`, `DataEndsAtTail`, `Released`, `OnlyValidServed` and
  `RecvWhole`, for frames, header fields and application buffers of any length.
* `SocketsProofs`. `AutoboundReplyReturns` and `SourceNotStolen` need to know that a
  nonzero `num` or `sport` is a port the socket holds and that the two agree until a
  `sys_bind` (`PortsOwned`); `Reachable` needs that a descriptor's socket was
  created (`MapsAllocated`), so that a new socket cannot be one already in the
  table. `GetPort` is the one lemma about `udp_v4_get_port`; each action then has
  its own lemma. The action property `PortKeepsOwner` follows from `GetPort`.
* `NeighbourProofs`. `TypeOK` (with its clause that no thread goes through a NULL
  pointer) and `RightHost`, for any number of sending threads and every interleaving.
  `RightHost` is not inductive: a frame's address is copied from the neighbour's `ha`,
  which another thread may be writing. `IInv` adds that `ha` is empty, half copied or announced by
  the host of the neighbour's key (`HaSound`), that a packet is bound to a neighbour of
  its destination and stays so (`DstSound`), also while it waits on a queue
  (`QueueSound`), that the neighbour a thread updates is the one of the ARP packet it
  handles (`NeighSound`, `CallsSound`), and that a packet about to be bound is in one
  thread's hands (`BindingSound`). `LookupFinds` is the lemma about `neigh_lookup`; each
  action has a lemma of its own. `OneOwner`, for any number of sending threads too, is
  not inductive either: a packet is handed from a thread to a queue, from a queue to the
  thread that drains it and from a thread to the device, and the count must survive each
  hand-over. `Owned` adds that the hands of the threads, the `arp_queue`s and the device
  are pairwise disjoint (`HandsFree`, `Apart`) and that a bound packet is in one of them
  (`Placed`) unless its neighbour's queue is torn; every outcome of `AfterLink` keeps
  the first, and the outcome on a queue that is not torn the second. `StaysReachable`
  needs `IInv`: a thread about to store INCOMPLETE does so to the neighbour its packet
  was bound to when it read NONE. `OwnEntryOnce` is proved for the loop and at most one
  sending thread (`Apps \subseteq {a}`). A thread that creates an entry may publish it
  over a list it read before, so `OwnInv` speaks of the table and of the lists in `seen`
  alike (`TableOnce`, `SeenOnce`). It says that a thread on its way to a new entry has
  none for the address in what it knows (the list it has read, or the table before it
  reads it: `Fresh`), and that neither the table nor the list the other thread holds has
  an entry of it beyond those it knows (`Remembered`).
* `NeighbourRxProofs`. The cache of the program as shipped, where only the receive loop
  sends: every theorem has the hypothesis `Apps = {}` (see above for what fails
  otherwise). `RxInv` says that the table has one entry per address and every live
  neighbour is in it (`TableSound`, `NewSound`), what `nud_state` may be at each label
  (`StateSound`), that a queue is nonempty only for a neighbour whose request is out,
  lost or just answered (`QueueWaits`, `AskedFor`), and that `ha` is the address heard
  last except between the two stores of `neigh_update` (`HaLatest`). From it follow
  `NoStranded`, `FreshMac` and the refinement of `Holding`: binding a packet is
  `Accept`, `Transmit` is `Release`, and every other step is a stutter. `Release` needs
  the head of what is held to be the packet that is sent, hence `WaitSound`: what an
  address holds is its neighbour's queue, with the packet the loop has taken from it in
  front, or its own new packet at the end.
* `SkbQueueProofs`. `TypeOK`, `ListIsQueue` and `InOrder` for any number of packets and
  receivers. Between the stores of an operation the list is neither the old nor the new
  one, so the invariant says for each label which links are already changed; once
  operations have overlapped it only keeps which links still lead ahead, which is what
  `InOrder` needs.
* `TransmitProofs`. `TypeOK`, `NeverEmpty`, `WholeFrame`, `OwnHeaders` and `SentOnce`
  for any number of threads, sockets and buffers and payloads of any length. The
  invariant relates three things: how far a packet is built (offsets, headers written)
  to the label of the thread that holds it (`Staged`); the write queue of a socket to
  the threads that have appended and not yet taken; and, for a call that is not `mixed`,
  the fields of the socket to what the call has stored. `OwnHeaders` uses all three;
  `NeverEmpty` uses that appending and taking are balanced as long as no list is torn.
  What is proved inductive is `Sound`: types and control always, the three relations
  (`IInv`) while `Untorn`. `TypeOK` is therefore true of torn lists too; the others say
  nothing of them.
* `FibProofs`. `TypeOK`, `LookupIsReference`, `OwnAddressLocal` and `AnswersAccepted` for
  addresses of any width, any number of interface addresses and any order. `IInv` only
  says that the tables are `fib_netdev_event` of the list once the interface is up; the
  work is in what that recursive function computes. `Segment` is induction in the form of
  the least counterexample, which first-order provers can use: a set that has 0 and
  is closed under successor. With it, `EventTables` shows that after n addresses the first
  node a zone has for a destination belongs to the last of them it is special to
  (`LocalAt`), or that covers it with the zone's prefix length (`MainAt`). `LookupLongest`
  and the facts about masks (`Rounded`, `PrefixFacts`) then give the reference.

* `ChecksumProofs`. `ByteOrderIndependent`, `OneByteDetected` and `UdpChecksumVerifies`
  are about any buffer whose length fits in a word and bytes of any size; the three
  properties of the run follow because every buffer it grows is one of these (`Grown`).
  Both the loop of `checksum` and the end-around carry of the reference are compared with
  the plain sum of the words (`Sums`, by the same `Segment` induction): `TotalIs` says that
  the accumulator never overflows, `FinishFolds` that two folds lose no carry, and
  `NetworkSumIs` what the reference computes. All of them preserve the sum modulo
  `Word - 1` (`Cong`), but that does not tell 0 from `Word - 1`; `Folds` therefore adds that
  the result is 0 only for the sum 0, and such a result is unique. `Swapped` is why byte
  order does not matter: exchanging the bytes of a word multiplies it by `Byte` modulo
  `Word - 1`. `OneWord` compares two buffers that differ in one word, for a field filled in
  and for a byte changed on the way: the change is never a multiple of `Word - 1`.
  `PrefixedSum` puts the pseudo header in front of the datagram, and `TwoParts` is the
  arithmetic of adding it to a sum already folded and complemented.

Left to TLC: liveness under fairness (`EventuallySent`, `Recovers`, `RxReturns`,
`AllSent`), which the prover does not handle. Every other property of a passing run is
stated by a theorem.

## Plan

Done, in this order: `Neighbour` with `Holding`, `Sockets`, `SkbQueue`, `RxPath`,
`Fib`; proofs of `RxPath` and `Sockets`, first proofs of `Neighbour`; lossy ARP, several
receivers, the copy to the application, input and output routing; `SkBuff` with
`Transmit`; `Checksum`; proofs of `Transmit`, `SkbQueue`, the rest of `Neighbour` with the
refinement of `Holding`, `Fib` and `Checksum`.

What could follow: system calls of `Sockets` split at each access to the tables, for
programs with several application threads.

## Not modelled

* The TAP driver (`driver/tap.c`): `ioctl`, `read` and `write` on a device; its only
  state is the file descriptor. A short or failing `write` has no effect on the stack:
  no caller uses the result.
* Device, protocol and packet-handler registration: done once, before the threads
  start; the models begin after it. Only the addresses of the interface and the tables
  filled from them are steps (`Fib`).
* Two application threads racing inside the table scans of `sys_socket` and
  `udp_v4_get_port`: a system call is one step of `Sockets`. That the unlocked scans can
  hand out one slot twice is plain from the code, and nothing in the repository says
  otherwise; the hazard is listed.
* A failing `malloc` of a received frame or a routing table node: the process
  prints a message and goes on without the object. One of a socket: `inet_create` prints
  its message and then stores through the NULL `sk` (`af_inet.c:142-146`); the process ends.
* Descriptors outside `socket_maps`: `sock_from_fd` has no range check
  (`socket.c:120`) and nothing says what such a call should do; `Sockets` is given
  descriptors of the table only. The hazard is listed.
* Memory that is used again after `kfree_skb`: `Released` says that no buffer is
  released twice or while a socket has it, and that is as far as the models go.
* The Go programs under `test-outside`, which run on the other host.
