------------------------------ MODULE Neighbour ------------------------------
(***************************************************************************)
(* The ARP neighbour cache: core/neighbour.c with the parts of ipv4/arp.c, *)
(* ipv4/route.c and ipv4/ip_output.c that call it.                         *)
(*                                                                         *)
(* A packet sent to an address is bound to the neighbour of that address   *)
(* (created on first use).  If the neighbour is REACHABLE the packet goes  *)
(* out with its hardware address; otherwise it waits on the neighbour's    *)
(* arp_queue, the first such packet also broadcasting an ARP request.  An  *)
(* ARP packet from the address makes the neighbour REACHABLE and sends     *)
(* what waits.  No lock protects any of this: the receive loop (Rx, the    *)
(* main thread) and the threads that call sys_sendto (Apps) interleave at  *)
(* every access to shared memory, one action per access.  An operation on  *)
(* an arp_queue has a beginning and an end; when two of them overlap the   *)
(* queue is torn and packets get lost, as module SkbQueue shows load by    *)
(* load and store by store.                                                *)
(***************************************************************************)
EXTENDS Naturals, Sequences

CONSTANTS Apps,      \* threads that send
          Rx,        \* the receive loop of main(), which also answers pings
          Addrs,     \* IPv4 addresses of on-link hosts
          Macs,      \* hardware addresses
          MacsOf,    \* the ones each host may announce
          ZeroMac,   \* what memset leaves in a new neighbour's ha
          TornMac,   \* an ha of which memcpy has written some of the bytes
          Skbs,      \* packets
          Entries,   \* heap addresses malloc may return for a struct neighbour
          NULL

Threads == Apps \cup {Rx}

ASSUME RxAssumption == Rx \notin Apps
ASSUME NullAssumption == NULL \notin Addrs \cup Macs \cup {ZeroMac, TornMac} \cup Skbs \cup Entries
ASSUME MacsAssumption ==
  /\ {ZeroMac, TornMac} \cap Macs = {}
  /\ ZeroMac # TornMac
  /\ MacsOf \in [Addrs -> SUBSET Macs]

VARIABLES
  buckets,    \* tbl->buckets: the list of neighbours, newest first
  key,        \* n->primary_key; NULL while n is not allocated
  nud_state,  \* n->nud_state
  ha,         \* n->ha
  arp_queue,  \* n->arp_queue
  daddr,      \* destination of a packet; NULL while the packet is not in use
  dst,        \* skb->dst->neighbour; NULL until the route is bound
  pc,         \* where each thread stands
  req,        \* the call a thread executes: its job, address and sender MAC
  neigh,      \* the neighbour a thread works on
  seen,       \* the value of tbl->buckets a thread read into n->next
  skb,        \* the packet in a thread's hands
  frame,      \* destination MAC a packet left with; NULL while it has not left
  sent,       \* per address, the packets written to the device, in order
  asked,      \* addresses with an ARP request the host has not answered yet
  lost,       \* addresses whose request, or the answer to it, was lost, not heard since
  latest,     \* per address, the MAC of the last ARP packet received from it
  maker,      \* history: the thread that created each neighbour
  torn        \* history: neighbours with an arp_queue on which operations overlapped

cacheVars == <<buckets, key, nud_state, ha, arp_queue>>
pktVars   == <<daddr, dst>>
threadVars == <<pc, req, neigh, seen, skb>>
wireVars  == <<frame, sent, asked, lost>>
history   == <<maker, torn>>
vars == <<cacheVars, pktVars, threadVars, wireVars, latest, history>>

-----------------------------------------------------------------------------
(* The table *)

Jobs == {"send", "ask", "tell"}

Labels == {"idle", "lookup", "create", "publish", "reachable", "none", "solicit",
           "setinc", "incomplete", "enqueue", "link", "xmit", "setreach", "setha",
           "copyha", "flush", "drain", "unlink", "leave"}

\* What a thread has on its stack between two calls.
NoCall == [job |-> "send", addr |-> NULL, sha |-> NULL]

\* Positions of the entries for address k in a bucket list.
Hits(list, k) == {i \in DOMAIN list : key[list[i]] = k}

\* Mutant: only the newest entry is compared.
neigh_lookup_HeadOnly(k) ==
  IF buckets # <<>> /\ key[buckets[1]] = k THEN buckets[1] ELSE NULL

\* Mutant: the keys are not compared.
neigh_lookup_AnyKey(k) == IF buckets = <<>> THEN NULL ELSE buckets[1]

\* The entry neigh_lookup stops at: the first one with the key.
neigh_lookup(k) ==
  IF Hits(buckets, k) = {}
    THEN NULL
    ELSE buckets[CHOOSE i \in Hits(buckets, k) : \A j \in Hits(buckets, k) : i <= j]

\* Where a call goes once it has its neighbour: a sender to
\* neigh_resolve_output, an ARP packet to neigh_update.
Resolved(t) == IF req[t].job = "send" THEN "reachable" ELSE "setreach"

\* arp_bind_neighbour stores the neighbour in the packet's route.
Bind(t, n) == dst' = IF req[t].job = "send" THEN [dst EXCEPT ![skb[t]] = n] ELSE dst

Init ==
  /\ buckets = <<>>
  /\ key = [e \in Entries |-> NULL]
  /\ nud_state = [e \in Entries |-> "NONE"]
  /\ ha = [e \in Entries |-> ZeroMac]
  /\ arp_queue = [e \in Entries |-> <<>>]
  /\ daddr = [s \in Skbs |-> NULL]
  /\ dst = [s \in Skbs |-> NULL]
  /\ pc = [t \in Threads |-> "idle"]
  /\ req = [t \in Threads |-> NoCall]
  /\ neigh = [t \in Threads |-> NULL]
  /\ seen = [t \in Threads |-> <<>>]
  /\ skb = [t \in Threads |-> NULL]
  /\ frame = [s \in Skbs |-> NULL]
  /\ sent = [k \in Addrs |-> <<>>]
  /\ asked = {}
  /\ lost = {}
  /\ latest = [k \in Addrs |-> NULL]
  /\ maker = [e \in Entries |-> NULL]
  /\ torn = {}

-----------------------------------------------------------------------------
(* Calls into the cache *)

\* udp_sendmsg or icmp_reply routes a packet to k.
Send(t, k, s) ==
  /\ pc[t] = "idle"
  /\ daddr[s] = NULL
  /\ daddr' = [daddr EXCEPT ![s] = k]
  /\ skb' = [skb EXCEPT ![t] = s]
  /\ req' = [req EXCEPT ![t] = [job |-> "send", addr |-> k, sha |-> NULL]]
  /\ pc' = [pc EXCEPT ![t] = "lookup"]
  /\ UNCHANGED <<cacheVars, dst, neigh, seen, wireVars, latest, history>>

\* arp_process accepts an ARP packet of host k: a request for our address
\* ("ask"), or a reply or a request for another host ("tell").
ArpIn(job, k, m) ==
  /\ pc[Rx] = "idle"
  /\ req' = [req EXCEPT ![Rx] = [job |-> job, addr |-> k, sha |-> m]]
  /\ pc' = [pc EXCEPT ![Rx] = "lookup"]
  /\ latest' = [latest EXCEPT ![k] = m]
  /\ lost' = lost \ {k}
  /\ UNCHANGED <<cacheVars, pktVars, neigh, seen, skb, frame, sent, history>>

Unprompted(job, k, m) == ArpIn(job, k, m) /\ UNCHANGED asked

\* The host at k answers our ARP request.
Answered(k, m) == k \in asked /\ ArpIn("tell", k, m) /\ asked' = asked \ {k}

\* The wire drops our ARP request or the answer to it.  Nothing in the code
\* notices: there is no timer, and neigh_event_send asks in state NONE only.
Lose(k) ==
  /\ k \in asked
  /\ asked' = asked \ {k}
  /\ lost' = lost \cup {k}
  /\ UNCHANGED <<cacheVars, pktVars, threadVars, frame, sent, latest, history>>

-----------------------------------------------------------------------------
(* Finding or creating the neighbour *)

\* neigh_lookup: the head of the list is read once and the links below it never
\* change.  Without an entry a "tell" is dropped (creat = 0), the others create.
Lookup(t) ==
  LET n == neigh_lookup(req[t].addr) IN
  /\ pc[t] = "lookup"
  /\ neigh' = [neigh EXCEPT ![t] = n]
  /\ \/ /\ n # NULL
        /\ Bind(t, n)
        /\ pc' = [pc EXCEPT ![t] = Resolved(t)]
     \/ /\ n = NULL
        /\ pc' = [pc EXCEPT ![t] = IF req[t].job = "tell" THEN "leave" ELSE "create"]
        /\ UNCHANGED dst
  /\ UNCHANGED <<cacheVars, daddr, req, seen, skb, wireVars, latest, history>>

\* neigh_create up to n->next = tbl->buckets.
Create(t, e) ==
  /\ pc[t] = "create"
  /\ key[e] = NULL
  /\ key' = [key EXCEPT ![e] = req[t].addr]
  /\ neigh' = [neigh EXCEPT ![t] = e]
  /\ seen' = [seen EXCEPT ![t] = buckets]
  /\ maker' = [maker EXCEPT ![e] = t]
  /\ pc' = [pc EXCEPT ![t] = "publish"]
  /\ UNCHANGED <<buckets, nud_state, ha, arp_queue, pktVars, req, skb, wireVars, latest, torn>>

\* Mutant: arp_bind_neighbour does not test for NULL.
CreateFails_Unchecked(t) ==
  /\ pc[t] = "create"
  /\ pc' = [pc EXCEPT ![t] = Resolved(t)]
  /\ UNCHANGED <<cacheVars, pktVars, req, neigh, seen, skb, wireVars, latest, history>>

\* malloc fails: the packet is never built (arp_bind_neighbour, udp_sendmsg),
\* an ARP request goes unanswered.
CreateFails(t) ==
  /\ pc[t] = "create"
  /\ pc' = [pc EXCEPT ![t] = "leave"]
  /\ daddr' = IF req[t].job = "send" THEN [daddr EXCEPT ![skb[t]] = NULL] ELSE daddr
  /\ skb' = [skb EXCEPT ![t] = NULL]
  /\ UNCHANGED <<cacheVars, dst, req, neigh, seen, wireVars, latest, history>>

\* tbl->buckets = n.
Publish(t) ==
  /\ pc[t] = "publish"
  /\ buckets' = <<neigh[t]>> \o seen[t]
  /\ Bind(t, neigh[t])
  /\ pc' = [pc EXCEPT ![t] = Resolved(t)]
  /\ seen' = [seen EXCEPT ![t] = <<>>]
  /\ UNCHANGED <<key, nud_state, ha, arp_queue, daddr, req, neigh, skb, wireVars, latest, history>>

-----------------------------------------------------------------------------
(* neigh_resolve_output and neigh_event_send on the packet in hand *)

Out(t) == dst[skb[t]]

\* A test of nud_state and nothing else: the thread goes on at l.
Goto(t, l) ==
  /\ pc' = [pc EXCEPT ![t] = l]
  /\ UNCHANGED <<cacheVars, pktVars, req, neigh, seen, skb, wireVars, latest, history>>

\* Mutant: neigh_update sends one packet instead of all that wait.
Return_Once(t) ==
  /\ pc' = [pc EXCEPT ![t] = "leave"]
  /\ skb' = [skb EXCEPT ![t] = NULL]

\* neigh_resolve_output returns to the sender or to the loop of neigh_update.
Return(t) ==
  /\ pc' = [pc EXCEPT ![t] = IF req[t].job = "send" THEN "leave" ELSE "drain"]
  /\ skb' = [skb EXCEPT ![t] = NULL]

\* Mutant: a REACHABLE neighbour is probed again.
IfReachable_Probe(t) ==
  /\ pc[t] = "reachable"
  /\ Goto(t, IF nud_state[Out(t)] = "INCOMPLETE" THEN "incomplete" ELSE "solicit")

IfReachable(t) ==
  pc[t] = "reachable" /\ Goto(t, IF nud_state[Out(t)] = "REACHABLE" THEN "xmit" ELSE "none")

IfNone(t) ==
  pc[t] = "none" /\ Goto(t, IF nud_state[Out(t)] = "NONE" THEN "solicit" ELSE "incomplete")

IfIncomplete(t) ==
  pc[t] = "incomplete" /\ Goto(t, IF nud_state[Out(t)] = "INCOMPLETE" THEN "enqueue" ELSE "xmit")

\* Mutant: the request is built and never sent.
Solicit_Unsent(t) ==
  /\ pc[t] = "solicit"
  /\ pc' = [pc EXCEPT ![t] = "setinc"]
  /\ UNCHANGED <<cacheVars, pktVars, req, neigh, seen, skb, wireVars, latest, history>>

\* arp_solicit broadcasts a request for the neighbour's key.
Solicit(t) ==
  /\ pc[t] = "solicit"
  /\ asked' = asked \cup {key[Out(t)]}
  /\ pc' = [pc EXCEPT ![t] = "setinc"]
  /\ UNCHANGED <<cacheVars, pktVars, req, neigh, seen, skb, frame, sent, lost, latest, history>>

SetIncomplete(t) ==
  /\ pc[t] = "setinc"
  /\ nud_state' = [nud_state EXCEPT ![Out(t)] = "INCOMPLETE"]
  /\ pc' = [pc EXCEPT ![t] = "incomplete"]
  /\ UNCHANGED <<buckets, key, ha, arp_queue, pktVars, req, neigh, seen, skb, wireVars, latest, history>>

\* A list operation on the arp_queue of e begins: it loads the links it will
\* store to.  No lock keeps another thread out, so if one is in a list operation
\* on the same queue the two work on stale links from here on.
BeginList(t, e) ==
  torn' = IF \E u \in Threads \ {t} : pc[u] \in {"link", "unlink"} /\ Out(u) = e
            THEN torn \cup {e}
            ELSE torn

\* skb_queue_tail loads list->prev.
Enqueue(t) ==
  /\ pc[t] = "enqueue"
  /\ BeginList(t, Out(t))
  /\ pc' = [pc EXCEPT ![t] = "link"]
  /\ UNCHANGED <<cacheVars, pktVars, req, neigh, seen, skb, wireVars, latest, maker>>

\* What the arp_queue q of e may be once skb_queue_tail has stored its links to
\* put s on it.  On a torn queue s may be linked behind a packet that is no
\* longer on the list (s is lost) or behind one that is not the last any more
\* (what followed that one is lost).
AfterLink(e, q, s) ==
  {Append(q, s)} \cup
    IF e \in torn THEN {q} \cup {Append(SubSeq(q, 1, i), s) : i \in 0 .. Len(q)} ELSE {}

\* Mutant: skb_queue_head instead of skb_queue_tail.
Link_Head(t) ==
  /\ pc[t] = "link"
  /\ arp_queue' = [arp_queue EXCEPT ![Out(t)] = <<skb[t]>> \o @]
  /\ Return(t)
  /\ UNCHANGED <<buckets, key, nud_state, ha, pktVars, req, neigh, seen, wireVars, latest, history>>

\* Mutant: neigh_event_send returns 0 for a packet it has queued.
Link_AndSend(t) ==
  /\ pc[t] = "link"
  /\ arp_queue' = [arp_queue EXCEPT ![Out(t)] = Append(@, skb[t])]
  /\ pc' = [pc EXCEPT ![t] = "xmit"]
  /\ UNCHANGED <<buckets, key, nud_state, ha, pktVars, req, neigh, seen, skb, wireVars, latest, history>>

\* skb_queue_tail stores its links and neigh_event_send returns 1.
Link(t) ==
  /\ pc[t] = "link"
  /\ \E q \in AfterLink(Out(t), arp_queue[Out(t)], skb[t]) :
       arp_queue' = [arp_queue EXCEPT ![Out(t)] = q]
  /\ Return(t)
  /\ UNCHANGED <<buckets, key, nud_state, ha, pktVars, req, neigh, seen, wireVars, latest, history>>

\* hard_header copies the neighbour's ha, queue_xmit writes the frame.
Transmit(t) ==
  /\ pc[t] = "xmit"
  /\ frame' = [frame EXCEPT ![skb[t]] = ha[Out(t)]]
  /\ sent' = [sent EXCEPT ![daddr[skb[t]]] = Append(@, skb[t])]
  /\ Return(t)
  /\ UNCHANGED <<cacheVars, pktVars, req, neigh, seen, asked, lost, latest, history>>

-----------------------------------------------------------------------------
(* neigh_update, always with NUD_REACHABLE *)

SetReachable(t) ==
  /\ pc[t] = "setreach"
  /\ nud_state' = [nud_state EXCEPT ![neigh[t]] = "REACHABLE"]
  /\ pc' = [pc EXCEPT ![t] = "setha"]
  /\ UNCHANGED <<buckets, key, ha, arp_queue, pktVars, req, neigh, seen, skb, wireVars, latest, history>>

\* Mutant: the hardware address is only copied once.
SetHa_Once(t) ==
  /\ pc[t] = "setha"
  /\ ha' = IF ha[neigh[t]] = ZeroMac THEN [ha EXCEPT ![neigh[t]] = req[t].sha] ELSE ha
  /\ pc' = [pc EXCEPT ![t] = "flush"]
  /\ UNCHANGED <<buckets, key, nud_state, arp_queue, pktVars, req, neigh, seen, skb, wireVars, latest, history>>

\* memcpy(neigh->ha, lladdr, dev->addr_len) has written some of the six bytes ...
SetHa(t) ==
  /\ pc[t] = "setha"
  /\ ha' = [ha EXCEPT ![neigh[t]] = IF @ = req[t].sha THEN @ ELSE TornMac]
  /\ pc' = [pc EXCEPT ![t] = "copyha"]
  /\ UNCHANGED <<buckets, key, nud_state, arp_queue, pktVars, req, neigh, seen, skb, wireVars, latest, history>>

\* ... and all of them.
CopyHa(t) ==
  /\ pc[t] = "copyha"
  /\ ha' = [ha EXCEPT ![neigh[t]] = req[t].sha]
  /\ pc' = [pc EXCEPT ![t] = "flush"]
  /\ UNCHANGED <<buckets, key, nud_state, arp_queue, pktVars, req, neigh, seen, skb, wireVars, latest, history>>

IfFlush(t) ==
  pc[t] = "flush" /\ Goto(t, IF nud_state[neigh[t]] = "REACHABLE" THEN "drain" ELSE "leave")

\* Mutant: the loop waits for packets as skb_recv_datagram does.
Drain_Waits(t) ==
  /\ pc[t] = "drain"
  /\ \/ arp_queue[neigh[t]] = <<>> /\ UNCHANGED <<arp_queue, skb, pc>>
     \/ /\ arp_queue[neigh[t]] # <<>>
        /\ arp_queue' = [arp_queue EXCEPT ![neigh[t]] = Tail(@)]
        /\ skb' = [skb EXCEPT ![t] = Head(arp_queue[neigh[t]])]
        /\ pc' = [pc EXCEPT ![t] = "unlink"]
  /\ UNCHANGED <<buckets, key, nud_state, ha, pktVars, req, neigh, seen, wireVars, latest, history>>

\* Mutant: neigh_update dequeues the packets and does not call output.
Drain_Drops(t) ==
  /\ pc[t] = "drain"
  /\ arp_queue' = [arp_queue EXCEPT ![neigh[t]] = <<>>]
  /\ pc' = [pc EXCEPT ![t] = "leave"]
  /\ UNCHANGED <<buckets, key, nud_state, ha, pktVars, req, neigh, seen, skb, wireVars, latest, history>>

\* skb_dequeue loads list->next: without a packet neigh_update is done, else the
\* first one is the result, and as nobody else takes from an arp_queue it is off
\* the queue from here on.
Drain(t) ==
  /\ pc[t] = "drain"
  /\ \/ /\ arp_queue[neigh[t]] = <<>>
        /\ pc' = [pc EXCEPT ![t] = "leave"]
        /\ UNCHANGED <<arp_queue, skb, torn>>
     \/ /\ arp_queue[neigh[t]] # <<>>
        /\ BeginList(t, neigh[t])
        /\ arp_queue' = [arp_queue EXCEPT ![neigh[t]] = Tail(@)]
        /\ skb' = [skb EXCEPT ![t] = Head(arp_queue[neigh[t]])]
        /\ pc' = [pc EXCEPT ![t] = "unlink"]
  /\ UNCHANGED <<buckets, key, nud_state, ha, pktVars, req, neigh, seen, wireVars, latest, maker>>

\* skb_dequeue has stored list->next (and with it forgotten what a sender may
\* have linked to the packet meanwhile: see AfterLink) and returns the packet.
Unlink(t) == pc[t] = "unlink" /\ Goto(t, "reachable")

\* The call returns.  For a request of a host arp_process first sends our ARP
\* reply, which touches nothing the cache keeps.
Leave(t) ==
  /\ pc[t] = "leave"
  /\ pc' = [pc EXCEPT ![t] = "idle"]
  /\ req' = [req EXCEPT ![t] = NoCall]
  /\ neigh' = [neigh EXCEPT ![t] = NULL]
  /\ skb' = [skb EXCEPT ![t] = NULL]
  /\ UNCHANGED <<cacheVars, pktVars, seen, wireVars, latest, history>>

-----------------------------------------------------------------------------
Resolve(t) == \/ IfReachable(t) \/ IfNone(t) \/ Solicit(t) \/ SetIncomplete(t)
              \/ IfIncomplete(t) \/ Enqueue(t) \/ Link(t) \/ Transmit(t)

Update(t) == \/ SetReachable(t) \/ SetHa(t) \/ CopyHa(t) \/ IfFlush(t)
             \/ Drain(t) \/ Unlink(t)

\* A thread inside a call.
Step(t) == \/ Lookup(t)
           \/ \E e \in Entries : Create(t, e)
           \/ CreateFails(t)
           \/ Publish(t)
           \/ Resolve(t)
           \/ Update(t)
           \/ Leave(t)

Next ==
  \/ \E t \in Threads : Step(t)
  \/ \E t \in Threads, k \in Addrs, s \in Skbs : Send(t, k, s)
  \/ \E k \in Addrs : \E m \in MacsOf[k] :
       \/ \E job \in {"ask", "tell"} : Unprompted(job, k, m)
       \/ Answered(k, m)
  \/ \E k \in Addrs : Lose(k)

Spec == Init /\ [][Next]_vars

\* A thread in a call keeps running (no operation of the cache blocks), and an
\* ARP request that is not lost is answered: the reply waits in the device until
\* the receive loop reads it.
FairSpec ==
  /\ Spec
  /\ \A t \in Threads : WF_vars(Step(t))
  /\ \A k \in Addrs : SF_vars(\E m \in MacsOf[k] : Answered(k, m))

-----------------------------------------------------------------------------
(* Properties *)

Calls == [job : Jobs, addr : Addrs \cup {NULL}, sha : Macs \cup {NULL}]

Resolving == {"unlink", "reachable", "none", "solicit", "setinc", "incomplete",
              "enqueue", "link", "xmit"}
Updating == {"setreach", "setha", "copyha", "flush", "drain"}

\* Every variable stays in its type, and no thread goes through a NULL pointer:
\* one that resolves has a packet bound to an allocated neighbour, one that
\* updates has a neighbour.
TypeOK ==
  /\ buckets \in Seq(Entries)
  /\ key \in [Entries -> Addrs \cup {NULL}]
  /\ nud_state \in [Entries -> {"NONE", "INCOMPLETE", "REACHABLE"}]
  /\ ha \in [Entries -> Macs \cup {ZeroMac, TornMac}]
  /\ arp_queue \in [Entries -> Seq(Skbs)]
  /\ daddr \in [Skbs -> Addrs \cup {NULL}]
  /\ dst \in [Skbs -> Entries \cup {NULL}]
  /\ pc \in [Threads -> Labels]
  /\ req \in [Threads -> Calls]
  /\ neigh \in [Threads -> Entries \cup {NULL}]
  /\ seen \in [Threads -> Seq(Entries)]
  /\ skb \in [Threads -> Skbs \cup {NULL}]
  /\ frame \in [Skbs -> Macs \cup {ZeroMac, TornMac, NULL}]
  /\ sent \in [Addrs -> Seq(Skbs)]
  /\ asked \subseteq Addrs
  /\ lost \subseteq Addrs
  /\ latest \in [Addrs -> Macs \cup {NULL}]
  /\ maker \in [Entries -> Threads \cup {NULL}]
  /\ torn \subseteq Entries
  /\ \A t \in Threads :
       /\ pc[t] \in Resolving => skb[t] # NULL /\ Out(t) # NULL /\ key[Out(t)] # NULL
       /\ pc[t] \in Updating => neigh[t] # NULL

\* No thread puts a second entry for an address into the table while its first
\* is there, whatever the other does between its neigh_lookup, its neigh_create
\* and its store to tbl->buckets: two entries (which split the waiting packets
\* over two queues) are of two threads that both found none.  The store
\* of one thread may drop the other's newer entry from the table, but
\* none that its owner does not know to be gone comes back.  True of the receive
\* loop and one sending thread: from three threads on, a stale list brings back
\* an entry its maker has since replaced.
OwnEntryOnce ==
  \A i, j \in DOMAIN buckets :
    i # j /\ key[buckets[i]] = key[buckets[j]] => maker[buckets[i]] # maker[buckets[j]]

\* Between two frames of the receive loop no packet is stranded: one that waits
\* on an arp_queue waits for an ARP request that is still to be answered or that
\* the wire lost, and the neighbour is the one the table has for the address, so
\* the next ARP packet of the host will find the queue (neigh_event_send never
\* asks twice, neigh_update drains once).
NoStranded ==
  (\A t \in Threads : pc[t] = "idle") =>
    \A e \in Entries : arp_queue[e] # <<>> =>
      /\ nud_state[e] = "INCOMPLETE"
      /\ key[e] \in asked \cup lost
      /\ neigh_lookup(key[e]) = e

\* A frame carries the hardware address the destination announced last, never
\* the zeroes of a new neighbour and never an address it has since replaced.
FreshMac ==
  [][\A s \in Skbs : frame'[s] # frame[s] => frame'[s] = latest[daddr[s]]]_vars

\* The places a packet is in: a thread's hands, an arp_queue, the device.
Places(s) ==
  {<<"hand", t>> : t \in {u \in Threads : skb[u] = s}}
    \cup (UNION {{<<"queue", e, i>> : i \in {j \in DOMAIN arp_queue[e] : arp_queue[e][j] = s}} : e \in Entries})
    \cup (UNION {{<<"sent", k, i>> : i \in {j \in DOMAIN sent[k] : sent[k][j] = s}} : k \in Addrs})

\* However senders and the receive loop interleave, a packet has at most one
\* owner: it is never on two queues or queued and sent, and never sent twice.
\* Once bound it is only lost if operations on the arp_queue of its neighbour
\* have overlapped: every other path through neigh_event_send, neigh_update and
\* neigh_resolve_output keeps it, the ones a change of nud_state by the other
\* thread opens included.
OneOwner ==
  \A s \in Skbs :
    /\ \A p, q \in Places(s) : p = q
    /\ dst[s] # NULL /\ dst[s] \notin torn => Places(s) # {}

\* However they interleave, no frame goes to another host's hardware address:
\* it has an address its destination announced, or (a race) the zeroes of a
\* neighbour that is REACHABLE before its ha is copied, or (a race) an ha that is
\* half copied from another one its destination announced.
RightHost ==
  \A s \in Skbs :
    frame[s] # NULL => frame[s] \in MacsOf[daddr[s]] \cup {ZeroMac, TornMac}

\* The comment on neigh_event_ns has a neighbour that was heard REACHABLE
\* directly.  The one thing that takes it out of that state again is a sender
\* that had read NONE before: once none is between that test and its store of
\* INCOMPLETE, the neighbour stays REACHABLE for good.
Settled(e) ==
  /\ nud_state[e] = "REACHABLE"
  /\ \A t \in Threads : pc[t] \in {"solicit", "setinc"} => Out(t) # e

StaysReachable == [][\A e \in Entries : Settled(e) => Settled(e)']_vars

\* The packets of address k the cache has accepted and not yet sent, oldest
\* first: the one neigh_update has just dequeued, the ones on the arp_queue, and
\* the one a sender has bound and not yet queued or sent.
InHand(t, k, sending) ==
  IF /\ skb[t] # NULL
     /\ dst[skb[t]] # NULL
     /\ daddr[skb[t]] = k
     /\ (req[t].job = "send") = sending
    THEN <<skb[t]>>
    ELSE <<>>

Waiting(k) ==
  LET n == neigh_lookup(k)
  IN  InHand(Rx, k, FALSE) \o (IF n = NULL THEN <<>> ELSE arp_queue[n]) \o InHand(Rx, k, TRUE)

H == INSTANCE Holding WITH held <- [k \in Addrs |-> Waiting(k)], gone <- sent

\* The cache implements Holding: per address the packets leave in the order
\* ip_output handed them over, none lost, none sent twice.
Holds == H!HSpec

\* Every packet bound to a neighbour is eventually written to the device, unless
\* the wire lost the one ARP request sent for it or the answer: then it waits.
EventuallySent ==
  \A s \in Skbs : (dst[s] # NULL) ~>
    \/ frame[s] # NULL
    \/ dst[s] # NULL /\ daddr[s] \in lost /\ nud_state[dst[s]] = "INCOMPLETE"

\* A lost ARP exchange is not the end, although nothing repeats it: to a host
\* that keeps sending ARP packets of its own everything is sent, whatever is lost.
Recovers ==
  \A k \in Addrs :
    []<><<\E job \in {"ask", "tell"}, m \in MacsOf[k] : ArpIn(job, k, m)>>_vars =>
      \A s \in Skbs : (dst[s] # NULL /\ daddr[s] = k) ~> (frame[s] # NULL)

\* The receive loop always gets back to reading the device.
RxReturns == (pc[Rx] # "idle") ~> (pc[Rx] = "idle")
=============================================================================
