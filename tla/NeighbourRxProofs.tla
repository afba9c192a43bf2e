--------------------------- MODULE NeighbourRxProofs ---------------------------
(***************************************************************************)
(* Proofs about Neighbour for the program as shipped, in which only the    *)
(* receive loop sends (Apps = {}): for any number of hosts, hardware       *)
(* addresses, packets and heap addresses.                                  *)
(***************************************************************************)
EXTENDS NeighbourProofs

\* The receive loop's call is its own ping reply, not an ARP packet.
Sending == req[Rx].job = "send"

\* An entry is in the table.
Linked(e) == \E i \in DOMAIN buckets : buckets[i] = e

\* The entry neigh_create has filled and not yet linked.
Unlinked(e) == pc[Rx] = "publish" /\ e = neigh[Rx]

\* The entry whose packets neigh_update is sending.
Draining(e) ==
  e = neigh[Rx] /\ (pc[Rx] \in {"setha", "copyha", "flush", "drain"} \/ (pc[Rx] \in Resolving /\ ~ Sending))

\* No operations on an arp_queue have overlapped.
NoTear == torn = {}

\* One entry per address, each in the table once it is published.
TableSound ==
  /\ \A i, j \in DOMAIN buckets : buckets[i] = buckets[j] => i = j
  /\ \A e, f \in Entries : key[e] # NULL /\ key[e] = key[f] => e = f
  /\ \A e \in Entries : key[e] # NULL <=> Linked(e) \/ Unlinked(e)
  /\ pc[Rx] = "publish" => ~ Linked(neigh[Rx]) /\ seen[Rx] = buckets
  /\ pc[Rx] = "create" => \A e \in Entries : key[e] # req[Rx].addr

\* Memory that is not yet in the table is as memset left it.
NewSound ==
  \A e \in Entries : key[e] = NULL \/ Unlinked(e) => nud_state[e] = "NONE" /\ arp_queue[e] = <<>>

\* What the tests so far say about the state of the neighbour in hand.
StateSound ==
  /\ pc[Rx] \in Resolving /\ ~ Sending =>
       /\ pc[Rx] \in {"unlink", "reachable", "xmit"}
       /\ Out(Rx) = neigh[Rx] /\ nud_state[neigh[Rx]] = "REACHABLE"
  /\ pc[Rx] \in {"setha", "copyha", "flush", "drain"} => nud_state[neigh[Rx]] = "REACHABLE"
  /\ pc[Rx] = "none" => nud_state[Out(Rx)] # "REACHABLE"
  /\ pc[Rx] \in {"solicit", "setinc"} => nud_state[Out(Rx)] = "NONE"
  /\ pc[Rx] \in {"incomplete", "enqueue", "link"} => nud_state[Out(Rx)] = "INCOMPLETE"
  /\ pc[Rx] = "xmit" => nud_state[Out(Rx)] = "REACHABLE"
  /\ pc[Rx] = "setinc" => key[Out(Rx)] \in asked \cup lost

\* Packets wait for an answer, or are just being sent.
QueueWaits ==
  \A e \in Entries : arp_queue[e] # <<>> => nud_state[e] = "INCOMPLETE" \/ Draining(e)

\* An address that is being resolved was asked for, or its host is being heard.
AskedFor ==
  \A e \in Entries : nud_state[e] = "INCOMPLETE" =>
    \/ key[e] \in asked \cup lost
    \/ ~ Sending /\ pc[Rx] \in {"lookup", "setreach"} /\ req[Rx].addr = key[e]

\* A REACHABLE neighbour has the hardware address heard last, or is about to get it.
HaLatest ==
  /\ ~ Sending /\ pc[Rx] \notin {"idle", "leave"} => req[Rx].sha = latest[req[Rx].addr]
  /\ \A e \in Entries : nud_state[e] = "REACHABLE" =>
       \/ ha[e] = latest[key[e]]
       \/ ~ Sending /\ pc[Rx] \in {"lookup", "setreach", "setha", "copyha"} /\ req[Rx].addr = key[e]

RxInv == TableSound /\ NewSound /\ StateSound /\ QueueWaits /\ AskedFor /\ HaLatest

-----------------------------------------------------------------------------
(* What the receive loop has in hand *)

LEMMA RxFacts ==
  ASSUME IInv
  PROVE  /\ Rx \in Threads
         /\ NULL \notin Addrs /\ NULL \notin Entries /\ NULL \notin Skbs
         /\ pc[Rx] \in Resolving =>
              skb[Rx] \in Skbs /\ Out(Rx) \in Entries /\ key[Out(Rx)] \in Addrs
         /\ pc[Rx] \in Updating \/ (pc[Rx] \in Resolving /\ ~ Sending) =>
              /\ ~ Sending /\ neigh[Rx] \in Entries /\ key[neigh[Rx]] = req[Rx].addr
              /\ req[Rx].addr \in Addrs
         /\ pc[Rx] \in {"lookup", "create", "publish"} => req[Rx].addr \in Addrs
         /\ pc[Rx] = "publish" => neigh[Rx] \in Entries /\ key[neigh[Rx]] = req[Rx].addr
  <1>1. Rx \in Threads /\ TypeOK
    BY DEF Threads, IInv
  <1>2. NULL \notin Addrs /\ NULL \notin Entries /\ NULL \notin Skbs
    BY NullAssumption
  <1>3. pc[Rx] \in Resolving => skb[Rx] \in Skbs /\ Out(Rx) \in Entries /\ key[Out(Rx)] \in Addrs
    BY <1>1, ResolvingHolds
  <1>4. pc[Rx] \in Updating \/ (pc[Rx] \in Resolving /\ ~ Sending) =>
              /\ ~ Sending /\ neigh[Rx] \in Entries /\ key[neigh[Rx]] = req[Rx].addr
              /\ req[Rx].addr \in Addrs
    BY <1>1, <1>2 DEF IInv, NeighSound, CallsSound, TypeOK, Sending, Updating, Resolving
  <1>5. pc[Rx] \in {"lookup", "create", "publish"} => req[Rx].addr \in Addrs
    BY <1>1 DEF IInv, CallsSound
  <1>6. pc[Rx] = "publish" => neigh[Rx] \in Entries /\ key[neigh[Rx]] = req[Rx].addr
    BY <1>1, <1>2 DEF IInv, NeighSound, TypeOK
  <1> QED
    BY <1>1, <1>2, <1>3, <1>4, <1>5, <1>6

LEMMA IfReachableRx ==
  ASSUME IInv, RxInv, IfReachable(Rx)
  PROVE  RxInv'
  <1> USE RxFacts DEF IfReachable, Goto, RxInv, IInv, TypeOK, cacheVars, pktVars, wireVars, history, Labels, Updating, Resolving
  <1>1. TableSound'
    BY DEF TableSound, Linked, Unlinked
  <1>2. NewSound'
    BY DEF NewSound, Unlinked
  <1>3. StateSound'
    BY DEF StateSound, Out, Sending, Resolving
  <1>4. QueueWaits'
    BY DEF QueueWaits, Draining, Sending, Resolving
  <1>5. AskedFor'
    BY DEF AskedFor, Sending
  <1>6. HaLatest'
    BY DEF HaLatest, Sending
  <1> QED
    BY <1>1, <1>2, <1>3, <1>4, <1>5, <1>6

LEMMA IfNoneRx ==
  ASSUME IInv, RxInv, IfNone(Rx)
  PROVE  RxInv'
  <1> USE RxFacts DEF IfNone, Goto, RxInv, IInv, TypeOK, cacheVars, pktVars, wireVars, history, Labels, Updating, Resolving
  <1>1. TableSound'
    BY DEF TableSound, Linked, Unlinked
  <1>2. NewSound'
    BY DEF NewSound, Unlinked
  <1>3. StateSound'
    BY DEF StateSound, Out, Sending, Resolving
  <1>4. QueueWaits'
    BY DEF QueueWaits, Draining, Sending, Resolving
  <1>5. AskedFor'
    BY DEF AskedFor, Sending
  <1>6. HaLatest'
    BY DEF HaLatest, Sending
  <1> QED
    BY <1>1, <1>2, <1>3, <1>4, <1>5, <1>6

LEMMA IfIncompleteRx ==
  ASSUME IInv, RxInv, IfIncomplete(Rx)
  PROVE  RxInv'
  <1> USE RxFacts DEF IfIncomplete, Goto, RxInv, IInv, TypeOK, cacheVars, pktVars, wireVars, history, Labels, Updating, Resolving
  <1>1. TableSound'
    BY DEF TableSound, Linked, Unlinked
  <1>2. NewSound'
    BY DEF NewSound, Unlinked
  <1>3. StateSound'
    BY DEF StateSound, Out, Sending, Resolving
  <1>4. QueueWaits'
    BY DEF QueueWaits, Draining, Sending, Resolving
  <1>5. AskedFor'
    BY DEF AskedFor, Sending
  <1>6. HaLatest'
    BY DEF HaLatest, Sending
  <1> QED
    BY <1>1, <1>2, <1>3, <1>4, <1>5, <1>6

LEMMA SolicitRx ==
  ASSUME IInv, RxInv, Solicit(Rx)
  PROVE  RxInv'
  <1> USE RxFacts DEF Solicit, RxInv, IInv, TypeOK, cacheVars, pktVars, wireVars, history, Labels, Updating, Resolving
  <1>1. TableSound'
    BY DEF TableSound, Linked, Unlinked
  <1>2. NewSound'
    BY DEF NewSound, Unlinked
  <1>3. StateSound'
    BY DEF StateSound, Out, Sending, Resolving
  <1>4. QueueWaits'
    BY DEF QueueWaits, Draining, Sending, Resolving
  <1>5. AskedFor'
    BY DEF AskedFor, Sending
  <1>6. HaLatest'
    BY DEF HaLatest, Sending
  <1> QED
    BY <1>1, <1>2, <1>3, <1>4, <1>5, <1>6

LEMMA SetIncompleteRx ==
  ASSUME IInv, RxInv, SetIncomplete(Rx)
  PROVE  RxInv'
  <1> USE RxFacts DEF SetIncomplete, RxInv, IInv, TypeOK, cacheVars, pktVars, wireVars, history, Labels, Updating, Resolving
  <1>1. TableSound'
    BY DEF TableSound, Linked, Unlinked
  <1>2. NewSound'
    BY DEF NewSound, Unlinked
  <1>3. StateSound'
    BY DEF StateSound, Out, Sending, Resolving
  <1>4. QueueWaits'
    BY DEF QueueWaits, Draining, Sending, Resolving
  <1>5. AskedFor'
    BY DEF AskedFor, Sending, StateSound, Out
  <1>6. HaLatest'
    BY DEF HaLatest, Sending
  <1> QED
    BY <1>1, <1>2, <1>3, <1>4, <1>5, <1>6

LEMMA EnqueueRx ==
  ASSUME IInv, RxInv, Enqueue(Rx)
  PROVE  RxInv'
  <1> USE RxFacts DEF Enqueue, RxInv, IInv, TypeOK, cacheVars, pktVars, wireVars, history, Labels, Updating, Resolving
  <1>1. TableSound'
    BY DEF TableSound, Linked, Unlinked
  <1>2. NewSound'
    BY DEF NewSound, Unlinked
  <1>3. StateSound'
    BY DEF StateSound, Out, Sending, Resolving
  <1>4. QueueWaits'
    BY DEF QueueWaits, Draining, Sending, Resolving
  <1>5. AskedFor'
    BY DEF AskedFor, Sending
  <1>6. HaLatest'
    BY DEF HaLatest, Sending
  <1> QED
    BY <1>1, <1>2, <1>3, <1>4, <1>5, <1>6

\* Without an overlap skb_queue_tail appends.
LEMMA LinkAppends ==
  ASSUME NoTear, Link(Rx)
  PROVE  arp_queue' = [arp_queue EXCEPT ![Out(Rx)] = Append(@, skb[Rx])]
  <1>1. \A e, q, x : AfterLink(e, q, x) = {Append(q, x)}
    BY DEF AfterLink, NoTear
  <1> QED
    BY <1>1 DEF Link

LEMMA LinkRx ==
  ASSUME NoTear, IInv, RxInv, Link(Rx)
  PROVE  RxInv'
  <1>0. /\ pc[Rx] = "link" /\ arp_queue' = [arp_queue EXCEPT ![Out(Rx)] = Append(@, skb[Rx])] /\ Return(Rx)
        /\ UNCHANGED <<buckets, key, nud_state, ha, pktVars, req, neigh, seen, wireVars, latest, history>>
    BY LinkAppends DEF Link
  <1> USE <1>0, RxFacts DEF Return, RxInv, IInv, TypeOK, cacheVars, pktVars, wireVars, history, Labels, Updating, Resolving
  <1>1. TableSound'
    BY DEF TableSound, Linked, Unlinked
  <1>2. NewSound'
    BY DEF NewSound, Unlinked
  <1>3. StateSound'
    BY DEF StateSound, Out, Sending, Resolving
  <1>4. QueueWaits'
    BY DEF QueueWaits, Draining, Sending, StateSound, Out
  <1>5. AskedFor'
    BY DEF AskedFor, Sending
  <1>6. HaLatest'
    BY DEF HaLatest, Sending
  <1> QED
    BY <1>1, <1>2, <1>3, <1>4, <1>5, <1>6

LEMMA UnlinkRx ==
  ASSUME IInv, RxInv, Unlink(Rx)
  PROVE  RxInv'
  <1> USE RxFacts DEF Unlink, Goto, RxInv, IInv, TypeOK, cacheVars, pktVars, wireVars, history, Labels, Updating, Resolving
  <1>1. TableSound'
    BY DEF TableSound, Linked, Unlinked
  <1>2. NewSound'
    BY DEF NewSound, Unlinked
  <1>3. StateSound'
    BY DEF StateSound, Out, Sending, Resolving
  <1>4. QueueWaits'
    BY DEF QueueWaits, Draining, Sending, Resolving
  <1>5. AskedFor'
    BY DEF AskedFor, Sending
  <1>6. HaLatest'
    BY DEF HaLatest, Sending
  <1> QED
    BY <1>1, <1>2, <1>3, <1>4, <1>5, <1>6

LEMMA TransmitRx ==
  ASSUME IInv, RxInv, Transmit(Rx)
  PROVE  RxInv'
  <1> USE RxFacts DEF Transmit, Return, RxInv, IInv, TypeOK, cacheVars, pktVars, wireVars, history, Labels, Updating, Resolving
  <1>1. TableSound'
    BY DEF TableSound, Linked, Unlinked
  <1>2. NewSound'
    BY DEF NewSound, Unlinked
  <1>3. StateSound'
    BY DEF StateSound, Out, Sending, Resolving
  <1>4. QueueWaits'
    BY DEF QueueWaits, Draining, Sending, Resolving
  <1>5. AskedFor'
    BY DEF AskedFor, Sending
  <1>6. HaLatest'
    BY DEF HaLatest, Sending
  <1> QED
    BY <1>1, <1>2, <1>3, <1>4, <1>5, <1>6

LEMMA SetReachableRx ==
  ASSUME IInv, RxInv, SetReachable(Rx)
  PROVE  RxInv'
  <1> USE RxFacts DEF SetReachable, RxInv, IInv, TypeOK, cacheVars, pktVars, wireVars, history, Labels, Updating, Resolving
  <1>1. TableSound'
    BY DEF TableSound, Linked, Unlinked
  <1>2. NewSound'
    BY DEF NewSound, Unlinked
  <1>3. StateSound'
    BY DEF StateSound, Out, Sending, Resolving
  <1>4. QueueWaits'
    BY DEF QueueWaits, Draining, Sending, Resolving
  <1>5. AskedFor'
    BY DEF AskedFor, Sending, TableSound
  <1>6. HaLatest'
    BY DEF HaLatest, Sending
  <1> QED
    BY <1>1, <1>2, <1>3, <1>4, <1>5, <1>6

LEMMA SetHaRx ==
  ASSUME IInv, RxInv, SetHa(Rx)
  PROVE  RxInv'
  <1> USE RxFacts DEF SetHa, RxInv, IInv, TypeOK, cacheVars, pktVars, wireVars, history, Labels, Updating, Resolving
  <1>1. TableSound'
    BY DEF TableSound, Linked, Unlinked
  <1>2. NewSound'
    BY DEF NewSound, Unlinked
  <1>3. StateSound'
    BY DEF StateSound, Out, Sending, Resolving
  <1>4. QueueWaits'
    BY DEF QueueWaits, Draining, Sending, Resolving
  <1>5. AskedFor'
    BY DEF AskedFor, Sending
  <1>6. HaLatest'
    BY DEF HaLatest, Sending, TableSound
  <1> QED
    BY <1>1, <1>2, <1>3, <1>4, <1>5, <1>6

LEMMA CopyHaRx ==
  ASSUME IInv, RxInv, CopyHa(Rx)
  PROVE  RxInv'
  <1> USE RxFacts DEF CopyHa, RxInv, IInv, TypeOK, cacheVars, pktVars, wireVars, history, Labels, Updating, Resolving
  <1>1. TableSound'
    BY DEF TableSound, Linked, Unlinked
  <1>2. NewSound'
    BY DEF NewSound, Unlinked
  <1>3. StateSound'
    BY DEF StateSound, Out, Sending, Resolving
  <1>4. QueueWaits'
    BY DEF QueueWaits, Draining, Sending, Resolving
  <1>5. AskedFor'
    BY DEF AskedFor, Sending
  <1>6. HaLatest'
    BY DEF HaLatest, Sending, TableSound
  <1> QED
    BY <1>1, <1>2, <1>3, <1>4, <1>5, <1>6

LEMMA IfFlushRx ==
  ASSUME IInv, RxInv, IfFlush(Rx)
  PROVE  RxInv'
  <1> USE RxFacts DEF IfFlush, Goto, RxInv, IInv, TypeOK, cacheVars, pktVars, wireVars, history, Labels, Updating, Resolving
  <1>1. TableSound'
    BY DEF TableSound, Linked, Unlinked
  <1>2. NewSound'
    BY DEF NewSound, Unlinked
  <1>3. StateSound'
    BY DEF StateSound, Out, Sending, Resolving
  <1>4. QueueWaits'
    BY DEF QueueWaits, Draining, Sending, StateSound
  <1>5. AskedFor'
    BY DEF AskedFor, Sending
  <1>6. HaLatest'
    BY DEF HaLatest, Sending
  <1> QED
    BY <1>1, <1>2, <1>3, <1>4, <1>5, <1>6

LEMMA DrainRx ==
  ASSUME IInv, RxInv, Drain(Rx)
  PROVE  RxInv'
  <1> USE RxFacts DEF Drain, RxInv, IInv, TypeOK, cacheVars, pktVars, wireVars, history, Labels, Updating, Resolving
  <1>1. TableSound'
    BY DEF TableSound, Linked, Unlinked
  <1>2. NewSound'
    BY DEF NewSound, Unlinked
  <1>3. StateSound'
    <2> DEFINE q == arp_queue[neigh[Rx]]
    <2>1. q \in Seq(Skbs) /\ \A i \in DOMAIN q : dst[q[i]] = neigh[Rx]
      BY DEF QueueSound
    <2>2. q # <<>> => Head(q) \in Skbs /\ dst[Head(q)] = neigh[Rx]
      BY <2>1
    <2> QED
      BY <2>2 DEF StateSound, Out, Sending
  <1>4. QueueWaits'
    BY DEF QueueWaits, Draining, Sending, Resolving
  <1>5. AskedFor'
    BY DEF AskedFor, Sending
  <1>6. HaLatest'
    BY DEF HaLatest, Sending
  <1> QED
    BY <1>1, <1>2, <1>3, <1>4, <1>5, <1>6

LEMMA LeaveRx ==
  ASSUME IInv, RxInv, Leave(Rx)
  PROVE  RxInv'
  <1> USE RxFacts DEF Leave, RxInv, IInv, TypeOK, cacheVars, pktVars, wireVars, history, Labels, Updating, Resolving
  <1>1. TableSound'
    BY DEF TableSound, Linked, Unlinked
  <1>2. NewSound'
    BY DEF NewSound, Unlinked
  <1>3. StateSound'
    BY DEF StateSound, Out, Sending, Resolving
  <1>4. QueueWaits'
    BY DEF QueueWaits, Draining, Sending, Resolving
  <1>5. AskedFor'
    BY DEF AskedFor, Sending
  <1>6. HaLatest'
    BY DEF HaLatest, Sending
  <1> QED
    BY <1>1, <1>2, <1>3, <1>4, <1>5, <1>6

LEMMA CreateFailsRx ==
  ASSUME IInv, RxInv, CreateFails(Rx)
  PROVE  RxInv'
  <1> USE RxFacts DEF CreateFails, RxInv, IInv, TypeOK, cacheVars, pktVars, wireVars, history, Labels, Updating, Resolving
  <1>1. TableSound'
    BY DEF TableSound, Linked, Unlinked
  <1>2. NewSound'
    BY DEF NewSound, Unlinked
  <1>3. StateSound'
    BY DEF StateSound, Out, Sending, Resolving
  <1>4. QueueWaits'
    BY DEF QueueWaits, Draining, Sending, Resolving
  <1>5. AskedFor'
    BY DEF AskedFor, Sending
  <1>6. HaLatest'
    BY DEF HaLatest, Sending
  <1> QED
    BY <1>1, <1>2, <1>3, <1>4, <1>5, <1>6

-----------------------------------------------------------------------------
(* The table *)

\* neigh_lookup finds an entry of the table, if there is one.
LEMMA LookupExact ==
  ASSUME TypeOK, NEW k
  PROVE  \/ neigh_lookup(k) = NULL /\ \A e \in Entries : Linked(e) => key[e] # k
         \/ /\ neigh_lookup(k) \in Entries /\ key[neigh_lookup(k)] = k
            /\ Linked(neigh_lookup(k))
  <1> DEFINE S == Hits(buckets, k)
  <1>1. CASE S = {}
    BY <1>1 DEF neigh_lookup, Hits, Linked
  <1>2. CASE S # {}
    <2>1. S \subseteq Nat /\ \A i \in S : buckets[i] \in Entries /\ key[buckets[i]] = k /\ i \in DOMAIN buckets
      BY DEF Hits, TypeOK
    <2>2. \E i \in S : \A j \in S : i <= j
      BY <1>2, <2>1, Least
    <2> DEFINE c == CHOOSE i \in S : \A j \in S : i <= j
    <2>3. c \in S
      BY <2>2, Zenon
    <2>4. neigh_lookup(k) = buckets[c]
      BY <1>2, Zenon DEF neigh_lookup
    <2> HIDE DEF c, S
    <2> QED
      BY <2>1, <2>3, <2>4 DEF Linked
  <1> QED
    BY <1>1, <1>2

LEMMA LookupRx ==
  ASSUME IInv, RxInv, Lookup(Rx)
  PROVE  RxInv'
  <1> DEFINE n == neigh_lookup(req[Rx].addr)
  <1>1. \/ n = NULL /\ \A e \in Entries : Linked(e) => key[e] # req[Rx].addr
        \/ n \in Entries /\ key[n] = req[Rx].addr /\ Linked(n)
    BY LookupExact DEF IInv
  <1> HIDE DEF n
  <1>2. /\ pc[Rx] = "lookup" /\ neigh' = [neigh EXCEPT ![Rx] = n]
        /\ UNCHANGED <<cacheVars, daddr, req, seen, skb, wireVars, latest, history>>
        /\ \/ n # NULL /\ Bind(Rx, n) /\ pc' = [pc EXCEPT ![Rx] = Resolved(Rx)]
           \/ /\ n = NULL /\ UNCHANGED dst
              /\ pc' = [pc EXCEPT ![Rx] = IF req[Rx].job = "tell" THEN "leave" ELSE "create"]
    BY DEF Lookup, n
  <1>3. \A e : Linked(e)' <=> Linked(e)
    BY <1>2 DEF Linked, cacheVars
  <1>4. n = NULL => \A e \in Entries : key[e] # req[Rx].addr
    BY <1>1, <1>2, RxFacts DEF RxInv, TableSound, Unlinked
  <1> USE <1>2, RxFacts DEF RxInv, IInv, TypeOK, cacheVars, wireVars, history, Updating, Resolving, Resolved
  <1>5. TableSound'
    BY <1>3, <1>4 DEF TableSound, Unlinked
  <1>6. NewSound'
    BY DEF NewSound, Unlinked
  <1>7. StateSound'
    BY DEF StateSound, Sending
  <1>8. QueueWaits'
    BY DEF QueueWaits, Draining, Sending
  <1>9. AskedFor'
    BY <1>4 DEF AskedFor, Sending
  <1>10. HaLatest'
    BY <1>4 DEF HaLatest, Sending
  <1> QED
    BY <1>5, <1>6, <1>7, <1>8, <1>9, <1>10

LEMMA CreateRx ==
  ASSUME IInv, RxInv, NEW e \in Entries, Create(Rx, e)
  PROVE  RxInv'
  <1>1. \A f : Linked(f)' <=> Linked(f)
    BY DEF Create, Linked
  <1> USE RxFacts DEF Create, RxInv, IInv, TypeOK, pktVars, wireVars, history, Updating, Resolving
  <1>2. ~ Linked(e)
    BY DEF TableSound
  <1>3. key'[e] = req[Rx].addr /\ \A f \in Entries : f # e => key'[f] = key[f]
    OBVIOUS
  <1>4. TableSound'
    BY <1>1, <1>2, <1>3 DEF TableSound, Unlinked
  <1>5. NewSound'
    BY DEF NewSound, Unlinked
  <1>6. StateSound'
    BY DEF StateSound, Sending
  <1>7. QueueWaits'
    BY DEF QueueWaits, Draining, Sending
  <1>8. AskedFor'
    BY DEF AskedFor, Sending, NewSound
  <1>9. HaLatest'
    BY DEF HaLatest, Sending, NewSound
  <1> QED
    BY <1>4, <1>5, <1>6, <1>7, <1>8, <1>9

\* An element in front of a sequence.
Occurs(e, q) == \E i \in DOMAIN q : q[i] = e

NoRepeat(q) == \A i, j \in DOMAIN q : q[i] = q[j] => i = j

LEMMA InFront ==
  ASSUME NEW q \in Seq(Entries), NEW n \in Entries, NoRepeat(q), ~ Occurs(n, q), NEW r, r = <<n>> \o q
  PROVE  NoRepeat(r) /\ \A e : Occurs(e, r) <=> e = n \/ Occurs(e, q)
  <1> DEFINE l == Len(q)
  <1>1. /\ l \in Nat /\ DOMAIN q = 1 .. l /\ DOMAIN r = 1 .. l + 1 /\ r[1] = n
        /\ \A i \in 2 .. l + 1 : r[i] = q[i - 1]
    OBVIOUS
  <1> HIDE DEF l
  <1>2. ASSUME NEW i \in DOMAIN r, NEW j \in DOMAIN r, r[i] = r[j] PROVE i = j
    <2>1. CASE i = 1 /\ j = 1
      BY <2>1
    <2>2. CASE i = 1 /\ j \in 2 .. l + 1
      BY <1>1, <1>2, <2>2 DEF Occurs
    <2>3. CASE j = 1 /\ i \in 2 .. l + 1
      BY <1>1, <1>2, <2>3 DEF Occurs
    <2>4. CASE i \in 2 .. l + 1 /\ j \in 2 .. l + 1
      BY <1>1, <1>2, <2>4 DEF NoRepeat
    <2> QED
      BY <1>1, <2>1, <2>2, <2>3, <2>4
  <1>3. \A i \in DOMAIN q : i + 1 \in DOMAIN r /\ r[i + 1] = q[i]
    BY <1>1
  <1>4. \A i \in DOMAIN r : r[i] = n \/ \E j \in DOMAIN q : q[j] = r[i]
    BY <1>1
  <1>5. 1 \in DOMAIN r
    BY <1>1
  <1>6. ASSUME NEW e, Occurs(e, q) PROVE Occurs(e, r)
    BY <1>3, <1>6 DEF Occurs
  <1>7. ASSUME NEW e, Occurs(e, r), e # n PROVE Occurs(e, q)
    BY <1>4, <1>7 DEF Occurs
  <1>8. Occurs(n, r)
    BY <1>1, <1>5 DEF Occurs
  <1>9. NoRepeat(r)
    BY <1>2 DEF NoRepeat
  <1> QED
    BY <1>6, <1>7, <1>8, <1>9, Zenon

LEMMA PublishRx ==
  ASSUME IInv, RxInv, Publish(Rx)
  PROVE  RxInv'
  <1> DEFINE n == neigh[Rx]
  <1>0. TypeOK /\ TableSound
    BY DEF IInv, RxInv
  <1>1. pc[Rx] = "publish" /\ n \in Entries /\ seen[Rx] = buckets /\ ~ Linked(n)
    BY <1>0, RxFacts DEF Publish, TableSound
  <1>2. buckets' = <<n>> \o buckets /\ buckets \in Seq(Entries)
    BY <1>0, <1>1 DEF Publish, TypeOK
  <1>3. NoRepeat(buckets) /\ ~ Occurs(n, buckets)
    BY <1>0, <1>1 DEF TableSound, Linked, NoRepeat, Occurs
  <1>4. NoRepeat(buckets') /\ \A e : Occurs(e, buckets') <=> e = n \/ Occurs(e, buckets)
    <2>1. n \in Entries /\ buckets \in Seq(Entries) /\ NoRepeat(buckets) /\ ~ Occurs(n, buckets)
      BY <1>1, <1>2, <1>3
    <2> HIDE DEF n
    <2>2. \A r : r = <<n>> \o buckets => NoRepeat(r) /\ \A e : Occurs(e, r) <=> e = n \/ Occurs(e, buckets)
      BY <2>1, InFront, Zenon
    <2> QED
      BY <1>2, <2>2, Zenon
  <1>5. \A e : Linked(e)' <=> e = n \/ Linked(e)
    <2>1. \A e : (Linked(e) <=> Occurs(e, buckets)) /\ (Linked(e)' <=> Occurs(e, buckets'))
      BY Zenon DEF Linked, Occurs
    <2> QED
      BY <1>4, <2>1, Zenon
  <1>6. /\ UNCHANGED <<key, nud_state, ha, arp_queue, daddr, req, neigh, skb, frame, sent, asked, lost, latest>>
        /\ pc' = [pc EXCEPT ![Rx] = Resolved(Rx)]
    BY DEF Publish, wireVars
  <1>7. pc'[Rx] = Resolved(Rx) /\ Resolved(Rx) \in {"reachable", "setreach"}
        /\ (Resolved(Rx) = "reachable" <=> Sending)
    BY <1>0, <1>6, RxFacts DEF TypeOK, Resolved, Sending
  <1>8. TableSound'
    BY <1>0, <1>1, <1>4, <1>5, <1>6, <1>7 DEF TableSound, Unlinked, NoRepeat
  <1>9. NewSound'
    BY <1>6, <1>7 DEF RxInv, NewSound, Unlinked
  <1>10. StateSound'
    BY <1>6, <1>7 DEF StateSound, Sending, Resolving
  <1>11. QueueWaits'
    BY <1>1, <1>6, <1>7 DEF RxInv, QueueWaits, Draining, Sending, Resolving
  <1>12. AskedFor'
    BY <1>1, <1>6, <1>7 DEF RxInv, AskedFor, Sending
  <1>13. HaLatest'
    BY <1>1, <1>6, <1>7 DEF RxInv, HaLatest, Sending
  <1> QED
    BY <1>8, <1>9, <1>10, <1>11, <1>12, <1>13 DEF RxInv

-----------------------------------------------------------------------------
(* Calls into the cache, and the wire *)

\* A call begins: the receive loop was idle, so nothing was under way.
LEMMA BeginRx ==
  ASSUME IInv, RxInv, pc[Rx] = "idle", NEW r \in Calls, NEW k \in Addrs,
         req' = [req EXCEPT ![Rx] = r], pc' = [pc EXCEPT ![Rx] = "lookup"], r.addr = k,
         UNCHANGED <<cacheVars, dst, neigh, seen>>,
         \/ r.job = "send" /\ UNCHANGED <<asked, lost, latest>>
         \/ /\ r.job # "send" /\ r.sha = latest'[k]
            /\ \A j \in Addrs : j # k => latest'[j] = latest[j]
            /\ \A j \in Addrs : j # k /\ j \in asked \cup lost => j \in asked' \cup lost'
  PROVE  RxInv'
  <1>1. req'[Rx] = r /\ pc'[Rx] = "lookup" /\ TypeOK
    BY RxFacts DEF IInv, TypeOK
  <1>2. \A e : Linked(e)' <=> Linked(e)
    BY DEF Linked, cacheVars
  <1> USE <1>1, RxFacts DEF RxInv, cacheVars, Updating, Resolving
  <1>3. TableSound'
    BY <1>2 DEF TableSound, Unlinked
  <1>4. NewSound'
    BY DEF NewSound, Unlinked
  <1>5. StateSound'
    BY DEF StateSound, Sending
  <1>6. QueueWaits'
    BY DEF QueueWaits, Draining, Sending
  <1>7. \A e \in Entries : key[e] \in Addrs \cup {NULL}
    BY DEF TypeOK
  <1>8. AskedFor'
    BY <1>7 DEF AskedFor, Sending, NewSound
  <1>9. HaLatest'
    BY <1>7 DEF HaLatest, Sending, NewSound
  <1> QED
    BY <1>3, <1>4, <1>5, <1>6, <1>8, <1>9

LEMMA SendRx ==
  ASSUME IInv, RxInv, NEW k \in Addrs, NEW s \in Skbs, Send(Rx, k, s)
  PROVE  RxInv'
  <1> DEFINE r == [job |-> "send", addr |-> k, sha |-> NULL]
  <1>1. r \in Calls /\ r.job = "send" /\ r.addr = k
    BY DEF Calls, Jobs
  <1>2. /\ pc[Rx] = "idle" /\ req' = [req EXCEPT ![Rx] = r] /\ pc' = [pc EXCEPT ![Rx] = "lookup"]
        /\ UNCHANGED <<cacheVars, dst, neigh, seen>> /\ UNCHANGED <<asked, lost, latest>>
    BY DEF Send, wireVars
  <1> HIDE DEF r
  <1> QED
    BY <1>1, <1>2, BeginRx

LEMMA ArpInRx ==
  ASSUME IInv, RxInv, NEW job \in {"ask", "tell"}, NEW k \in Addrs, NEW m \in MacsOf[k],
         ArpIn(job, k, m), asked' = asked \/ asked' = asked \ {k}
  PROVE  RxInv'
  <1> DEFINE r == [job |-> job, addr |-> k, sha |-> m]
  <1>1. r \in Calls /\ r.job # "send" /\ r.addr = k /\ r.sha = m
    BY MacsAssumption DEF Calls, Jobs
  <1>2. /\ pc[Rx] = "idle" /\ req' = [req EXCEPT ![Rx] = r] /\ pc' = [pc EXCEPT ![Rx] = "lookup"]
        /\ UNCHANGED <<cacheVars, dst, neigh, seen>>
        /\ latest' = [latest EXCEPT ![k] = m] /\ lost' = lost \ {k}
    BY DEF ArpIn, pktVars
  <1> HIDE DEF r
  <1>3. /\ latest'[k] = m /\ \A j \in Addrs : j # k => latest'[j] = latest[j]
        /\ \A j \in Addrs : j # k /\ j \in asked \cup lost => j \in asked' \cup lost'
    BY <1>2 DEF IInv, TypeOK
  <1> QED
    BY <1>1, <1>2, <1>3, BeginRx

LEMMA LoseRx ==
  ASSUME RxInv, (\E k \in Addrs : Lose(k)) \/ UNCHANGED vars
  PROVE  RxInv'
  <1>1. /\ UNCHANGED <<buckets, key, nud_state, ha, arp_queue, dst, pc, req, neigh, seen, skb, latest>>
        /\ asked' \cup lost' = asked \cup lost
    BY DEF Lose, vars, cacheVars, pktVars, threadVars, wireVars
  <1>2. TableSound' /\ NewSound'
    BY <1>1 DEF RxInv, TableSound, NewSound, Linked, Unlinked
  <1>3. StateSound' /\ QueueWaits'
    BY <1>1 DEF RxInv, StateSound, QueueWaits, Draining, Sending, Out
  <1>4. AskedFor' /\ HaLatest'
    BY <1>1 DEF RxInv, AskedFor, HaLatest, Sending
  <1> QED
    BY <1>2, <1>3, <1>4 DEF RxInv

LEMMA NextRx ==
  ASSUME Apps = {}, NoTear, IInv, RxInv, [Next]_vars
  PROVE  RxInv'
  <1>0. Threads = {Rx}
    BY DEF Threads
  <1>1. CASE Step(Rx)
    BY <1>1, LookupRx, CreateRx, CreateFailsRx, PublishRx, IfReachableRx, IfNoneRx, IfIncompleteRx,
       SolicitRx, SetIncompleteRx, EnqueueRx, LinkRx, TransmitRx, SetReachableRx, SetHaRx, CopyHaRx,
       IfFlushRx, DrainRx, UnlinkRx, LeaveRx DEF Step, Resolve, Update
  <1>2. CASE \E k \in Addrs, s \in Skbs : Send(Rx, k, s)
    BY <1>2, SendRx
  <1>3. ASSUME NEW k \in Addrs, NEW m \in MacsOf[k], NEW job \in {"ask", "tell"}, Unprompted(job, k, m)
        PROVE  RxInv'
    BY <1>3, ArpInRx DEF Unprompted
  <1>4. ASSUME NEW k \in Addrs, NEW m \in MacsOf[k], Answered(k, m) PROVE RxInv'
    BY <1>4, ArpInRx DEF Answered
  <1>5. CASE (\E k \in Addrs : Lose(k)) \/ UNCHANGED vars
    BY <1>5, LoseRx
  <1> QED
    BY <1>0, <1>1, <1>2, <1>3, <1>4, <1>5 DEF Next

LEMMA InitRx == Init => RxInv
  <1> SUFFICES ASSUME Init PROVE RxInv
    OBVIOUS
  <1>1. /\ buckets = <<>> /\ pc[Rx] = "idle"
        /\ \A e \in Entries : key[e] = NULL /\ nud_state[e] = "NONE" /\ arp_queue[e] = <<>>
    BY DEF Init, Threads
  <1>2. DOMAIN buckets = {}
    BY <1>1
  <1>3. \A e \in Entries : ~ Linked(e)
    BY <1>2 DEF Linked
  <1> QED
    BY <1>1, <1>2, <1>3 DEF RxInv, TableSound, NewSound, StateSound, QueueWaits, AskedFor, HaLatest,
       Unlinked, Resolving

-----------------------------------------------------------------------------
(* Theorems *)

\* Alone, the receive loop never overlaps with anyone on an arp_queue.
LEMMA NoneTorn == ASSUME Apps = {} PROVE Spec => []NoTear
  <1>1. Init => NoTear
    BY DEF Init, NoTear
  <1>2. ASSUME NoTear, [Next]_vars PROVE NoTear'
    <2>0. Threads = {Rx}
      BY DEF Threads
    <2>1. \A e : BeginList(Rx, e) => torn' = {}
      BY <1>2, <2>0 DEF BeginList, NoTear
    <2>2. CASE Step(Rx)
      <3> USE DEF history, NoTear
      <3>1. CASE Lookup(Rx) \/ (\E e \in Entries : Create(Rx, e)) \/ CreateFails(Rx) \/ Publish(Rx) \/ Leave(Rx)
        BY <1>2, <3>1 DEF Lookup, Create, CreateFails, Publish, Leave
      <3>2. CASE Resolve(Rx)
        BY <1>2, <2>1, <3>2 DEF Resolve, IfReachable, IfNone, IfIncomplete, Goto, Solicit, SetIncomplete, Enqueue, Link, Transmit
      <3>3. CASE Update(Rx)
        BY <1>2, <2>1, <3>3 DEF Update, SetReachable, SetHa, CopyHa, IfFlush, Goto, Drain, Unlink
      <3> QED
        BY <2>2, <3>1, <3>2, <3>3 DEF Step
    <2>3. CASE ~ Step(Rx)
      BY <1>2, <2>0, <2>3 DEF Next, Send, Unprompted, Answered, ArpIn, Lose, vars, history, NoTear
    <2> QED
      BY <2>2, <2>3
  <1> QED
    BY <1>1, <1>2, PTL DEF Spec

\* The invariant of the program as shipped.
THEOREM RxInductive == ASSUME Apps = {} PROVE Spec => []RxInv
  BY InitRx, NextRx, NoneTorn, Inductive, PTL DEF Spec

\* Between two frames of the receive loop a packet that waits does so on the entry
\* the table has for its address, for an ARP request that is out or lost.
THEOREM NothingStranded == ASSUME Apps = {} PROVE Spec => []NoStranded
  <1>1. ASSUME IInv, RxInv PROVE NoStranded
    <2> SUFFICES ASSUME pc[Rx] = "idle", NEW e \in Entries, arp_queue[e] # <<>>
                 PROVE  nud_state[e] = "INCOMPLETE" /\ key[e] \in asked \cup lost /\ neigh_lookup(key[e]) = e
      BY RxFacts, <1>1 DEF NoStranded
    <2>1. nud_state[e] = "INCOMPLETE"
      BY <1>1 DEF RxInv, QueueWaits, Draining, Resolving
    <2>2. key[e] \in asked \cup lost
      BY <1>1, <2>1 DEF RxInv, AskedFor
    <2>3. key[e] # NULL /\ Linked(e)
      BY <1>1, <2>1 DEF RxInv, NewSound, TableSound, Unlinked
    <2>4. neigh_lookup(key[e]) \in Entries /\ key[neigh_lookup(key[e])] = key[e]
      BY <1>1, <2>3, LookupExact DEF IInv
    <2> QED
      BY <1>1, <2>1, <2>2, <2>3, <2>4 DEF RxInv, TableSound
  <1> QED
    BY <1>1, RxInductive, Inductive, PTL

\* Only the transmission of a packet writes its Ethernet header.
LEMMA Writers ==
  ASSUME Apps = {}, [Next]_vars
  PROVE  UNCHANGED frame \/ Transmit(Rx)
  <1>0. Threads = {Rx}
    BY DEF Threads
  <1>1. CASE Step(Rx)
    <2> USE DEF cacheVars, wireVars, history
    <2>1. CASE Lookup(Rx) \/ (\E e \in Entries : Create(Rx, e)) \/ CreateFails(Rx) \/ Publish(Rx) \/ Leave(Rx)
      BY <2>1 DEF Lookup, Create, CreateFails, Publish, Leave
    <2>2. CASE Resolve(Rx)
      BY <2>2 DEF Resolve, IfReachable, IfNone, IfIncomplete, Goto, Solicit, SetIncomplete, Enqueue, Link, Transmit
    <2>3. CASE Update(Rx)
      BY <2>3 DEF Update, SetReachable, SetHa, CopyHa, IfFlush, Goto, Drain, Unlink
    <2> QED
      BY <1>1, <2>1, <2>2, <2>3 DEF Step
  <1>2. CASE ~ Step(Rx)
    BY <1>0, <1>2 DEF Next, Send, Unprompted, Answered, ArpIn, Lose, vars, cacheVars, wireVars
  <1> QED
    BY <1>1, <1>2

\* hard_header copies the hardware address the destination announced last: a
\* packet is only sent to a REACHABLE neighbour, and neigh_update has copied the
\* address before it sends what waits.
THEOREM FramesFresh == ASSUME Apps = {} PROVE Spec => FreshMac
  <1>1. ASSUME IInv, RxInv, [Next]_vars
        PROVE  \A s \in Skbs : frame'[s] # frame[s] => frame'[s] = latest[daddr[s]]
    <2>1. CASE UNCHANGED frame
      BY <2>1
    <2>2. CASE Transmit(Rx)
      <3>1. pc[Rx] = "xmit" /\ skb[Rx] \in Skbs /\ Out(Rx) \in Entries /\ frame' = [frame EXCEPT ![skb[Rx]] = ha[Out(Rx)]]
        BY <1>1, <2>2, RxFacts DEF Transmit, Resolving
      <3>2. key[Out(Rx)] = daddr[skb[Rx]]
        BY <1>1, <3>1, RxFacts DEF IInv, DstSound, Out
      <3>3. ha[Out(Rx)] = latest[key[Out(Rx)]]
        BY <1>1, <3>1 DEF RxInv, StateSound, HaLatest
      <3> QED
        BY <1>1, <3>1, <3>2, <3>3 DEF IInv, TypeOK
    <2> QED
      BY <1>1, <2>1, <2>2, Writers
  <1> QED
    BY <1>1, RxInductive, Inductive, PTL DEF Spec, FreshMac

-----------------------------------------------------------------------------
(* The refinement of Holding *)

\* What waits for address k on a neighbour of the table.
Queue(k) == IF neigh_lookup(k) = NULL THEN <<>> ELSE arp_queue[neigh_lookup(k)]

\* The packets of address k that the cache holds are the ones on the arp_queue of
\* its entry, behind the one neigh_update is sending, or before the ping reply
\* that is being resolved.
WaitSound ==
  \A k \in Addrs :
    /\ Queue(k) \in Seq(Skbs)
    /\ (\A e \in Entries : key[e] # k) => Queue(k) = <<>>
    /\ \A e \in Entries : key[e] = k => Queue(k) = arp_queue[e]
    /\ pc[Rx] \notin Resolving \/ daddr[skb[Rx]] # k => Waiting(k) = Queue(k)
    /\ pc[Rx] \in Resolving /\ daddr[skb[Rx]] = k =>
         /\ Sending => Waiting(k) = Append(Queue(k), skb[Rx])
         /\ ~ Sending => Waiting(k) = <<skb[Rx]>> \o Queue(k)

\* Sequences put together.
LEMMA Alone ==
  ASSUME NEW q \in Seq(Skbs)
  PROVE  <<>> \o q \o <<>> = q
  OBVIOUS

LEMMA Joined ==
  ASSUME NEW q \in Seq(Skbs), NEW s \in Skbs
  PROVE  /\ <<>> \o q \o <<s>> = Append(q, s)
         /\ <<s>> \o q \o <<>> = <<s>> \o q
         /\ <<s>> \o q # <<>> /\ Head(<<s>> \o q) = s /\ Tail(<<s>> \o q) = q
  <1>2. <<>> \o q \o <<s>> = Append(q, s)
    OBVIOUS
  <1>3. <<s>> \o q \o <<>> = <<s>> \o q
    OBVIOUS
  <1>4. <<s>> \o q # <<>> /\ Head(<<s>> \o q) = s
    OBVIOUS
  <1>5. Tail(<<s>> \o q) = q
    OBVIOUS
  <1> QED
    BY <1>2, <1>3, <1>4, <1>5

\* What the cache holds, in terms of its entries.
LEMMA WaitIs == IInv /\ RxInv /\ Owned => WaitSound
  <1> SUFFICES ASSUME IInv, RxInv, Owned, NEW k \in Addrs
               PROVE  /\ Queue(k) \in Seq(Skbs)
                      /\ (\A e \in Entries : key[e] # k) => Queue(k) = <<>>
                      /\ \A e \in Entries : key[e] = k => Queue(k) = arp_queue[e]
                      /\ pc[Rx] \notin Resolving \/ daddr[skb[Rx]] # k => Waiting(k) = Queue(k)
                      /\ pc[Rx] \in Resolving /\ daddr[skb[Rx]] = k =>
                           /\ Sending => Waiting(k) = Append(Queue(k), skb[Rx])
                           /\ ~ Sending => Waiting(k) = <<skb[Rx]>> \o Queue(k)
    BY Zenon DEF WaitSound
  <1> DEFINE n == neigh_lookup(k)
  <1>0. TypeOK /\ TableSound /\ k # NULL /\ Rx \in Threads /\ NULL \notin Entries
    BY RxFacts DEF IInv, RxInv
  <1>1. \/ n = NULL /\ \A e \in Entries : Linked(e) => key[e] # k
        \/ n \in Entries /\ key[n] = k /\ Linked(n)
    BY <1>0, LookupExact
  <1>2. Queue(k) = IF n = NULL THEN <<>> ELSE arp_queue[n]
    BY DEF Queue
  <1>3. Waiting(k) = InHand(Rx, k, FALSE) \o Queue(k) \o InHand(Rx, k, TRUE)
    BY Zenon DEF Waiting, Queue
  <1> HIDE DEF n
  <1>4. Queue(k) \in Seq(Skbs)
    BY <1>0, <1>1, <1>2 DEF TypeOK
  <1>5. (\A e \in Entries : key[e] # k) => Queue(k) = <<>>
    BY <1>1, <1>2
  <1>6. ASSUME NEW e \in Entries, key[e] = k PROVE Queue(k) = arp_queue[e]
    <2>1. CASE Linked(e)
      BY <1>0, <1>1, <1>2, <1>6, <2>1 DEF TableSound
    <2>2. CASE Unlinked(e)
      <3>1. ~ Linked(e) /\ arp_queue[e] = <<>>
        BY <1>0, <2>2 DEF TableSound, Unlinked, RxInv, NewSound
      <3>2. n = NULL
        BY <1>0, <1>1, <1>6, <3>1 DEF TableSound
      <3> QED
        BY <1>2, <3>1, <3>2
    <2> QED
      BY <1>0, <1>6, <2>1, <2>2 DEF TableSound
  <1>7. CASE pc[Rx] \notin Resolving
    <2>1. skb[Rx] = NULL \/ dst[skb[Rx]] = NULL
      BY <1>0, <1>7 DEF Owned, HandsFree, IInv, BindingSound
    <2>2. InHand(Rx, k, FALSE) = <<>> /\ InHand(Rx, k, TRUE) = <<>>
      BY <2>1 DEF InHand
    <2>3. Waiting(k) = Queue(k)
      BY <1>3, <1>4, <2>2, Alone, Zenon
    <2> QED
      BY <1>4, <1>5, <1>6, <1>7, <2>3
  <1>8. CASE pc[Rx] \in Resolving
    <2>1. skb[Rx] \in Skbs /\ skb[Rx] # NULL /\ dst[skb[Rx]] # NULL
      BY <1>8, RxFacts DEF Out
    <2>2. CASE daddr[skb[Rx]] # k
      <3>1. InHand(Rx, k, FALSE) = <<>> /\ InHand(Rx, k, TRUE) = <<>>
        BY <2>2 DEF InHand
      <3>2. Waiting(k) = Queue(k)
        BY <1>3, <1>4, <3>1, Alone, Zenon
      <3> QED
        BY <1>4, <1>5, <1>6, <2>2, <3>2
    <2>3. CASE daddr[skb[Rx]] = k /\ Sending
      <3>1. InHand(Rx, k, FALSE) = <<>> /\ InHand(Rx, k, TRUE) = <<skb[Rx]>>
        BY <2>1, <2>3 DEF InHand, Sending
      <3>2. Waiting(k) = Append(Queue(k), skb[Rx])
        BY <1>3, <1>4, <2>1, <3>1, Joined, Zenon
      <3> QED
        BY <1>4, <1>5, <1>6, <1>8, <2>3, <3>2
    <2>4. CASE daddr[skb[Rx]] = k /\ ~ Sending
      <3>1. InHand(Rx, k, FALSE) = <<skb[Rx]>> /\ InHand(Rx, k, TRUE) = <<>>
        BY <2>1, <2>4 DEF InHand, Sending
      <3>2. Waiting(k) = <<skb[Rx]>> \o Queue(k)
        BY <1>3, <1>4, <2>1, <3>1, Joined, Zenon
      <3> QED
        BY <1>4, <1>5, <1>6, <1>8, <2>4, <3>2
    <2> QED
      BY <2>2, <2>3, <2>4
  <1> QED
    BY <1>7, <1>8

-----------------------------------------------------------------------------
(* Steps of the abstract specification *)

\* A step of the cache is a stutter, Accept or Release.
LEMMA AsStutter ==
  ASSUME \A k \in Addrs : Waiting(k)' = Waiting(k), UNCHANGED sent
  PROVE  UNCHANGED H!hvars
  BY DEF H!hvars

LEMMA AsAccept ==
  ASSUME NEW k \in Addrs, NEW s \in Skbs, UNCHANGED sent,
         \A j \in Addrs : ~ Occurs(s, Waiting(j)) /\ ~ Occurs(s, sent[j]),
         Waiting(k)' = Append(Waiting(k), s),
         \A j \in Addrs : j # k => Waiting(j)' = Waiting(j)
  PROVE  H!HNext
  <1>1. H!Fresh(s)
    BY DEF H!Fresh, H!In, Occurs
  <1>2. H!Accept(k, s)
    BY <1>1 DEF H!Accept
  <1> QED
    BY <1>2 DEF H!HNext

LEMMA AsRelease ==
  ASSUME NEW k \in Addrs, Waiting(k) # <<>>,
         sent' = [sent EXCEPT ![k] = Append(@, Head(Waiting(k)))],
         Waiting(k)' = Tail(Waiting(k)),
         \A j \in Addrs : j # k => Waiting(j)' = Waiting(j)
  PROVE  H!HNext
  <1>1. H!Release(k)
    BY DEF H!Release
  <1> QED
    BY <1>1 DEF H!HNext

\* A step that moves no packet of the cache.
LEMMA QueuesStay ==
  ASSUME WaitSound, WaitSound', UNCHANGED <<key, arp_queue>>
  PROVE  \A k \in Addrs : Queue(k)' = Queue(k)
  <1> SUFFICES ASSUME NEW k \in Addrs PROVE Queue(k)' = Queue(k)
    OBVIOUS
  <1>1. CASE \A e \in Entries : key[e] # k
    BY <1>1, Zenon DEF WaitSound
  <1>2. CASE \E e \in Entries : key[e] = k
    BY <1>2, ZenonT(40) DEF WaitSound
  <1> QED
    BY <1>1, <1>2

\* Nor does one that leaves the packet in hand there.
LEMMA HandsStay ==
  ASSUME WaitSound, WaitSound', UNCHANGED sent, \A k \in Addrs : Queue(k)' = Queue(k),
         \/ pc[Rx] \notin Resolving /\ pc'[Rx] \notin Resolving
         \/ /\ pc[Rx] \in Resolving /\ pc'[Rx] \in Resolving
            /\ UNCHANGED <<req, skb, daddr>>
  PROVE  UNCHANGED H!hvars
  <1>1. ASSUME NEW k \in Addrs PROVE Waiting(k)' = Waiting(k)
    <2>1. CASE pc[Rx] \notin Resolving /\ pc'[Rx] \notin Resolving
      <3>1. Waiting(k)' = Queue(k)'
        BY <2>1, Zenon DEF WaitSound
      <3>2. Waiting(k) = Queue(k)
        BY <2>1, Zenon DEF WaitSound
      <3> QED
        BY <3>1, <3>2
    <2>2. CASE pc[Rx] \in Resolving /\ pc'[Rx] \in Resolving /\ UNCHANGED <<req, skb, daddr>>
      <3>0. Queue(k)' = Queue(k) /\ skb' = skb /\ daddr' = daddr /\ (Sending' <=> Sending)
        BY <2>2 DEF Sending
      <3>1. CASE daddr[skb[Rx]] # k
        <4>1. Waiting(k) = Queue(k)
          BY <3>1, Zenon DEF WaitSound
        <4>2. Waiting(k)' = Queue(k)'
          BY <3>0, <3>1, Zenon DEF WaitSound
        <4> QED
          BY <3>0, <4>1, <4>2, Zenon
      <3>2. CASE daddr[skb[Rx]] = k
        <4>1. /\ Sending => Waiting(k) = Append(Queue(k), skb[Rx])
              /\ ~ Sending => Waiting(k) = <<skb[Rx]>> \o Queue(k)
          BY <2>2, <3>2, Zenon DEF WaitSound
        <4>2. /\ Sending' => Waiting(k)' = Append(Queue(k)', skb'[Rx])
              /\ ~ Sending' => Waiting(k)' = <<skb'[Rx]>> \o Queue(k)'
          BY <2>2, <3>0, <3>2, Zenon DEF WaitSound
        <4> QED
          BY <3>0, <4>1, <4>2, Zenon
      <3> QED
        BY <3>1, <3>2
    <2> QED
      BY <2>1, <2>2
  <1> QED
    BY <1>1, AsStutter

\* arp_bind_neighbour hands a packet over.
LEMMA BindAccepts ==
  ASSUME IInv, Owned, WaitSound, WaitSound', Sending, pc[Rx] \in {"lookup", "publish"},
         pc'[Rx] \in Resolving, UNCHANGED <<key, arp_queue, sent, req, skb, daddr>>,
         NEW s, s = skb[Rx], NEW k, k = daddr[s]
  PROVE  H!HNext
  <1>1. Rx \in Threads /\ s \in Skbs /\ s # NULL /\ k \in Addrs
    BY RxFacts DEF IInv, BindingSound, Binding, Sending, TypeOK
  <1>2. pc[Rx] \notin Resolving /\ Sending'
    BY DEF Resolving, Sending
  <1>3. \A j \in Addrs : Queue(j)' = Queue(j) /\ Waiting(j) = Queue(j)
    BY <1>2, QueuesStay, Zenon DEF WaitSound
  <1>4. ~ Queued(s) /\ ~ Gone(s)
    BY <1>1 DEF Owned, Apart, Held
  <1>5. ASSUME NEW j \in Addrs PROVE ~ Occurs(s, Waiting(j)) /\ ~ Occurs(s, sent[j])
    <2>1. ~ Occurs(s, sent[j])
      BY <1>4 DEF Gone, On, Occurs
    <2>2. CASE \A e \in Entries : key[e] # j
      <3>1. Waiting(j) = <<>>
        BY <1>3, <2>2, Zenon DEF WaitSound
      <3> QED
        BY <2>1, <3>1 DEF Occurs
    <2>3. ASSUME NEW e \in Entries, key[e] = j PROVE ~ Occurs(s, Waiting(j))
      <3>1. Waiting(j) = arp_queue[e]
        BY <1>3, <2>3, Zenon DEF WaitSound
      <3>2. ~ Occurs(s, arp_queue[e])
        BY <1>4 DEF Queued, On, Occurs
      <3> QED
        BY <3>1, <3>2, Zenon
    <2> QED
      BY <2>1, <2>2, <2>3
  <1>6. Waiting(k)' = Append(Waiting(k), s)
    <2>1. skb'[Rx] = s /\ daddr'[s] = k
      OBVIOUS
    <2>2. Waiting(k)' = Append(Queue(k)', s)
      BY <1>1, <1>2, <2>1, Zenon DEF WaitSound
    <2> QED
      BY <1>1, <1>3, <2>2, Zenon
  <1>7. ASSUME NEW j \in Addrs, j # k PROVE Waiting(j)' = Waiting(j)
    <2>1. daddr'[skb'[Rx]] # j
      BY <1>7
    <2>2. Waiting(j)' = Queue(j)'
      BY <2>1, Zenon DEF WaitSound
    <2> QED
      BY <1>3, <2>2, Zenon
  <1> QED
    BY <1>1, <1>5, <1>6, <1>7, AsAccept

\* Only the queue of one entry changes, so only what waits for its address does.
LEMMA OthersStay ==
  ASSUME IInv, TableSound, WaitSound, WaitSound', UNCHANGED key, NEW n \in Entries, NEW k, key[n] = k,
         NEW q, arp_queue' = [arp_queue EXCEPT ![n] = q]
  PROVE  \A j \in Addrs : j # k => Queue(j)' = Queue(j)
  <1> SUFFICES ASSUME NEW j \in Addrs, j # k PROVE Queue(j)' = Queue(j)
    OBVIOUS
  <1>1. CASE \A e \in Entries : key[e] # j
    BY <1>1, Zenon DEF WaitSound
  <1>2. ASSUME NEW e \in Entries, key[e] = j PROVE Queue(j)' = Queue(j)
    <2>1. arp_queue'[e] = arp_queue[e] /\ key'[e] = j
      BY <1>2 DEF IInv, TypeOK
    <2>2. Queue(j) = arp_queue[e]
      BY <1>2, Zenon DEF WaitSound
    <2>3. Queue(j)' = arp_queue'[e]
      BY <2>1, Zenon DEF WaitSound
    <2> QED
      BY <2>1, <2>2, <2>3, Zenon
  <1> QED
    BY <1>1, <1>2

\* skb_queue_tail: the packet in hand becomes the last one of the queue.
LEMMA LinkHolds ==
  ASSUME NoTear, IInv, RxInv, WaitSound, WaitSound', Link(Rx), NEW s, s = skb[Rx], NEW k, k = daddr[s],
         NEW n, n = Out(Rx), NEW q, q = arp_queue[n]
  PROVE  UNCHANGED H!hvars
  <1>1. Rx \in Threads /\ s \in Skbs /\ n \in Entries /\ key[n] = k /\ k \in Addrs
    BY RxFacts DEF Link, Resolving, IInv, DstSound, Out
  <1>2. pc[Rx] = "link" /\ pc[Rx] \in Resolving /\ Sending /\ pc'[Rx] = "leave" /\ pc'[Rx] \notin Resolving
    BY <1>1 DEF Link, Return, Resolving, RxInv, StateSound, Sending, IInv, TypeOK
  <1>3. /\ arp_queue' = [arp_queue EXCEPT ![n] = Append(q, s)] /\ arp_queue'[n] = Append(q, s)
        /\ UNCHANGED key /\ key'[n] = k /\ UNCHANGED sent
    BY <1>1, LinkAppends DEF Link, IInv, TypeOK, wireVars
  <1>4. \A j \in Addrs : Waiting(j)' = Queue(j)'
    BY <1>2, Zenon DEF WaitSound
  <1>5. Waiting(k)' = Waiting(k)
    <2>1. Waiting(k) = Append(Queue(k), s)
      BY <1>1, <1>2, Zenon DEF WaitSound
    <2>2. Queue(k) = q
      BY <1>1, Zenon DEF WaitSound
    <2>3. Queue(k)' = Append(q, s)
      BY <1>1, <1>3, Zenon DEF WaitSound
    <2> QED
      BY <1>1, <1>4, <2>1, <2>2, <2>3, Zenon
  <1>6. ASSUME NEW j \in Addrs, j # k PROVE Waiting(j)' = Waiting(j)
    <2>1. TableSound
      BY DEF RxInv
    <2>2. Queue(j)' = Queue(j)
      BY <1>1, <1>3, <1>6, <2>1, OthersStay
    <2>3. Waiting(j) = Queue(j)
      BY <1>6, Zenon DEF WaitSound
    <2> QED
      BY <1>4, <2>2, <2>3, Zenon
  <1> QED
    BY <1>3, <1>5, <1>6, AsStutter

\* skb_dequeue: the first packet of the queue becomes the one in hand.
LEMMA DrainHolds ==
  ASSUME IInv, RxInv, WaitSound, WaitSound', Drain(Rx), NEW n, n = neigh[Rx], NEW q, q = arp_queue[n],
         q # <<>>, NEW s, s = Head(q), NEW k, k = req[Rx].addr
  PROVE  UNCHANGED H!hvars
  <1>1. Rx \in Threads /\ n \in Entries /\ key[n] = k /\ k \in Addrs /\ ~ Sending /\ q \in Seq(Skbs)
    BY RxFacts DEF Drain, Updating, IInv, TypeOK
  <1>2. s \in Skbs /\ dst[s] = n
    <2>1. 1 \in DOMAIN q /\ q[1] = s
      BY <1>1
    <2> QED
      BY <1>1, <2>1 DEF IInv, QueueSound
  <1>3. daddr[s] = k
    BY <1>1, <1>2, RxFacts DEF IInv, DstSound
  <1>4. /\ pc[Rx] \notin Resolving /\ pc'[Rx] \in Resolving /\ ~ Sending' /\ skb'[Rx] = s
        /\ UNCHANGED <<key, daddr, sent>> /\ key'[n] = k /\ daddr'[s] = k
        /\ arp_queue' = [arp_queue EXCEPT ![n] = Tail(q)] /\ arp_queue'[n] = Tail(q)
    BY <1>1, <1>3 DEF Drain, Resolving, Sending, IInv, TypeOK, pktVars, wireVars
  <1>5. \A j \in Addrs : Waiting(j) = Queue(j)
    BY <1>4, Zenon DEF WaitSound
  <1>6. Waiting(k)' = Waiting(k)
    <2>1. Queue(k)' = Tail(q)
      BY <1>1, <1>4, Zenon DEF WaitSound
    <2>2. Waiting(k)' = <<s>> \o Queue(k)'
      BY <1>1, <1>4, Zenon DEF WaitSound
    <2>3. Queue(k) = q
      BY <1>1, Zenon DEF WaitSound
    <2>4. <<s>> \o Tail(q) = q
      BY <1>1
    <2> QED
      BY <1>1, <1>5, <2>1, <2>2, <2>3, <2>4, Zenon
  <1>7. ASSUME NEW j \in Addrs, j # k PROVE Waiting(j)' = Waiting(j)
    <2>1. TableSound
      BY DEF RxInv
    <2>2. Queue(j)' = Queue(j)
      BY <1>1, <1>4, <1>7, <2>1, OthersStay
    <2>3. Waiting(j)' = Queue(j)'
      BY <1>4, <1>7, Zenon DEF WaitSound
    <2> QED
      BY <1>5, <2>2, <2>3, Zenon
  <1> QED
    BY <1>4, <1>6, <1>7, AsStutter

\* queue_xmit: the packet in hand is the first one the cache holds for its
\* address.  A ping reply finds a REACHABLE neighbour, on which nothing waits.
LEMMA TransmitReleases ==
  ASSUME IInv, RxInv, WaitSound, WaitSound', Transmit(Rx), NEW s, s = skb[Rx], NEW k, k = daddr[s],
         NEW n, n = Out(Rx)
  PROVE  H!HNext
  <1>1. Rx \in Threads /\ s \in Skbs /\ n \in Entries /\ key[n] = k /\ k \in Addrs
    BY RxFacts DEF Transmit, Resolving, IInv, DstSound, Out
  <1>2. pc[Rx] = "xmit" /\ pc[Rx] \in Resolving /\ pc'[Rx] \notin Resolving
    BY <1>1 DEF Transmit, Return, Resolving, IInv, TypeOK
  <1>3. UNCHANGED <<key, arp_queue>> /\ sent' = [sent EXCEPT ![k] = Append(@, s)]
    BY DEF Transmit, cacheVars
  <1>4. \A j \in Addrs : Waiting(j)' = Queue(j)
    BY <1>2, <1>3, QueuesStay, Zenon DEF WaitSound
  <1>5. Queue(k) \in Seq(Skbs) /\ Waiting(k) = <<s>> \o Queue(k)
    <2>1. Queue(k) \in Seq(Skbs) /\ Queue(k) = arp_queue[n]
      BY <1>1, Zenon DEF WaitSound
    <2>2. CASE ~ Sending
      BY <1>1, <1>2, <2>1, <2>2, Zenon DEF WaitSound
    <2>3. CASE Sending
      <3>1. arp_queue[n] = <<>>
        BY <1>1, <1>2, <2>3 DEF RxInv, StateSound, QueueWaits, Draining
      <3>2. Waiting(k) = Append(Queue(k), s)
        BY <1>1, <1>2, <2>3, Zenon DEF WaitSound
      <3>3. Append(<<>>, s) = <<s>> \o <<>>
        BY <1>1
      <3> QED
        BY <2>1, <3>1, <3>2, <3>3, Zenon
    <2> QED
      BY <2>2, <2>3
  <1>6. Waiting(k) # <<>> /\ Head(Waiting(k)) = s /\ Tail(Waiting(k)) = Queue(k)
    <2>1. <<s>> \o Queue(k) # <<>> /\ Head(<<s>> \o Queue(k)) = s /\ Tail(<<s>> \o Queue(k)) = Queue(k)
      BY <1>1, <1>5, Joined, Zenon
    <2> QED
      BY <1>5, <2>1, Zenon
  <1>7. ASSUME NEW j \in Addrs, j # k PROVE Waiting(j)' = Waiting(j)
    <2>1. Waiting(j) = Queue(j)
      BY <1>7, Zenon DEF WaitSound
    <2> QED
      BY <1>4, <2>1, Zenon
  <1>8. Waiting(k)' = Tail(Waiting(k))
    BY <1>1, <1>4, <1>6, Zenon
  <1>9. sent' = [sent EXCEPT ![k] = Append(@, Head(Waiting(k)))]
    BY <1>3, <1>6, Zenon
  <1> QED
    BY <1>1, <1>6, <1>7, <1>8, <1>9, AsRelease

\* neigh_create: nothing waited for the address, and nothing waits on the entry.
LEMMA CreateHolds ==
  ASSUME IInv, RxInv, WaitSound, WaitSound', NEW e \in Entries, Create(Rx, e), NEW k, k = req[Rx].addr
  PROVE  UNCHANGED H!hvars
  <1>1. Rx \in Threads /\ k \in Addrs /\ pc[Rx] \notin Resolving /\ pc'[Rx] \notin Resolving
    BY RxFacts DEF Create, Resolving, IInv, TypeOK
  <1>2. /\ key[e] = NULL /\ NULL \notin Addrs /\ key'[e] = k /\ UNCHANGED <<arp_queue, sent>>
        /\ \A f \in Entries : f # e => key'[f] = key[f]
    BY RxFacts DEF Create, IInv, TypeOK, wireVars
  <1>3. arp_queue[e] = <<>> /\ \A f \in Entries : key[f] # k
    BY <1>2 DEF RxInv, NewSound, TableSound, Create
  <1>4. ASSUME NEW j \in Addrs PROVE Queue(j)' = Queue(j)
    <2>1. CASE j = k
      <3>1. Queue(j) = <<>>
        BY <1>3, <2>1, Zenon DEF WaitSound
      <3>2. Queue(j)' = arp_queue'[e]
        BY <1>2, <2>1, Zenon DEF WaitSound
      <3> QED
        BY <1>2, <1>3, <3>1, <3>2, Zenon
    <2>2. CASE j # k /\ \A f \in Entries : key[f] # j
      <3>1. \A f \in Entries : key'[f] # j
        BY <1>2, <2>2
      <3> QED
        BY <2>2, <3>1, Zenon DEF WaitSound
    <2>3. ASSUME j # k, NEW f \in Entries, key[f] = j PROVE Queue(j)' = Queue(j)
      <3>1. key'[f] = j
        BY <1>2, <2>3
      <3> QED
        BY <1>2, <2>3, <3>1, Zenon DEF WaitSound
    <2> QED
      BY <2>1, <2>2, <2>3
  <1> QED
    BY <1>1, <1>2, <1>4, HandsStay

\* Every step of the receive loop is a step of Holding, or none.
LEMMA StepHolds ==
  ASSUME NoTear, IInv, RxInv, Owned, WaitSound, WaitSound', Step(Rx)
  PROVE  H!HNext \/ UNCHANGED H!hvars
  <1>0. Rx \in Threads /\ TypeOK
    BY RxFacts DEF IInv
  <1> USE DEF cacheVars, pktVars, wireVars, history
  <1>1. CASE Resolve(Rx)
    <2>1. CASE Link(Rx)
      BY <2>1, LinkHolds
    <2>2. CASE Transmit(Rx)
      BY <2>2, TransmitReleases
    <2>3. CASE IfReachable(Rx) \/ IfNone(Rx) \/ IfIncomplete(Rx) \/ Solicit(Rx) \/ SetIncomplete(Rx)
               \/ Enqueue(Rx)
      <3>1. /\ UNCHANGED <<key, arp_queue, sent, req, skb, daddr>>
            /\ pc[Rx] \in Resolving /\ pc'[Rx] \in Resolving
        BY <1>0, <2>3 DEF IfReachable, IfNone, IfIncomplete, Goto, Solicit, SetIncomplete, Enqueue, Resolving, TypeOK
      <3> QED
        BY <3>1, QueuesStay, HandsStay
    <2> QED
      BY <1>1, <2>1, <2>2, <2>3 DEF Resolve
  <1>2. CASE Update(Rx) \/ CreateFails(Rx) \/ Leave(Rx)
    <2>1. CASE Drain(Rx) /\ arp_queue[neigh[Rx]] # <<>>
      BY <2>1, DrainHolds
    <2>2. CASE Unlink(Rx)
      <3>1. /\ UNCHANGED <<key, arp_queue, sent, req, skb, daddr>>
            /\ pc[Rx] \in Resolving /\ pc'[Rx] \in Resolving
        BY <1>0, <2>2 DEF Unlink, Goto, Resolving, TypeOK
      <3> QED
        BY <3>1, QueuesStay, HandsStay
    <2>3. CASE ~ (Drain(Rx) /\ arp_queue[neigh[Rx]] # <<>>) /\ ~ Unlink(Rx)
      <3>1. /\ UNCHANGED <<key, arp_queue, sent>>
            /\ pc[Rx] \notin Resolving /\ pc'[Rx] \notin Resolving
        BY <1>0, <1>2, <2>3 DEF Update, SetReachable, SetHa, CopyHa, IfFlush, Goto, Drain, CreateFails, Leave, Resolving, TypeOK
      <3> QED
        BY <3>1, QueuesStay, HandsStay
    <2> QED
      BY <2>1, <2>2, <2>3
  <1>3. CASE Lookup(Rx) \/ Publish(Rx)
    <2>1. /\ UNCHANGED <<key, arp_queue, sent, req, skb, daddr>>
          /\ pc[Rx] \in {"lookup", "publish"}
          /\ pc'[Rx] \in {Resolved(Rx), "leave", "create"}
      BY <1>0, <1>3 DEF Lookup, Publish, TypeOK
    <2>2. pc[Rx] \notin Resolving /\ {"setreach", "leave", "create"} \cap Resolving = {}
      BY <2>1 DEF Resolving
    <2>3. CASE pc'[Rx] \in Resolving
      <3>1. Sending
        BY <2>1, <2>2, <2>3 DEF Resolved, Sending
      <3> QED
        BY <2>1, <2>3, <3>1, BindAccepts
    <2>4. CASE pc'[Rx] \notin Resolving
      BY <2>1, <2>2, <2>4, QueuesStay, HandsStay
    <2> QED
      BY <2>3, <2>4
  <1>4. CASE \E e \in Entries : Create(Rx, e)
    BY <1>4, CreateHolds
  <1> QED
    BY <1>1, <1>2, <1>3, <1>4 DEF Step

\* So is every step of the system.
LEMMA NextHolds ==
  ASSUME Apps = {}, NoTear, IInv, RxInv, Owned, WaitSound, WaitSound', [Next]_vars
  PROVE  H!HNext \/ UNCHANGED H!hvars
  <1>0. Threads = {Rx} /\ TypeOK
    BY DEF Threads, IInv
  <1> USE DEF cacheVars, pktVars, threadVars, wireVars, history
  <1>1. CASE (\E k \in Addrs, s \in Skbs : Send(Rx, k, s)) \/ (\E k \in Addrs : \E m, job : ArpIn(job, k, m))
    <2>1. /\ UNCHANGED <<key, arp_queue, sent>>
          /\ pc[Rx] \notin Resolving /\ pc'[Rx] \notin Resolving
      BY <1>0, <1>1 DEF Send, ArpIn, Resolving, TypeOK
    <2> QED
      BY <2>1, QueuesStay, HandsStay
  <1>2. CASE (\E k \in Addrs : Lose(k)) \/ UNCHANGED vars
    <2>1. UNCHANGED <<key, arp_queue, sent, pc, req, skb, daddr>>
      BY <1>2 DEF Lose, vars
    <2> QED
      BY <2>1, QueuesStay, HandsStay
  <1> QED
    BY <1>0, <1>1, <1>2, StepHolds DEF Next, Unprompted, Answered

\* At the start nothing is held.
LEMMA InitHolds == Init => H!HInit
  <1> SUFFICES ASSUME Init PROVE H!HInit
    OBVIOUS
  <1>1. ASSUME NEW k \in Addrs PROVE Waiting(k) = <<>>
    <2>1. Hits(buckets, k) = {}
      BY DEF Init, Hits
    <2>2. neigh_lookup(k) = NULL
      BY <2>1, Zenon DEF neigh_lookup
    <2>3. InHand(Rx, k, FALSE) = <<>> /\ InHand(Rx, k, TRUE) = <<>>
      BY DEF Init, InHand, Threads
    <2>4. <<>> \o <<>> \o <<>> = <<>>
      OBVIOUS
    <2> QED
      BY <2>2, <2>3, <2>4, Zenon DEF Waiting
  <1> QED
    BY <1>1 DEF H!HInit, Init

\* The program as shipped implements Holding: per address the packets leave in the
\* order ip_output handed them to the cache, none lost, none sent twice.
THEOREM CacheHolds == ASSUME Apps = {} PROVE Spec => Holds
  <1>1. ASSUME NoTear, IInv, RxInv, Owned, WaitSound, WaitSound', [Next]_vars
        PROVE  [H!HNext]_(H!hvars)
    BY <1>1, NextHolds
  <1> QED
    BY <1>1, InitHolds, WaitIs, RxInductive, NoneTorn, Inductive, OwnedAlways, PTL DEF Spec, Holds, H!HSpec
================================================================================
