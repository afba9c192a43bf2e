--------------------------- MODULE NeighbourProofs ---------------------------
(***************************************************************************)
(* Proofs about Neighbour, for any number of sending threads, hosts,       *)
(* packets and heap addresses, at every interleaving.                      *)
(***************************************************************************)
EXTENDS Neighbour, WellFoundedInduction, TLAPS

\* A sender that has not reached its neighbour yet.
Binding(t) == pc[t] \in {"lookup", "create", "publish"} /\ req[t].job = "send"

\* A thread in a call knows whom the call is about; an ARP packet carries a
\* hardware address its sender may announce.
CallsSound ==
  \A t \in Threads : pc[t] \notin {"idle", "leave"} =>
    /\ req[t].addr \in Addrs
    /\ req[t].job # "send" => req[t].sha \in MacsOf[req[t].addr]

\* The packet a sender is about to bind is its own and not bound.
BindingSound ==
  \A t \in Threads : Binding(t) =>
    /\ skb[t] # NULL
    /\ daddr[skb[t]] = req[t].addr
    /\ dst[skb[t]] = NULL
    /\ \A u \in Threads : Binding(u) /\ skb[u] = skb[t] => u = t

\* The neighbour a thread creates or updates is the one of its call, and only
\* an ARP packet updates.
NeighSound ==
  \A t \in Threads :
    /\ pc[t] = "publish" => neigh[t] # NULL /\ key[neigh[t]] = req[t].addr
    /\ pc[t] \in Updating => req[t].job # "send"
    /\ pc[t] \in Updating \/ (pc[t] \in Resolving /\ req[t].job # "send") =>
         neigh[t] # NULL /\ key[neigh[t]] = req[t].addr

\* A packet is bound to a neighbour of its destination, for good.
DstSound == \A s \in Skbs : dst[s] # NULL => daddr[s] # NULL /\ key[dst[s]] = daddr[s]

\* A neighbour's ha is empty, half copied or one its host announced.
HaSound ==
  \A e \in Entries : ha[e] \notin {ZeroMac, TornMac} => key[e] # NULL /\ ha[e] \in MacsOf[key[e]]

\* What waits on a neighbour is bound to it.
QueueSound == \A e \in Entries : \A i \in DOMAIN arp_queue[e] : dst[arp_queue[e][i]] = e

\* What has left was bound.
SentSound == \A s \in Skbs : frame[s] # NULL => dst[s] # NULL

IInv ==
  /\ TypeOK
  /\ CallsSound
  /\ BindingSound
  /\ NeighSound
  /\ DstSound
  /\ HaSound
  /\ QueueSound
  /\ SentSound
  /\ RightHost

\* Every nonempty set of numbers has a least one.
LEMMA Least ==
  ASSUME NEW S, S \subseteq Nat, S # {}
  PROVE  \E i \in S : \A j \in S : i <= j
  <1> DEFINE R == OpToRel(<, Nat)
  <1>1. \A x, y \in Nat : x < y => <<x, y>> \in R
    BY DEF OpToRel
  <1>2. PICK i \in S : \A j \in S : ~ (<<j, i>> \in R)
    <2>1. IsWellFoundedOn(R, Nat)
      BY NatLessThanWellFounded
    <2> HIDE DEF R
    <2> QED
      BY <2>1, WFMin, Zenon
  <1> HIDE DEF R
  <1>3. \A j \in S : ~ (j < i)
    BY <1>1, <1>2, Zenon
  <1> QED
    BY <1>3

\* neigh_lookup returns NULL or an entry of the table with the address asked for.
LEMMA LookupFinds ==
  ASSUME NEW k, buckets \in Seq(Entries)
  PROVE  \/ neigh_lookup(k) = NULL
         \/ neigh_lookup(k) \in Entries /\ key[neigh_lookup(k)] = k
  <1> DEFINE S == Hits(buckets, k)
  <1>1. CASE S = {}
    BY <1>1 DEF neigh_lookup
  <1>2. CASE S # {}
    <2>1. S \subseteq Nat /\ \A i \in S : buckets[i] \in Entries /\ key[buckets[i]] = k
      BY DEF Hits
    <2>2. \E i \in S : \A j \in S : i <= j
      BY <1>2, <2>1, Least
    <2>3. (CHOOSE i \in S : \A j \in S : i <= j) \in S
      BY <2>2, Zenon
    <2> QED
      BY <1>2, <2>1, <2>3 DEF neigh_lookup
  <1> QED
    BY <1>1, <1>2

\* The invariant holds when the stack starts.
LEMMA InitIInv == Init => IInv
  <1> SUFFICES ASSUME Init PROVE IInv
    OBVIOUS
  <1>1. NoCall \in Calls
    BY DEF NoCall, Calls, Jobs
  <1>2. TypeOK
    BY <1>1 DEF Init, TypeOK, Labels, Resolving, Updating
  <1>3. CallsSound /\ NeighSound
    BY DEF Init, CallsSound, NeighSound, Resolving, Updating
  <1>4. BindingSound
    BY DEF Init, BindingSound, Binding
  <1>5. DstSound /\ HaSound /\ QueueSound /\ SentSound /\ RightHost
    BY DEF Init, DstSound, HaSound, QueueSound, SentSound, RightHost
  <1> QED
    BY <1>2, <1>3, <1>4, <1>5 DEF IInv

\* A test inside neigh_resolve_output or neigh_update.
LEMMA GotoKeeps ==
  ASSUME IInv, NEW t \in Threads, NEW l, Goto(t, l),
         \/ pc[t] \in Resolving /\ l \in Resolving
         \/ pc[t] \in Updating /\ l \in Updating \cup {"leave"}
  PROVE  IInv'
  <1> USE DEF Goto, cacheVars, pktVars, wireVars, history
  <1>0. TypeOK
    BY DEF IInv
  <1>1. l \in Labels /\ pc' \in [Threads -> Labels]
    BY <1>0 DEF TypeOK, Labels, Resolving, Updating
  <1>2. TypeOK'
    BY <1>0, <1>1 DEF TypeOK, Out, Resolving, Updating
  <1>3. CallsSound'
    BY <1>0 DEF IInv, TypeOK, CallsSound, Resolving, Updating
  <1>4. BindingSound'
    BY <1>0 DEF IInv, TypeOK, BindingSound, Binding, Resolving, Updating
  <1>5. NeighSound'
    BY <1>0 DEF IInv, TypeOK, NeighSound, Resolving, Updating
  <1>6. DstSound' /\ HaSound' /\ QueueSound' /\ SentSound' /\ RightHost'
    BY DEF IInv, DstSound, HaSound, QueueSound, SentSound, RightHost
  <1> QED
    BY <1>2, <1>3, <1>4, <1>5, <1>6 DEF IInv

\* A packet is taken for a new send: nobody else is about to bind it.
LEMMA SendKeeps ==
  ASSUME IInv, NEW t \in Threads, NEW k \in Addrs, NEW s \in Skbs, Send(t, k, s)
  PROVE  IInv'
  <1> USE DEF Send, cacheVars, wireVars, history
  <1> DEFINE r == [job |-> "send", addr |-> k, sha |-> NULL]
  <1>0. TypeOK
    BY DEF IInv
  <1>1. r \in Calls /\ r.job = "send" /\ r.addr = k
    BY DEF Calls, Jobs
  <1>2. req' = [req EXCEPT ![t] = r]
    OBVIOUS
  <1> HIDE DEF r
  <1>3. dst[s] = NULL
    BY DEF IInv, DstSound
  <1>4. TypeOK'
    <2>1. pc' \in [Threads -> Labels]
      BY <1>0 DEF TypeOK, Labels
    <2>2. ASSUME NEW u \in Threads
          PROVE  /\ pc'[u] \in Resolving => skb'[u] # NULL /\ dst'[skb'[u]] # NULL /\ key'[dst'[skb'[u]]] # NULL
                 /\ pc'[u] \in Updating => neigh'[u] # NULL
      BY <1>0 DEF TypeOK, Out, Resolving, Updating
    <2> QED
      BY <1>0, <1>1, <1>2, <2>1, <2>2 DEF TypeOK, Out
  <1>5. CallsSound'
    BY <1>0, <1>1, <1>2 DEF IInv, TypeOK, CallsSound
  <1>6. BindingSound'
    <2>1. \A u \in Threads : Binding(u) => u # t /\ skb[u] # s
      BY NullAssumption DEF IInv, BindingSound, Binding, CallsSound
    <2>2. \A u \in Threads : u # t => (Binding(u)' <=> Binding(u)) /\ skb'[u] = skb[u] /\ req'[u] = req[u]
      BY <1>0, <1>2 DEF TypeOK, Binding
    <2>3. skb'[t] = s /\ req'[t] = r /\ daddr'[s] = k
      BY <1>0, <1>2 DEF TypeOK
    <2>4. \A q \in Skbs : q # s => daddr'[q] = daddr[q]
      BY <1>0 DEF TypeOK
    <2>5. \A u \in Threads : skb[u] \in Skbs \cup {NULL}
      BY <1>0 DEF TypeOK
    <2> QED
      BY <1>1, <1>3, <2>1, <2>2, <2>3, <2>4, <2>5, NullAssumption DEF IInv, BindingSound
  <1>7. NeighSound'
    BY <1>0, <1>1, <1>2 DEF IInv, TypeOK, NeighSound, Resolving, Updating
  <1>8. DstSound' /\ HaSound' /\ QueueSound' /\ SentSound'
    BY <1>0, <1>3 DEF IInv, TypeOK, DstSound, HaSound, QueueSound, SentSound
  <1>9. RightHost'
    BY <1>0, <1>3 DEF IInv, TypeOK, SentSound, RightHost
  <1> QED
    BY <1>4, <1>5, <1>6, <1>7, <1>8, <1>9 DEF IInv

\* An ARP packet is accepted.
LEMMA ArpInKeeps ==
  ASSUME IInv, NEW job \in {"ask", "tell"}, NEW k \in Addrs, NEW m \in MacsOf[k],
         ArpIn(job, k, m), asked' \subseteq Addrs
  PROVE  IInv'
  <1> USE DEF ArpIn, cacheVars, pktVars, history
  <1> DEFINE r == [job |-> job, addr |-> k, sha |-> m]
  <1>0. TypeOK /\ Rx \in Threads /\ m \in Macs
    BY MacsAssumption DEF IInv, Threads
  <1>1. r \in Calls /\ r.job # "send" /\ r.addr = k /\ r.sha = m
    BY <1>0 DEF Calls, Jobs
  <1>2. req' = [req EXCEPT ![Rx] = r]
    OBVIOUS
  <1> HIDE DEF r
  <1>3. TypeOK'
    <2>1. pc' \in [Threads -> Labels]
      BY <1>0 DEF TypeOK, Labels
    <2>2. latest' \in [Addrs -> Macs \cup {NULL}]
      BY <1>0 DEF TypeOK
    <2>3. ASSUME NEW u \in Threads
          PROVE  /\ pc'[u] \in Resolving => skb'[u] # NULL /\ dst'[skb'[u]] # NULL /\ key'[dst'[skb'[u]]] # NULL
                 /\ pc'[u] \in Updating => neigh'[u] # NULL
      BY <1>0 DEF TypeOK, Out, Resolving, Updating
    <2> QED
      BY <1>0, <1>1, <1>2, <2>1, <2>2, <2>3 DEF TypeOK, Out
  <1>4. CallsSound'
    BY <1>0, <1>1, <1>2 DEF IInv, TypeOK, CallsSound
  <1>5. BindingSound'
    <2>1. ~ Binding(Rx)'
      BY <1>0, <1>1, <1>2 DEF TypeOK, Binding
    <2>2. \A u \in Threads : u # Rx => (Binding(u)' <=> Binding(u)) /\ req'[u] = req[u]
      BY <1>0, <1>2 DEF TypeOK, Binding
    <2> QED
      BY <2>1, <2>2 DEF IInv, BindingSound
  <1>6. NeighSound'
    BY <1>0, <1>1, <1>2 DEF IInv, TypeOK, NeighSound, Resolving, Updating
  <1>7. DstSound' /\ HaSound' /\ QueueSound' /\ SentSound' /\ RightHost'
    BY DEF IInv, DstSound, HaSound, QueueSound, SentSound, RightHost
  <1> QED
    BY <1>3, <1>4, <1>5, <1>6, <1>7 DEF IInv

\* A thread gets its neighbour n, found or created: a sender's packet is bound to
\* it, and the thread goes on to resolve or to update.
LEMMA BindKeeps ==
  ASSUME IInv, NEW t \in Threads, NEW n \in Entries, key[n] = req[t].addr,
         pc[t] \in {"lookup", "publish"},
         Bind(t, n),
         pc' = [pc EXCEPT ![t] = Resolved(t)],
         neigh' = [neigh EXCEPT ![t] = n],
         buckets' \in Seq(Entries), seen' \in [Threads -> Seq(Entries)],
         UNCHANGED <<key, nud_state, ha, arp_queue, daddr, req, skb, wireVars, latest, history>>
  PROVE  IInv'
  <1>0. TypeOK /\ NULL \notin Addrs /\ NULL \notin Entries
    BY NullAssumption DEF IInv
  <1> USE DEF wireVars, history
  <1>u. key' = key /\ daddr' = daddr /\ req' = req /\ skb' = skb /\ arp_queue' = arp_queue
    OBVIOUS
  <1>1. req[t].addr \in Addrs /\ key[n] # NULL
    <2>1. pc[t] \notin {"idle", "leave"}
      OBVIOUS
    <2> QED
      BY <1>0, <2>1 DEF IInv, CallsSound
  <1>2. /\ Resolved(t) \in {"reachable", "setreach"}
        /\ Resolved(t) = "reachable" <=> req[t].job = "send"
        /\ pc' \in [Threads -> Labels]
    BY <1>0 DEF TypeOK, Resolved, Labels
  <1>3. req[t].job = "send" =>
          /\ skb[t] \in Skbs /\ dst[skb[t]] = NULL /\ daddr[skb[t]] = req[t].addr
          /\ \A u \in Threads : Binding(u) /\ skb[u] = skb[t] => u = t
    BY <1>0 DEF IInv, TypeOK, BindingSound, Binding
  <1>4. /\ dst' \in [Skbs -> Entries \cup {NULL}]
        /\ req[t].job = "send" => dst'[skb[t]] = n
        /\ \A q \in Skbs : dst'[q] = dst[q] \/ (req[t].job = "send" /\ q = skb[t])
        /\ \A q \in Skbs : dst[q] # NULL => dst'[q] = dst[q]
    BY <1>0, <1>3 DEF TypeOK, Bind
  <1>5. TypeOK'
    <2>1. ASSUME NEW u \in Threads, pc'[u] \in Resolving
          PROVE  skb'[u] # NULL /\ dst'[skb'[u]] # NULL /\ key'[dst'[skb'[u]]] # NULL
      <3>1. CASE u = t
        <4>1. req[t].job = "send"
          BY <3>1, <2>1, <1>0, <1>2 DEF TypeOK, Resolving
        <4> QED
          BY <3>1, <4>1, <1>u, <1>0, <1>1, <1>3, <1>4, NullAssumption
      <3>2. CASE u # t
        <4>1. pc[u] \in Resolving /\ skb[u] \in Skbs /\ dst[skb[u]] # NULL /\ key[dst[skb[u]]] # NULL
          BY <3>2, <2>1, <1>0 DEF TypeOK, Out
        <4> QED
          BY <4>1, <1>4, <1>u, NullAssumption
      <3> QED
        BY <3>1, <3>2
    <2>2. ASSUME NEW u \in Threads, pc'[u] \in Updating
          PROVE  neigh'[u] # NULL
      BY <2>2, <1>0 DEF TypeOK, Updating
    <2>3. neigh' \in [Threads -> Entries \cup {NULL}]
      BY <1>0 DEF TypeOK
    <2> QED
      BY <1>0, <1>2, <1>4, <2>1, <2>2, <2>3 DEF TypeOK, Out
  <1>6. CallsSound'
    BY <1>0, <1>2 DEF IInv, TypeOK, CallsSound
  <1>7. BindingSound'
    <2>1. ~ Binding(t)'
      BY <1>0, <1>2 DEF TypeOK, Binding
    <2>2. \A u \in Threads : u # t => (Binding(u)' <=> Binding(u))
      BY <1>0 DEF TypeOK, Binding
    <2>3. Binding(t) <=> req[t].job = "send"
      BY DEF Binding
    <2>4. ASSUME NEW u \in Threads, Binding(u)'
          PROVE  /\ skb'[u] # NULL
                 /\ daddr'[skb'[u]] = req'[u].addr
                 /\ dst'[skb'[u]] = NULL
                 /\ \A v \in Threads : Binding(v)' /\ skb'[v] = skb'[u] => v = u
      <3>1. u # t /\ Binding(u)
        BY <2>1, <2>2, <2>4
      <3>2. skb[u] \in Skbs
        BY <3>1, <1>0 DEF IInv, TypeOK, BindingSound
      <3>3. dst'[skb[u]] = dst[skb[u]]
        BY <3>1, <3>2, <1>3, <1>4
      <3> QED
        BY <3>1, <3>3, <2>1, <2>2 DEF IInv, BindingSound
    <2> QED
      BY <2>4 DEF BindingSound
  <1>8. NeighSound'
    <2>1. neigh'[t] = n /\ pc'[t] = Resolved(t)
      BY <1>0 DEF TypeOK
    <2>2. \A u \in Threads : u # t => neigh'[u] = neigh[u] /\ pc'[u] = pc[u]
      BY <1>0 DEF TypeOK
    <2>3. n # NULL /\ Resolved(t) # "publish" /\ (Resolved(t) \in Updating => req[t].job # "send")
      BY <1>0, <1>2 DEF Updating
    <2> QED
      BY <2>1, <2>2, <2>3 DEF IInv, NeighSound
  <1>9. DstSound'
    BY <1>1, <1>3, <1>4, <1>0 DEF IInv, DstSound
  <1>10. HaSound' /\ SentSound' /\ RightHost'
    BY <1>4 DEF IInv, HaSound, SentSound, RightHost
  <1>11. QueueSound'
    <2>1. \A e \in Entries : \A i \in DOMAIN arp_queue[e] : arp_queue[e][i] \in Skbs
      BY <1>0 DEF TypeOK
    <2>2. ASSUME NEW e \in Entries, NEW i \in DOMAIN arp_queue[e]
          PROVE  dst'[arp_queue[e][i]] = e
      <3>1. dst[arp_queue[e][i]] = e /\ e # NULL
        BY <1>0 DEF IInv, QueueSound
      <3> QED
        BY <3>1, <2>1, <1>4
    <2> QED
      BY <1>u, <2>2 DEF QueueSound
  <1> QED
    BY <1>5, <1>6, <1>7, <1>8, <1>9, <1>10, <1>11 DEF IInv

\* neigh_lookup: with an entry the thread has its neighbour, without one it
\* leaves or creates.
LEMMA LookupKeeps ==
  ASSUME IInv, NEW t \in Threads, Lookup(t)
  PROVE  IInv'
  <1> DEFINE n == neigh_lookup(req[t].addr)
  <1>0. TypeOK /\ NULL \notin Entries
    BY NullAssumption DEF IInv
  <1>1. n = NULL \/ (n \in Entries /\ key[n] = req[t].addr)
    BY <1>0, LookupFinds DEF TypeOK
  <1> HIDE DEF n
  <1>2. /\ pc[t] = "lookup"
        /\ neigh' = [neigh EXCEPT ![t] = n]
        /\ UNCHANGED <<cacheVars, daddr, req, seen, skb, wireVars, latest, history>>
        /\ \/ n # NULL /\ Bind(t, n) /\ pc' = [pc EXCEPT ![t] = Resolved(t)]
           \/ /\ n = NULL /\ UNCHANGED dst
              /\ pc' = [pc EXCEPT ![t] = IF req[t].job = "tell" THEN "leave" ELSE "create"]
    BY DEF Lookup, n
  <1>3. CASE n # NULL
    <2>1. buckets' \in Seq(Entries) /\ seen' \in [Threads -> Seq(Entries)]
      BY <1>0, <1>2 DEF TypeOK, cacheVars
    <2>2. UNCHANGED <<key, nud_state, ha, arp_queue, daddr, req, skb, wireVars, latest, history>>
      BY <1>2 DEF cacheVars
    <2>3. /\ n \in Entries /\ key[n] = req[t].addr /\ pc[t] \in {"lookup", "publish"}
          /\ Bind(t, n) /\ pc' = [pc EXCEPT ![t] = Resolved(t)] /\ neigh' = [neigh EXCEPT ![t] = n]
      BY <1>1, <1>2, <1>3
    <2> QED
      BY <2>1, <2>2, <2>3, BindKeeps
  <1>4. CASE n = NULL
    <2>1. /\ UNCHANGED <<cacheVars, daddr, dst, req, seen, skb, wireVars, latest, history>>
          /\ \E l \in {"leave", "create"} : /\ pc' = [pc EXCEPT ![t] = l]
                                            /\ req[t].job = "tell" => l = "leave"
          /\ neigh' = [neigh EXCEPT ![t] = NULL]
      BY <1>2, <1>4
    <2>2. PICK l \in {"leave", "create"} : pc' = [pc EXCEPT ![t] = l]
      BY <2>1
    <2> USE <2>1, <2>2 DEF cacheVars, wireVars, history
    <2>3. TypeOK'
      <3>1. pc' \in [Threads -> Labels] /\ neigh' \in [Threads -> Entries \cup {NULL}]
        BY <1>0 DEF TypeOK, Labels
      <3>2. ASSUME NEW u \in Threads
            PROVE  /\ pc'[u] \in Resolving => skb'[u] # NULL /\ dst'[skb'[u]] # NULL /\ key'[dst'[skb'[u]]] # NULL
                   /\ pc'[u] \in Updating => neigh'[u] # NULL
        BY <1>0 DEF TypeOK, Out, Resolving, Updating
      <3> QED
        BY <1>0, <3>1, <3>2 DEF TypeOK, Out
    <2>4. CallsSound'
      BY <1>0, <1>2 DEF IInv, TypeOK, CallsSound
    <2>5. BindingSound'
      <3>1. \A u \in Threads : Binding(u)' => Binding(u)
        BY <1>0, <1>2 DEF TypeOK, Binding
      <3> QED
        BY <3>1 DEF IInv, BindingSound
    <2>6. NeighSound'
      BY <1>0 DEF IInv, TypeOK, NeighSound, Resolving, Updating
    <2>7. DstSound' /\ HaSound' /\ QueueSound' /\ SentSound' /\ RightHost'
      BY DEF IInv, DstSound, HaSound, QueueSound, SentSound, RightHost
    <2> QED
      BY <2>3, <2>4, <2>5, <2>6, <2>7 DEF IInv
  <1> QED
    BY <1>3, <1>4

\* tbl->buckets = n.
LEMMA PublishKeeps ==
  ASSUME IInv, NEW t \in Threads, Publish(t)
  PROVE  IInv'
  <1> USE DEF Publish
  <1>0. TypeOK
    BY DEF IInv
  <1>1. neigh[t] \in Entries /\ key[neigh[t]] = req[t].addr
    BY <1>0 DEF IInv, TypeOK, NeighSound
  <1>2. buckets' \in Seq(Entries) /\ seen' \in [Threads -> Seq(Entries)]
    BY <1>0, <1>1 DEF TypeOK
  <1>3. neigh' = [neigh EXCEPT ![t] = neigh[t]]
    BY <1>0 DEF TypeOK
  <1>4. UNCHANGED <<key, nud_state, ha, arp_queue, daddr, req, skb, wireVars, latest, history>>
    OBVIOUS
  <1> QED
    BY <1>1, <1>2, <1>3, <1>4, BindKeeps

\* neigh_create takes fresh memory, which no packet, queue or thread refers to.
LEMMA CreateKeeps ==
  ASSUME IInv, NEW t \in Threads, NEW e \in Entries, Create(t, e)
  PROVE  IInv'
  <1> USE DEF Create, pktVars, wireVars, history
  <1>0. TypeOK /\ NULL \notin Addrs /\ NULL \notin Entries
    BY NullAssumption DEF IInv
  <1>1. req[t].addr \in Addrs
    BY DEF IInv, CallsSound
  <1>2. /\ key' \in [Entries -> Addrs \cup {NULL}]
        /\ key'[e] = req[t].addr
        /\ \A f \in Entries : key[f] # NULL => key'[f] = key[f]
    BY <1>0, <1>1 DEF TypeOK
  <1>3. /\ neigh' \in [Threads -> Entries \cup {NULL}] /\ seen' \in [Threads -> Seq(Entries)]
        /\ pc' \in [Threads -> Labels]
    BY <1>0 DEF TypeOK, Labels
  <1>4. TypeOK'
    <2>0. maker' \in [Entries -> Threads \cup {NULL}]
      BY <1>0 DEF TypeOK
    <2>1. ASSUME NEW u \in Threads, pc'[u] \in Resolving
          PROVE  skb'[u] # NULL /\ dst'[skb'[u]] # NULL /\ key'[dst'[skb'[u]]] # NULL
      <3>1. pc[u] \in Resolving
        BY <2>1, <1>0 DEF TypeOK, Resolving
      <3>2. skb[u] \in Skbs /\ dst[skb[u]] \in Entries /\ key[dst[skb[u]]] # NULL
        BY <3>1, <1>0 DEF TypeOK, Out
      <3> QED
        BY <3>2, <1>0, <1>2, NullAssumption
    <2>2. ASSUME NEW u \in Threads, pc'[u] \in Updating
          PROVE  neigh'[u] # NULL
      BY <2>2, <1>0 DEF TypeOK, Updating
    <2> QED
      BY <1>0, <1>2, <1>3, <2>0, <2>1, <2>2 DEF TypeOK, Out
  <1>5. CallsSound'
    BY <1>0 DEF IInv, TypeOK, CallsSound
  <1>6. BindingSound'
    <2>1. \A u \in Threads : Binding(u)' => Binding(u)
      BY <1>0 DEF TypeOK, Binding
    <2> QED
      BY <2>1 DEF IInv, BindingSound
  <1>7. NeighSound'
    <2>1. neigh'[t] = e /\ pc'[t] = "publish"
      BY <1>0 DEF TypeOK
    <2>2. ASSUME NEW u \in Threads, u # t, neigh[u] # NULL, key[neigh[u]] = req[u].addr,
                 req[u].addr \in Addrs
          PROVE  neigh'[u] # NULL /\ key'[neigh'[u]] = req'[u].addr
      BY <2>2, <1>0, <1>2 DEF TypeOK
    <2>3. \A u \in Threads : u # t => pc'[u] = pc[u]
      BY <1>0 DEF TypeOK
    <2>4. "publish" \notin Updating /\ "publish" \notin Resolving
      BY DEF Updating, Resolving
    <2>5. \A u \in Threads : pc[u] \in {"publish"} \cup Updating \cup Resolving => req[u].addr \in Addrs
      BY DEF IInv, CallsSound, Updating, Resolving
    <2> QED
      BY <1>0, <1>2, <2>1, <2>2, <2>3, <2>4, <2>5 DEF IInv, NeighSound
  <1>8. DstSound'
    BY <1>0, <1>2 DEF IInv, TypeOK, DstSound
  <1>9. HaSound'
    BY <1>0, <1>2 DEF IInv, HaSound
  <1>10. QueueSound' /\ SentSound' /\ RightHost'
    BY DEF IInv, QueueSound, SentSound, RightHost
  <1> QED
    BY <1>4, <1>5, <1>6, <1>7, <1>8, <1>9, <1>10 DEF IInv

\* malloc fails: a sender's packet, which was not bound, is given up.
LEMMA CreateFailsKeeps ==
  ASSUME IInv, NEW t \in Threads, CreateFails(t)
  PROVE  IInv'
  <1> USE DEF CreateFails, cacheVars, wireVars, history
  <1>0. TypeOK /\ NULL \notin Addrs
    BY NullAssumption DEF IInv
  <1>1. req[t].job = "send" => /\ skb[t] \in Skbs /\ dst[skb[t]] = NULL
                               /\ \A u \in Threads : Binding(u) /\ skb[u] = skb[t] => u = t
    BY <1>0 DEF IInv, TypeOK, BindingSound, Binding
  <1>2. /\ daddr' \in [Skbs -> Addrs \cup {NULL}]
        /\ \A q \in Skbs : daddr'[q] = daddr[q] \/ (req[t].job = "send" /\ q = skb[t])
        /\ \A q \in Skbs : dst[q] # NULL => daddr'[q] = daddr[q]
    BY <1>0, <1>1 DEF TypeOK
  <1>3. /\ pc' \in [Threads -> Labels] /\ skb' \in [Threads -> Skbs \cup {NULL}]
        /\ pc'[t] = "leave"
        /\ \A u \in Threads : u # t => pc'[u] = pc[u] /\ skb'[u] = skb[u]
    BY <1>0 DEF TypeOK, Labels
  <1>4. TypeOK'
    <2>1. "leave" \notin Resolving /\ "leave" \notin Updating
      BY DEF Resolving, Updating
    <2> QED
      BY <1>0, <1>2, <1>3, <2>1 DEF TypeOK, Out
  <1>5. CallsSound'
    BY <1>3 DEF IInv, CallsSound
  <1>6. BindingSound'
    <2>1. \A u \in Threads : Binding(u)' => u # t /\ Binding(u)
      BY <1>3 DEF Binding
    <2>2. ASSUME NEW u \in Threads, Binding(u)'
          PROVE  /\ skb'[u] # NULL
                 /\ daddr'[skb'[u]] = req'[u].addr
                 /\ dst'[skb'[u]] = NULL
                 /\ \A v \in Threads : Binding(v)' /\ skb'[v] = skb'[u] => v = u
      <3>1. u # t /\ Binding(u)
        BY <2>1, <2>2
      <3>2. skb[u] \in Skbs
        BY <3>1, <1>0 DEF IInv, TypeOK, BindingSound
      <3>3. daddr'[skb[u]] = daddr[skb[u]]
        BY <3>1, <3>2, <1>1, <1>2
      <3> QED
        BY <3>1, <3>3, <2>1, <1>3 DEF IInv, BindingSound
    <2> QED
      BY <2>2 DEF BindingSound
  <1>7. NeighSound'
    BY <1>3 DEF IInv, NeighSound, Resolving, Updating
  <1>8. DstSound'
    BY <1>2 DEF IInv, DstSound
  <1>9. HaSound' /\ QueueSound' /\ SentSound'
    BY DEF IInv, HaSound, QueueSound, SentSound
  <1>10. RightHost'
    BY <1>2 DEF IInv, SentSound, RightHost
  <1> QED
    BY <1>4, <1>5, <1>6, <1>7, <1>8, <1>9, <1>10 DEF IInv

\* A thread that resolves holds a packet bound to a neighbour of its destination.
LEMMA ResolvingHolds ==
  ASSUME IInv, NEW t \in Threads, pc[t] \in Resolving
  PROVE  /\ skb[t] \in Skbs
         /\ Out(t) \in Entries
         /\ key[Out(t)] \in Addrs
         /\ daddr[skb[t]] = key[Out(t)]
  <1>1. skb[t] \in Skbs /\ Out(t) \in Entries /\ Out(t) # NULL
    BY NullAssumption DEF IInv, TypeOK, Out
  <1>2. key[Out(t)] \in Addrs
    BY <1>1 DEF IInv, TypeOK, Out
  <1> QED
    BY <1>1, <1>2 DEF IInv, DstSound, Out

\* An ARP request is broadcast.
LEMMA SolicitKeeps ==
  ASSUME IInv, NEW t \in Threads, Solicit(t)
  PROVE  IInv'
  <1> USE DEF Solicit, cacheVars, pktVars, history
  <1>0. TypeOK /\ pc[t] \in Resolving
    BY DEF IInv, Resolving
  <1>1. asked' \subseteq Addrs
    BY <1>0, ResolvingHolds DEF TypeOK
  <1>2. /\ pc' \in [Threads -> Labels]
        /\ pc'[t] = "setinc" /\ pc'[t] \in Resolving
        /\ \A u \in Threads : u # t => pc'[u] = pc[u]
    BY <1>0 DEF TypeOK, Labels, Resolving
  <1>3. TypeOK'
    <2>1. pc'[t] \notin Updating
      BY <1>2 DEF Updating
    <2> QED
      BY <1>0, <1>1, <1>2, <2>1 DEF TypeOK, Out
  <1>4. CallsSound'
    BY <1>2 DEF IInv, CallsSound
  <1>5. BindingSound'
    <2>1. \A u \in Threads : Binding(u)' => Binding(u)
      BY <1>2 DEF Binding
    <2> QED
      BY <2>1 DEF IInv, BindingSound
  <1>6. NeighSound'
    BY <1>0, <1>2 DEF IInv, NeighSound, Updating
  <1>7. DstSound' /\ HaSound' /\ QueueSound' /\ SentSound' /\ RightHost'
    BY DEF IInv, DstSound, HaSound, QueueSound, SentSound, RightHost
  <1> QED
    BY <1>3, <1>4, <1>5, <1>6, <1>7 DEF IInv

\* A store to nud_state, by a thread that stays in the call it is in.
LEMMA SetStateKeeps ==
  ASSUME IInv, NEW t \in Threads, NEW l,
         \/ pc[t] \in Resolving /\ l \in Resolving
         \/ pc[t] \in Updating /\ l \in Updating,
         pc' = [pc EXCEPT ![t] = l],
         nud_state' \in [Entries -> {"NONE", "INCOMPLETE", "REACHABLE"}],
         UNCHANGED <<buckets, key, ha, arp_queue, pktVars, req, neigh, seen, skb, wireVars, latest, history>>
  PROVE  IInv'
  <1> USE DEF pktVars, wireVars, history
  <1>0. TypeOK
    BY DEF IInv
  <1>1. l \in Labels /\ pc' \in [Threads -> Labels]
    BY <1>0 DEF TypeOK, Labels, Resolving, Updating
  <1>2. TypeOK'
    BY <1>0, <1>1 DEF TypeOK, Out, Resolving, Updating
  <1>3. CallsSound'
    BY <1>0 DEF IInv, TypeOK, CallsSound, Resolving, Updating
  <1>4. BindingSound'
    BY <1>0 DEF IInv, TypeOK, BindingSound, Binding, Resolving, Updating
  <1>5. NeighSound'
    BY <1>0 DEF IInv, TypeOK, NeighSound, Resolving, Updating
  <1>6. DstSound' /\ HaSound' /\ QueueSound' /\ SentSound' /\ RightHost'
    BY DEF IInv, DstSound, HaSound, QueueSound, SentSound, RightHost
  <1> QED
    BY <1>2, <1>3, <1>4, <1>5, <1>6 DEF IInv

LEMMA SetIncompleteKeeps ==
  ASSUME IInv, NEW t \in Threads, SetIncomplete(t)
  PROVE  IInv'
  <1>1. pc[t] \in Resolving /\ "incomplete" \in Resolving
    BY DEF SetIncomplete, Resolving
  <1>2. nud_state' \in [Entries -> {"NONE", "INCOMPLETE", "REACHABLE"}]
    BY DEF SetIncomplete, IInv, TypeOK
  <1> QED
    BY <1>1, <1>2, SetStateKeeps DEF SetIncomplete

LEMMA SetReachableKeeps ==
  ASSUME IInv, NEW t \in Threads, SetReachable(t)
  PROVE  IInv'
  <1>1. pc[t] \in Updating /\ "setha" \in Updating
    BY DEF SetReachable, Updating
  <1>2. nud_state' \in [Entries -> {"NONE", "INCOMPLETE", "REACHABLE"}]
    BY DEF SetReachable, IInv, TypeOK
  <1> QED
    BY <1>1, <1>2, SetStateKeeps DEF SetReachable

\* The sender's hardware address is copied, first some bytes and then all: it is
\* one the host of the neighbour's key announced.
LEMMA HaKeeps ==
  ASSUME IInv, NEW t \in Threads, pc[t] \in Updating, NEW v \in {req[t].sha, TornMac}, NEW l \in Updating,
         ha' = [ha EXCEPT ![neigh[t]] = v], pc' = [pc EXCEPT ![t] = l],
         UNCHANGED <<buckets, key, nud_state, arp_queue, pktVars, req, neigh, seen, skb, wireVars, latest, history>>
  PROVE  IInv'
  <1> USE DEF pktVars, wireVars, history
  <1>0. TypeOK
    BY DEF IInv
  <1>1. /\ neigh[t] \in Entries /\ key[neigh[t]] = req[t].addr /\ req[t].addr \in Addrs
        /\ req[t].sha \in MacsOf[req[t].addr]
    BY <1>0 DEF IInv, TypeOK, NeighSound, CallsSound, Updating
  <1>2. req[t].sha \in Macs
    BY <1>1, MacsAssumption
  <1>3. /\ ha' \in [Entries -> Macs \cup {ZeroMac, TornMac}]
        /\ ha'[neigh[t]] = v
        /\ \A e \in Entries : e # neigh[t] => ha'[e] = ha[e]
    BY <1>0, <1>1, <1>2 DEF TypeOK
  <1>4. /\ pc' \in [Threads -> Labels] /\ pc'[t] = l /\ l \notin {"idle", "lookup", "create", "publish"}
        /\ l \notin Resolving
        /\ \A u \in Threads : u # t => pc'[u] = pc[u]
    BY <1>0 DEF TypeOK, Labels, Updating, Resolving
  <1>5. TypeOK'
    BY <1>0, <1>1, <1>3, <1>4, NullAssumption DEF TypeOK, Out
  <1>6. CallsSound'
    BY <1>0, <1>4 DEF IInv, TypeOK, CallsSound, Updating
  <1>7. BindingSound'
    <2>1. \A u \in Threads : Binding(u)' => u # t /\ Binding(u)
      BY <1>4 DEF Binding
    <2> QED
      BY <2>1 DEF IInv, BindingSound
  <1>8. NeighSound'
    BY <1>4 DEF IInv, NeighSound
  <1>9. HaSound'
    BY <1>1, <1>3, NullAssumption DEF IInv, HaSound
  <1>10. DstSound' /\ QueueSound' /\ SentSound' /\ RightHost'
    BY DEF IInv, DstSound, QueueSound, SentSound, RightHost
  <1> QED
    BY <1>5, <1>6, <1>7, <1>8, <1>9, <1>10 DEF IInv

LEMMA SetHaKeeps ==
  ASSUME IInv, NEW t \in Threads, SetHa(t)
  PROVE  IInv'
  <1>1. PICK v : v = IF ha[neigh[t]] = req[t].sha THEN ha[neigh[t]] ELSE TornMac
    OBVIOUS
  <1>2. v \in {req[t].sha, TornMac} /\ ha' = [ha EXCEPT ![neigh[t]] = v]
    BY <1>1 DEF SetHa
  <1>3. pc[t] \in Updating /\ "copyha" \in Updating
    BY DEF SetHa, Updating
  <1> QED
    BY <1>2, <1>3, HaKeeps DEF SetHa

LEMMA CopyHaKeeps ==
  ASSUME IInv, NEW t \in Threads, CopyHa(t)
  PROVE  IInv'
  <1>1. pc[t] \in Updating /\ "flush" \in Updating
    BY DEF CopyHa, Updating
  <1> QED
    BY <1>1, HaKeeps DEF CopyHa

\* neigh_resolve_output returns: what it means for the thread and its packet.
LEMMA Returns ==
  ASSUME IInv, NEW t \in Threads, pc[t] \in Resolving, Return(t),
         UNCHANGED <<key, daddr, dst, req, neigh>>
  PROVE  /\ pc' \in [Threads -> Labels] /\ skb' \in [Threads -> Skbs \cup {NULL}]
         /\ \A u \in Threads : /\ pc'[u] \in Resolving => Out(u)' # NULL /\ skb'[u] # NULL /\ key'[Out(u)'] # NULL
                               /\ pc'[u] \in Updating => neigh'[u] # NULL
         /\ CallsSound' /\ BindingSound' /\ NeighSound' /\ DstSound'
  <1>0. TypeOK
    BY DEF IInv
  <1> DEFINE l == IF req[t].job = "send" THEN "leave" ELSE "drain"
  <1>1. /\ l \in {"leave", "drain"} /\ (l = "drain" => req[t].job # "send")
        /\ pc' = [pc EXCEPT ![t] = l] /\ skb' = [skb EXCEPT ![t] = NULL]
    BY DEF Return
  <1> HIDE DEF l
  <1>2. /\ pc' \in [Threads -> Labels] /\ skb' \in [Threads -> Skbs \cup {NULL}]
        /\ pc'[t] = l
        /\ \A u \in Threads : u # t => pc'[u] = pc[u] /\ skb'[u] = skb[u]
    BY <1>0, <1>1 DEF TypeOK, Labels
  <1>3. l \notin Resolving /\ l \notin {"lookup", "create", "publish", "idle"}
    BY <1>1 DEF Resolving
  <1>4. pc[t] \notin {"idle", "leave"}
    BY DEF Resolving
  <1>5. l = "drain" => neigh[t] # NULL /\ key[neigh[t]] = req[t].addr
    BY <1>1 DEF IInv, NeighSound
  <1>6. l \in Updating => l = "drain"
    BY <1>1 DEF Updating
  <1>7. \A u \in Threads : /\ pc'[u] \in Resolving => Out(u)' # NULL /\ skb'[u] # NULL /\ key'[Out(u)'] # NULL
                           /\ pc'[u] \in Updating => neigh'[u] # NULL
    BY <1>0, <1>2, <1>3, <1>5, <1>6 DEF TypeOK, Out
  <1>8. CallsSound'
    BY <1>1, <1>2, <1>4 DEF IInv, CallsSound
  <1>9. BindingSound'
    <2>1. \A u \in Threads : Binding(u)' => u # t /\ Binding(u)
      BY <1>2, <1>3 DEF Binding
    <2> QED
      BY <2>1, <1>2 DEF IInv, BindingSound
  <1>10. NeighSound'
    BY <1>1, <1>2, <1>3, <1>5, <1>6 DEF IInv, NeighSound
  <1>11. DstSound'
    BY DEF IInv, DstSound
  <1> QED
    BY <1>2, <1>7, <1>8, <1>9, <1>10, <1>11

\* A list operation begins.
LEMMA BeginTyped ==
  ASSUME TypeOK, NEW t, NEW e \in Entries, BeginList(t, e)
  PROVE  torn' \subseteq Entries
  BY DEF TypeOK, BeginList

LEMMA EnqueueKeeps ==
  ASSUME IInv, NEW t \in Threads, Enqueue(t)
  PROVE  IInv'
  <1> USE DEF Enqueue, cacheVars, pktVars, wireVars
  <1>0. TypeOK /\ pc[t] \in Resolving
    BY DEF IInv, Resolving
  <1>1. torn' \subseteq Entries
    BY <1>0, ResolvingHolds, BeginTyped
  <1>2. /\ pc' \in [Threads -> Labels]
        /\ pc'[t] = "link" /\ pc'[t] \in Resolving
        /\ \A u \in Threads : u # t => pc'[u] = pc[u]
    BY <1>0 DEF TypeOK, Labels, Resolving
  <1>3. TypeOK'
    <2>1. pc'[t] \notin Updating
      BY <1>2 DEF Updating
    <2> QED
      BY <1>0, <1>1, <1>2, <2>1 DEF TypeOK, Out
  <1>4. CallsSound'
    BY <1>2 DEF IInv, CallsSound
  <1>5. BindingSound'
    <2>1. \A u \in Threads : Binding(u)' => Binding(u)
      BY <1>2 DEF Binding
    <2> QED
      BY <2>1 DEF IInv, BindingSound
  <1>6. NeighSound'
    BY <1>0, <1>2 DEF IInv, NeighSound, Updating
  <1>7. DstSound' /\ HaSound' /\ QueueSound' /\ SentSound' /\ RightHost'
    BY DEF IInv, DstSound, HaSound, QueueSound, SentSound, RightHost
  <1> QED
    BY <1>3, <1>4, <1>5, <1>6, <1>7 DEF IInv

\* The part of a queue up to a packet.
LEMMA Cut ==
  ASSUME NEW q \in Seq(Skbs), NEW i \in 0 .. Len(q)
  PROVE  /\ SubSeq(q, 1, i) \in Seq(Skbs)
         /\ DOMAIN SubSeq(q, 1, i) = 1 .. i /\ Len(SubSeq(q, 1, i)) = i
         /\ \A j \in 1 .. i : j \in DOMAIN q /\ SubSeq(q, 1, i)[j] = q[j]
  OBVIOUS

\* The packets p of a queue q are still on it, and its successor r is p or has s
\* behind p, which it has if nothing overlapped.
Kept(p, q, s, r, e) ==
  /\ r = p \/ r = Append(p, s)
  /\ \A i \in DOMAIN p : i \in DOMAIN q /\ p[i] = q[i]
  /\ e \notin torn => p = q /\ r = Append(q, s)

\* What skb_queue_tail may leave.
LEMMA LinkLeaves ==
  ASSUME NEW e, NEW q \in Seq(Skbs), NEW s \in Skbs, NEW r \in AfterLink(e, q, s)
  PROVE  \E p \in Seq(Skbs) : Kept(p, q, s, r, e)
  <1>1. CASE r = Append(q, s)
    <2>1. Kept(q, q, s, r, e)
      BY <1>1 DEF Kept
    <2> QED
      BY <2>1
  <1>2. CASE e \in torn /\ r = q
    <2>1. Kept(q, q, s, r, e)
      BY <1>2 DEF Kept
    <2> QED
      BY <2>1
  <1>3. ASSUME e \in torn, NEW i \in 0 .. Len(q), r = Append(SubSeq(q, 1, i), s)
        PROVE  \E p \in Seq(Skbs) : Kept(p, q, s, r, e)
    <2>1. PICK p : p = SubSeq(q, 1, i)
      OBVIOUS
    <2>2. p \in Seq(Skbs) /\ \A j \in DOMAIN p : j \in DOMAIN q /\ p[j] = q[j]
      BY <2>1, Cut
    <2>3. Kept(p, q, s, r, e)
      BY <1>3, <2>1, <2>2 DEF Kept
    <2> QED
      BY <2>2, <2>3
  <1>4. \/ r = Append(q, s) \/ (e \in torn /\ r = q)
        \/ e \in torn /\ \E i \in 0 .. Len(q) : r = Append(SubSeq(q, 1, i), s)
    BY Zenon DEF AfterLink
  <1> QED
    BY <1>1, <1>2, <1>3, <1>4, Zenon

\* A packet is put on the arp_queue of the neighbour it is bound to, or lost.
LEMMA LinkKeeps ==
  ASSUME IInv, NEW t \in Threads, Link(t)
  PROVE  IInv'
  <1>0. TypeOK /\ pc[t] \in Resolving
    BY DEF IInv, Resolving, Link
  <1>1. skb[t] \in Skbs /\ Out(t) \in Entries /\ dst[skb[t]] = Out(t)
    BY <1>0, ResolvingHolds DEF Out
  <1> DEFINE q == arp_queue[Out(t)]
  <1>a. /\ UNCHANGED <<buckets, key, nud_state, ha, daddr, dst, req, neigh, seen, frame, sent, asked, lost, latest, maker, torn>>
        /\ Return(t)
    BY DEF Link, pktVars, wireVars, history
  <1>b. PICK r \in AfterLink(Out(t), q, skb[t]) : arp_queue' = [arp_queue EXCEPT ![Out(t)] = r]
    BY DEF Link
  <1>c. q \in Seq(Skbs) /\ \A j \in DOMAIN q : dst[q[j]] = Out(t)
    BY <1>0, <1>1 DEF IInv, TypeOK, QueueSound
  <1> HIDE DEF q
  <1>d. PICK p \in Seq(Skbs) : Kept(p, q, skb[t], r, Out(t))
    BY <1>1, <1>c, LinkLeaves, Zenon
  <1>2. /\ pc' \in [Threads -> Labels] /\ skb' \in [Threads -> Skbs \cup {NULL}]
        /\ \A u \in Threads : /\ pc'[u] \in Resolving => Out(u)' # NULL /\ skb'[u] # NULL /\ key'[Out(u)'] # NULL
                              /\ pc'[u] \in Updating => neigh'[u] # NULL
        /\ CallsSound' /\ BindingSound' /\ NeighSound' /\ DstSound'
    BY <1>0, <1>a, Returns
  <1>3. r \in Seq(Skbs) /\ \A i \in DOMAIN r : dst[r[i]] = Out(t)
    <2>1. \A i \in DOMAIN p : dst[p[i]] = Out(t)
      BY <1>c, <1>d DEF Kept
    <2>2. \A i \in DOMAIN Append(p, skb[t]) : Append(p, skb[t])[i] = skb[t] \/ (i \in DOMAIN p /\ Append(p, skb[t])[i] = p[i])
      BY <1>1, <1>d
    <2> QED
      BY <1>1, <1>d, <2>1, <2>2 DEF Kept
  <1>4. /\ arp_queue' \in [Entries -> Seq(Skbs)]
        /\ arp_queue'[Out(t)] = r
        /\ \A e \in Entries : e # Out(t) => arp_queue'[e] = arp_queue[e]
    BY <1>0, <1>1, <1>3, <1>b DEF TypeOK
  <1>5. TypeOK'
    BY <1>0, <1>2, <1>4, <1>a DEF TypeOK
  <1>6. QueueSound'
    BY <1>3, <1>4, <1>a DEF IInv, QueueSound
  <1>7. HaSound' /\ SentSound' /\ RightHost'
    BY <1>a DEF IInv, HaSound, SentSound, RightHost
  <1> QED
    BY <1>2, <1>5, <1>6, <1>7 DEF IInv

\* A packet is written to the device.  Its neighbour's ha is empty or announced
\* by the host of the neighbour's key, which is the packet's destination.
LEMMA TransmitKeeps ==
  ASSUME IInv, NEW t \in Threads, Transmit(t)
  PROVE  IInv'
  <1> USE DEF Transmit, cacheVars, pktVars, history
  <1>0. TypeOK /\ pc[t] \in Resolving
    BY DEF IInv, Resolving
  <1>1. /\ skb[t] \in Skbs /\ Out(t) \in Entries /\ dst[skb[t]] = Out(t)
        /\ key[Out(t)] \in Addrs /\ daddr[skb[t]] = key[Out(t)]
    BY <1>0, ResolvingHolds DEF Out
  <1>2. /\ pc' \in [Threads -> Labels] /\ skb' \in [Threads -> Skbs \cup {NULL}]
        /\ \A u \in Threads : /\ pc'[u] \in Resolving => Out(u)' # NULL /\ skb'[u] # NULL /\ key'[Out(u)'] # NULL
                              /\ pc'[u] \in Updating => neigh'[u] # NULL
        /\ CallsSound' /\ BindingSound' /\ NeighSound' /\ DstSound'
    BY <1>0, Returns
  <1>3. /\ frame' \in [Skbs -> Macs \cup {ZeroMac, TornMac, NULL}]
        /\ frame'[skb[t]] = ha[Out(t)]
        /\ \A q \in Skbs : q # skb[t] => frame'[q] = frame[q]
    BY <1>0, <1>1 DEF TypeOK
  <1>4. sent' \in [Addrs -> Seq(Skbs)]
    BY <1>0, <1>1 DEF TypeOK
  <1>5. TypeOK'
    BY <1>0, <1>2, <1>3, <1>4 DEF TypeOK
  <1>6. SentSound'
    BY <1>1, <1>3, NullAssumption DEF IInv, SentSound
  <1>7. RightHost'
    <2>1. ha[Out(t)] \in MacsOf[daddr[skb[t]]] \cup {ZeroMac, TornMac}
      BY <1>1 DEF IInv, HaSound
    <2> QED
      BY <2>1, <1>3 DEF IInv, RightHost
  <1>8. HaSound' /\ QueueSound'
    BY DEF IInv, HaSound, QueueSound
  <1> QED
    BY <1>2, <1>5, <1>6, <1>7, <1>8 DEF IInv

\* neigh_update takes the packets off the queue one by one: each is bound to the
\* neighbour it updates.
LEMMA DrainKeeps ==
  ASSUME IInv, NEW t \in Threads, Drain(t)
  PROVE  IInv'
  <1> USE DEF Drain, pktVars, wireVars, history
  <1> DEFINE q == arp_queue[neigh[t]]
  <1>0. TypeOK /\ pc[t] \in Updating /\ NULL \notin Addrs
    BY NullAssumption DEF IInv, Updating
  <1>1. /\ neigh[t] \in Entries /\ neigh[t] # NULL /\ key[neigh[t]] = req[t].addr
        /\ req[t].addr \in Addrs /\ req[t].job # "send"
    BY <1>0 DEF IInv, TypeOK, NeighSound, CallsSound
  <1>2. q \in Seq(Skbs) /\ \A i \in DOMAIN q : dst[q[i]] = neigh[t]
    BY <1>0, <1>1 DEF IInv, TypeOK, QueueSound
  <1>3. CASE q = <<>>
    <2>1. Goto(t, "leave")
      BY <1>3 DEF Goto, cacheVars
    <2> QED
      BY <2>1, <1>0, GotoKeeps
  <1>4. CASE q # <<>>
    <2>00. torn' \subseteq Entries
      BY <1>0, <1>1, <1>4, BeginTyped
    <2>0. /\ arp_queue' = [arp_queue EXCEPT ![neigh[t]] = Tail(q)]
          /\ skb' = [skb EXCEPT ![t] = Head(q)]
          /\ pc' = [pc EXCEPT ![t] = "unlink"]
      BY <1>4
    <2> HIDE DEF q
    <2>1. /\ Head(q) \in Skbs /\ dst[Head(q)] = neigh[t]
          /\ Tail(q) \in Seq(Skbs) /\ \A i \in DOMAIN Tail(q) : dst[Tail(q)[i]] = neigh[t]
      BY <1>2, <1>4
    <2>2. /\ arp_queue' \in [Entries -> Seq(Skbs)]
          /\ arp_queue'[neigh[t]] = Tail(q)
          /\ \A e \in Entries : e # neigh[t] => arp_queue'[e] = arp_queue[e]
      BY <1>0, <1>1, <2>0, <2>1 DEF TypeOK
    <2>3. /\ pc' \in [Threads -> Labels] /\ skb' \in [Threads -> Skbs \cup {NULL}]
          /\ pc'[t] = "unlink" /\ skb'[t] = Head(q)
          /\ \A u \in Threads : u # t => pc'[u] = pc[u] /\ skb'[u] = skb[u]
      BY <1>0, <2>0, <2>1 DEF TypeOK, Labels
    <2>4. "unlink" \in Resolving /\ "unlink" \notin Updating
      BY DEF Resolving, Updating
    <2>5. TypeOK'
      <3>1. Head(q) # NULL /\ dst'[Head(q)] # NULL /\ key'[dst'[Head(q)]] # NULL
        BY <1>0, <1>1, <2>1, NullAssumption
      <3>2. ASSUME NEW u \in Threads
            PROVE  /\ pc'[u] \in Resolving => skb'[u] # NULL /\ dst'[skb'[u]] # NULL /\ key'[dst'[skb'[u]]] # NULL
                   /\ pc'[u] \in Updating => neigh'[u] # NULL
        BY <1>0, <2>3, <2>4, <3>1 DEF TypeOK, Out
      <3>3. UNCHANGED <<buckets, key, nud_state, ha, daddr, dst, req, neigh, seen, frame, sent, asked, lost, latest, maker>>
        OBVIOUS
      <3> HIDE DEF Drain
      <3> QED
        BY <1>0, <2>00, <2>2, <2>3, <3>2, <3>3 DEF TypeOK, Out
    <2>6. CallsSound'
      BY <2>3 DEF IInv, CallsSound
    <2>7. BindingSound'
      <3>1. \A u \in Threads : Binding(u)' => u # t /\ Binding(u)
        BY <2>3 DEF Binding
      <3> QED
        BY <3>1, <2>3 DEF IInv, BindingSound
    <2>8. NeighSound'
      BY <1>1, <2>3, <2>4 DEF IInv, NeighSound
    <2>9. QueueSound'
      BY <2>1, <2>2, ZenonT(40) DEF IInv, QueueSound
    <2>10. DstSound' /\ HaSound' /\ SentSound' /\ RightHost'
      BY DEF IInv, DstSound, HaSound, SentSound, RightHost
    <2> QED
      BY <2>5, <2>6, <2>7, <2>8, <2>9, <2>10 DEF IInv
  <1> QED
    BY <1>3, <1>4

\* The call returns.
LEMMA LeaveKeeps ==
  ASSUME IInv, NEW t \in Threads, Leave(t)
  PROVE  IInv'
  <1> USE DEF Leave, cacheVars, pktVars, wireVars, history
  <1>0. TypeOK /\ NoCall \in Calls
    BY DEF IInv, NoCall, Calls, Jobs
  <1>1. /\ pc' \in [Threads -> Labels] /\ req' \in [Threads -> Calls]
        /\ neigh' \in [Threads -> Entries \cup {NULL}] /\ skb' \in [Threads -> Skbs \cup {NULL}]
        /\ pc'[t] = "idle"
        /\ \A u \in Threads : u # t => /\ pc'[u] = pc[u] /\ req'[u] = req[u]
                                       /\ neigh'[u] = neigh[u] /\ skb'[u] = skb[u]
    BY <1>0 DEF TypeOK, Labels
  <1>2. "idle" \notin Resolving /\ "idle" \notin Updating
    BY DEF Resolving, Updating
  <1>3. TypeOK'
    BY <1>0, <1>1, <1>2 DEF TypeOK, Out
  <1>4. CallsSound'
    BY <1>1 DEF IInv, CallsSound
  <1>5. BindingSound'
    <2>1. \A u \in Threads : Binding(u)' => u # t /\ Binding(u)
      BY <1>1 DEF Binding
    <2> QED
      BY <2>1, <1>1 DEF IInv, BindingSound
  <1>6. NeighSound'
    BY <1>1, <1>2 DEF IInv, NeighSound
  <1>7. DstSound' /\ HaSound' /\ QueueSound' /\ SentSound' /\ RightHost'
    BY DEF IInv, DstSound, HaSound, QueueSound, SentSound, RightHost
  <1> QED
    BY <1>3, <1>4, <1>5, <1>6, <1>7 DEF IInv

\* One step of one thread.
LEMMA StepKeeps ==
  ASSUME IInv, NEW t \in Threads, Step(t)
  PROVE  IInv'
  <1>1. CASE IfReachable(t)
    <2>1. PICK l \in {"xmit", "none"} : Goto(t, l)
      BY <1>1 DEF IfReachable
    <2> QED
      BY <1>1, <2>1, GotoKeeps DEF IfReachable, Resolving
  <1>2. CASE IfNone(t)
    <2>1. PICK l \in {"solicit", "incomplete"} : Goto(t, l)
      BY <1>2 DEF IfNone
    <2> QED
      BY <1>2, <2>1, GotoKeeps DEF IfNone, Resolving
  <1>3. CASE IfIncomplete(t)
    <2>1. PICK l \in {"enqueue", "xmit"} : Goto(t, l)
      BY <1>3 DEF IfIncomplete
    <2> QED
      BY <1>3, <2>1, GotoKeeps DEF IfIncomplete, Resolving
  <1>4. CASE IfFlush(t)
    <2>1. PICK l \in {"drain", "leave"} : Goto(t, l)
      BY <1>4 DEF IfFlush
    <2>2. pc[t] \in Updating /\ l \in Updating \cup {"leave"}
      BY <1>4 DEF IfFlush, Updating
    <2> QED
      BY <2>1, <2>2, GotoKeeps
  <1>5. CASE Unlink(t)
    BY <1>5, GotoKeeps DEF Unlink, Resolving
  <1> QED
    BY <1>1, <1>2, <1>3, <1>4, <1>5, LookupKeeps, CreateKeeps, CreateFailsKeeps, PublishKeeps,
       SolicitKeeps, SetIncompleteKeeps, EnqueueKeeps, LinkKeeps, TransmitKeeps,
       SetReachableKeeps, SetHaKeeps, CopyHaKeeps, DrainKeeps, LeaveKeeps
    DEF Step, Resolve, Update

\* Every step of the system keeps the invariant.
LEMMA NextIInv == IInv /\ [Next]_vars => IInv'
  <1> SUFFICES ASSUME IInv, [Next]_vars PROVE IInv'
    OBVIOUS
  <1>1. CASE \E t \in Threads : Step(t)
    BY <1>1, StepKeeps
  <1>2. CASE \E t \in Threads, k \in Addrs, s \in Skbs : Send(t, k, s)
    BY <1>2, SendKeeps
  <1>3. ASSUME NEW k \in Addrs, NEW m \in MacsOf[k], NEW job \in {"ask", "tell"}, Unprompted(job, k, m)
        PROVE  IInv'
    <2>1. asked' \subseteq Addrs
      BY <1>3 DEF Unprompted, IInv, TypeOK
    <2> QED
      BY <1>3, <2>1, ArpInKeeps DEF Unprompted
  <1>4. ASSUME NEW k \in Addrs, NEW m \in MacsOf[k], Answered(k, m)
        PROVE  IInv'
    <2>1. asked' \subseteq Addrs
      BY <1>4 DEF Answered, IInv, TypeOK
    <2>2. ArpIn("tell", k, m)
      BY <1>4 DEF Answered
    <2> QED
      BY <2>1, <2>2, ArpInKeeps
  <1>5. CASE \E k \in Addrs : Lose(k)
    <2> USE <1>5 DEF Lose, cacheVars, pktVars, history, threadVars
    <2>1. TypeOK'
      BY DEF IInv, TypeOK, Out
    <2>2. CallsSound' /\ BindingSound' /\ NeighSound'
      BY DEF IInv, CallsSound, BindingSound, Binding, NeighSound
    <2>3. DstSound' /\ HaSound' /\ QueueSound' /\ SentSound' /\ RightHost'
      BY DEF IInv, DstSound, HaSound, QueueSound, SentSound, RightHost
    <2> QED
      BY <2>1, <2>2, <2>3 DEF IInv
  <1>6. CASE UNCHANGED vars
    <2> USE <1>6 DEF vars, cacheVars, pktVars, threadVars, wireVars, history
    <2>1. TypeOK'
      BY DEF IInv, TypeOK, Out
    <2>2. CallsSound' /\ BindingSound' /\ NeighSound'
      BY DEF IInv, CallsSound, BindingSound, Binding, NeighSound
    <2>3. DstSound' /\ HaSound' /\ QueueSound' /\ SentSound' /\ RightHost'
      BY DEF IInv, DstSound, HaSound, QueueSound, SentSound, RightHost
    <2> QED
      BY <2>1, <2>2, <2>3 DEF IInv
  <1> QED
    BY <1>1, <1>2, <1>3, <1>4, <1>5, <1>6 DEF Next

\* The invariant holds of every behaviour of the cache, whatever the number of
\* sending threads.
THEOREM Inductive == Spec => []IInv
  BY InitIInv, NextIInv, PTL DEF Spec

\* No thread inside neigh_resolve_output or neigh_update ever goes through a NULL
\* pointer (a packet without a neighbour, a neighbour that was not allocated).
THEOREM NoNullPointer == Spec => []TypeOK
  <1>1. IInv => TypeOK
    BY DEF IInv
  <1> QED
    BY <1>1, Inductive, PTL

\* However sends and ARP packets interleave, no frame leaves with the hardware
\* address of another host.
THEOREM RightHosts == Spec => []RightHost
  <1>1. IInv => RightHost
    BY DEF IInv
  <1> QED
    BY <1>1, Inductive, PTL

-----------------------------------------------------------------------------
(* Owners *)

\* A family of queues: a packet is on some queue of it, and on one at most once;
\* a step changes one queue.
On(F, X, s) == \E x \in X : \E i \in DOMAIN F[x] : F[x][i] = s
Once(F, X) ==
  \A x, y \in X : \A i \in DOMAIN F[x] : \A j \in DOMAIN F[y] :
    F[x][i] = F[y][j] => x = y /\ i = j
SameBut(F, G, X, x) == \A y \in X : y # x => G[y] = F[y]

Held(s) == \E t \in Threads : skb[t] = s
Queued(s) == On(arp_queue, Entries, s)
Gone(s) == On(sent, Addrs, s)

\* A thread has a packet in its hands only while it binds or resolves it.
HandsFree == \A t \in Threads : skb[t] # NULL => pc[t] \in Resolving \/ Binding(t)

\* The hands, the queues and the device have no packet in common.
Apart ==
  /\ \A t, u \in Threads : skb[t] # NULL /\ skb[t] = skb[u] => t = u
  /\ Once(arp_queue, Entries)
  /\ Once(sent, Addrs)
  /\ \A s \in Skbs : /\ ~ (Held(s) /\ Queued(s))
                     /\ ~ (Held(s) /\ Gone(s))
                     /\ ~ (Queued(s) /\ Gone(s))

\* A bound packet is somewhere, or operations on its queue have overlapped; what
\* has left was bound.
Placed == \A s \in Skbs : /\ dst[s] # NULL => Held(s) \/ Queued(s) \/ Gone(s) \/ dst[s] \in torn
                          /\ Gone(s) => dst[s] # NULL

Owned == HandsFree /\ Apart /\ Placed

-----------------------------------------------------------------------------
(* Queues *)

\* What skb_queue_tail leaves.
LEMMA Appended ==
  ASSUME NEW q \in Seq(Skbs), NEW s \in Skbs, NEW r, r = Append(q, s)
  PROVE  /\ DOMAIN q = 1 .. Len(q) /\ Len(q) \in Nat
         /\ DOMAIN r = 1 .. Len(q) + 1 /\ r[Len(q) + 1] = s
         /\ \A i \in 1 .. Len(q) : r[i] = q[i]
  OBVIOUS

\* A packet that is on no queue is put at the end of one.
LEMMA PutOnce ==
  ASSUME NEW X, NEW F \in [X -> Seq(Skbs)], Once(F, X), NEW s \in Skbs, ~ On(F, X, s),
         NEW x \in X, NEW G, G[x] = Append(F[x], s), SameBut(F, G, X, x)
  PROVE  /\ Once(G, X)
         /\ \A p : On(G, X, p) <=> On(F, X, p) \/ p = s
  <1> DEFINE n == Len(F[x])
  <1>1. F[x] \in Seq(Skbs) /\ G[x] = Append(F[x], s) /\ \A y \in X : y # x => G[y] = F[y]
    BY DEF SameBut
  <1>2. /\ DOMAIN F[x] = 1 .. n /\ n \in Nat
        /\ DOMAIN G[x] = 1 .. n + 1 /\ G[x][n + 1] = s
        /\ \A i \in 1 .. n : G[x][i] = F[x][i]
    BY <1>1, Appended
  <1>3. \A y \in X : y # x => G[y] = F[y]
    BY <1>1
  <1> HIDE DEF n
  <1>4. \A i \in DOMAIN G[x] : (i \in DOMAIN F[x] /\ G[x][i] = F[x][i]) \/ (i = n + 1 /\ G[x][i] = s)
    BY <1>2
  <1>5. \A y \in X : \A i \in DOMAIN F[y] : i \in DOMAIN G[y] /\ G[y][i] = F[y][i]
    BY <1>2, <1>3, SMTT(40)
  <1>6. \A y \in X : \A i \in DOMAIN F[y] : F[y][i] # s
    BY DEF On
  <1>7. \A y \in X : \A i \in DOMAIN G[y] :
          (i \in DOMAIN F[y] /\ G[y][i] = F[y][i]) \/ (y = x /\ i = n + 1 /\ G[y][i] = s)
    BY <1>3, <1>4
  <1>8. Once(G, X)
    <2> SUFFICES ASSUME NEW y \in X, NEW z \in X, NEW i \in DOMAIN G[y], NEW j \in DOMAIN G[z],
                        G[y][i] = G[z][j]
                 PROVE  y = z /\ i = j
      BY DEF Once
    <2>1. CASE i \in DOMAIN F[y] /\ G[y][i] = F[y][i] /\ j \in DOMAIN F[z] /\ G[z][j] = F[z][j]
      <3>1. F[y][i] = F[z][j]
        BY <2>1, Zenon
      <3> QED
        BY <2>1, <3>1 DEF Once
    <2> QED
      BY <1>6, <1>7, <2>1
  <1>9. n + 1 \in DOMAIN G[x] /\ G[x][n + 1] = s
    BY <1>2
  <1>10. \A p : On(G, X, p) <=> On(F, X, p) \/ p = s
    <2>1. ASSUME NEW p, On(G, X, p) PROVE On(F, X, p) \/ p = s
      BY <1>7, <2>1 DEF On
    <2>2. ASSUME NEW p, On(F, X, p) PROVE On(G, X, p)
      BY <1>5, <2>2 DEF On
    <2>3. On(G, X, s)
      BY <1>9 DEF On
    <2> QED
      BY <2>1, <2>2, <2>3
  <1> QED
    BY <1>8, <1>10

\* Packets get lost from the end of a queue.
LEMMA ShrinkOnce ==
  ASSUME NEW X, NEW F \in [X -> Seq(Skbs)], Once(F, X), NEW x \in X, NEW G, SameBut(F, G, X, x),
         \A i \in DOMAIN G[x] : i \in DOMAIN F[x] /\ G[x][i] = F[x][i]
  PROVE  Once(G, X) /\ \A p : On(G, X, p) => On(F, X, p)
  <1>1. \A y \in X : \A i \in DOMAIN G[y] : i \in DOMAIN F[y] /\ G[y][i] = F[y][i]
    BY Zenon DEF SameBut
  <1>2. ASSUME NEW y \in X, NEW z \in X, NEW i \in DOMAIN G[y], NEW j \in DOMAIN G[z], G[y][i] = G[z][j]
        PROVE  y = z /\ i = j
    <2>1. i \in DOMAIN F[y] /\ j \in DOMAIN F[z] /\ F[y][i] = F[z][j]
      BY <1>1, <1>2, Zenon
    <2> QED
      BY <2>1 DEF Once
  <1>3. Once(G, X)
    BY <1>2 DEF Once
  <1>4. \A p : On(G, X, p) => On(F, X, p)
    BY <1>1, Zenon DEF On
  <1> QED
    BY <1>3, <1>4

\* The first packet of a queue is taken off it.
LEMMA TakeOnce ==
  ASSUME NEW X, NEW F \in [X -> Seq(Skbs)], Once(F, X), NEW x \in X, F[x] # <<>>,
         NEW G, G[x] = Tail(F[x]), SameBut(F, G, X, x)
  PROVE  /\ Once(G, X)
         /\ Head(F[x]) \in Skbs /\ On(F, X, Head(F[x]))
         /\ \A p : On(G, X, p) <=> On(F, X, p) /\ p # Head(F[x])
  <1> DEFINE q == F[x]
             n == Len(q)
             r == Tail(q)
             h == Head(q)
  <1>1. q \in Seq(Skbs) /\ n \in Nat /\ n >= 1 /\ DOMAIN q = 1 .. n /\ h = q[1] /\ h \in Skbs
    OBVIOUS
  <1>2. DOMAIN r = 1 .. n - 1 /\ \A i \in 1 .. n - 1 : r[i] = q[i + 1]
    BY <1>1
  <1>3. G[x] = r /\ \A y \in X : y # x => G[y] = F[y]
    BY DEF SameBut
  <1> HIDE DEF r, n, h
  <1>4. \A i \in DOMAIN G[x] : i \in Int /\ i + 1 \in DOMAIN F[x] /\ i + 1 # 1 /\ G[x][i] = F[x][i + 1]
    BY <1>1, <1>2, <1>3
  <1>5. \A i \in DOMAIN F[x] : i = 1 \/ (i - 1 \in DOMAIN G[x] /\ G[x][i - 1] = F[x][i])
    BY <1>1, <1>2, <1>3
  <1>6. 1 \in DOMAIN F[x] /\ F[x][1] = h
    BY <1>1
  <1> HIDE DEF q
  <1>7. Once(G, X)
    <2> SUFFICES ASSUME NEW y \in X, NEW z \in X, NEW i \in DOMAIN G[y], NEW j \in DOMAIN G[z],
                        G[y][i] = G[z][j]
                 PROVE  y = z /\ i = j
      BY DEF Once
    <2>1. CASE y = x /\ z = x
      <3>1. /\ i + 1 \in DOMAIN F[x] /\ j + 1 \in DOMAIN F[x] /\ i \in Int /\ j \in Int
            /\ F[x][i + 1] = F[x][j + 1]
        BY <1>4, <2>1, Zenon
      <3>2. i + 1 = j + 1
        BY <3>1 DEF Once
      <3> QED
        BY <2>1, <3>1, <3>2
    <2>2. CASE y = x /\ z # x
      <3>1. i + 1 \in DOMAIN F[x] /\ j \in DOMAIN F[z] /\ F[x][i + 1] = F[z][j]
        BY <1>3, <1>4, <2>2, Zenon
      <3> QED
        BY <2>2, <3>1 DEF Once
    <2>3. CASE y # x /\ z = x
      <3>1. i \in DOMAIN F[y] /\ j + 1 \in DOMAIN F[x] /\ F[y][i] = F[x][j + 1]
        BY <1>3, <1>4, <2>3, Zenon
      <3> QED
        BY <2>3, <3>1 DEF Once
    <2>4. CASE y # x /\ z # x
      <3>1. i \in DOMAIN F[y] /\ j \in DOMAIN F[z] /\ F[y][i] = F[z][j]
        BY <1>3, <2>4, Zenon
      <3> QED
        BY <3>1 DEF Once
    <2> QED
      BY <2>1, <2>2, <2>3, <2>4
  <1>8. On(F, X, h)
    BY <1>6 DEF On
  <1>9. ASSUME NEW p PROVE On(G, X, p) <=> On(F, X, p) /\ p # h
    <2>1. ASSUME On(G, X, p) PROVE On(F, X, p) /\ p # h
      <3>1. PICK y \in X : \E i \in DOMAIN G[y] : G[y][i] = p
        BY <2>1 DEF On
      <3>2. PICK i \in DOMAIN G[y] : G[y][i] = p
        BY <3>1
      <3>3. CASE y = x
        <4>1. i + 1 \in DOMAIN F[x] /\ F[x][i + 1] = p /\ i + 1 # 1
          BY <1>4, <3>2, <3>3
        <4>2. On(F, X, p)
          BY <4>1, Zenon DEF On
        <4> QED
          BY <1>6, <4>1, <4>2 DEF Once
      <3>4. CASE y # x
        BY <1>3, <1>6, <3>2, <3>4 DEF On, Once
      <3> QED
        BY <3>3, <3>4
    <2>2. ASSUME On(F, X, p), p # h PROVE On(G, X, p)
      <3>1. PICK y \in X : \E i \in DOMAIN F[y] : F[y][i] = p
        BY <2>2 DEF On
      <3>2. PICK i \in DOMAIN F[y] : F[y][i] = p
        BY <3>1
      <3>3. CASE y = x
        <4>1. i - 1 \in DOMAIN G[x] /\ G[x][i - 1] = p
          BY <1>5, <1>6, <2>2, <3>2, <3>3
        <4> QED
          BY <4>1, Zenon DEF On
      <3>4. CASE y # x
        BY <1>3, <3>2, <3>4, Zenon DEF On
      <3> QED
        BY <3>3, <3>4
    <2> QED
      BY <2>1, <2>2
  <1> QED
    BY <1>1, <1>7, <1>8, <1>9 DEF h, q

-----------------------------------------------------------------------------
(* Steps *)

\* A thread takes a packet that nobody holds, or lets go of the one it has.
LEMMA HandSet ==
  ASSUME TypeOK, Apart, NEW t \in Threads, NEW v \in Skbs \cup {NULL},
         v # NULL => ~ Held(v), skb' = [skb EXCEPT ![t] = v]
  PROVE  /\ \A q \in Skbs : Held(q)' <=> q = v \/ (Held(q) /\ q # skb[t])
         /\ \A u, w \in Threads : skb'[u] # NULL /\ skb'[u] = skb'[w] => u = w
  <1>1. skb'[t] = v /\ \A u \in Threads : u # t => skb'[u] = skb[u]
    BY DEF TypeOK
  <1>2. \A u, w \in Threads : skb[u] # NULL /\ skb[u] = skb[w] => u = w
    BY DEF Apart
  <1>3. v # NULL => \A u \in Threads : skb[u] # v
    BY DEF Held
  <1>4. \A u, w \in Threads : skb'[u] # NULL /\ skb'[u] = skb'[w] => u = w
    BY <1>1, <1>2, <1>3
  <1>5. ASSUME NEW q \in Skbs PROVE Held(q)' <=> q = v \/ (Held(q) /\ q # skb[t])
    <2>1. q # NULL
      BY NullAssumption
    <2>2. Held(q)' <=> \E u \in Threads : skb'[u] = q
      BY DEF Held
    <2> QED
      BY <1>1, <1>2, <2>1, <2>2 DEF Held
  <1> QED
    BY <1>4, <1>5

\* A step that moves no packet, and binds none but one a thread holds.
LEMMA Unmoved ==
  ASSUME Owned, HandsFree', UNCHANGED <<skb, arp_queue, sent>>, torn \subseteq torn',
         \A s \in Skbs : dst'[s] = dst[s] \/ (Held(s) /\ dst[s] = NULL)
  PROVE  Owned'
  <1>1. \A s : (Held(s)' <=> Held(s)) /\ (Queued(s)' <=> Queued(s)) /\ (Gone(s)' <=> Gone(s))
    BY DEF Held, Queued, Gone
  <1>2. Apart'
    BY <1>1 DEF Owned, Apart
  <1>3. Placed'
    BY <1>1 DEF Owned, Placed, Apart
  <1> QED
    BY <1>2, <1>3 DEF Owned

\* Packets in hand or on a queue are in use.
LEMMA InUse ==
  ASSUME IInv, Owned, NEW s \in Skbs, Held(s) \/ Queued(s) \/ Gone(s)
  PROVE  daddr[s] # NULL
  <1>0. NULL \notin Addrs /\ NULL \notin Entries /\ NULL \notin Skbs
    BY NullAssumption
  <1>1. CASE Held(s)
    <2>1. PICK t \in Threads : skb[t] = s
      BY <1>1 DEF Held
    <2>2. CASE Binding(t)
      BY <1>0, <2>1, <2>2 DEF IInv, BindingSound, CallsSound, Binding
    <2>3. CASE pc[t] \in Resolving
      BY <1>0, <2>1, <2>3, ResolvingHolds
    <2> QED
      BY <1>0, <2>1, <2>2, <2>3 DEF Owned, HandsFree
  <1>2. CASE Queued(s)
    BY <1>0, <1>2 DEF Queued, On, IInv, QueueSound, DstSound
  <1>3. CASE Gone(s)
    BY <1>3 DEF Owned, Placed, IInv, DstSound
  <1> QED
    BY <1>1, <1>2, <1>3

\* A packet is taken for a new send.
LEMMA SendOwned ==
  ASSUME IInv, Owned, NEW t \in Threads, NEW k \in Addrs, NEW s \in Skbs, Send(t, k, s)
  PROVE  Owned'
  <1>0. TypeOK /\ Apart /\ HandsFree /\ Placed /\ s # NULL /\ NULL \notin Skbs
    BY NullAssumption DEF IInv, Owned
  <1>1. ~ Held(s) /\ ~ Queued(s) /\ ~ Gone(s)
    BY InUse DEF Send
  <1>2. /\ skb' = [skb EXCEPT ![t] = s] /\ UNCHANGED <<arp_queue, sent, dst, torn>>
        /\ pc[t] = "idle" /\ pc' = [pc EXCEPT ![t] = "lookup"]
        /\ req' = [req EXCEPT ![t] = [job |-> "send", addr |-> k, sha |-> NULL]]
    BY DEF Send, cacheVars, wireVars, history
  <1>3. skb[t] = NULL
    BY <1>0, <1>2 DEF HandsFree, Binding, Resolving
  <1>4. /\ \A q \in Skbs : Held(q)' <=> q = s \/ (Held(q) /\ q # skb[t])
        /\ \A u, w \in Threads : skb'[u] # NULL /\ skb'[u] = skb'[w] => u = w
    BY <1>0, <1>1, <1>2, HandSet
  <1>5. \A q : (Queued(q)' <=> Queued(q)) /\ (Gone(q)' <=> Gone(q))
    BY <1>2 DEF Queued, Gone
  <1>6. HandsFree'
    <2>1. pc'[t] = "lookup" /\ req'[t].job = "send"
      BY <1>0, <1>2 DEF TypeOK
    <2>2. \A u \in Threads : u # t => pc'[u] = pc[u] /\ req'[u] = req[u] /\ skb'[u] = skb[u]
      BY <1>0, <1>2 DEF TypeOK
    <2> QED
      BY <1>0, <2>1, <2>2 DEF HandsFree, Binding
  <1>7. Apart'
    BY <1>0, <1>1, <1>2, <1>3, <1>4, <1>5 DEF Apart
  <1>8. Placed'
    BY <1>0, <1>2, <1>3, <1>4, <1>5 DEF Placed
  <1> QED
    BY <1>6, <1>7, <1>8 DEF Owned

\* A thread lets go of a packet that is not bound, or has none.
LEMMA LetGo ==
  ASSUME IInv, Owned, NEW t \in Threads, skb[t] # NULL => dst[skb[t]] = NULL,
         skb' = [skb EXCEPT ![t] = NULL], UNCHANGED <<arp_queue, sent, dst, torn>>, HandsFree'
  PROVE  Owned'
  <1>0. TypeOK /\ Apart /\ Placed /\ NULL \notin Skbs
    BY NullAssumption DEF IInv, Owned
  <1>1. /\ \A q \in Skbs : Held(q)' <=> q = NULL \/ (Held(q) /\ q # skb[t])
        /\ \A u, w \in Threads : skb'[u] # NULL /\ skb'[u] = skb'[w] => u = w
    BY <1>0, HandSet
  <1>2. \A q : (Queued(q)' <=> Queued(q)) /\ (Gone(q)' <=> Gone(q))
    BY DEF Queued, Gone
  <1>3. Apart'
    BY <1>0, <1>1, <1>2 DEF Apart
  <1>4. Placed'
    BY <1>0, <1>1, <1>2 DEF Placed
  <1> QED
    BY <1>3, <1>4 DEF Owned

\* The packet in hand goes to the end of a queue or to the device.
LEMMA HandedOver ==
  ASSUME IInv, Owned, NEW t \in Threads, pc[t] \in Resolving, Return(t),
         UNCHANGED <<dst, req, torn>>,
         \/ /\ UNCHANGED sent
            /\ \E e \in Entries : arp_queue' = [arp_queue EXCEPT ![e] = Append(arp_queue[e], skb[t])]
         \/ /\ UNCHANGED arp_queue
            /\ \E k \in Addrs : sent' = [sent EXCEPT ![k] = Append(sent[k], skb[t])]
  PROVE  Owned'
  <1>0. TypeOK /\ Apart /\ Placed /\ HandsFree /\ NULL \notin Skbs
    BY NullAssumption DEF IInv, Owned
  <1> DEFINE s == skb[t]
  <1>1. s \in Skbs /\ s # NULL /\ dst[s] # NULL
    BY <1>0 DEF TypeOK, Out
  <1>2. Held(s)
    BY DEF Held
  <1>3. ~ Queued(s) /\ ~ Gone(s)
    BY <1>0, <1>1, <1>2 DEF Apart
  <1>4. skb' = [skb EXCEPT ![t] = NULL] /\ pc' = [pc EXCEPT ![t] = IF req[t].job = "send" THEN "leave" ELSE "drain"]
    BY DEF Return
  <1> HIDE DEF s
  <1>5. /\ \A q \in Skbs : Held(q)' <=> q = NULL \/ (Held(q) /\ q # s)
        /\ \A u, w \in Threads : skb'[u] # NULL /\ skb'[u] = skb'[w] => u = w
    BY <1>0, <1>4, HandSet DEF s
  <1>6. HandsFree'
    <2>1. skb'[t] = NULL /\ \A u \in Threads : u # t => pc'[u] = pc[u] /\ skb'[u] = skb[u]
      BY <1>0, <1>4 DEF TypeOK
    <2> QED
      BY <1>0, <2>1 DEF HandsFree, Binding
  <1>7. CASE UNCHANGED sent /\ \E e \in Entries : arp_queue' = [arp_queue EXCEPT ![e] = Append(arp_queue[e], s)]
    <2>1. PICK e \in Entries : arp_queue' = [arp_queue EXCEPT ![e] = Append(arp_queue[e], s)]
      BY <1>7
    <2>2. arp_queue \in [Entries -> Seq(Skbs)] /\ Once(arp_queue, Entries) /\ ~ On(arp_queue, Entries, s)
          /\ arp_queue'[e] = Append(arp_queue[e], s) /\ SameBut(arp_queue, arp_queue', Entries, e)
      BY <1>0, <1>3, <2>1 DEF TypeOK, Apart, Queued, SameBut
    <2>3. /\ Once(arp_queue', Entries)
          /\ \A p : On(arp_queue', Entries, p) <=> On(arp_queue, Entries, p) \/ p = s
      BY <1>1, <2>2, PutOnce, Zenon
    <2>4. \A q : (Queued(q)' <=> Queued(q) \/ q = s) /\ (Gone(q)' <=> Gone(q))
      BY <1>7, <2>3 DEF Queued, Gone
    <2>5. Apart'
      BY <1>0, <1>3, <1>5, <1>7, <2>3, <2>4 DEF Apart
    <2>6. Placed'
      BY <1>0, <1>5, <2>4 DEF Placed
    <2> QED
      BY <1>6, <2>5, <2>6 DEF Owned
  <1>8. CASE UNCHANGED arp_queue /\ \E k \in Addrs : sent' = [sent EXCEPT ![k] = Append(sent[k], s)]
    <2>1. PICK k \in Addrs : sent' = [sent EXCEPT ![k] = Append(sent[k], s)]
      BY <1>8
    <2>2. sent \in [Addrs -> Seq(Skbs)] /\ Once(sent, Addrs) /\ ~ On(sent, Addrs, s)
          /\ sent'[k] = Append(sent[k], s) /\ SameBut(sent, sent', Addrs, k)
      BY <1>0, <1>3, <2>1 DEF TypeOK, Apart, Gone, SameBut
    <2>3. /\ Once(sent', Addrs)
          /\ \A p : On(sent', Addrs, p) <=> On(sent, Addrs, p) \/ p = s
      BY <1>1, <2>2, PutOnce, Zenon
    <2>4. \A q : (Queued(q)' <=> Queued(q)) /\ (Gone(q)' <=> Gone(q) \/ q = s)
      BY <1>8, <2>3 DEF Queued, Gone
    <2>5. Apart'
      BY <1>0, <1>3, <1>5, <1>8, <2>3, <2>4 DEF Apart
    <2>6. Placed'
      BY <1>0, <1>1, <1>5, <2>4 DEF Placed
    <2> QED
      BY <1>6, <2>5, <2>6 DEF Owned
  <1> QED
    BY <1>7, <1>8 DEF s

\* skb_queue_tail on a torn queue: the packet in hand, and some that were on the
\* queue, may be lost; no other packet is.
LEMMA TornOwned ==
  ASSUME IInv, Owned, NEW t \in Threads, Link(t), Out(t) \in torn
  PROVE  Owned'
  <1>0. TypeOK /\ Apart /\ Placed /\ HandsFree /\ NULL \notin Skbs
    BY NullAssumption DEF IInv, Owned
  <1>a. pc[t] \in Resolving /\ Return(t) /\ UNCHANGED <<dst, req, torn, sent>>
    BY DEF Link, Resolving, pktVars, wireVars, history
  <1>b. PICK e, s, old : e = Out(t) /\ s = skb[t] /\ old = arp_queue[e]
    OBVIOUS
  <1>1. s \in Skbs /\ s # NULL /\ dst[s] = e /\ e \in Entries
    BY <1>0, <1>a, <1>b, ResolvingHolds DEF Out
  <1>c. PICK r \in AfterLink(e, old, s) : arp_queue' = [arp_queue EXCEPT ![e] = r]
    BY <1>b DEF Link
  <1>d. old \in Seq(Skbs)
    BY <1>0, <1>1, <1>b DEF TypeOK
  <1>e. PICK p \in Seq(Skbs) : Kept(p, old, s, r, e)
    BY <1>1, <1>d, LinkLeaves, Zenon
  <1>f. (r = p \/ r = Append(p, s)) /\ \A i \in DOMAIN p : i \in DOMAIN arp_queue[e] /\ p[i] = arp_queue[e][i]
    BY <1>b, <1>e DEF Kept
  <1> USE <1>a, <1>b, <1>c
  <1>2. Held(s)
    BY DEF Held
  <1>3. ~ Queued(s) /\ ~ Gone(s)
    BY <1>0, <1>1, <1>2 DEF Apart
  <1>4. skb' = [skb EXCEPT ![t] = NULL] /\ pc' = [pc EXCEPT ![t] = IF req[t].job = "send" THEN "leave" ELSE "drain"]
    BY DEF Return
  <1>5. /\ \A q \in Skbs : Held(q)' <=> q = NULL \/ (Held(q) /\ q # s)
        /\ \A u, w \in Threads : skb'[u] # NULL /\ skb'[u] = skb'[w] => u = w
    BY <1>0, <1>4, HandSet
  <1>6. HandsFree'
    <2>1. skb'[t] = NULL /\ \A u \in Threads : u # t => pc'[u] = pc[u] /\ skb'[u] = skb[u]
      BY <1>0, <1>4 DEF TypeOK
    <2> QED
      BY <1>0, <2>1 DEF HandsFree, Binding
  <1>7. PICK F : F = [arp_queue EXCEPT ![e] = p]
    OBVIOUS
  <1>8. /\ arp_queue \in [Entries -> Seq(Skbs)] /\ F \in [Entries -> Seq(Skbs)] /\ F[e] = p
        /\ SameBut(arp_queue, F, Entries, e) /\ Once(arp_queue, Entries) /\ ~ On(arp_queue, Entries, s)
    BY <1>0, <1>1, <1>3, <1>7 DEF TypeOK, SameBut, Apart, Queued
  <1>9. Once(F, Entries) /\ \A q : On(F, Entries, q) => On(arp_queue, Entries, q)
    BY <1>1, <1>8, <1>f, ShrinkOnce
  <1>10. Once(arp_queue', Entries) /\ \A q : On(arp_queue', Entries, q) => On(arp_queue, Entries, q) \/ q = s
    <2>1. CASE r = p
      BY <1>7, <1>9, <2>1
    <2>2. CASE r = Append(p, s)
      <3>1. arp_queue'[e] = Append(F[e], s) /\ SameBut(F, arp_queue', Entries, e) /\ ~ On(F, Entries, s)
        BY <1>0, <1>1, <1>7, <1>8, <1>9, <2>2 DEF TypeOK, SameBut
      <3>2. /\ Once(arp_queue', Entries)
            /\ \A q : On(arp_queue', Entries, q) <=> On(F, Entries, q) \/ q = s
        BY <1>1, <1>8, <1>9, <3>1, PutOnce, ZenonT(40)
      <3> QED
        BY <1>9, <3>2
    <2> QED
      BY <1>f, <2>1, <2>2
  <1>11. \A q : (Queued(q)' => Queued(q) \/ q = s) /\ (Gone(q)' <=> Gone(q))
    BY <1>10 DEF Queued, Gone
  <1>12. Apart'
    <2>1. Once(sent, Addrs)'
      BY <1>0 DEF Apart
    <2> QED
      BY <1>0, <1>3, <1>5, <1>10, <1>11, <2>1 DEF Apart
  <1>13. ASSUME NEW q \in Skbs, Queued(q), dst[q] # e PROVE Queued(q)'
    <2>1. PICK f \in Entries : \E i \in DOMAIN arp_queue[f] : arp_queue[f][i] = q
      BY <1>13 DEF Queued, On
    <2>2. f # e
      BY <1>13, <2>1 DEF IInv, QueueSound
    <2>3. arp_queue'[f] = arp_queue[f]
      BY <1>0, <1>1, <2>2 DEF TypeOK
    <2> QED
      BY <2>1, <2>3 DEF Queued, On
  <1>14. Placed'
    BY <1>0, <1>1, <1>5, <1>11, <1>13 DEF Placed
  <1> QED
    BY <1>6, <1>12, <1>14 DEF Owned

\* skb_queue_tail: the packet in hand goes to the end of the arp_queue, unless
\* the queue is torn.
LEMMA LinkOwned ==
  ASSUME IInv, Owned, NEW t \in Threads, Link(t)
  PROVE  Owned'
  <1>0. TypeOK /\ pc[t] \in Resolving
    BY DEF IInv, Resolving, Link
  <1>1. PICK e, s, q : e = Out(t) /\ s = skb[t] /\ q = arp_queue[e]
    OBVIOUS
  <1>2. s \in Skbs /\ e \in Entries /\ q \in Seq(Skbs)
    BY <1>0, <1>1, ResolvingHolds DEF TypeOK
  <1>3. Return(t) /\ UNCHANGED <<dst, req, torn, sent>>
    BY DEF Link, pktVars, wireVars, history
  <1>4. PICK r \in AfterLink(e, q, s) : arp_queue' = [arp_queue EXCEPT ![e] = r]
    BY <1>1 DEF Link
  <1>5. PICK p \in Seq(Skbs) : Kept(p, q, s, r, e)
    BY <1>2, LinkLeaves, Zenon
  <1>6. CASE e \notin torn
    <2>1. arp_queue' = [arp_queue EXCEPT ![e] = Append(arp_queue[e], skb[t])]
      BY <1>1, <1>4, <1>5, <1>6 DEF Kept
    <2> QED
      BY <1>0, <1>2, <1>3, <2>1, HandedOver
  <1>7. CASE e \in torn
    BY <1>1, <1>7, TornOwned
  <1> QED
    BY <1>6, <1>7

\* A list operation that begins may tear a queue, and mends none.
LEMMA TornGrows ==
  ASSUME NEW t, NEW e, BeginList(t, e)
  PROVE  torn \subseteq torn'
  BY DEF BeginList

\* neigh_update takes the first packet off the queue.
LEMMA DrainOwned ==
  ASSUME IInv, Owned, NEW t \in Threads, Drain(t)
  PROVE  Owned'
  <1>0. /\ TypeOK /\ Apart /\ Placed /\ HandsFree /\ NULL \notin Skbs
        /\ pc[t] = "drain" /\ neigh[t] \in Entries /\ skb[t] = NULL
    <2>1. pc[t] = "drain" /\ TypeOK /\ HandsFree
      BY DEF Drain, IInv, Owned
    <2>2. neigh[t] \in Entries
      BY <2>1 DEF TypeOK, Updating
    <2>3. skb[t] = NULL
      BY <2>1 DEF HandsFree, Binding, Resolving
    <2> QED
      BY <2>1, <2>2, <2>3, NullAssumption DEF Owned
  <1> DEFINE n == neigh[t]
             s == Head(arp_queue[n])
  <1>1. UNCHANGED <<dst, req, sent>>
    BY DEF Drain, pktVars, wireVars
  <1>2. CASE arp_queue[n] = <<>>
    <2>1. UNCHANGED <<arp_queue, skb, torn>> /\ pc' = [pc EXCEPT ![t] = "leave"]
      BY <1>2 DEF Drain
    <2>2. \A u \in Threads : u # t => pc'[u] = pc[u]
      BY <1>0, <2>1 DEF TypeOK
    <2>3. HandsFree'
      BY <1>0, <1>1, <2>1, <2>2 DEF HandsFree, Binding
    <2> QED
      BY <1>1, <2>1, <2>3, Unmoved
  <1>3. CASE arp_queue[n] # <<>>
    <2>1. /\ arp_queue' = [arp_queue EXCEPT ![n] = Tail(arp_queue[n])]
          /\ skb' = [skb EXCEPT ![t] = s] /\ pc' = [pc EXCEPT ![t] = "unlink"]
      BY <1>3 DEF Drain
    <2>0. torn \subseteq torn'
      BY <1>3, TornGrows DEF Drain
    <2>2. arp_queue \in [Entries -> Seq(Skbs)] /\ Once(arp_queue, Entries)
          /\ arp_queue'[n] = Tail(arp_queue[n]) /\ SameBut(arp_queue, arp_queue', Entries, n)
      BY <1>0, <2>1 DEF TypeOK, Apart, SameBut
    <2>3. /\ Once(arp_queue', Entries) /\ s \in Skbs /\ On(arp_queue, Entries, s)
          /\ \A p : On(arp_queue', Entries, p) <=> On(arp_queue, Entries, p) /\ p # s
      BY <1>0, <1>3, <2>2, TakeOnce
    <2> HIDE DEF s, n
    <2>4. \A q : (Queued(q)' <=> Queued(q) /\ q # s) /\ (Gone(q)' <=> Gone(q))
      BY <1>1, <2>3 DEF Queued, Gone
    <2>5. Queued(s) /\ ~ Held(s) /\ ~ Gone(s)
      BY <1>0, <2>3 DEF Queued, Apart
    <2>6. /\ \A q \in Skbs : Held(q)' <=> q = s \/ (Held(q) /\ q # skb[t])
          /\ \A u, w \in Threads : skb'[u] # NULL /\ skb'[u] = skb'[w] => u = w
      BY <1>0, <2>1, <2>3, <2>5, HandSet
    <2>7. HandsFree'
      <3>1. pc'[t] \in Resolving
        BY <1>0, <2>1 DEF TypeOK, Resolving
      <3>2. \A u \in Threads : u # t => pc'[u] = pc[u] /\ skb'[u] = skb[u]
        BY <1>0, <2>1 DEF TypeOK
      <3> QED
        BY <1>0, <1>1, <3>1, <3>2 DEF HandsFree, Binding
    <2>8. Apart'
      BY <1>0, <1>1, <2>3, <2>4, <2>5, <2>6 DEF Apart
    <2>9. Placed'
      BY <1>0, <1>1, <2>0, <2>4, <2>6 DEF Placed
    <2> QED
      BY <2>7, <2>8, <2>9 DEF Owned
  <1> QED
    BY <1>2, <1>3

\* A step of a thread that keeps its packet, in the same call.
LEMMA Moves ==
  ASSUME IInv, Owned, NEW t \in Threads, NEW l, pc' = [pc EXCEPT ![t] = l], UNCHANGED <<skb, req>>,
         skb[t] # NULL => l \in Resolving \/ (l \in {"lookup", "create", "publish"} /\ req[t].job = "send")
  PROVE  HandsFree'
  <1>1. pc'[t] = l /\ \A u \in Threads : u # t => pc'[u] = pc[u]
    BY DEF IInv, TypeOK
  <1> QED
    BY <1>1 DEF Owned, HandsFree, Binding

\* A thread gets its neighbour: its packet, which it holds, is bound.
LEMMA BindOwned ==
  ASSUME IInv, Owned, NEW t \in Threads, NEW n \in Entries, pc[t] \in {"lookup", "publish"}, Bind(t, n),
         pc' = [pc EXCEPT ![t] = Resolved(t)], UNCHANGED <<req, skb, arp_queue, sent, torn>>
  PROVE  Owned'
  <1>1. TypeOK /\ (skb[t] # NULL => Binding(t))
    BY DEF IInv, Owned, HandsFree, Resolving
  <1>2. HandsFree'
    BY <1>1, Moves DEF Resolved, Resolving, Binding
  <1>3. req[t].job = "send" => skb[t] \in Skbs /\ dst[skb[t]] = NULL /\ Held(skb[t])
    BY <1>1 DEF IInv, TypeOK, BindingSound, Binding, Held
  <1>4. \A s \in Skbs : dst'[s] = dst[s] \/ (Held(s) /\ dst[s] = NULL)
    BY <1>1, <1>3 DEF Bind, TypeOK
  <1> QED
    BY <1>2, <1>4, Unmoved

\* One step of one thread.
LEMMA StepOwned ==
  ASSUME IInv, Owned, NEW t \in Threads, Step(t)
  PROVE  Owned'
  <1>0. TypeOK /\ HandsFree
    BY DEF IInv, Owned
  <1>a. skb[t] # NULL => pc[t] \in Resolving \/ Binding(t)
    BY <1>0 DEF HandsFree
  <1> USE DEF cacheVars, pktVars, wireVars, history
  <1>1. CASE Lookup(t)
    <2> DEFINE n == neigh_lookup(req[t].addr)
    <2>0. n = NULL \/ n \in Entries
      BY <1>0, LookupFinds DEF TypeOK
    <2>1. CASE n # NULL
      <3>1. /\ Bind(t, n) /\ pc' = [pc EXCEPT ![t] = Resolved(t)] /\ pc[t] \in {"lookup", "publish"}
            /\ UNCHANGED <<req, skb, arp_queue, sent, torn>>
        BY <1>1, <2>1 DEF Lookup
      <3> HIDE DEF n
      <3> QED
        BY <2>0, <2>1, <3>1, BindOwned
    <2>2. CASE n = NULL
      <3>1. /\ pc' = [pc EXCEPT ![t] = IF req[t].job = "tell" THEN "leave" ELSE "create"]
            /\ UNCHANGED <<dst, req, skb, arp_queue, sent, torn>> /\ pc[t] = "lookup"
        BY <1>1, <2>2 DEF Lookup
      <3>2. HandsFree'
        BY <1>a, <3>1, Moves DEF Binding, Resolving
      <3> QED
        BY <3>1, <3>2, Unmoved
    <2> QED
      BY <2>1, <2>2
  <1>2. ASSUME NEW e \in Entries, Create(t, e) PROVE Owned'
    <2>1. HandsFree'
      BY <1>2, <1>a, Moves DEF Create, Binding, Resolving
    <2> QED
      BY <1>2, <2>1, Unmoved DEF Create
  <1>3. CASE CreateFails(t)
    <2>1. skb[t] # NULL => dst[skb[t]] = NULL
      BY <1>3, <1>a DEF CreateFails, Resolving, Binding, IInv, BindingSound
    <2>2. skb' = [skb EXCEPT ![t] = NULL] /\ UNCHANGED <<arp_queue, sent, dst, req, torn>>
      BY <1>3 DEF CreateFails
    <2>3. skb'[t] = NULL /\ \A u \in Threads : u # t => skb'[u] = skb[u] /\ pc'[u] = pc[u]
      BY <1>0, <1>3, <2>2 DEF CreateFails, TypeOK
    <2>4. HandsFree'
      BY <1>0, <2>2, <2>3 DEF HandsFree, Binding
    <2> QED
      BY <2>1, <2>2, <2>4, LetGo
  <1>4. CASE Publish(t)
    <2>1. /\ Bind(t, neigh[t]) /\ pc' = [pc EXCEPT ![t] = Resolved(t)] /\ pc[t] = "publish"
          /\ UNCHANGED <<req, skb, arp_queue, sent, torn>>
      BY <1>4 DEF Publish
    <2>2. neigh[t] \in Entries
      BY <1>0, <2>1 DEF IInv, NeighSound, TypeOK
    <2> QED
      BY <2>1, <2>2, BindOwned
  <1>5. CASE IfReachable(t) \/ IfNone(t) \/ IfIncomplete(t) \/ Solicit(t) \/ SetIncomplete(t) \/ Unlink(t)
    <2>1. /\ \E l \in Resolving : pc' = [pc EXCEPT ![t] = l]
          /\ UNCHANGED <<skb, req, arp_queue, sent, dst, torn>>
      BY <1>5 DEF IfReachable, IfNone, IfIncomplete, Solicit, SetIncomplete, Unlink, Goto, Resolving
    <2>2. HandsFree'
      BY <2>1, Moves
    <2> QED
      BY <2>1, <2>2, Unmoved
  <1>6. CASE Transmit(t)
    <2>1. pc[t] \in Resolving /\ Return(t) /\ UNCHANGED <<dst, req, torn>>
      BY <1>6 DEF Transmit, Resolving
    <2>2. Out(t) \in Entries /\ daddr[skb[t]] \in Addrs
      BY <2>1, ResolvingHolds
    <2> QED
      BY <1>6, <2>1, <2>2, HandedOver DEF Transmit
  <1>7. CASE SetReachable(t) \/ SetHa(t) \/ CopyHa(t) \/ IfFlush(t)
    <2>1. /\ \E l : pc' = [pc EXCEPT ![t] = l]
          /\ UNCHANGED <<skb, req, arp_queue, sent, dst, torn>> /\ pc[t] \in {"setreach", "setha", "copyha", "flush"}
      BY <1>7 DEF SetReachable, SetHa, CopyHa, IfFlush, Goto
    <2>2. skb[t] = NULL
      BY <1>a, <2>1 DEF Binding, Resolving
    <2>3. HandsFree'
      BY <2>1, <2>2, Moves
    <2> QED
      BY <2>1, <2>3, Unmoved
  <1>8. CASE Leave(t)
    <2>1. skb[t] = NULL
      BY <1>a, <1>8 DEF Leave, Binding, Resolving
    <2>2. skb' = [skb EXCEPT ![t] = NULL] /\ UNCHANGED <<arp_queue, sent, dst, torn>>
      BY <1>8 DEF Leave
    <2>3. skb'[t] = NULL /\ \A u \in Threads : u # t => skb'[u] = skb[u] /\ pc'[u] = pc[u] /\ req'[u] = req[u]
      BY <1>0, <1>8, <2>2 DEF Leave, TypeOK
    <2>4. HandsFree'
      BY <1>0, <2>2, <2>3 DEF HandsFree, Binding
    <2> QED
      BY <2>1, <2>2, <2>4, LetGo
  <1>9. CASE Enqueue(t)
    <2>1. /\ pc' = [pc EXCEPT ![t] = "link"] /\ "link" \in Resolving
          /\ UNCHANGED <<skb, req, arp_queue, sent, dst>> /\ torn \subseteq torn'
      BY <1>9, TornGrows DEF Enqueue, Resolving
    <2>2. HandsFree'
      BY <2>1, Moves
    <2> QED
      BY <2>1, <2>2, Unmoved
  <1> QED
    BY <1>1, <1>2, <1>3, <1>4, <1>5, <1>6, <1>7, <1>8, <1>9, LinkOwned, DrainOwned DEF Step, Resolve, Update

\* Every step of the system keeps packets apart and in place.
LEMMA NextOwned == IInv /\ Owned /\ [Next]_vars => Owned'
  <1> SUFFICES ASSUME IInv, Owned, [Next]_vars PROVE Owned'
    OBVIOUS
  <1>0. TypeOK /\ HandsFree /\ Rx \in Threads
    BY DEF IInv, Owned, Threads
  <1>1. CASE \E t \in Threads : Step(t)
    BY <1>1, StepOwned
  <1>2. CASE \E t \in Threads, k \in Addrs, s \in Skbs : Send(t, k, s)
    BY <1>2, SendOwned
  <1>3. ASSUME NEW k \in Addrs, NEW m, NEW job, ArpIn(job, k, m) PROVE Owned'
    <2> USE <1>3 DEF ArpIn, cacheVars, pktVars, history
    <2>1. skb[Rx] = NULL
      BY <1>0 DEF HandsFree, Binding, Resolving
    <2>2. \A u \in Threads : u # Rx => pc'[u] = pc[u] /\ req'[u] = req[u]
      BY <1>0 DEF TypeOK
    <2>3. HandsFree'
      BY <1>0, <2>1, <2>2 DEF HandsFree, Binding
    <2> QED
      BY <2>3, Unmoved
  <1>4. CASE (\E k \in Addrs : Lose(k)) \/ UNCHANGED vars
    <2>1. UNCHANGED <<pc, req, skb, arp_queue, sent, dst, torn>>
      BY <1>4 DEF Lose, vars, cacheVars, pktVars, threadVars, wireVars, history
    <2>2. HandsFree'
      BY <1>0, <2>1 DEF HandsFree, Binding
    <2> QED
      BY <2>1, <2>2, Unmoved
  <1> QED
    BY <1>1, <1>2, <1>3, <1>4 DEF Next, Unprompted, Answered

LEMMA InitOwned == Init => Owned
  <1> SUFFICES ASSUME Init PROVE Owned
    OBVIOUS
  <1>1. /\ \A t \in Threads : skb[t] = NULL
        /\ \A e \in Entries : arp_queue[e] = <<>>
        /\ \A k \in Addrs : sent[k] = <<>>
        /\ \A s \in Skbs : dst[s] = NULL
    BY DEF Init
  <1>2. /\ \A e \in Entries : DOMAIN arp_queue[e] = {}
        /\ \A k \in Addrs : DOMAIN sent[k] = {}
    BY <1>1
  <1>3. \A s \in Skbs : ~ Queued(s) /\ ~ Gone(s) /\ ~ Held(s)
    BY <1>1, <1>2, NullAssumption DEF Queued, Gone, Held, On
  <1>4. Once(arp_queue, Entries) /\ Once(sent, Addrs)
    BY <1>2 DEF Once
  <1> QED
    BY <1>1, <1>3, <1>4 DEF Owned, HandsFree, Apart, Placed

\* Every packet is in at most one place, and a bound one in some place unless
\* operations on its queue have overlapped.
THEOREM OwnedAlways == Spec => []Owned
  BY InitOwned, NextOwned, Inductive, PTL DEF Spec

\* However any number of senders and the receive loop interleave, a packet is
\* never on two arp_queues or queued and sent and never sent twice; once bound to a
\* neighbour it is lost in no other way than by two unlocked operations on that
\* neighbour's arp_queue that overlapped.
THEOREM OneOwnerAlways == Spec => []OneOwner
  <1>1. ASSUME TypeOK, Owned PROVE OneOwner
    <2> SUFFICES ASSUME NEW s \in Skbs
                 PROVE  /\ \A p, q \in Places(s) : p = q
                        /\ dst[s] # NULL /\ dst[s] \notin torn => Places(s) # {}
      BY DEF OneOwner
    <2>1. Apart /\ Placed /\ s # NULL
      BY <1>1, NullAssumption DEF Owned
    <2>2. ASSUME NEW p \in Places(s)
          PROVE  \/ \E t \in Threads : skb[t] = s /\ p = <<"hand", t>>
                 \/ \E e \in Entries : \E i \in DOMAIN arp_queue[e] : arp_queue[e][i] = s /\ p = <<"queue", e, i>>
                 \/ \E k \in Addrs : \E i \in DOMAIN sent[k] : sent[k][i] = s /\ p = <<"sent", k, i>>
      BY DEF Places
    <2>3. ASSUME NEW p \in Places(s), NEW q \in Places(s) PROVE p = q
      <3>1. CASE Held(s)
        <4>1. ~ Queued(s) /\ ~ Gone(s)
          BY <2>1, <3>1 DEF Apart
        <4>2. ASSUME NEW r \in Places(s) PROVE \E t \in Threads : skb[t] = s /\ r = <<"hand", t>>
          BY <2>2, <4>1 DEF Queued, Gone, On
        <4> QED
          BY <2>1, <4>2 DEF Apart
      <3>2. CASE Queued(s)
        <4>1. ~ Held(s) /\ ~ Gone(s)
          BY <2>1, <3>2 DEF Apart
        <4>2. ASSUME NEW r \in Places(s)
              PROVE  \E e \in Entries : \E i \in DOMAIN arp_queue[e] : arp_queue[e][i] = s /\ r = <<"queue", e, i>>
          BY <2>2, <4>1 DEF Held, Gone, On
        <4> QED
          BY <2>1, <4>2 DEF Apart, Once
      <3>3. CASE Gone(s)
        <4>1. ~ Held(s) /\ ~ Queued(s)
          BY <2>1, <3>3 DEF Apart
        <4>2. ASSUME NEW r \in Places(s)
              PROVE  \E k \in Addrs : \E i \in DOMAIN sent[k] : sent[k][i] = s /\ r = <<"sent", k, i>>
          BY <2>2, <4>1 DEF Held, Queued, On
        <4> QED
          BY <2>1, <4>2 DEF Apart, Once
      <3> QED
        BY <2>2, <3>1, <3>2, <3>3 DEF Held, Queued, Gone, On
    <2>4. dst[s] # NULL /\ dst[s] \notin torn => Places(s) # {}
      <3>1. ASSUME NEW t \in Threads, skb[t] = s PROVE <<"hand", t>> \in Places(s)
        BY <3>1 DEF Places
      <3>2. ASSUME NEW e \in Entries, NEW i \in DOMAIN arp_queue[e], arp_queue[e][i] = s
            PROVE  <<"queue", e, i>> \in Places(s)
        BY <3>2 DEF Places
      <3>3. ASSUME NEW k \in Addrs, NEW i \in DOMAIN sent[k], sent[k][i] = s
            PROVE  <<"sent", k, i>> \in Places(s)
        BY <3>3 DEF Places
      <3> QED
        BY <2>1, <3>1, <3>2, <3>3 DEF Placed, Held, Queued, Gone, On
    <2> QED
      BY <2>3, <2>4
  <1> QED
    BY <1>1, OwnedAlways, NoNullPointer, PTL

-----------------------------------------------------------------------------
(* The state of a neighbour that was heard *)

Stores == {"solicit", "setinc"}

\* A step that leaves nud_state alone and brings no thread to the store of
\* INCOMPLETE.
LEMMA StillSettled ==
  ASSUME NEW e \in Entries, Settled(e), nud_state'[e] = "REACHABLE",
         \A u \in Threads : pc'[u] \in Stores => pc[u] \in Stores /\ Out(u)' = Out(u)
  PROVE  Settled(e)'
  BY DEF Settled, Stores

LEMMA StepSettled ==
  ASSUME IInv, NEW t \in Threads, Step(t), NEW e \in Entries, Settled(e)
  PROVE  Settled(e)'
  <1>0. TypeOK /\ nud_state[e] = "REACHABLE"
    BY DEF IInv, Settled
  <1> USE DEF cacheVars, pktVars, wireVars
  <1>a. \A u \in Threads : pc[u] \in Stores => skb[u] \in Skbs /\ Out(u) # NULL
    BY <1>0 DEF TypeOK, Resolving, Stores
  <1>1. CASE IfNone(t)
    <2>1. nud_state' = nud_state /\ skb' = skb /\ dst' = dst
      BY <1>1 DEF IfNone, Goto
    <2>2. \A u \in Threads : u # t => pc'[u] = pc[u]
      BY <1>0, <1>1 DEF IfNone, Goto, TypeOK
    <2>3. pc'[t] = "solicit" => Out(t) # e
      BY <1>0, <1>1 DEF IfNone, Goto, TypeOK
    <2>4. pc'[t] # "setinc"
      BY <1>0, <1>1 DEF IfNone, Goto, TypeOK
    <2> QED
      BY <1>0, <2>1, <2>2, <2>3, <2>4 DEF Settled, Out
  <1>2. CASE \/ IfReachable(t) \/ Solicit(t) \/ SetIncomplete(t) \/ IfIncomplete(t) \/ Enqueue(t)
             \/ SetReachable(t) \/ SetHa(t) \/ CopyHa(t) \/ IfFlush(t) \/ Unlink(t)
             \/ CreateFails(t) \/ Leave(t) \/ \E f \in Entries : Create(t, f)
    <2>1. dst' = dst /\ \A u \in Threads : u # t => pc'[u] = pc[u] /\ skb'[u] = skb[u]
      BY <1>0, <1>2 DEF IfReachable, Solicit, SetIncomplete, IfIncomplete, Enqueue, SetReachable, SetHa,
         CopyHa, IfFlush, Unlink, CreateFails, Leave, Create, Goto, TypeOK
    <2>2. pc'[t] \in Stores => pc[t] \in Stores /\ skb'[t] = skb[t]
      BY <1>0, <1>2 DEF IfReachable, Solicit, SetIncomplete, IfIncomplete, Enqueue, SetReachable, SetHa,
         CopyHa, IfFlush, Unlink, CreateFails, Leave, Create, Goto, TypeOK, Stores
    <2>3. nud_state'[e] = "REACHABLE"
      <3>1. CASE SetIncomplete(t)
        BY <1>0, <3>1 DEF SetIncomplete, TypeOK, Settled
      <3>2. CASE SetReachable(t)
        BY <1>0, <3>2 DEF SetReachable, TypeOK
      <3> QED
        BY <1>0, <1>2, <3>1, <3>2 DEF IfReachable, Solicit, IfIncomplete, Enqueue, SetHa, CopyHa, IfFlush,
           Unlink, CreateFails, Leave, Create, Goto
    <2> QED
      BY <2>1, <2>2, <2>3, StillSettled DEF Out
  <1>3. CASE Lookup(t) \/ Publish(t)
    <2>1. nud_state' = nud_state /\ skb' = skb /\ \A u \in Threads : u # t => pc'[u] = pc[u]
      BY <1>0, <1>3 DEF Lookup, Publish, TypeOK
    <2>2. pc'[t] \notin Stores
      BY <1>0, <1>3 DEF Lookup, Publish, Resolved, TypeOK, Stores
    <2>3. /\ pc[t] \in {"lookup", "publish"}
          /\ dst' = dst \/ (req[t].job = "send" /\ \E n : dst' = [dst EXCEPT ![skb[t]] = n])
      BY <1>3 DEF Lookup, Publish, Bind
    <2>4. req[t].job = "send" => skb[t] \in Skbs /\ dst[skb[t]] = NULL
      BY <1>0, <2>3 DEF IInv, TypeOK, BindingSound, Binding
    <2>5. \A q \in Skbs : dst[q] # NULL => dst'[q] = dst[q]
      BY <1>0, <2>3, <2>4 DEF TypeOK
    <2>6. \A u \in Threads : pc[u] \in Stores => Out(u)' = Out(u)
      BY <1>a, <2>1, <2>5 DEF Out
    <2> QED
      BY <1>0, <2>1, <2>2, <2>6, StillSettled
  <1>4. CASE Link(t) \/ Transmit(t) \/ Drain(t)
    <2>1. nud_state' = nud_state /\ dst' = dst
      BY <1>4 DEF Link, Transmit, Drain
    <2>2. \A u \in Threads : u # t => pc'[u] = pc[u] /\ skb'[u] = skb[u]
      BY <1>0, <1>4 DEF Link, Transmit, Drain, Return, TypeOK
    <2>3. pc'[t] \notin Stores
      BY <1>0, <1>4 DEF Link, Transmit, Drain, Return, TypeOK, Stores
    <2> QED
      BY <1>0, <2>1, <2>2, <2>3, StillSettled DEF Out
  <1> QED
    BY <1>1, <1>2, <1>3, <1>4 DEF Step, Resolve, Update

\* Whatever the number of sending threads: a neighbour that was heard only loses
\* NUD_REACHABLE to a sender that had read NUD_NONE before.
THEOREM StaysReachableAlways == Spec => StaysReachable
  <1>1. ASSUME IInv, [Next]_vars PROVE \A e \in Entries : Settled(e) => Settled(e)'
    <2> SUFFICES ASSUME NEW e \in Entries, Settled(e) PROVE Settled(e)'
      OBVIOUS
    <2>0. TypeOK /\ nud_state[e] = "REACHABLE"
      BY <1>1 DEF IInv, Settled
    <2>1. CASE \E t \in Threads : Step(t)
      BY <1>1, <2>1, StepSettled
    <2>2. ASSUME NEW t \in Threads, NEW k \in Addrs, NEW s \in Skbs, Send(t, k, s) PROVE Settled(e)'
      <3>1. nud_state' = nud_state /\ dst' = dst
        BY <2>2 DEF Send, cacheVars
      <3>2. pc'[t] \notin Stores /\ \A u \in Threads : u # t => pc'[u] = pc[u] /\ skb'[u] = skb[u]
        BY <2>0, <2>2 DEF Send, TypeOK, Stores
      <3> QED
        BY <2>0, <3>1, <3>2, StillSettled DEF Out
    <2>3. ASSUME NEW k \in Addrs, NEW m, NEW job, ArpIn(job, k, m) PROVE Settled(e)'
      <3>1. nud_state' = nud_state /\ dst' = dst /\ skb' = skb
        BY <2>3 DEF ArpIn, cacheVars, pktVars
      <3>2. \A u \in Threads : pc'[u] \in Stores => pc[u] \in Stores
        BY <2>0, <2>3 DEF ArpIn, TypeOK, Stores
      <3> QED
        BY <2>0, <3>1, <3>2, StillSettled DEF Out
    <2>4. CASE (\E k \in Addrs : Lose(k)) \/ UNCHANGED vars
      <3>1. UNCHANGED <<nud_state, dst, skb, pc>>
        BY <2>4 DEF Lose, vars, cacheVars, pktVars, threadVars
      <3> QED
        BY <3>1 DEF Settled, Out
    <2> QED
      BY <1>1, <2>1, <2>2, <2>3, <2>4 DEF Next, Unprompted, Answered
  <1> QED
    BY <1>1, Inductive, PTL DEF Spec, StaysReachable

-----------------------------------------------------------------------------
(* Entries created twice: the receive loop and one sending thread *)

Elems(q) == {q[i] : i \in DOMAIN q}

\* OwnEntryOnce, of any list.
OwnOnce(q) == \A i, j \in DOMAIN q : i # j /\ key[q[i]] = key[q[j]] => maker[q[i]] # maker[q[j]]

Live(q) == \A e \in Elems(q) : key[e] # NULL

\* The list a thread will next leave in the table, as far as its own entries go.
Known(t) == IF pc[t] = "publish" THEN seen[t] ELSE buckets

\* No entry of t in q is for the address t is about to create.
NoneOf(t, q) == \A e \in Elems(q) : maker[e] = t => key[e] # req[t].addr

\* Every entry of t in q is in r.
Has(t, q, r) == \A e \in Elems(q) : maker[e] = t => e \in Elems(r)

TableOnce == Live(buckets) /\ OwnOnce(buckets)

SeenOnce ==
  \A t \in Threads : pc[t] = "publish" => Live(seen[t]) /\ OwnOnce(seen[t]) /\ maker[neigh[t]] = t

\* A thread on its way to a new entry has none for the address, neither in the
\* table nor in the list it has read.
Fresh == \A t \in Threads : pc[t] \in {"create", "publish"} => NoneOf(t, Known(t))

\* No list a thread may come to see has an entry of t that t does not know to
\* be there.
Remembered ==
  \A t, u \in Threads : t # u =>
    /\ Has(t, buckets, Known(t))
    /\ pc[u] = "publish" => Has(t, seen[u], Known(t))

OwnInv == TableOnce /\ SeenOnce /\ Fresh /\ Remembered

LEMMA Prefixed ==
  ASSUME NEW e \in Entries, NEW q \in Seq(Entries)
  PROVE  Elems(<<e>> \o q) = {e} \cup Elems(q)
  <1> DEFINE r == <<e>> \o q
  <1>1. /\ DOMAIN r = 1 .. Len(q) + 1 /\ DOMAIN q = 1 .. Len(q) /\ Len(q) \in Nat
        /\ r[1] = e /\ \A i \in 1 .. Len(q) : r[i + 1] = q[i]
    OBVIOUS
  <1> HIDE DEF r
  <1>2. \A i \in DOMAIN r : r[i] \in {e} \cup Elems(q)
    <2> SUFFICES ASSUME NEW i \in DOMAIN r, i # 1 PROVE r[i] \in Elems(q)
      BY <1>1
    <2>1. i - 1 \in DOMAIN q /\ r[i] = q[i - 1]
      BY <1>1
    <2> QED
      BY <2>1 DEF Elems
  <1>3. e \in Elems(r)
    BY <1>1 DEF Elems
  <1>4. \A i \in DOMAIN q : q[i] \in Elems(r)
    <2> SUFFICES ASSUME NEW i \in DOMAIN q PROVE q[i] \in Elems(r)
      OBVIOUS
    <2>1. i + 1 \in DOMAIN r /\ r[i + 1] = q[i]
      BY <1>1
    <2> QED
      BY <2>1 DEF Elems
  <1> QED
    BY <1>2, <1>3, <1>4 DEF Elems, r

LEMMA OnceMore ==
  ASSUME NEW e \in Entries, NEW q \in Seq(Entries), OwnOnce(q),
         \A x \in Elems(q) : key[x] = key[e] => maker[x] # maker[e]
  PROVE  OwnOnce(<<e>> \o q)
  <1> DEFINE r == <<e>> \o q
  <1>1. /\ DOMAIN r = 1 .. Len(q) + 1 /\ DOMAIN q = 1 .. Len(q) /\ Len(q) \in Nat
        /\ r[1] = e /\ \A i \in 1 .. Len(q) : r[i + 1] = q[i]
    OBVIOUS
  <1> HIDE DEF r
  <1>2. \A i \in DOMAIN r : i # 1 => i - 1 \in DOMAIN q /\ r[i] = q[i - 1] /\ r[i] \in Elems(q)
    <2> SUFFICES ASSUME NEW i \in DOMAIN r, i # 1
                 PROVE  i - 1 \in DOMAIN q /\ r[i] = q[i - 1] /\ r[i] \in Elems(q)
      OBVIOUS
    <2>1. i - 1 \in DOMAIN q /\ r[i] = q[i - 1]
      BY <1>1
    <2> QED
      BY <2>1 DEF Elems
  <1>3. ASSUME NEW i \in DOMAIN r, NEW j \in DOMAIN r, i # j, key[r[i]] = key[r[j]]
        PROVE  maker[r[i]] # maker[r[j]]
    <2>1. CASE i = 1
      BY <1>1, <1>2, <1>3, <2>1
    <2>2. CASE j = 1
      BY <1>1, <1>2, <1>3, <2>2
    <2>3. CASE i # 1 /\ j # 1
      <3>1. i - 1 # j - 1
        BY <1>1, <1>3
      <3> QED
        BY <1>2, <1>3, <2>3, <3>1 DEF OwnOnce
    <2> QED
      BY <2>1, <2>2, <2>3
  <1> QED
    BY <1>3 DEF OwnOnce, r

\* neigh_lookup finds nothing only where there is nothing.
LEMMA LookupMisses ==
  ASSUME NEW k, buckets \in Seq(Entries), neigh_lookup(k) = NULL
  PROVE  \A e \in Elems(buckets) : key[e] # k
  <1> DEFINE S == Hits(buckets, k)
  <1>1. S = {}
    <2> SUFFICES ASSUME S # {} PROVE FALSE
      OBVIOUS
    <2>1. S \subseteq Nat /\ \A i \in S : buckets[i] \in Entries
      BY DEF Hits
    <2>2. \E i \in S : \A j \in S : i <= j
      BY <2>1, Least
    <2>3. (CHOOSE i \in S : \A j \in S : i <= j) \in S
      BY <2>2, Zenon
    <2> QED
      BY <2>1, <2>3, NullAssumption DEF neigh_lookup
  <1> QED
    BY <1>1 DEF Hits, Elems

\* A step that leaves the table alone and brings no thread to neigh_create.
LEMMA QuietOwn ==
  ASSUME OwnInv, UNCHANGED <<buckets, key, maker, seen>>,
         \A t \in Threads : pc'[t] \in {"create", "publish"} =>
           pc'[t] = pc[t] /\ req'[t] = req[t] /\ neigh'[t] = neigh[t],
         \A t \in Threads : pc[t] = "publish" => pc'[t] = "publish"
  PROVE  OwnInv'
  <1>1. \A q : Live(q)' = Live(q) /\ OwnOnce(q)' = OwnOnce(q)
    BY DEF Live, OwnOnce
  <1>2. \A t \in Threads : (pc'[t] = "publish") = (pc[t] = "publish")
    BY Zenon
  <1>3. \A t \in Threads : Known(t)' = Known(t)
    BY <1>2 DEF Known
  <1>4. TableOnce'
    BY DEF OwnInv, TableOnce, Live, OwnOnce
  <1>5. SeenOnce'
    BY <1>2 DEF OwnInv, SeenOnce, Live, OwnOnce
  <1>6. Fresh'
    BY <1>3 DEF OwnInv, Fresh, NoneOf
  <1>7. Remembered'
    BY <1>2, <1>3 DEF OwnInv, Remembered, Has
  <1> QED
    BY <1>4, <1>5, <1>6, <1>7 DEF OwnInv

LEMMA LookupOwn ==
  ASSUME TypeOK, OwnInv, NEW t \in Threads, Lookup(t)
  PROVE  OwnInv'
  <1>0. /\ UNCHANGED <<buckets, key, maker, seen, req>> /\ pc[t] = "lookup"
        /\ \A u \in Threads : u # t => pc'[u] = pc[u] /\ neigh'[u] = neigh[u]
    BY DEF Lookup, TypeOK, cacheVars, history
  <1>1. CASE neigh_lookup(req[t].addr) # NULL
    <2>1. pc'[t] \notin {"create", "publish"}
      BY <1>1 DEF Lookup, TypeOK, Resolved
    <2> QED
      BY <1>0, <2>1, QuietOwn
  <1>2. CASE neigh_lookup(req[t].addr) = NULL
    <2>1. pc'[t] # "publish"
      BY <1>2 DEF Lookup, TypeOK
    <2>2. \A u \in Threads : (pc'[u] = "publish") = (pc[u] = "publish")
      BY <1>0, <2>1
    <2>3. \A u \in Threads : Known(u)' = Known(u)
      BY <1>0, <2>2 DEF Known
    <2>4. NoneOf(t, buckets) /\ Known(t) = buckets
      BY <1>0, <1>2, LookupMisses DEF NoneOf, Known, TypeOK
    <2>5. TableOnce'
      BY <1>0 DEF OwnInv, TableOnce, Live, OwnOnce
    <2>6. SeenOnce'
      BY <1>0, <2>1, <2>2 DEF OwnInv, SeenOnce, Live, OwnOnce
    <2>7. Fresh'
      BY <1>0, <2>3, <2>4 DEF OwnInv, Fresh, NoneOf
    <2>8. Remembered'
      BY <1>0, <2>2, <2>3 DEF OwnInv, Remembered, Has
    <2> QED
      BY <2>5, <2>6, <2>7, <2>8 DEF OwnInv
  <1> QED
    BY <1>1, <1>2

\* neigh_create: the new entry is in no list yet.
LEMMA CreateOwn ==
  ASSUME IInv, TypeOK, OwnInv, NEW t \in Threads, NEW e \in Entries, Create(t, e)
  PROVE  OwnInv'
  <1>0. /\ buckets' = buckets /\ req' = req /\ pc[t] = "create" /\ key[e] = NULL
        /\ pc'[t] = "publish" /\ seen'[t] = buckets /\ neigh'[t] = e /\ maker'[e] = t
        /\ \A u \in Threads : u # t => pc'[u] = pc[u] /\ seen'[u] = seen[u] /\ neigh'[u] = neigh[u]
        /\ \A f \in Entries : f # e => key'[f] = key[f] /\ maker'[f] = maker[f]
    BY DEF Create, TypeOK
  <1>1. \A q : Live(q) => \A f \in Elems(q) : f # e
    BY <1>0 DEF Live
  <1>2. Elems(buckets) \subseteq Entries /\ \A u \in Threads : Elems(seen[u]) \subseteq Entries
    BY DEF TypeOK, Elems
  <1>3. ASSUME NEW q, Elems(q) \subseteq Entries, Live(q)
        PROVE  \A f \in Elems(q) : key'[f] = key[f] /\ maker'[f] = maker[f]
    BY <1>0, <1>1, <1>3
  <1>4. ASSUME NEW q, Elems(q) \subseteq Entries, Live(q) PROVE Live(q)'
    BY <1>3, <1>4 DEF Live
  <1>5. ASSUME NEW q, Elems(q) \subseteq Entries, Live(q), OwnOnce(q) PROVE OwnOnce(q)'
    <2>1. \A i \in DOMAIN q : key'[q[i]] = key[q[i]] /\ maker'[q[i]] = maker[q[i]]
      BY <1>3, <1>5 DEF Elems
    <2> QED
      BY <1>5, <2>1 DEF OwnOnce
  <1>6. ASSUME NEW q, Elems(q) \subseteq Entries, Live(q), NEW u \in Threads, NoneOf(u, q)
        PROVE  NoneOf(u, q)'
    BY <1>0, <1>3, <1>6 DEF NoneOf
  <1>7. ASSUME NEW q, Elems(q) \subseteq Entries, Live(q), NEW u \in Threads, NEW r, Has(u, q, r)
        PROVE  Has(u, q, r)'
    BY <1>3, <1>7 DEF Has
  <1>8. \A u \in Threads : Known(u)' = Known(u)
    BY <1>0 DEF Known
  <1>9. Live(buckets) /\ OwnOnce(buckets)
    BY DEF OwnInv, TableOnce
  <1>10. \A u \in Threads : Live(Known(u)) /\ Elems(Known(u)) \subseteq Entries
    BY <1>2, <1>9 DEF OwnInv, SeenOnce, Known
  <1>11. TableOnce'
    BY <1>0, <1>2, <1>4, <1>5, <1>9 DEF TableOnce
  <1>12. ASSUME NEW u \in Threads, pc'[u] = "publish"
         PROVE  (Live(seen[u]) /\ OwnOnce(seen[u]) /\ maker[neigh[u]] = u)'
    <2>1. CASE u = t
      BY <1>0, <1>11, <2>1 DEF TableOnce
    <2>2. CASE u # t
      <3>1. Live(seen[u]) /\ OwnOnce(seen[u]) /\ maker[neigh[u]] = u
        BY <1>0, <1>12, <2>2 DEF OwnInv, SeenOnce
      <3>2. neigh'[u] = neigh[u] /\ seen'[u] = seen[u]
        BY <1>0, <2>2
      <3>a. pc[u] = "publish"
        BY <1>0, <1>12, <2>2
      <3>b. neigh[u] # NULL /\ key[neigh[u]] = req[u].addr
        BY <3>a DEF IInv, NeighSound
      <3>c. req[u].addr \in Addrs
        BY <3>a DEF IInv, CallsSound
      <3>d. neigh[u] \in Entries
        BY <3>b DEF TypeOK
      <3>3. neigh[u] \in Entries /\ key[neigh[u]] # NULL
        BY <3>b, <3>c, <3>d, NullAssumption
      <3>4. maker'[neigh[u]] = u
        BY <1>0, <3>1, <3>3
      <3> QED
        BY <1>2, <1>4, <1>5, <3>1, <3>2, <3>4
    <2> QED
      BY <2>1, <2>2
  <1>13. Fresh'
    <2> SUFFICES ASSUME NEW u \in Threads, pc'[u] \in {"create", "publish"} PROVE NoneOf(u, Known(u))'
      BY DEF Fresh
    <2>1. NoneOf(u, Known(u))
      BY <1>0 DEF OwnInv, Fresh
    <2>2. PICK q : q = Known(u)
      OBVIOUS
    <2>3. NoneOf(u, q)'
      BY <1>6, <1>10, <2>1, <2>2
    <2> QED
      BY <1>8, <2>2, <2>3 DEF NoneOf
  <1>14. Remembered'
    <2> SUFFICES ASSUME NEW u \in Threads, NEW v \in Threads, u # v
                 PROVE  (Has(u, buckets, Known(u)) /\ (pc[v] = "publish" => Has(u, seen[v], Known(u))))'
      BY DEF Remembered
    <2>1. Has(u, buckets, Known(u)) /\ (pc[v] = "publish" => Has(u, seen[v], Known(u)))
      BY DEF OwnInv, Remembered
    <2>2. Has(u, buckets, Known(u))'
      BY <1>0, <1>2, <1>7, <1>8, <1>9, <2>1
    <2>3. ASSUME pc'[v] = "publish" PROVE Has(u, seen[v], Known(u))'
      <3>1. CASE v = t
        BY <1>0, <2>2, <3>1
      <3>2. CASE v # t
        <4>1. Live(seen[v]) /\ seen'[v] = seen[v] /\ pc[v] = "publish"
          BY <1>0, <2>3, <3>2 DEF OwnInv, SeenOnce
        <4> QED
          BY <1>2, <1>7, <1>8, <2>1, <4>1
      <3> QED
        BY <3>1, <3>2
    <2> QED
      BY <2>2, <2>3
  <1> QED
    BY <1>11, <1>12, <1>13, <1>14 DEF OwnInv, SeenOnce

\* The store to tbl->buckets: what the other thread has made stays or goes as that
\* thread knows.
LEMMA PublishOwn ==
  ASSUME IInv, OwnInv, \A x, y, z \in Threads : x # y => z = x \/ z = y,
         NEW t \in Threads, Publish(t)
  PROVE  OwnInv'
  <1>t. TypeOK
    BY DEF IInv
  <1>0. /\ UNCHANGED <<key, maker, req, neigh>> /\ pc[t] = "publish" /\ pc'[t] # "publish" /\ pc'[t] # "create"
        /\ buckets' = <<neigh[t]>> \o seen[t]
        /\ \A u \in Threads : u # t => pc'[u] = pc[u] /\ seen'[u] = seen[u]
    BY <1>t DEF Publish, TypeOK, Resolved, history
  <1>1. /\ neigh[t] \in Entries /\ key[neigh[t]] = req[t].addr /\ key[neigh[t]] # NULL
        /\ seen[t] \in Seq(Entries)
        /\ maker[neigh[t]] = t /\ Live(seen[t]) /\ OwnOnce(seen[t]) /\ NoneOf(t, seen[t])
    <2>1. neigh[t] \in Entries /\ key[neigh[t]] = req[t].addr /\ seen[t] \in Seq(Entries)
      BY <1>t, <1>0 DEF TypeOK, NeighSound, IInv
    <2>a. req[t].addr \in Addrs
      BY <1>0 DEF CallsSound, IInv
    <2>2. maker[neigh[t]] = t /\ Live(seen[t]) /\ OwnOnce(seen[t])
      BY <1>0 DEF OwnInv, SeenOnce
    <2>3. Known(t) = seen[t]
      BY <1>0 DEF Known
    <2>4. NoneOf(t, seen[t])
      BY <1>0, <2>3 DEF OwnInv, Fresh
    <2> QED
      BY <2>1, <2>a, <2>2, <2>4, NullAssumption
  <1>2. Elems(buckets') = {neigh[t]} \cup Elems(seen[t])
    BY <1>0, <1>1, Prefixed
  <1>3. OwnOnce(buckets')
    <2>1. \A x \in Elems(seen[t]) : key[x] = key[neigh[t]] => maker[x] # maker[neigh[t]]
      BY <1>1 DEF NoneOf
    <2> QED
      BY <1>0, <1>1, <2>1, OnceMore
  <1>4. Live(buckets')
    BY <1>1, <1>2 DEF Live
  <1>5. TableOnce'
    BY <1>0, <1>3, <1>4 DEF TableOnce, Live, OwnOnce
  <1>6. SeenOnce'
    BY <1>0 DEF OwnInv, SeenOnce, Live, OwnOnce
  <1>7. ASSUME NEW u \in Threads, u # t
        PROVE  Has(u, buckets', Known(u))
    <2>1. Has(u, seen[t], Known(u))
      BY <1>0, <1>7 DEF OwnInv, Remembered
    <2> QED
      BY <1>1, <1>2, <1>7, <2>1 DEF Has
  <1>8. Known(t) = seen[t] /\ Known(t)' = buckets'
    BY <1>0 DEF Known
  <1>9. \A u \in Threads : u # t => Known(u)' = IF pc[u] = "publish" THEN Known(u) ELSE buckets'
    BY <1>0 DEF Known
  <1>10. Fresh'
    <2> SUFFICES ASSUME NEW u \in Threads, pc'[u] \in {"create", "publish"} PROVE NoneOf(u, Known(u))'
      BY DEF Fresh
    <2>1. u # t /\ pc[u] = pc'[u]
      BY <1>0
    <2>2. NoneOf(u, Known(u))
      BY <2>1 DEF OwnInv, Fresh
    <2>3. NoneOf(u, buckets')
      BY <1>7, <2>1, <2>2 DEF NoneOf, Has
    <2> QED
      BY <1>0, <1>9, <2>1, <2>2, <2>3 DEF NoneOf
  <1>11. Remembered'
    <2> SUFFICES ASSUME NEW u \in Threads, NEW v \in Threads, u # v
                 PROVE  (Has(u, buckets, Known(u)) /\ (pc[v] = "publish" => Has(u, seen[v], Known(u))))'
      BY DEF Remembered
    <2>1. CASE u = t
      <3>1. Has(u, buckets, Known(u))'
        BY <1>8, <2>1 DEF Has
      <3>2. ASSUME pc'[v] = "publish" PROVE Has(u, seen[v], Known(u))'
        <4>1. pc[v] = "publish" /\ seen'[v] = seen[v]
          BY <1>0, <2>1, <3>2
        <4>2. Has(t, seen[v], seen[t])
          BY <1>8, <2>1, <4>1 DEF OwnInv, Remembered
        <4> QED
          BY <1>0, <1>2, <1>8, <2>1, <4>1, <4>2 DEF Has
      <3> QED
        BY <3>1, <3>2
    <2>2. CASE u # t
      <3>1. v = t
        BY <2>2
      <3>2. pc'[v] # "publish"
        BY <1>0, <3>1
      <3>3. Has(u, buckets, Known(u))'
        BY <1>0, <1>7, <1>9, <2>2 DEF Has
      <3> QED
        BY <3>2, <3>3
    <2> QED
      BY <2>1, <2>2
  <1> QED
    BY <1>5, <1>6, <1>10, <1>11 DEF OwnInv

LEMMA InitOwn == Init => OwnInv
  <1> SUFFICES ASSUME Init PROVE OwnInv
    OBVIOUS
  <1>1. Elems(buckets) = {}
    BY DEF Init, Elems
  <1>2. \A t \in Threads : pc[t] = "idle"
    BY DEF Init
  <1>3. TableOnce
    BY <1>1 DEF TableOnce, Live, OwnOnce, Init
  <1>4. SeenOnce /\ Fresh
    BY <1>2 DEF SeenOnce, Fresh
  <1>5. Remembered
    BY <1>1, <1>2 DEF Remembered, Has
  <1> QED
    BY <1>3, <1>4, <1>5 DEF OwnInv

LEMMA StepOwn ==
  ASSUME IInv, OwnInv, \A x, y, z \in Threads : x # y => z = x \/ z = y,
         NEW t \in Threads, Step(t)
  PROVE  OwnInv'
  <1>0. TypeOK
    BY DEF IInv
  <1>1. CASE Lookup(t)
    BY <1>0, <1>1, LookupOwn
  <1>2. CASE \E e \in Entries : Create(t, e)
    BY <1>0, <1>2, CreateOwn
  <1>3. CASE Publish(t)
    BY <1>3, PublishOwn
  <1>4. CASE CreateFails(t) \/ Resolve(t) \/ Update(t) \/ Leave(t)
    <2>1. UNCHANGED <<buckets, key, maker, seen>>
      BY <1>4 DEF CreateFails, Resolve, Update, Leave, IfReachable, IfNone, IfIncomplete, Solicit,
         SetIncomplete, Enqueue, Link, Transmit, SetReachable, SetHa, CopyHa, IfFlush, Drain, Unlink,
         Goto, cacheVars, history
    <2>2. \A u \in Threads : u # t => pc'[u] = pc[u] /\ req'[u] = req[u] /\ neigh'[u] = neigh[u]
      BY <1>0, <1>4 DEF TypeOK, CreateFails, Resolve, Update, Leave, IfReachable, IfNone, IfIncomplete, Solicit,
         SetIncomplete, Enqueue, Link, Transmit, SetReachable, SetHa, CopyHa, IfFlush, Drain, Unlink,
         Goto, Return
    <2>3. pc[t] # "publish" /\ pc'[t] \notin {"create", "publish"}
      BY <1>0, <1>4 DEF TypeOK, CreateFails, Resolve, Update, Leave, IfReachable, IfNone, IfIncomplete, Solicit,
         SetIncomplete, Enqueue, Link, Transmit, SetReachable, SetHa, CopyHa, IfFlush, Drain, Unlink,
         Goto, Return
    <2> QED
      BY <2>1, <2>2, <2>3, QuietOwn
  <1> QED
    BY <1>1, <1>2, <1>3, <1>4 DEF Step

\* With the receive loop and at most one thread that sends, for any number of
\* hosts and heap addresses: no thread puts a second entry for an address into the
\* table while its first is there, wherever the other one is between its
\* neigh_lookup and its store to tbl->buckets.
THEOREM OwnEntriesOnce == ASSUME NEW a, Apps \subseteq {a} PROVE Spec => []OwnEntryOnce
  <1>0. \A x, y, z \in Threads : x # y => z = x \/ z = y
    BY DEF Threads
  <1>1. ASSUME IInv, OwnInv, [Next]_vars PROVE OwnInv'
    <2>0. TypeOK
      BY <1>1 DEF IInv
    <2>1. CASE \E t \in Threads : Step(t)
      BY <1>0, <1>1, <2>1, StepOwn
    <2>2. ASSUME NEW t \in Threads, NEW k \in Addrs, NEW s \in Skbs, Send(t, k, s) PROVE OwnInv'
      <3>1. UNCHANGED <<buckets, key, maker, seen, neigh>>
        BY <2>2 DEF Send, cacheVars, history
      <3>2. pc'[t] = "lookup" /\ pc[t] = "idle"
        BY <2>0, <2>2 DEF Send, TypeOK
      <3>3. \A u \in Threads : u # t => pc'[u] = pc[u] /\ req'[u] = req[u]
        BY <2>0, <2>2 DEF Send, TypeOK
      <3> QED
        BY <1>1, <3>1, <3>2, <3>3, QuietOwn
    <2>3. ASSUME NEW k \in Addrs, NEW m, NEW job, ArpIn(job, k, m) PROVE OwnInv'
      <3>1. UNCHANGED <<buckets, key, maker, seen, neigh>>
        BY <2>3 DEF ArpIn, cacheVars, history
      <3>2. pc'[Rx] = "lookup" /\ pc[Rx] = "idle"
        BY <2>0, <2>3 DEF ArpIn, TypeOK, Threads
      <3>3. \A u \in Threads : u # Rx => pc'[u] = pc[u] /\ req'[u] = req[u]
        BY <2>0, <2>3 DEF ArpIn, TypeOK, Threads
      <3> QED
        BY <1>1, <3>1, <3>2, <3>3, QuietOwn
    <2>4. CASE (\E k \in Addrs : Lose(k)) \/ UNCHANGED vars
      <3>1. UNCHANGED <<buckets, key, maker, seen, neigh, pc, req>>
        BY <2>4 DEF Lose, vars, cacheVars, threadVars, history
      <3> QED
        BY <1>1, <3>1, QuietOwn
    <2> QED
      BY <1>1, <2>1, <2>2, <2>3, <2>4 DEF Next, Unprompted, Answered
  <1>2. OwnInv => OwnEntryOnce
    BY DEF OwnInv, TableOnce, OwnOnce, OwnEntryOnce
  <1> QED
    BY <1>1, <1>2, InitOwn, Inductive, PTL DEF Spec
=============================================================================
