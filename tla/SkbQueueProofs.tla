---------------------------- MODULE SkbQueueProofs ----------------------------
(***************************************************************************)
(* Proofs about SkbQueue, for any number of packets and receivers.         *)
(***************************************************************************)
EXTENDS SkbQueue, Integers, TLAPS

Appending == {"append1", "append2", "append3", "append4", "append5"}
Taking == {"take1", "take2", "take3", "take4", "take5", "take6"}

\* A packet is in a sequence of packets, none is twice, one is before another.
Has(q, x) == \E i \in 1 .. Len(q) : q[i] = x
Distinct(q) == \A i, j \in 1 .. Len(q) : q[i] = q[j] => i = j
Before(q, x, y) == \E i, j \in 1 .. Len(q) : i < j /\ q[i] = x /\ q[j] = y

\* What a pointer may be.
Seen(q, x) == x = NULL \/ x = List \/ Has(q, x)

\* The locals at each label: what the operation has loaded and tested.
Locals ==
  /\ pc \in [Threads -> {"idle"} \cup Appending \cup Taking]
  /\ pc[Rx] \notin Taking
  /\ \A t \in Receivers : pc[t] \notin Appending
  /\ pc[Rx] # "idle" =>
       /\ Len(arrived) >= 1 /\ cur[Rx] = arrived[Len(arrived)] /\ a[Rx] # cur[Rx]
       /\ pc[Rx] # "append1" => a[Rx] # NULL
  /\ \A t \in Receivers :
       /\ cur[t] # List
       /\ pc[t] \in Taking \ {"take1"} => cur[t] \in Skbs
       /\ pc[t] \in Taking \ {"take1", "take2"} => a[t] # NULL

\* No packet arrives twice, pointers lead to packets that have arrived, and the
\* links of the others are as alloc_skb left them.
Known ==
  /\ Distinct(arrived)
  /\ \A n \in Nodes : Seen(arrived, next[n]) /\ Seen(arrived, prev[n])
  /\ \A t \in Threads : Seen(arrived, a[t]) /\ Seen(arrived, b[t]) /\ Seen(arrived, cur[t])
  /\ \A i \in 1 .. Len(got) : Has(arrived, got[i])
  /\ \A s \in Skbs : ~ Has(arrived, s) => next[s] = NULL

\* While no two receivers have met: the links lead from older to newer packets,
\* and what is still to be taken is newer than what was taken.
OneTaker == \A t, u \in Receivers : pc[t] # "idle" /\ pc[u] # "idle" => t = u
LinksAhead == \A s \in Skbs : next[s] \in Skbs => Before(arrived, s, next[s])
NotYetLinked ==
  pc[Rx] # "idle" =>
    /\ next[cur[Rx]] = NULL
    /\ \A i \in 1 .. Len(got) : got[i] # cur[Rx]
    /\ \A t \in Receivers : pc[t] \in Taking \ {"take1"} /\ a[t] # NULL => cur[t] # cur[Rx]
FirstAhead == next[List] \in Skbs => \A i \in 1 .. Len(got) : Before(arrived, got[i], next[List])
TakenAhead ==
  \A t \in Receivers :
    /\ pc[t] \in Taking /\ cur[t] \in Skbs => \A i \in 1 .. Len(got) : Before(arrived, got[i], cur[t])
    /\ pc[t] \in {"take2", "take3"} /\ a[t] \in Skbs => Before(arrived, cur[t], a[t])
    /\ pc[t] \in {"take4", "take5", "take6"} /\ next[List] \in Skbs => Before(arrived, cur[t], next[List])
    /\ pc[t] = "take5" => prev[cur[t]] = NULL
    /\ pc[t] = "take6" => b[t] = NULL
GotInOrder == \A i, j \in 1 .. Len(got) : i < j => Before(arrived, got[i], got[j])

Ahead == OneTaker /\ LinksAhead /\ NotYetLinked /\ FirstAhead /\ TakenAhead /\ GotInOrder
Ordered == ~ contended => Ahead

\* The nodes of the queue from the head back to the head, when the packets up to
\* the number lo have been taken, and the links between those from m to n.
Node(q, i, lo) == IF i > lo /\ i <= Len(q) THEN q[i] ELSE List
Chain(nx, pv, q, lo, m, n) ==
  \A i \in m .. n : /\ nx[Node(q, i, lo)] = Node(q, i + 1, lo)
                    /\ pv[Node(q, i + 1, lo)] = Node(q, i, lo)
Chained(lo, m, n) == Chain(next, prev, arrived, lo, m, n)

\* While operations have not overlapped: at most one is under way, and its steps
\* so far have changed just the links that skb_queue_tail or skb_dequeue change.
OneActive == \A t, u \in Threads : pc[t] # "idle" /\ pc[u] # "idle" => t = u
TakenPrefix == Len(got) <= Len(arrived) /\ \A i \in 1 .. Len(got) : got[i] = arrived[i]
QuietShape == Quiet => Chained(Len(got), Len(got), Len(arrived))
AppendShape ==
  LET lo == Len(got)
      hi == Len(arrived)
  IN  pc[Rx] # "idle" =>
        /\ lo < hi /\ Chained(lo, lo, hi - 2) /\ a[Rx] = Node(arrived, hi - 1, lo)
        /\ pc[Rx] # "append1" => next[a[Rx]] = cur[Rx]
        /\ pc[Rx] = "append3" => b[Rx] = cur[Rx]
        /\ pc[Rx] \in {"append4", "append5"} => prev[List] = cur[Rx]
        /\ pc[Rx] = "append5" => prev[cur[Rx]] = a[Rx]
TakeShape ==
  LET lo == Len(got)
      hi == Len(arrived)
  IN  \A t \in Receivers : pc[t] # "idle" =>
        /\ lo < hi /\ cur[t] = arrived[lo + 1] /\ Chained(lo, lo + 2, hi)
        /\ pc[t] = "take1" => next[cur[t]] = Node(arrived, lo + 2, lo)
        /\ pc[t] # "take1" => a[t] = Node(arrived, lo + 2, lo)
        /\ pc[t] \in Taking \ {"take1", "take2"} => prev[a[t]] = List
        /\ pc[t] \in {"take4", "take5", "take6"} => next[List] = a[t]

Serial == OneActive /\ TakenPrefix /\ QuietShape /\ AppendShape /\ TakeShape
Sequential == ~ overlapped => Serial

IInv == TypeOK /\ Locals /\ Known /\ Ordered /\ Sequential

-----------------------------------------------------------------------------
(* Types, locals and pointers *)

\* The two flags, which no step clears.
LEMMA Flags ==
  ASSUME TypeOK, Next
  PROVE  /\ overlapped' \in BOOLEAN /\ contended' \in BOOLEAN
         /\ ~ overlapped' => ~ overlapped
         /\ ~ contended' => ~ contended
  <1>0. overlapped \in BOOLEAN /\ contended \in BOOLEAN
    BY Zenon DEF TypeOK
  <1>1. ASSUME Inside PROVE overlapped' = overlapped /\ contended' = contended
    BY <1>1, Zenon DEF Inside
  <1>2. CASE \E s \in Skbs : Append0(s)
    <2> PICK s \in Skbs : Append0(s)
      BY <1>2
    <2>1. contended' = contended
      BY SMT DEF Append0
    <2>2. overlapped' = (overlapped \/ ~ Quiet)
      BY Zenon DEF Append0
    <2> QED
      BY <1>0, <2>1, <2>2, Zenon
  <1>3. CASE Append1 \/ Append2 \/ Append3 \/ Append4
    BY <1>0, <1>1, <1>3, Zenon DEF Append1, Append2, Append3, Append4
  <1>4. CASE Append5
    BY <1>0, <1>4, Zenon DEF Append5
  <1>5. CASE \E t \in Receivers : Take0(t)
    BY <1>0, <1>5, Zenon DEF Take0
  <1>6. CASE \E t \in Receivers : Take1(t) \/ Take2(t) \/ Take3(t) \/ Take4(t) \/ Take5(t)
    BY <1>0, <1>1, <1>6, Zenon DEF Take1, Take2, Take3, Take4, Take5
  <1>7. CASE \E t \in Receivers : Take6(t)
    <2>1. contended' = contended /\ overlapped' = overlapped
      BY <1>7, SMT DEF Take6
    <2> QED
      BY <1>0, <2>1, Zenon
  <1> QED
    BY <1>2, <1>3, <1>4, <1>5, <1>6, <1>7, Zenon DEF Next

\* What the arrival of a packet does to the order of arrival.
LEMMA Arrives ==
  ASSUME NEW q \in Seq(Skbs), NEW s \in Skbs, NEW r, r = Append(q, s)
  PROVE  /\ Len(q) \in Nat /\ Len(r) = Len(q) + 1 /\ r[Len(r)] = s
         /\ \A i \in 1 .. Len(q) : r[i] = q[i]
         /\ \A x : Has(r, x) <=> Has(q, x) \/ x = s
         /\ \A x : Seen(q, x) => Seen(r, x)
         /\ Seen(r, s)
         /\ \A x, y : Before(q, x, y) => Before(r, x, y)
         /\ \A x : Has(q, x) => Before(r, x, s)
         /\ Distinct(q) /\ ~ Has(q, s) => Distinct(r)
  <1> DEFINE n == Len(q)
  <1>1. /\ Len(r) = n + 1 /\ r[n + 1] = s /\ n \in Nat
        /\ \A i \in 1 .. n : r[i] = q[i]
    OBVIOUS
  <1> HIDE DEF n
  <1>2. \A x : Has(r, x) <=> Has(q, x) \/ x = s
    BY <1>1 DEF Has, n
  <1>3. \A x, y : Before(q, x, y) => Before(r, x, y)
    BY <1>1 DEF Before, n
  <1>4. \A x : Has(q, x) => Before(r, x, s)
    BY <1>1 DEF Has, Before, n
  <1>5. ASSUME Distinct(q), ~ Has(q, s) PROVE Distinct(r)
    <2>1. \A i \in 1 .. n : q[i] # s
      BY <1>5 DEF Has, n
    <2>2. \A i, j \in 1 .. n : q[i] = q[j] => i = j
      BY <1>5 DEF Distinct, n
    <2> SUFFICES ASSUME NEW i \in 1 .. n + 1, NEW j \in 1 .. n + 1, r[i] = r[j] PROVE i = j
      BY <1>1 DEF Distinct
    <2>3. CASE i = n + 1 /\ j = n + 1
      BY <2>3
    <2>4. CASE i \in 1 .. n /\ j \in 1 .. n
      BY <2>2, <2>4, <1>1
    <2>5. CASE i \in 1 .. n /\ j = n + 1
      BY <2>1, <2>5, <1>1
    <2>6. CASE j \in 1 .. n /\ i = n + 1
      BY <2>1, <2>6, <1>1
    <2> QED
      BY <2>3, <2>4, <2>5, <2>6, <1>1
  <1> QED
    BY <1>1, <1>2, <1>3, <1>4, <1>5 DEF Seen, n

LEMMA InitBase == Init => TypeOK /\ Locals /\ Known
  <1> SUFFICES ASSUME Init PROVE TypeOK /\ Locals /\ Known
    OBVIOUS
  <1>1. overlapped \in BOOLEAN /\ contended \in BOOLEAN
    BY Zenon DEF Init
  <1>2. TypeOK
    BY <1>1 DEF Init, TypeOK, Nodes
  <1>3. Locals
    BY ThreadsAssumption, NodesAssumption DEF Init, Locals, Threads, Appending, Taking
  <1>4. Len(arrived) = 0 /\ Len(got) = 0
    BY DEF Init
  <1>5. \A n \in Nodes : next[n] \in {NULL, List} /\ prev[n] \in {NULL, List}
    BY DEF Init
  <1>6. \A t \in Threads : a[t] = NULL /\ b[t] = NULL /\ cur[t] = NULL
    BY DEF Init
  <1>7. \A s \in Skbs : next[s] = NULL
    BY NodesAssumption DEF Init, Nodes
  <1>8. Known
    BY <1>4, <1>5, <1>6, <1>7 DEF Known, Seen, Has, Distinct
  <1> QED
    BY <1>2, <1>3, <1>8

\* The next states of the types.
LEMMA TypesKept ==
  ASSUME TypeOK, Locals, Known, Next
  PROVE  TypeOK'
  <1> USE NodesAssumption, ThreadsAssumption DEF Jump, links, Threads, Nodes
  <1> DEFINE Typed == /\ next' \in [Nodes -> Nodes \cup {NULL}]
                      /\ prev' \in [Nodes -> Nodes \cup {NULL}]
                      /\ a' \in [Threads -> Nodes \cup {NULL}]
                      /\ b' \in [Threads -> Nodes \cup {NULL}]
                      /\ cur' \in [Threads -> Nodes \cup {NULL}]
                      /\ arrived' \in Seq(Skbs)
                      /\ got' \in Seq(Skbs)
  <1>0. overlapped' \in BOOLEAN /\ contended' \in BOOLEAN
    BY Flags
  <1>1. ASSUME NEW s \in Skbs, Append0(s) PROVE Typed
    BY <1>1 DEF Append0, TypeOK
  <1>2. ASSUME Append1 PROVE Typed
    BY <1>2, SMT DEF Append1, Inside, TypeOK, Locals, Appending, Taking
  <1>3. ASSUME Append2 PROVE Typed
    BY <1>3, SMT DEF Append2, Inside, TypeOK, Locals, Appending, Taking
  <1>4. ASSUME Append3 PROVE Typed
    BY <1>4, SMT DEF Append3, Inside, TypeOK, Locals, Appending, Taking
  <1>5. ASSUME Append4 PROVE Typed
    BY <1>5, SMT DEF Append4, Inside, TypeOK, Locals, Appending, Taking
  <1>6. ASSUME Append5 PROVE Typed
    BY <1>6, SMT DEF Append5, TypeOK, Locals, Appending, Taking
  <1>7. ASSUME NEW t \in Receivers, Take0(t) PROVE Typed
    BY <1>7, SMT DEF Take0, TypeOK, Locals, Appending, Taking
  <1>8. ASSUME NEW t \in Receivers, Take1(t) PROVE Typed
    BY <1>8, SMT DEF Take1, Inside, TypeOK, Locals, Appending, Taking
  <1>9. ASSUME NEW t \in Receivers, Take2(t) PROVE Typed
    BY <1>9, SMT DEF Take2, Inside, TypeOK, Locals, Appending, Taking
  <1>10. ASSUME NEW t \in Receivers, Take3(t) PROVE Typed
    BY <1>10, SMT DEF Take3, Inside, TypeOK, Locals, Appending, Taking
  <1>11. ASSUME NEW t \in Receivers, Take4(t) PROVE Typed
    BY <1>11, SMT DEF Take4, Inside, TypeOK, Locals, Appending, Taking
  <1>12. ASSUME NEW t \in Receivers, Take5(t) PROVE Typed
    BY <1>12, SMT DEF Take5, Inside, TypeOK, Locals, Appending, Taking
  <1>13. ASSUME NEW t \in Receivers, Take6(t) PROVE Typed
    BY <1>13, SMT DEF Take6, TypeOK, Locals, Appending, Taking
  <1>14. Typed
    BY <1>1, <1>2, <1>3, <1>4, <1>5, <1>6, <1>7, <1>8, <1>9, <1>10, <1>11, <1>12, <1>13, Zenon DEF Next
  <1> QED
    BY <1>0, <1>14, Zenon DEF TypeOK

\* Each step leaves the locals as the next label expects them.
LEMMA LocalsKept ==
  ASSUME TypeOK, Locals, Known, Next
  PROVE  Locals'
  <1> USE NodesAssumption, ThreadsAssumption DEF Jump, links, TypeOK, Locals, Threads, Nodes, Appending, Taking
  <1>1. ASSUME NEW s \in Skbs, Append0(s) PROVE Locals'
    <2>1. ~ Has(arrived, s)
      BY <1>1 DEF Append0, Has
    <2>a. Seen(arrived, prev[List])
      BY DEF Known
    <2>2. prev[List] # s
      BY <2>1, <2>a DEF Seen
    <2>3. arrived' = Append(arrived, s) /\ arrived \in Seq(Skbs)
      BY <1>1 DEF Append0
    <2>4. /\ Len(arrived) \in Nat
          /\ Len(arrived') = Len(arrived) + 1 /\ arrived'[Len(arrived')] = s
      BY <2>3, SMT
    <2> QED
      BY <1>1, <2>2, <2>4 DEF Append0
  <1>2. ASSUME Append1 PROVE Locals'
    BY <1>2, SMT DEF Append1, Inside
  <1>3. ASSUME Append2 PROVE Locals'
    BY <1>3, SMT DEF Append2, Inside
  <1>4. ASSUME Append3 PROVE Locals'
    BY <1>4, SMT DEF Append3, Inside
  <1>5. ASSUME Append4 PROVE Locals'
    BY <1>5, SMT DEF Append4, Inside
  <1>6. ASSUME Append5 PROVE Locals'
    BY <1>6, SMT DEF Append5
  <1>7. ASSUME NEW t \in Receivers, Take0(t) PROVE Locals'
    BY <1>7, SMT DEF Take0
  <1>8. ASSUME NEW t \in Receivers, Take1(t) PROVE Locals'
    BY <1>8, SMT DEF Take1, Inside
  <1>9. ASSUME NEW t \in Receivers, Take2(t) PROVE Locals'
    BY <1>9, SMT DEF Take2, Inside
  <1>10. ASSUME NEW t \in Receivers, Take3(t) PROVE Locals'
    BY <1>10, SMT DEF Take3, Inside
  <1>11. ASSUME NEW t \in Receivers, Take4(t) PROVE Locals'
    BY <1>11, SMT DEF Take4, Inside
  <1>12. ASSUME NEW t \in Receivers, Take5(t) PROVE Locals'
    BY <1>12, SMT DEF Take5, Inside
  <1>13. ASSUME NEW t \in Receivers, Take6(t) PROVE Locals'
    BY <1>13, SMT DEF Take6
  <1> QED
    BY <1>1, <1>2, <1>3, <1>4, <1>5, <1>6, <1>7, <1>8, <1>9, <1>10, <1>11, <1>12, <1>13, Zenon DEF Next

\* Pointers keep leading to packets that have arrived.
LEMMA KnownKept ==
  ASSUME TypeOK, Locals, Known, Next
  PROVE  Known'
  <1> USE NodesAssumption, ThreadsAssumption DEF Jump, links, TypeOK, Known, Threads, Nodes
  <1>0. \A i \in 1 .. Len(arrived) : Has(arrived, arrived[i]) /\ Seen(arrived, arrived[i])
    BY DEF Has, Seen
  <1>a. Seen(arrived, NULL) /\ Seen(arrived, List)
    BY DEF Seen
  <1>b. \A x \in Skbs : Seen(arrived, x) => Has(arrived, x)
    BY DEF Seen
  <1>1. ASSUME NEW s \in Skbs, Append0(s) PROVE Known'
    <2>1. ~ Has(arrived, s)
      BY <1>1 DEF Append0, Has
    <2>2. arrived' = Append(arrived, s) /\ arrived \in Seq(Skbs) /\ Distinct(arrived)
      BY <1>1 DEF Append0
    <2>3. /\ \A x : Has(arrived', x) <=> Has(arrived, x) \/ x = s
          /\ \A x : Seen(arrived, x) => Seen(arrived', x)
          /\ Seen(arrived', s)
          /\ Distinct(arrived')
      BY <2>1, <2>2, Arrives, Zenon
    <2>4. UNCHANGED <<next, prev, got, b>>
      BY <1>1 DEF Append0
    <2>5. \A t \in Threads : Seen(arrived', a'[t]) /\ Seen(arrived', b'[t]) /\ Seen(arrived', cur'[t])
      BY <1>1, <2>3, <2>4 DEF Append0
    <2> QED
      BY <2>3, <2>4, <2>5
  <1>2. ASSUME Append1 PROVE Known'
    BY <1>0, <1>a, <1>b, <1>2, SMT DEF Append1, Inside, Locals, Appending, Taking
  <1>3. ASSUME Append2 PROVE Known'
    BY <1>0, <1>a, <1>b, <1>3, SMT DEF Append2, Inside, Locals, Appending, Taking
  <1>4. ASSUME Append3 PROVE Known'
    BY <1>0, <1>a, <1>b, <1>4, SMT DEF Append3, Inside, Locals, Appending, Taking
  <1>5. ASSUME Append4 PROVE Known'
    BY <1>0, <1>a, <1>b, <1>5, SMT DEF Append4, Inside, Locals, Appending, Taking
  <1>6. ASSUME Append5 PROVE Known'
    BY <1>0, <1>a, <1>b, <1>6, SMT DEF Append5, Locals, Appending, Taking
  <1>7. ASSUME NEW t \in Receivers, Take0(t) PROVE Known'
    BY <1>0, <1>a, <1>b, <1>7, SMT DEF Take0, Locals, Appending, Taking
  <1>8. ASSUME NEW t \in Receivers, Take1(t) PROVE Known'
    BY <1>0, <1>a, <1>b, <1>8, SMT DEF Take1, Inside, Locals, Appending, Taking
  <1>9. ASSUME NEW t \in Receivers, Take2(t) PROVE Known'
    BY <1>0, <1>a, <1>b, <1>9, SMT DEF Take2, Inside, Locals, Appending, Taking
  <1>10. ASSUME NEW t \in Receivers, Take3(t) PROVE Known'
    BY <1>0, <1>a, <1>b, <1>10, SMT DEF Take3, Inside, Locals, Appending, Taking
  <1>11. ASSUME NEW t \in Receivers, Take4(t) PROVE Known'
    BY <1>0, <1>a, <1>b, <1>11, SMT DEF Take4, Inside, Locals, Appending, Taking
  <1>12. ASSUME NEW t \in Receivers, Take5(t) PROVE Known'
    BY <1>0, <1>a, <1>b, <1>12, SMT DEF Take5, Inside, Locals, Appending, Taking
  <1>13. ASSUME NEW t \in Receivers, Take6(t) PROVE Known'
    BY <1>0, <1>a, <1>b, <1>13, SMT DEF Take6, Locals, Appending, Taking
  <1> QED
    BY <1>1, <1>2, <1>3, <1>4, <1>5, <1>6, <1>7, <1>8, <1>9, <1>10, <1>11, <1>12, <1>13, Zenon DEF Next
-----------------------------------------------------------------------------
(* One receiver at a time: order *)

\* The order of arrival is a strict order, and its last packet comes after the others.
LEMMA Arrival ==
  ASSUME NEW q \in Seq(Skbs), Distinct(q)
  PROVE  /\ \A x, y : Before(q, x, y) => x # y /\ Has(q, x) /\ Has(q, y)
         /\ \A x, y, z : Before(q, x, y) /\ Before(q, y, z) => Before(q, x, z)
         /\ \A x : Len(q) >= 1 /\ Has(q, x) /\ x # q[Len(q)] => Before(q, x, q[Len(q)])
  <1>0. Len(q) \in Nat
    OBVIOUS
  <1>1. \A x, y : Before(q, x, y) => x # y /\ Has(q, x) /\ Has(q, y)
    BY <1>0 DEF Before, Has, Distinct
  <1>2. \A x, y, z : Before(q, x, y) /\ Before(q, y, z) => Before(q, x, z)
    BY <1>0 DEF Before, Distinct
  <1>3. \A x : Len(q) >= 1 /\ Has(q, x) /\ x # q[Len(q)] => Before(q, x, q[Len(q)])
    BY <1>0 DEF Before, Has
  <1> QED
    BY <1>1, <1>2, <1>3

LEMMA AheadKept ==
  ASSUME TypeOK, Locals, Known, Ahead, Next, Locals',
         \A t \in Receivers : Take0(t) => \A u \in Receivers : pc[u] = "idle"
  PROVE  Ahead'
  <1> USE NodesAssumption, ThreadsAssumption
      DEF Jump, links, Threads, Nodes, Appending, Taking, Ahead,
          OneTaker, LinksAhead, NotYetLinked, FirstAhead, TakenAhead, GotInOrder
  <1>0. arrived \in Seq(Skbs) /\ Distinct(arrived) /\ Len(arrived) \in Nat
    BY DEF TypeOK, Known
  <1>a. \A x, y : Before(arrived, x, y) => x # y /\ Has(arrived, x) /\ Has(arrived, y)
    BY <1>0, Arrival, Zenon
  <1>b. \A x, y, z : Before(arrived, x, y) /\ Before(arrived, y, z) => Before(arrived, x, z)
    BY <1>0, Arrival, Zenon
  <1>c. ASSUME pc[Rx] # "idle", NEW x, Has(arrived, x), x # cur[Rx]
        PROVE  Before(arrived, x, cur[Rx])
    BY <1>0, <1>c, Arrival, Zenon DEF Locals
  <1>d. \A x \in Skbs : Seen(arrived, x) => Has(arrived, x)
    BY DEF Seen
  <1>1. ASSUME NEW s \in Skbs, Append0(s) PROVE Ahead'
    <2>1. ~ Has(arrived, s)
      BY <1>1 DEF Append0, Has
    <2>2. arrived' = Append(arrived, s)
      BY <1>1 DEF Append0
    <2>3. \A x, y : Before(arrived, x, y) => Before(arrived', x, y)
      BY <1>0, <2>2, Arrives, Zenon
    <2>4. UNCHANGED <<next, prev, got, b>>
      BY <1>1 DEF Append0
    <2>5. cur'[Rx] = s /\ next[s] = NULL
      BY <1>1, <2>1 DEF Append0, TypeOK, Known
    <2>6. \A t \in Receivers : pc'[t] = pc[t] /\ cur'[t] = cur[t] /\ a'[t] = a[t]
      BY <1>1 DEF Append0, TypeOK, Locals
    <2>7. \A i \in 1 .. Len(got) : got[i] # s
      BY <2>1 DEF Known
    <2>8. \A t \in Receivers : cur[t] # s
      BY <1>d, <2>1 DEF Known
    <2> QED
      BY <2>3, <2>4, <2>5, <2>6, <2>7, <2>8
  <1>2. ASSUME Append1 PROVE Ahead'
    BY <1>a, <1>c, <1>d, <1>2, SMT DEF Append1, Inside, TypeOK, Locals, Known
  <1>3. ASSUME Append2 PROVE Ahead'
    BY <1>a, <1>c, <1>d, <1>3, SMT DEF Append2, Inside, TypeOK, Locals, Known
  <1>4. ASSUME Append3 PROVE Ahead'
    BY <1>a, <1>c, <1>d, <1>4, SMT DEF Append3, Inside, TypeOK, Locals, Known
  <1>5. ASSUME Append4 PROVE Ahead'
    BY <1>a, <1>c, <1>d, <1>5, SMT DEF Append4, Inside, TypeOK, Locals, Known
  <1>6. ASSUME Append5 PROVE Ahead'
    BY <1>a, <1>c, <1>d, <1>6, SMT DEF Append5, TypeOK, Locals, Known
  <1>7. ASSUME NEW t \in Receivers, Take0(t) PROVE Ahead'
    <2>1. \A u \in Receivers : pc[u] = "idle"
      BY <1>7
    <2> QED
      BY <1>7, <2>1, SMT DEF Take0, TypeOK, Locals, Known
  <1>8. ASSUME NEW t \in Receivers, Take1(t) PROVE Ahead'
    BY <1>a, <1>b, <1>d, <1>8, SMT DEF Take1, Inside, TypeOK, Locals, Known
  <1>9. ASSUME NEW t \in Receivers, Take2(t) PROVE Ahead'
    BY <1>a, <1>b, <1>d, <1>9, SMT DEF Take2, Inside, TypeOK, Locals, Known
  <1>10. ASSUME NEW t \in Receivers, Take3(t) PROVE Ahead'
    BY <1>a, <1>b, <1>d, <1>10, SMT DEF Take3, Inside, TypeOK, Locals, Known
  <1>11. ASSUME NEW t \in Receivers, Take4(t) PROVE Ahead'
    BY <1>a, <1>b, <1>d, <1>11, SMT DEF Take4, Inside, TypeOK, Locals, Known
  <1>12. ASSUME NEW t \in Receivers, Take5(t) PROVE Ahead'
    BY <1>a, <1>b, <1>d, <1>12, SMT DEF Take5, Inside, TypeOK, Locals, Known
  <1>13. ASSUME NEW t \in Receivers, Take6(t) PROVE Ahead'
    BY <1>a, <1>b, <1>d, <1>13, SMT DEF Take6, TypeOK, Locals, Known
  <1> QED
    BY <1>1, <1>2, <1>3, <1>4, <1>5, <1>6, <1>7, <1>8, <1>9, <1>10, <1>11, <1>12, <1>13, Zenon DEF Next
LEMMA OrderedKept ==
  ASSUME TypeOK, Locals, Known, Ordered, Next
  PROVE  Ordered'
  <1> SUFFICES ASSUME ~ contended' PROVE Ahead'
    BY Zenon DEF Ordered
  <1>1. Locals'
    BY LocalsKept
  <1>2. Ahead
    BY Flags, Zenon DEF Ordered
  <1>3. \A t \in Receivers : Take0(t) => \A u \in Receivers : pc[u] = "idle"
    BY Zenon DEF Take0
  <1> QED
    BY <1>1, <1>2, <1>3, AheadKept

-----------------------------------------------------------------------------
(* One operation at a time: the list *)

\* The nodes between the two ends of the queue are distinct packets.
LEMMA NodesOfQueue ==
  ASSUME NEW q \in Seq(Skbs), Distinct(q), NEW lo \in Nat, lo <= Len(q)
  PROVE  /\ \A i \in lo + 1 .. Len(q) : Node(q, i, lo) = q[i] /\ Node(q, i, lo) \in Skbs
         /\ \A i \in lo + 1 .. Len(q) : \A j \in lo + 1 .. Len(q) :
              Node(q, i, lo) = Node(q, j, lo) => i = j
         /\ Node(q, lo, lo) = List /\ Node(q, Len(q) + 1, lo) = List
  BY DEF Node, Distinct

\* Storing to a link that is not one of its links keeps a chain.
LEMMA NextKept ==
  ASSUME NEW nx \in [Nodes -> Nodes \cup {NULL}], NEW pv,
         NEW q \in Seq(Skbs), NEW lo \in Nat, NEW m \in Int, NEW n \in Int,
         Chain(nx, pv, q, lo, m, n), NEW x, NEW v,
         \A i \in m .. n : Node(q, i, lo) # x,
         NEW ny, ny = [nx EXCEPT ![x] = v]
  PROVE  Chain(ny, pv, q, lo, m, n)
  <1>1. \A i \in Int : Node(q, i, lo) \in Nodes
    BY DEF Node, Nodes
  <1>2. \A i \in m .. n : Node(q, i, lo) \in Nodes
    BY <1>1
  <1> QED
    BY <1>2 DEF Chain

LEMMA PrevKept ==
  ASSUME NEW pv \in [Nodes -> Nodes \cup {NULL}], NEW nx,
         NEW q \in Seq(Skbs), NEW lo \in Nat, NEW m \in Int, NEW n \in Int,
         Chain(nx, pv, q, lo, m, n), NEW x, NEW v,
         \A i \in m .. n : Node(q, i + 1, lo) # x,
         NEW pw, pw = [pv EXCEPT ![x] = v]
  PROVE  Chain(nx, pw, q, lo, m, n)
  <1>1. \A i \in Int : Node(q, i, lo) \in Nodes
    BY DEF Node, Nodes
  <1>2. \A i \in m .. n : Node(q, i + 1, lo) \in Nodes
    BY <1>1
  <1> QED
    BY <1>2 DEF Chain

\* skb_queue_tail, when nothing else is under way.
LEMMA AppendSerial ==
  ASSUME TypeOK, Locals, Known, Serial, Locals',
         Append1 \/ Append2 \/ Append3 \/ Append4 \/ Append5
  PROVE  Serial'
  <1> DEFINE lo == Len(got)
             hi == Len(arrived)
             n == hi - 2
             N(i) == Node(arrived, i, lo)
  <1> HIDE DEF n
  <1>0. /\ arrived \in Seq(Skbs) /\ Distinct(arrived) /\ got \in Seq(Skbs)
        /\ lo \in Nat /\ hi \in Nat /\ lo <= hi
    BY DEF TypeOK, Known, Serial, TakenPrefix
  <1>1. /\ \A i \in lo + 1 .. hi : N(i) = arrived[i] /\ N(i) \in Skbs
        /\ \A i \in lo + 1 .. hi : \A j \in lo + 1 .. hi : N(i) = N(j) => i = j
        /\ N(lo) = List /\ N(hi + 1) = List
    BY <1>0, NodesOfQueue, Zenon
  <1>2. /\ next \in [Nodes -> Nodes \cup {NULL}] /\ prev \in [Nodes -> Nodes \cup {NULL}]
        /\ a \in [Threads -> Nodes \cup {NULL}] /\ b \in [Threads -> Nodes \cup {NULL}]
        /\ cur \in [Threads -> Nodes \cup {NULL}]
        /\ pc \in [Threads -> {"idle"} \cup Appending \cup Taking]
    BY DEF TypeOK, Locals
  <1>3. pc[Rx] # "idle" /\ Rx \in Threads
    BY DEF Append1, Append2, Append3, Append4, Append5, Threads
  <1>4. \A t \in Receivers : pc[t] = "idle"
    BY <1>3, ThreadsAssumption DEF Serial, OneActive, Threads
  <1>5. /\ UNCHANGED <<arrived, got>>
        /\ \A t \in Receivers : pc'[t] = "idle"
    BY <1>2, <1>3, <1>4, ThreadsAssumption
       DEF Append1, Append2, Append3, Append4, Append5, Inside, Jump, Threads
  <1>6. /\ lo < hi /\ Chain(next, prev, arrived, lo, lo, n) /\ a[Rx] = N(hi - 1)
        /\ cur[Rx] = N(hi) /\ cur[Rx] \in Skbs /\ a[Rx] # cur[Rx] /\ a[Rx] \in Nodes
        /\ n \in Int /\ lo \in Int
    BY <1>0, <1>1, <1>3 DEF Serial, AppendShape, Chained, Locals, Nodes, n
  <1>7. /\ OneActive' /\ TakenPrefix' /\ TakeShape'
    BY <1>5 DEF Serial, OneActive, TakenPrefix, TakeShape, Threads
  <1>8. CASE Append1 \/ Append2 \/ Append3 \/ Append4
    <2>1. pc'[Rx] # "idle" /\ cur'[Rx] = cur[Rx] /\ a' = a
      BY <1>2, <1>3, <1>8 DEF Append1, Append2, Append3, Append4, Inside, Jump
    <2>2. QuietShape'
      BY <1>3, <2>1 DEF QuietShape, Quiet
    <2>3. Chain(next', prev', arrived, lo, lo, n)
      <3>1. CASE Append1
        <4>1. \A i \in lo .. n : N(i) # a[Rx]
          BY <1>0, <1>1, <1>6, NodesAssumption DEF n
        <4>2. next' = [next EXCEPT ![a[Rx]] = cur[Rx]] /\ prev' = prev
          BY <3>1 DEF Append1
        <4> QED
          BY <1>0, <1>2, <1>6, <4>1, <4>2, NextKept, Zenon
      <3>2. CASE Append2
        BY <1>6, <3>2 DEF Append2, links
      <3>3. CASE Append3
        <4>1. \A i \in lo .. n : N(i + 1) # List
          BY <1>0, <1>1, <1>6, NodesAssumption DEF n
        <4>2. prev' = [prev EXCEPT ![List] = b[Rx]] /\ next' = next
          BY <3>3 DEF Append3
        <4> QED
          BY <1>0, <1>2, <1>6, <4>1, <4>2, PrevKept, Zenon
      <3>4. CASE Append4
        <4>1. \A i \in lo .. n : N(i + 1) # cur[Rx]
          BY <1>0, <1>1, <1>6, NodesAssumption DEF n
        <4>2. prev' = [prev EXCEPT ![cur[Rx]] = a[Rx]] /\ next' = next
          BY <3>4 DEF Append4
        <4> QED
          BY <1>0, <1>2, <1>6, <4>1, <4>2, PrevKept, Zenon
      <3> QED
        BY <1>8, <3>1, <3>2, <3>3, <3>4
    <2>4. /\ pc'[Rx] # "append1" => next'[a[Rx]] = cur[Rx]
          /\ pc'[Rx] = "append3" => b'[Rx] = cur[Rx]
          /\ pc'[Rx] \in {"append4", "append5"} => prev'[List] = cur[Rx]
          /\ pc'[Rx] = "append5" => prev'[cur[Rx]] = a[Rx]
      BY <1>2, <1>3, <1>6, <1>8, NodesAssumption
         DEF Append1, Append2, Append3, Append4, Inside, Jump, links, Serial, AppendShape, Nodes
    <2>5. AppendShape'
      BY <1>5, <1>6, <2>1, <2>3, <2>4 DEF AppendShape, Chained, n
    <2> QED
      BY <1>7, <2>2, <2>5 DEF Serial
  <1>9. CASE Append5
    <2>1. /\ pc'[Rx] = "idle" /\ prev' = prev
          /\ next' = [next EXCEPT ![cur[Rx]] = List]
      BY <1>2, <1>3, <1>9 DEF Append5, Jump
    <2>2. \A i \in lo .. n : N(i) # cur[Rx]
      BY <1>0, <1>1, <1>6, NodesAssumption DEF n
    <2>3. Chain(next', prev', arrived, lo, lo, n)
      BY <1>0, <1>2, <1>6, <2>1, <2>2, NextKept, Zenon
    <2>4. /\ next'[N(hi - 1)] = N(hi) /\ prev'[N(hi)] = N(hi - 1)
          /\ next'[N(hi)] = N(hi + 1) /\ prev'[N(hi + 1)] = N(hi)
      BY <1>1, <1>2, <1>6, <1>9, <2>1 DEF Serial, AppendShape, Append5, Nodes
    <2>5. Chain(next', prev', arrived, lo, lo, hi)
      <3> SUFFICES ASSUME NEW i \in lo .. hi
                   PROVE  next'[N(i)] = N(i + 1) /\ prev'[N(i + 1)] = N(i)
        BY DEF Chain
      <3>1. CASE i \in lo .. n
        BY <2>3, <3>1 DEF Chain
      <3>2. CASE i = hi - 1
        BY <1>0, <2>4, <3>2
      <3>3. CASE i = hi
        BY <2>4, <3>3
      <3> QED
        BY <1>0, <3>1, <3>2, <3>3 DEF n
    <2>6. QuietShape'
      BY <1>5, <2>5 DEF QuietShape, Chained
    <2> QED
      BY <1>7, <2>1, <2>6 DEF Serial, AppendShape
  <1> QED
    BY <1>8, <1>9

\* skb_dequeue, when nothing else is under way.
LEMMA TakeSerial ==
  ASSUME TypeOK, Locals, Known, Serial, NEW t \in Receivers,
         Take1(t) \/ Take2(t) \/ Take3(t) \/ Take4(t) \/ Take5(t) \/ Take6(t)
  PROVE  Serial'
  <1> DEFINE lo == Len(got)
             hi == Len(arrived)
             m == lo + 2
             N(i) == Node(arrived, i, lo)
  <1> HIDE DEF m
  <1>0. /\ arrived \in Seq(Skbs) /\ Distinct(arrived) /\ got \in Seq(Skbs)
        /\ lo \in Nat /\ hi \in Nat /\ lo <= hi
    BY DEF TypeOK, Known, Serial, TakenPrefix
  <1>1. /\ \A i \in lo + 1 .. hi : N(i) = arrived[i] /\ N(i) \in Skbs
        /\ \A i \in lo + 1 .. hi : \A j \in lo + 1 .. hi : N(i) = N(j) => i = j
        /\ N(lo) = List /\ N(hi + 1) = List
    BY <1>0, NodesOfQueue, Zenon
  <1>2. /\ next \in [Nodes -> Nodes \cup {NULL}] /\ prev \in [Nodes -> Nodes \cup {NULL}]
        /\ a \in [Threads -> Nodes \cup {NULL}] /\ b \in [Threads -> Nodes \cup {NULL}]
        /\ cur \in [Threads -> Nodes \cup {NULL}]
        /\ pc \in [Threads -> {"idle"} \cup Appending \cup Taking]
    BY DEF TypeOK, Locals
  <1>3. pc[t] # "idle" /\ t \in Threads /\ t # Rx
    BY ThreadsAssumption DEF Take1, Take2, Take3, Take4, Take5, Take6, Threads
  <1>4. \A u \in Threads : u # t => pc[u] = "idle"
    BY <1>3 DEF Serial, OneActive
  <1>5. /\ arrived' = arrived
        /\ \A u \in Threads : u # t => pc'[u] = "idle"
    BY <1>2, <1>3, <1>4
       DEF Take1, Take2, Take3, Take4, Take5, Take6, Inside, Jump
  <1>6. /\ lo < hi /\ Chain(next, prev, arrived, lo, m, hi)
        /\ cur[t] = N(lo + 1) /\ cur[t] \in Skbs
        /\ pc[t] # "take1" => a[t] = N(m) /\ a[t] # cur[t] /\ a[t] \in Nodes
        /\ m \in Int /\ hi \in Int
    <2>1. /\ lo < hi /\ Chain(next, prev, arrived, lo, m, hi) /\ cur[t] = arrived[lo + 1]
          /\ pc[t] # "take1" => a[t] = N(m)
      BY <1>3 DEF Serial, TakeShape, Chained, m
    <2>2. cur[t] = N(lo + 1) /\ cur[t] \in Skbs
      BY <1>0, <1>1, <2>1
    <2>3. N(m) # cur[t] /\ N(m) \in Nodes
      BY <1>0, <1>1, <2>1, <2>2, NodesAssumption DEF m, Nodes
    <2> QED
      BY <1>0, <2>1, <2>2, <2>3 DEF m
  <1>7. /\ OneActive' /\ AppendShape'
    BY <1>3, <1>5 DEF OneActive, AppendShape, Threads
  <1>8. CASE Take1(t) \/ Take2(t) \/ Take3(t) \/ Take4(t) \/ Take5(t)
    <2>1. pc'[t] # "idle" /\ pc'[t] # "take1" /\ cur' = cur /\ got' = got
      BY <1>2, <1>3, <1>8 DEF Take1, Take2, Take3, Take4, Take5, Inside, Jump
    <2>2. QuietShape' /\ TakenPrefix'
      BY <1>3, <1>5, <2>1 DEF QuietShape, Quiet, Serial, TakenPrefix
    <2>3. Chain(next', prev', arrived, lo, m, hi)
      <3>1. CASE Take1(t) \/ Take5(t)
        BY <1>6, <3>1 DEF Take1, Take5, links
      <3>2. CASE Take2(t)
        <4>1. \A i \in m .. hi : N(i + 1) # a[t]
          BY <1>0, <1>1, <1>6, <3>2, NodesAssumption DEF m, Take2
        <4>2. prev' = [prev EXCEPT ![a[t]] = List] /\ next' = next
          BY <3>2 DEF Take2
        <4> QED
          BY <1>0, <1>2, <1>6, <4>1, <4>2, PrevKept, Zenon
      <3>3. CASE Take3(t)
        <4>1. \A i \in m .. hi : N(i) # List
          BY <1>0, <1>1, <1>6, NodesAssumption DEF m
        <4>2. next' = [next EXCEPT ![List] = a[t]] /\ prev' = prev
          BY <3>3 DEF Take3
        <4> QED
          BY <1>0, <1>2, <1>6, <4>1, <4>2, NextKept, Zenon
      <3>4. CASE Take4(t)
        <4>1. \A i \in m .. hi : N(i + 1) # cur[t]
          BY <1>0, <1>1, <1>6, NodesAssumption DEF m
        <4>2. prev' = [prev EXCEPT ![cur[t]] = NULL] /\ next' = next
          BY <3>4 DEF Take4
        <4> QED
          BY <1>0, <1>2, <1>6, <4>1, <4>2, PrevKept, Zenon
      <3> QED
        BY <1>8, <3>1, <3>2, <3>3, <3>4
    <2>4. /\ a'[t] = N(m)
          /\ pc'[t] \in Taking \ {"take1", "take2"} => prev'[a'[t]] = List
          /\ pc'[t] \in {"take4", "take5", "take6"} => next'[List] = a'[t]
      BY <1>2, <1>3, <1>6, <1>8, NodesAssumption
         DEF Take1, Take2, Take3, Take4, Take5, Inside, Jump, links, Serial, TakeShape, Nodes, Taking, m
    <2>5. \A u \in Receivers : pc'[u] # "idle" => u = t
      BY <1>5 DEF Threads
    <2>6. TakeShape'
      BY <1>5, <1>6, <2>1, <2>3, <2>4, <2>5, <1>1, <1>0 DEF TakeShape, Chained, m
    <2> QED
      BY <1>7, <2>2, <2>6 DEF Serial
  <1>9. CASE Take6(t)
    <2>1. /\ pc'[t] = "idle" /\ prev' = prev /\ got' = Append(got, cur[t])
          /\ next' = [next EXCEPT ![cur[t]] = b[t]]
      BY <1>2, <1>3, <1>9 DEF Take6, Jump
    <2>2. \A i \in m .. hi : N(i) # cur[t]
      BY <1>0, <1>1, <1>6 DEF m
    <2>3. Chain(next', prev', arrived, lo, m, hi)
      BY <1>0, <1>2, <1>6, <2>1, <2>2, NextKept, Zenon
    <2>4. /\ next'[List] = N(m) /\ prev'[N(m)] = List
      BY <1>2, <1>3, <1>6, <1>9, <2>1, NodesAssumption DEF Serial, TakeShape, Take6, Nodes, Taking
    <2>5. /\ Len(got') = lo + 1 /\ got'[lo + 1] = cur[t]
          /\ \A i \in 1 .. lo : got'[i] = got[i]
      BY <1>0, <1>6, <2>1
    <2>6. TakenPrefix'
      BY <1>0, <1>1, <1>5, <1>6, <2>5 DEF TakenPrefix, Serial
    <2>7. \A i \in m .. hi + 1 : Node(arrived, i, lo + 1) = N(i)
      BY <1>0 DEF Node, m
    <2>8. Chain(next', prev', arrived, lo + 1, lo + 1, hi)
      <3> SUFFICES ASSUME NEW i \in lo + 1 .. hi
                   PROVE  /\ next'[Node(arrived, i, lo + 1)] = Node(arrived, i + 1, lo + 1)
                          /\ prev'[Node(arrived, i + 1, lo + 1)] = Node(arrived, i, lo + 1)
        BY DEF Chain
      <3>1. CASE i = lo + 1
        <4>1. Node(arrived, i, lo + 1) = List
          BY <1>0, <3>1 DEF Node
        <4>2. Node(arrived, i + 1, lo + 1) = N(m) /\ i + 1 = m
          BY <1>0, <1>6, <2>7, <3>1 DEF m
        <4> QED
          BY <2>4, <4>1, <4>2
      <3>2. CASE i \in m .. hi
        <4>1. Node(arrived, i, lo + 1) = N(i) /\ Node(arrived, i + 1, lo + 1) = N(i + 1)
          BY <1>0, <1>6, <2>7, <3>2
        <4> QED
          BY <2>3, <3>2, <4>1 DEF Chain
      <3> QED
        BY <1>0, <3>1, <3>2 DEF m
    <2>9. QuietShape'
      BY <1>5, <2>5, <2>8 DEF QuietShape, Chained
    <2>10. TakeShape'
      BY <1>5, <2>1 DEF TakeShape, Threads
    <2> QED
      BY <1>7, <2>6, <2>9, <2>10 DEF Serial
  <1> QED
    BY <1>8, <1>9

\* An operation that begins when nothing is under way.
LEMMA BeginSerial ==
  ASSUME TypeOK, Locals, Known, Serial, Quiet,
         (\E s \in Skbs : Append0(s)) \/ (\E t \in Receivers : Take0(t))
  PROVE  Serial'
  <1> DEFINE lo == Len(got)
             hi == Len(arrived)
             N(i) == Node(arrived, i, lo)
  <1>0. /\ arrived \in Seq(Skbs) /\ Distinct(arrived) /\ got \in Seq(Skbs)
        /\ lo \in Nat /\ hi \in Nat /\ lo <= hi
    BY DEF TypeOK, Known, Serial, TakenPrefix
  <1>1. /\ \A i \in lo + 1 .. hi : N(i) = arrived[i] /\ N(i) \in Skbs
        /\ N(lo) = List /\ N(hi + 1) = List
    BY <1>0, NodesOfQueue, Zenon
  <1>2. /\ a \in [Threads -> Nodes \cup {NULL}] /\ cur \in [Threads -> Nodes \cup {NULL}]
        /\ pc \in [Threads -> {"idle"} \cup Appending \cup Taking] /\ Rx \in Threads
    BY DEF TypeOK, Locals, Threads
  <1>3. \A t \in Threads : pc[t] = "idle"
    BY DEF Quiet
  <1>4. \A i \in lo .. hi : next[N(i)] = N(i + 1) /\ prev[N(i + 1)] = N(i)
    BY DEF Serial, QuietShape, Chained, Chain
  <1>5. ASSUME NEW s \in Skbs, Append0(s) PROVE Serial'
    <2>1. /\ UNCHANGED <<next, prev, got>> /\ arrived' = Append(arrived, s)
          /\ pc' = [pc EXCEPT ![Rx] = "append1"] /\ a' = [a EXCEPT ![Rx] = prev[List]]
      BY <1>5 DEF Append0, links, Jump
    <2>2. Len(arrived') = hi + 1 /\ \A i \in 1 .. hi : arrived'[i] = arrived[i]
      BY <1>0, <2>1
    <2>3. pc'[Rx] = "append1" /\ \A t \in Threads : t # Rx => pc'[t] = "idle"
      BY <1>2, <1>3, <2>1
    <2>4. \A i \in lo .. hi : Node(arrived', i, lo) = N(i)
      BY <1>0, <2>2 DEF Node
    <2>5. a'[Rx] = Node(arrived', hi, lo)
      BY <1>0, <1>1, <1>2, <1>4, <2>1, <2>4
    <2>6. Chain(next', prev', arrived', lo, lo, hi - 1)
      <3> SUFFICES ASSUME NEW i \in lo .. hi - 1
                   PROVE  /\ next[Node(arrived', i, lo)] = Node(arrived', i + 1, lo)
                          /\ prev[Node(arrived', i + 1, lo)] = Node(arrived', i, lo)
        BY <2>1 DEF Chain
      <3>1. Node(arrived', i, lo) = N(i) /\ Node(arrived', i + 1, lo) = N(i + 1)
        BY <1>0, <2>4
      <3>2. i \in lo .. hi
        BY <1>0
      <3> QED
        BY <1>4, <3>1, <3>2
    <2>7. AppendShape'
      BY <1>0, <2>1, <2>2, <2>3, <2>5, <2>6 DEF AppendShape, Chained
    <2>8. OneActive' /\ QuietShape' /\ TakeShape'
      BY <1>2, <2>3, ThreadsAssumption DEF OneActive, QuietShape, Quiet, TakeShape, Threads
    <2>9. TakenPrefix'
      BY <1>0, <2>1, <2>2 DEF Serial, TakenPrefix
    <2> QED
      BY <2>7, <2>8, <2>9 DEF Serial
  <1>6. ASSUME NEW t \in Receivers, Take0(t) PROVE Serial'
    <2>1. /\ UNCHANGED <<next, prev, got, arrived>> /\ next[List] # List
          /\ pc' = [pc EXCEPT ![t] = "take1"] /\ cur' = [cur EXCEPT ![t] = next[List]]
      BY <1>6 DEF Take0, links, Jump
    <2>2. t \in Threads /\ t # Rx
      BY ThreadsAssumption DEF Threads
    <2>3. pc'[t] = "take1" /\ \A u \in Threads : u # t => pc'[u] = "idle"
      BY <1>2, <1>3, <2>1, <2>2
    <2>4. lo < hi /\ cur'[t] = arrived[lo + 1] /\ cur'[t] = N(lo + 1)
      <3>1. next[List] = N(lo + 1)
        BY <1>0, <1>1, <1>4
      <3>2. lo < hi
        BY <1>0, <1>1, <2>1, <3>1
      <3> QED
        BY <1>0, <1>1, <1>2, <2>1, <2>2, <3>1, <3>2
    <2>5. next[cur'[t]] = N(lo + 2)
      BY <1>0, <1>4, <2>4
    <2>6. Chain(next', prev', arrived', lo, lo + 2, hi)
      BY <1>0, <1>4, <2>1 DEF Chain
    <2>7. \A u \in Receivers : pc'[u] # "idle" => u = t
      BY <2>3 DEF Threads
    <2>8. TakeShape'
      BY <2>1, <2>3, <2>4, <2>5, <2>6, <2>7 DEF TakeShape, Chained, Taking
    <2>9. OneActive' /\ QuietShape' /\ AppendShape'
      BY <1>2, <2>2, <2>3 DEF OneActive, QuietShape, Quiet, AppendShape, Threads
    <2>10. TakenPrefix'
      BY <2>1 DEF Serial, TakenPrefix
    <2> QED
      BY <2>8, <2>9, <2>10 DEF Serial
  <1> QED
    BY <1>5, <1>6

LEMMA SequentialKept ==
  ASSUME TypeOK, Locals, Known, Sequential, Next
  PROVE  Sequential'
  <1> SUFFICES ASSUME ~ overlapped' PROVE Serial'
    BY Zenon DEF Sequential
  <1>1. Locals'
    BY LocalsKept
  <1>2. Serial
    BY Flags, Zenon DEF Sequential
  <1>3. CASE (\E s \in Skbs : Append0(s)) \/ (\E t \in Receivers : Take0(t))
    <2>1. Quiet
      BY <1>3, Zenon DEF Append0, Take0
    <2> QED
      BY <1>2, <1>3, <2>1, BeginSerial
  <1>4. CASE Append1 \/ Append2 \/ Append3 \/ Append4 \/ Append5
    BY <1>1, <1>2, <1>4, AppendSerial
  <1>5. ASSUME NEW t \in Receivers,
               Take1(t) \/ Take2(t) \/ Take3(t) \/ Take4(t) \/ Take5(t) \/ Take6(t)
        PROVE  Serial'
    BY <1>2, <1>5, TakeSerial
  <1> QED
    BY <1>3, <1>4, <1>5, Zenon DEF Next

-----------------------------------------------------------------------------
(* Theorems *)

LEMMA InitInv == Init => IInv
  <1> SUFFICES ASSUME Init PROVE IInv
    OBVIOUS
  <1>1. TypeOK /\ Locals /\ Known
    BY InitBase
  <1>2. /\ Len(arrived) = 0 /\ Len(got) = 0
        /\ \A t \in Threads : pc[t] = "idle"
        /\ next[List] = List /\ prev[List] = List
        /\ \A s \in Skbs : next[s] = NULL
    BY NodesAssumption DEF Init, Nodes
  <1>3. Ahead
    BY <1>2, NodesAssumption DEF Ahead, OneTaker, LinksAhead, NotYetLinked, FirstAhead,
       TakenAhead, GotInOrder, Taking, Threads
  <1>4. Serial
    BY <1>2 DEF Serial, OneActive, TakenPrefix, QuietShape, AppendShape, TakeShape,
       Chained, Chain, Node, Threads
  <1> QED
    BY <1>1, <1>3, <1>4, Zenon DEF IInv, Ordered, Sequential

\* The two operations on the list keep the inductive invariant, for any number of
\* packets and receivers and every interleaving of their loads and stores.
THEOREM Inductive == Spec => []IInv
  <1>1. Init => IInv
    BY InitInv
  <1>2. ASSUME IInv, [Next]_vars PROVE IInv'
    <2>0. TypeOK /\ Locals /\ Known /\ Ordered /\ Sequential
      BY <1>2 DEF IInv
    <2>1. CASE Next
      BY <2>0, <2>1, TypesKept, LocalsKept, KnownKept, OrderedKept, SequentialKept DEF IInv
    <2>2. CASE UNCHANGED vars
      <3>1. /\ UNCHANGED <<next, prev, pc, a, b, cur, arrived, got>>
            /\ overlapped' = overlapped /\ contended' = contended
        BY <2>2, Zenon DEF vars
      <3>2. TypeOK'
        BY <2>0, <3>1, Zenon DEF TypeOK
      <3>3. Locals' /\ Known'
        BY <2>0, <3>1, Zenon DEF Locals, Known
      <3>4. Ahead => Ahead'
        BY <3>1, Zenon DEF Ahead, OneTaker, LinksAhead, NotYetLinked, FirstAhead, TakenAhead, GotInOrder
      <3>5. Serial => Serial'
        BY <3>1, Zenon DEF Serial, OneActive, TakenPrefix, QuietShape, Quiet, AppendShape,
           TakeShape, Chained
      <3> QED
        BY <2>0, <3>1, <3>2, <3>3, <3>4, <3>5, Zenon DEF IInv, Ordered, Sequential
    <2> QED
      BY <1>2, <2>1, <2>2
  <1> QED
    BY <1>1, <1>2, PTL DEF Spec

\* Every pointer an operation loads or stores is NULL, a packet or the head.
THEOREM LinksTyped == Spec => []TypeOK
  <1>1. IInv => TypeOK
    BY DEF IInv
  <1> QED
    BY <1>1, Inductive, PTL

\* As long as operations have not overlapped, the list skb_queue_tail and
\* skb_dequeue leave is the queue of the packets that arrived and were not taken.
THEOREM ListIsTheQueue == Spec => []ListIsQueue
  <1>1. ASSUME IInv PROVE ListIsQueue
    <2> SUFFICES ASSUME Quiet, ~ overlapped
        PROVE LET n == Len(Waiting)
                  node == [i \in 0 .. n + 1 |-> IF i \in 1 .. n THEN Waiting[i] ELSE List]
              IN  /\ \A i \in 1 .. Len(got) : got[i] = arrived[i]
                  /\ \A i \in 0 .. n : /\ next[node[i]] = node[i + 1]
                                       /\ prev[node[i + 1]] = node[i]
      BY Zenon DEF ListIsQueue
    <2> DEFINE lo == Len(got)
               hi == Len(arrived)
               n == Len(Waiting)
               node == [i \in 0 .. n + 1 |-> IF i \in 1 .. n THEN Waiting[i] ELSE List]
    <2>1. Serial /\ TypeOK
      BY <1>1, Zenon DEF IInv, Sequential
    <2>2. /\ arrived \in Seq(Skbs) /\ lo \in Nat /\ hi \in Nat /\ lo <= hi
          /\ \A i \in 1 .. Len(got) : got[i] = arrived[i]
      BY <2>1 DEF Serial, TakenPrefix, TypeOK
    <2>3. \A i \in lo .. hi : /\ next[Node(arrived, i, lo)] = Node(arrived, i + 1, lo)
                              /\ prev[Node(arrived, i + 1, lo)] = Node(arrived, i, lo)
      BY <2>1 DEF Serial, QuietShape, Chained, Chain
    <2>4. n = hi - lo /\ n \in Nat /\ \A i \in 1 .. n : Waiting[i] = arrived[lo + i]
      BY <2>2 DEF Waiting
    <2> HIDE DEF n
    <2>5. \A i \in 0 .. n + 1 : node[i] = Node(arrived, lo + i, lo)
      BY <2>2, <2>4 DEF Node
    <2> HIDE DEF node
    <2>6. ASSUME NEW i \in 0 .. n
          PROVE  next[node[i]] = node[i + 1] /\ prev[node[i + 1]] = node[i]
      <3>1. node[i] = Node(arrived, lo + i, lo)
        BY <2>4, <2>5
      <3>2. node[i + 1] = Node(arrived, (lo + i) + 1, lo)
        BY <2>2, <2>4, <2>5
      <3>3. lo + i \in lo .. hi
        BY <2>2, <2>4
      <3> QED
        BY <2>3, <3>1, <3>2, <3>3
    <2> QED
      BY <2>2, <2>6 DEF n, node
  <1> QED
    BY <1>1, Inductive, PTL

\* Whatever the receive loop appends meanwhile, one receiver at a time gets what has
\* arrived, in the order of arrival and at most once.
THEOREM TakenInOrder == Spec => []InOrder
  <1>1. ASSUME IInv PROVE InOrder
    <2>1. TypeOK /\ Known
      BY <1>1 DEF IInv
    <2>2. /\ arrived \in Seq(Skbs) /\ got \in Seq(Skbs) /\ Distinct(arrived)
          /\ Len(arrived) \in Nat /\ Len(got) \in Nat
          /\ DOMAIN arrived = 1 .. Len(arrived) /\ DOMAIN got = 1 .. Len(got)
      BY <2>1 DEF TypeOK, Known
    <2>3. \A i \in DOMAIN got : \E j \in DOMAIN arrived : got[i] = arrived[j]
      BY <2>1, <2>2 DEF Known, Has
    <2>4. ASSUME ~ contended, NEW i \in DOMAIN got, NEW j \in DOMAIN got, i < j
          PROVE  Position(got[i]) < Position(got[j])
      <3>1. GotInOrder
        BY <1>1, <2>4, Zenon DEF IInv, Ordered, Ahead
      <3>2. PICK x \in 1 .. Len(arrived), y \in 1 .. Len(arrived) :
                   x < y /\ arrived[x] = got[i] /\ arrived[y] = got[j]
        BY <2>2, <2>4, <3>1 DEF GotInOrder, Before
      <3>3. \A z \in DOMAIN arrived : arrived[z] = got[i] => z = x
        BY <2>2, <3>2 DEF Distinct
      <3>4. \A z \in DOMAIN arrived : arrived[z] = got[j] => z = y
        BY <2>2, <3>2 DEF Distinct
      <3>5. Position(got[i]) = x
        BY <2>2, <3>2, <3>3, Zenon DEF Position
      <3>6. Position(got[j]) = y
        BY <2>2, <3>2, <3>4, Zenon DEF Position
      <3> QED
        BY <3>2, <3>5, <3>6
    <2> QED
      BY <2>3, <2>4, Zenon DEF InOrder
  <1> QED
    BY <1>1, Inductive, PTL
=============================================================================
