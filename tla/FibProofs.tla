------------------------------- MODULE FibProofs -------------------------------
(***************************************************************************)
(* Proofs about Fib for addresses of any width and interfaces with any     *)
(* number of addresses: the tables fib_netdev_event fills decide every     *)
(* destination as the addresses of the interface say.                      *)
(*                                                                         *)
(* The tables are a recursive function of the list of addresses.  Facts    *)
(* about it are proved by induction in the form of Segment: a set with 0   *)
(* that is closed under successor has every number up to the length.       *)
(***************************************************************************)
EXTENDS Fib, Integers, WellFoundedInduction, TLAPS

-----------------------------------------------------------------------------
(* Numbers *)

\* Every nonempty set of numbers has a least one.
LEMMA Least ==
  ASSUME NEW S, S \subseteq Nat, S # {}
  PROVE  \E i \in S : \A j \in S : i <= j
  <1> DEFINE R == OpToRel(<, Nat)
  <1>1. \A x, y \in Nat : x < y => <<x, y>> \in R
    BY DEF OpToRel
  <1>2. PICK i \in S : \A j \in S : ~ (<<j, i>> \in R)
    <2>1. IsWellFoundedOn(R, Nat)
      BY NatLessThanWellFounded, Zenon
    <2> HIDE DEF R
    <2> QED
      BY <2>1, WFMin, Zenon
  <1> HIDE DEF R
  <1>3. \A j \in S : ~ (j < i)
    BY <1>1, <1>2, Zenon
  <1> QED
    BY <1>3

\* Induction up to N.
LEMMA Segment ==
  ASSUME NEW N \in Nat, NEW S, 0 \in S, \A n \in 1 .. N : n - 1 \in S => n \in S
  PROVE  \A n \in 0 .. N : n \in S
  <1> DEFINE T == (0 .. N) \ S
  <1>1. SUFFICES ASSUME T # {} PROVE FALSE
    OBVIOUS
  <1>2. PICK n \in T : \A j \in T : n <= j
    <2>1. T \subseteq Nat
      OBVIOUS
    <2> HIDE DEF T
    <2> QED
      BY <1>1, <2>1, Least
  <1>3. n \in 1 .. N /\ n - 1 \in 0 .. N /\ ~ (n <= n - 1)
    BY <1>2
  <1> QED
    BY <1>2, <1>3

\* A nonempty set of numbers up to N has a greatest one.
LEMMA Greatest ==
  ASSUME NEW N \in Nat, NEW S, S \subseteq 0 .. N, S # {}
  PROVE  \E i \in S : \A j \in S : j <= i
  <1> DEFINE T == {m \in 0 .. N : N - m \in S}
  <1>1. T \subseteq Nat /\ T # {}
    <2>1. PICK i \in S : TRUE
      OBVIOUS
    <2>2. N - i \in 0 .. N /\ N - (N - i) = i
      BY <2>1
    <2>3. N - i \in T /\ T \subseteq Nat
      BY <2>2
    <2> HIDE DEF T
    <2> QED
      BY <2>3
  <1>2. PICK m \in T : \A j \in T : m <= j
    <2> HIDE DEF T
    <2> QED
      BY <1>1, Least
  <1>3. N - m \in S
    BY <1>2
  <1>4. ASSUME NEW j \in S PROVE j <= N - m
    <2>1. j \in 0 .. N /\ N - j \in 0 .. N /\ N - (N - j) = j
      OBVIOUS
    <2>2. N - j \in T
      BY <2>1
    <2>3. m <= N - j
      BY <1>2, <2>2
    <2> QED
      BY <1>2, <2>1, <2>3
  <1> QED
    BY <1>3, <1>4

\* What the definition of Pow2 means: there is such a function.
Doubles(f, n) == f[0] = 1 /\ \A k \in 1 .. n : f[k] = 2 * f[k - 1]

\* Pow2 doubles from 1.
LEMMA Pow2Def == Pow2[0] = 1 /\ \A k \in 1 .. W : Pow2[k] = 2 * Pow2[k - 1]
  <1> DEFINE S == {n \in Nat : \E f : Doubles(f, n)}
  <1>1. 0 \in S
    <2>1. Doubles([k \in {0} |-> 1], 0)
      BY DEF Doubles
    <2> QED
      BY <2>1
  <1>2. ASSUME NEW n \in 1 .. W, n - 1 \in S PROVE n \in S
    <2>1. PICK f : Doubles(f, n - 1)
      BY <1>2
    <2> DEFINE g == [k \in 0 .. n |-> IF k = n THEN 2 * f[n - 1] ELSE f[k]]
    <2>2. Doubles(g, n)
      BY <2>1 DEF Doubles
    <2> QED
      BY <2>2
  <1>3. W \in S
    <2> HIDE DEF S
    <2>1. \A n \in 0 .. W : n \in S
      BY <1>1, <1>2, Segment, WAssumption
    <2> QED
      BY <2>1, WAssumption
  <1>4. PICK f : Doubles(f, W)
    BY <1>3
  <1> DEFINE h == [k \in 0 .. W |-> f[k]]
  <1>5. h = [k \in 0 .. W |-> IF k = 0 THEN 1 ELSE 2 * h[k - 1]]
    <2>1. ASSUME NEW k \in 0 .. W PROVE h[k] = IF k = 0 THEN 1 ELSE 2 * h[k - 1]
      <3>1. CASE k = 0
        BY <1>4, <3>1, WAssumption DEF Doubles
      <3>2. CASE k # 0
        <4>1. k \in 1 .. W /\ k - 1 \in 0 .. W
          BY <3>2, WAssumption
        <4>2. h[k] = f[k] /\ h[k - 1] = f[k - 1] /\ f[k] = 2 * f[k - 1]
          BY <1>4, <4>1 DEF Doubles
        <4> QED
          BY <3>2, <4>2
      <3> QED
        BY <3>1, <3>2
    <2>2. h = [k \in 0 .. W |-> h[k]]
      OBVIOUS
    <2> HIDE DEF h
    <2> QED
      BY <2>1, <2>2
  <1>6. Pow2 = [k \in 0 .. W |-> IF k = 0 THEN 1 ELSE 2 * Pow2[k - 1]]
    BY <1>5 DEF Pow2
  <1>7. ASSUME NEW k \in 0 .. W PROVE Pow2[k] = IF k = 0 THEN 1 ELSE 2 * Pow2[k - 1]
    BY <1>6, Zenon
  <1> QED
    BY <1>7, WAssumption

\* Powers of two are positive numbers.
LEMMA Pow2Nat == \A k \in 0 .. W : Pow2[k] \in Nat /\ Pow2[k] > 0
  <1> DEFINE S == {k \in 0 .. W : Pow2[k] \in Nat /\ Pow2[k] > 0}
  <1>1. 0 \in S
    BY Pow2Def, WAssumption
  <1>2. ASSUME NEW n \in 1 .. W, n - 1 \in S PROVE n \in S
    BY <1>2, Pow2Def, WAssumption
  <1>3. \A k \in 0 .. W : k \in S
    <2> HIDE DEF S
    <2> QED
      BY <1>1, <1>2, Segment, WAssumption
  <1> QED
    BY <1>3

\* 2^k divides 2^W.
LEMMA Pow2Divides == \A k \in 0 .. W : \E c \in Nat : Pow2[W] = Pow2[k] * c
  <1> DEFINE S == {j \in 0 .. W : \E c \in Nat : Pow2[W] = Pow2[W - j] * c}
  <1>1. 0 \in S
    <2>1. W - 0 = W /\ Pow2[W] \in Nat /\ 0 \in 0 .. W
      BY Pow2Nat, WAssumption
    <2>2. Pow2[W] = Pow2[W - 0] * 1
      BY <2>1
    <2> QED
      BY <2>1, <2>2
  <1>2. ASSUME NEW j \in 1 .. W, j - 1 \in S PROVE j \in S
    <2>1. PICK c \in Nat : Pow2[W] = Pow2[W - (j - 1)] * c
      BY <1>2
    <2>2. W - (j - 1) \in 1 .. W /\ (W - (j - 1)) - 1 = W - j /\ W - j \in 0 .. W
      BY WAssumption
    <2>3. Pow2[W - (j - 1)] = 2 * Pow2[W - j] /\ Pow2[W - j] \in Nat
      BY <2>2, Pow2Def, Pow2Nat
    <2>4. Pow2[W] = Pow2[W - j] * (2 * c)
      BY <2>1, <2>3
    <2> QED
      BY <2>2, <2>4
  <1>3. \A j \in 0 .. W : j \in S
    <2> HIDE DEF S
    <2> QED
      BY <1>1, <1>2, Segment, WAssumption
  <1> SUFFICES ASSUME NEW k \in 0 .. W PROVE \E c \in Nat : Pow2[W] = Pow2[k] * c
    OBVIOUS
  <1>4. W - k \in 0 .. W /\ W - (W - k) = k
    BY WAssumption
  <1> QED
    BY <1>3, <1>4

-----------------------------------------------------------------------------
(* Prefixes *)

\* Division and remainder by a positive number.
LEMMA Division ==
  ASSUME NEW m \in Nat, m > 0, NEW a \in Nat
  PROVE  a = m * (a \div m) + (a % m) /\ a % m \in 0 .. m - 1 /\ a \div m \in Nat
  OBVIOUS

\* A number is in one way a multiple and a remainder.
LEMMA SameQuotient ==
  ASSUME NEW m \in Nat, m > 0, NEW q \in Nat, NEW r \in 0 .. m - 1
  PROVE  (m * q + r) \div m = q /\ (m * q + r) % m = r
  OBVIOUS

\* Two numbers have the same quotient if rounding them down gives the same.
LEMMA Rounded ==
  ASSUME NEW m \in Nat, m > 0, NEW a \in Nat, NEW d \in Nat
  PROVE  /\ a \div m = d \div m <=> a - (a % m) = d - (d % m)
         /\ a \div m = d \div m /\ d % m = 0 <=> d = a - (a % m)
         /\ a \div m = d \div m /\ d % m = m - 1 <=> d = a - (a % m) + m - 1
         /\ (a - (a % m)) - ((a - (a % m)) % m) = a - (a % m)
  <1>1. /\ a = m * (a \div m) + (a % m) /\ a % m \in 0 .. m - 1 /\ a \div m \in Nat
        /\ d = m * (d \div m) + (d % m) /\ d % m \in 0 .. m - 1 /\ d \div m \in Nat
    BY Division
  <1>2. a \div m = d \div m <=> a - (a % m) = d - (d % m)
    BY <1>1
  <1>3. a \div m = d \div m /\ d % m = 0 <=> d = a - (a % m)
    BY <1>1
  <1>4. a \div m = d \div m /\ d % m = m - 1 <=> d = a - (a % m) + m - 1
    BY <1>1
  <1>5. (a - (a % m)) - ((a - (a % m)) % m) = a - (a % m)
    <2>1. a - (a % m) = m * (a \div m) + 0 /\ 0 \in 0 .. m - 1
      BY <1>1
    <2>2. (m * (a \div m) + 0) % m = 0
      BY <1>1, <2>1, SameQuotient
    <2>3. (a - (a % m)) % m = 0
      BY <2>1, <2>2
    <2>4. a - (a % m) \in Int
      BY <1>1
    <2> QED
      BY <2>3, <2>4
  <1> QED
    BY <1>2, <1>3, <1>4, <1>5

\* Widths of prefixes and the numbers that go with them.
LEMMA Sizes ==
  ASSUME NEW z \in 0 .. W
  PROVE  /\ W - z \in 0 .. W /\ Pow2[W - z] \in Nat /\ Pow2[W - z] > 0
         /\ z = W => Pow2[W - z] = 1
         /\ Addr \subseteq Nat
  <1>1. W - z \in 0 .. W /\ (z = W => W - z = 0) /\ W \in 0 .. W
    BY WAssumption
  <1>2. Pow2[W] \in Nat
    BY <1>1, Pow2Nat
  <1> QED
    BY <1>1, <1>2, Pow2Nat, Pow2Def DEF Addr

\* Masking and filling stay among the addresses; masking twice is masking once.
LEMMA MaskedFacts ==
  ASSUME NEW a \in Addr, NEW z \in 0 .. W
  PROVE  /\ Masked(a, z) \in Addr /\ Filled(a, z) \in Addr
         /\ Masked(a, W) = a
         /\ Masked(Masked(a, z), z) = Masked(a, z)
  <1> DEFINE m == Pow2[W - z]
  <1>1. m \in Nat /\ m > 0 /\ a \in Nat /\ W - z \in 0 .. W
    BY Sizes
  <1>2. PICK c \in Nat : Pow2[W] = m * c
    BY <1>1, Pow2Divides
  <1>3. Pow2[W] \in Nat /\ a < Pow2[W] /\ W \in 0 .. W
    BY WAssumption, Pow2Nat DEF Addr
  <1>4. Masked(a, z) = a - (a % m) /\ Filled(a, z) = a - (a % m) + m - 1
    BY DEF Masked, Filled
  <1>5. Masked(a, W) = a
    <2>1. Pow2[W - W] = 1
      BY <1>3, Sizes
    <2>2. a % 1 = 0
      BY <1>1
    <2> QED
      BY <1>1, <2>1, <2>2 DEF Masked
  <1>6. Masked(Masked(a, z), z) = Masked(a, z)
    <2>1. (a - (a % m)) - ((a - (a % m)) % m) = a - (a % m)
      BY <1>1, Rounded
    <2> QED
      BY <2>1 DEF Masked
  <1> HIDE DEF m
  <1>7. a = m * (a \div m) + (a % m) /\ a % m \in 0 .. m - 1 /\ a \div m \in Nat
    BY <1>1, Division
  <1>8. a \div m < c
    BY <1>1, <1>2, <1>3, <1>7
  <1>9. m * (a \div m) + m <= m * c
    BY <1>1, <1>2, <1>7, <1>8
  <1>10. a - (a % m) \in 0 .. Pow2[W] - 1 /\ a - (a % m) + m - 1 \in 0 .. Pow2[W] - 1
    BY <1>1, <1>2, <1>3, <1>7, <1>9
  <1> QED
    BY <1>4, <1>5, <1>6, <1>10 DEF Addr

-----------------------------------------------------------------------------
(* Zones *)

Nodes == [fn_key : Addr, type : {"LOCAL", "BROADCAST", "UNICAST"}, prefsrc : Addr]

\* The first node of a zone with a key.
Match(q, k) == {i \in DOMAIN q : q[i].fn_key = k}

FirstOf(q, k) ==
  IF Match(q, k) = {}
    THEN NoRoute
    ELSE q[CHOOSE i \in Match(q, k) : \A j \in Match(q, k) : i <= j]

\* There is a first node if there is one.
LEMMA FirstIs ==
  ASSUME NEW q \in Seq(Nodes), NEW k, Match(q, k) # {}
  PROVE  \E i \in Match(q, k) : /\ \A j \in Match(q, k) : i <= j
                                /\ FirstOf(q, k) = q[i] /\ q[i] \in Nodes /\ i \in DOMAIN q /\ q[i].fn_key = k
  <1> DEFINE S == Match(q, k)
             c == CHOOSE i \in S : \A j \in S : i <= j
  <1>1. S \subseteq Nat /\ \A i \in S : q[i] \in Nodes /\ i \in DOMAIN q /\ q[i].fn_key = k
    BY DEF Match
  <1>2. \E i \in S : \A j \in S : i <= j
    <2>1. S # {}
      OBVIOUS
    <2> HIDE DEF S
    <2> QED
      BY <1>1, <2>1, Least
  <1>3. c \in S /\ \A j \in S : c <= j
    BY <1>2, Zenon
  <1>4. FirstOf(q, k) = q[c]
    BY Zenon DEF FirstOf
  <1> HIDE DEF c
  <1> QED
    BY <1>1, <1>3, <1>4

\* A zone with a node in front.
Front(x, q) == <<x>> \o q

\* What FirstOf finds after a node was put in front.
LEMMA FirstPush ==
  ASSUME NEW q \in Seq(Nodes), NEW x \in Nodes, NEW k, NEW r, r = Front(x, q)
  PROVE  /\ r \in Seq(Nodes)
         /\ x.fn_key = k => FirstOf(r, k) = x
         /\ x.fn_key # k => FirstOf(r, k) = FirstOf(q, k)
  <1> DEFINE l == Len(q)
  <1>1. /\ r \in Seq(Nodes) /\ l \in Nat /\ DOMAIN q = 1 .. l /\ DOMAIN r = 1 .. l + 1 /\ r[1] = x
        /\ \A i \in 1 .. l : r[i + 1] = q[i]
    BY DEF Front
  <1> HIDE DEF l
  <1>2. CASE x.fn_key = k
    <2>1. 1 \in Match(r, k)
      <3>1. 1 \in DOMAIN r /\ r[1].fn_key = k
        BY <1>1, <1>2
      <3> QED
        BY <3>1 DEF Match
    <2>2. PICK i \in Match(r, k) : (\A j \in Match(r, k) : i <= j) /\ FirstOf(r, k) = r[i]
      <3>1. Match(r, k) # {}
        BY <2>1
      <3> QED
        BY <1>1, <3>1, FirstIs
    <2>3. i = 1
      <3>1. i \in 1 .. l + 1 /\ i <= 1
        BY <1>1, <2>1, <2>2 DEF Match
      <3> QED
        BY <1>1, <3>1
    <2> QED
      BY <1>1, <1>2, <2>2, <2>3
  <1>3. CASE x.fn_key # k
    <2>1. ASSUME NEW i \in Match(r, k) PROVE i - 1 \in Match(q, k) /\ r[i] = q[i - 1] /\ i \in 2 .. l + 1
      <3>1. i \in 2 .. l + 1 /\ i - 1 \in 1 .. l /\ (i - 1) + 1 = i /\ r[i].fn_key = k
        BY <1>1, <1>3 DEF Match
      <3>2. r[i] = q[i - 1]
        BY <1>1, <3>1
      <3> QED
        BY <1>1, <3>1, <3>2 DEF Match
    <2>2. ASSUME NEW i \in Match(q, k) PROVE i + 1 \in Match(r, k) /\ i \in 1 .. l
      <3>1. i \in 1 .. l /\ i + 1 \in 1 .. l + 1 /\ q[i].fn_key = k
        BY <1>1 DEF Match
      <3>2. r[i + 1] = q[i]
        BY <1>1, <3>1
      <3> QED
        BY <1>1, <3>1, <3>2 DEF Match
    <2>3. CASE Match(q, k) = {}
      <3>1. Match(r, k) = {}
        BY <2>1, <2>3
      <3> QED
        BY <1>1, <1>3, <2>3, <3>1 DEF FirstOf
    <2>4. CASE Match(q, k) # {}
      <3>1. PICK m \in Match(q, k) : (\A j \in Match(q, k) : m <= j) /\ FirstOf(q, k) = q[m]
        BY <2>4, FirstIs
      <3>2. Match(r, k) # {}
        BY <2>2, <3>1
      <3>3. PICK i \in Match(r, k) : (\A j \in Match(r, k) : i <= j) /\ FirstOf(r, k) = r[i]
        BY <1>1, <3>2, FirstIs
      <3>4. i <= m + 1 /\ m <= i - 1 /\ i \in 2 .. l + 1 /\ m \in 1 .. l
        BY <2>1, <2>2, <3>1, <3>3
      <3>5. i - 1 = m /\ r[i] = q[i - 1]
        BY <1>1, <2>1, <3>3, <3>4
      <3> QED
        BY <1>1, <1>3, <3>1, <3>3, <3>5, Zenon
    <2> QED
      BY <2>3, <2>4
  <1> QED
    BY <1>1, <1>2, <1>3

\* A zone without a node with the key says so.
LEMMA FirstNone ==
  ASSUME NEW q \in Seq(Nodes), NEW k
  PROVE  FirstOf(q, k) = NoRoute <=> Match(q, k) = {}
  <1>1. CASE Match(q, k) = {}
    BY <1>1 DEF FirstOf
  <1>2. CASE Match(q, k) # {}
    <2>1. FirstOf(q, k) \in Nodes
      BY <1>2, FirstIs
    <2>2. \A x \in Nodes : x # NoRoute
      BY DEF Nodes, NoRoute
    <2> QED
      BY <1>2, <2>1, <2>2
  <1> QED
    BY <1>1, <1>2

Tables == [0 .. W -> Seq(Nodes)]

\* fn_hash_lookup stops at the first node of the longest zone that has one.
LEMMA LookupLongest ==
  ASSUME NEW T \in Tables, NEW d \in Addr, NEW z \in 0 .. W,
         FirstOf(T[z], Masked(d, z)) # NoRoute,
         \A y \in 0 .. W : z < y => FirstOf(T[y], Masked(d, y)) = NoRoute
  PROVE  fn_hash_lookup(T, d) = FirstOf(T[z], Masked(d, z))
  <1> DEFINE Z == {y \in 0 .. W : Hits(T, y, d) # {}}
             c == CHOOSE x \in Z : \A y \in Z : y <= x
  <1>1. \A y \in 0 .. W : Hits(T, y, d) = Match(T[y], Masked(d, y))
    BY DEF Hits, Match
  <1>2. \A y \in 0 .. W : FirstOf(T[y], Masked(d, y)) = NoRoute <=> Hits(T, y, d) = {}
    BY <1>1, FirstNone DEF Tables
  <1>3. z \in Z /\ \A y \in Z : y <= z /\ y \in 0 .. W
    BY <1>2
  <1>4. c \in Z /\ \A y \in Z : y <= c
    BY <1>3, Zenon
  <1>5. fn_hash_lookup(T, d) = T[c][CHOOSE i \in Hits(T, c, d) : \A j \in Hits(T, c, d) : i <= j]
    BY <1>3, Zenon DEF fn_hash_lookup
  <1> HIDE DEF c
  <1>6. c = z
    BY <1>3, <1>4
  <1>7. Match(T[z], Masked(d, z)) # {}
    BY <1>1, <1>2
  <1> QED
    BY <1>1, <1>5, <1>6, <1>7, ZenonT(40) DEF FirstOf

\* fn_hash_lookup finds nothing if no zone has a node for the destination.
LEMMA LookupNone ==
  ASSUME NEW T \in Tables, NEW d \in Addr,
         \A y \in 0 .. W : FirstOf(T[y], Masked(d, y)) = NoRoute
  PROVE  fn_hash_lookup(T, d) = NoRoute
  <1>1. \A y \in 0 .. W : Hits(T, y, d) = Match(T[y], Masked(d, y))
    BY DEF Hits, Match
  <1>2. {y \in 0 .. W : Hits(T, y, d) # {}} = {}
    BY <1>1, FirstNone DEF Tables
  <1> QED
    BY <1>2, Zenon DEF fn_hash_lookup

-----------------------------------------------------------------------------
(* The tables of fib_netdev_event *)

None == [local |-> Empty, main |-> Empty]
Grown(t, ifa) == [local |-> AddLocal(t.local, ifa), main |-> AddMain(t.main, ifa)]

\* f[n] are the tables after n addresses.
Fills(f, list, n) == f[0] = None /\ \A i \in 1 .. n : f[i] = Grown(f[i - 1], list[i])

\* What the definition of fib_netdev_event means: there are such tables.
LEMMA EventFills ==
  ASSUME NEW list, Len(list) \in Nat
  PROVE  \E f : Fills(f, list, Len(list)) /\ fib_netdev_event(list) = f[Len(list)]
  <1> DEFINE L == Len(list)
             S == {n \in Nat : \E f : Fills(f, list, n)}
  <1>0. L \in Nat
    OBVIOUS
  <1>1. 0 \in S
    <2>1. Fills([k \in {0} |-> None], list, 0)
      BY DEF Fills
    <2> QED
      BY <2>1
  <1>2. ASSUME NEW n \in 1 .. L, n - 1 \in S PROVE n \in S
    <2>1. PICK f : Fills(f, list, n - 1)
      BY <1>2
    <2> DEFINE g == [k \in 0 .. n |-> IF k = n THEN Grown(f[n - 1], list[n]) ELSE f[k]]
    <2>2. g[0] = None
      BY <2>1 DEF Fills
    <2>3. ASSUME NEW k \in 1 .. n PROVE g[k] = Grown(g[k - 1], list[k])
      <3>1. k - 1 \in 0 .. n /\ k - 1 # n /\ k \in 0 .. n
        OBVIOUS
      <3>2. g[k - 1] = f[k - 1]
        BY <3>1
      <3>3. CASE k = n
        BY <3>1, <3>2, <3>3
      <3>4. CASE k # n
        <4>1. k \in 1 .. n - 1 /\ g[k] = f[k]
          BY <3>1, <3>4
        <4>2. f[k] = Grown(f[k - 1], list[k])
          BY <2>1, <4>1 DEF Fills
        <4> QED
          BY <3>2, <4>1, <4>2, Zenon
      <3> QED
        BY <3>3, <3>4
    <2> HIDE DEF g
    <2>4. Fills(g, list, n)
      BY <2>2, <2>3 DEF Fills
    <2> QED
      BY <2>4
  <1>3. L \in S
    <2> HIDE DEF S, L
    <2>1. \A n \in 0 .. L : n \in S
      BY <1>0, <1>1, <1>2, Segment
    <2> QED
      BY <1>0, <2>1
  <1>4. PICK f : Fills(f, list, L)
    BY <1>3
  <1> DEFINE h == [n \in 0 .. L |-> f[n]]
             Fixed(g) == g = [n \in 0 .. L |-> IF n = 0 THEN [local |-> Empty, main |-> Empty]
                                ELSE [local |-> AddLocal(g[n - 1].local, list[n]),
                                      main |-> AddMain(g[n - 1].main, list[n])]]
             t == CHOOSE g : Fixed(g)
  <1>5. Fixed(h)
    <2>1. ASSUME NEW n \in 0 .. L PROVE h[n] = IF n = 0 THEN None ELSE Grown(h[n - 1], list[n])
      <3>1. CASE n = 0
        BY <1>4, <3>1 DEF Fills
      <3>2. CASE n # 0
        <4>1. n \in 1 .. L /\ n - 1 \in 0 .. L
          BY <1>0, <3>2
        <4>2. h[n] = f[n] /\ h[n - 1] = f[n - 1] /\ f[n] = Grown(f[n - 1], list[n])
          BY <1>4, <4>1 DEF Fills
        <4> QED
          BY <3>2, <4>2
      <3> QED
        BY <3>1, <3>2
    <2>2. h = [n \in 0 .. L |-> h[n]]
      OBVIOUS
    <2> HIDE DEF h
    <2>3. h = [n \in 0 .. L |-> IF n = 0 THEN None ELSE Grown(h[n - 1], list[n])]
      BY <2>1, <2>2, Zenon
    <2> QED
      BY <2>3, Zenon DEF None, Grown
  <1>6. Fixed(t)
    BY <1>5, Zenon
  <1>7. fib_netdev_event(list) = t[L]
    BY Zenon DEF fib_netdev_event
  <1> HIDE DEF t
  <1>8. ASSUME NEW n \in 0 .. L PROVE t[n] = IF n = 0 THEN None ELSE Grown(t[n - 1], list[n])
    BY <1>6, Zenon DEF None, Grown
  <1>9. Fills(t, list, L)
    <2>1. t[0] = None
      BY <1>0, <1>8
    <2>2. ASSUME NEW k \in 1 .. L PROVE t[k] = Grown(t[k - 1], list[k])
      <3>1. k \in 0 .. L /\ k # 0
        BY <1>0
      <3> QED
        BY <1>8, <3>1, Zenon
    <2> QED
      BY <2>1, <2>2 DEF Fills
  <1> QED
    BY <1>7, <1>9

\* A node in front of one zone.
Pushed(T, U, z, x) ==
  /\ U \in Tables
  /\ \A y \in 0 .. W : y # z => U[y] = T[y]
  /\ \A k : x.fn_key = k => FirstOf(U[z], k) = x
  /\ \A k : x.fn_key # k => FirstOf(U[z], k) = FirstOf(T[z], k)

\* A node in front of a zone is found there and hides nothing else.
LEMMA PushFacts ==
  ASSUME NEW T \in Tables, NEW z \in 0 .. W, NEW x \in Nodes, NEW U, U = [T EXCEPT ![z] = Front(x, T[z])]
  PROVE  Pushed(T, U, z, x)
  <1>1. PICK q : q = T[z]
    OBVIOUS
  <1>2. q \in Seq(Nodes)
    BY <1>1 DEF Tables
  <1>3. PICK r : r = Front(x, q)
    OBVIOUS
  <1>4. r \in Seq(Nodes)
    BY <1>2, <1>3 DEF Front
  <1>5. ASSUME NEW k PROVE /\ x.fn_key = k => FirstOf(r, k) = x
                           /\ x.fn_key # k => FirstOf(r, k) = FirstOf(q, k)
    BY <1>2, <1>3, FirstPush
  <1>6. U \in Tables /\ U[z] = r /\ \A y \in 0 .. W : y # z => U[y] = T[y]
    BY <1>1, <1>3, <1>4 DEF Tables
  <1> QED
    BY <1>1, <1>5, <1>6, Zenon DEF Pushed

\* fn_hash_insert puts its node in front.
LEMMA InsertFacts ==
  ASSUME NEW T \in Tables, NEW a \in Addr, NEW z \in 0 .. W, NEW type \in {"LOCAL", "BROADCAST", "UNICAST"},
         NEW ifa \in Ifaddrs, NEW key, key = Masked(a, z), NEW src, src = ifa.addr,
         NEW U, U = fn_hash_insert(T, a, z, type, ifa), NEW x, x = [fn_key |-> key, type |-> type, prefsrc |-> src]
  PROVE  Pushed(T, U, z, x)
  <1>1. x \in Nodes
    BY MaskedFacts, IfaddrsAssumption DEF Nodes
  <1>2. U = [T EXCEPT ![z] = Front(x, T[z])]
    BY Zenon DEF fn_hash_insert, Front
  <1> QED
    BY <1>1, <1>2, PushFacts

\* Which destinations the routes of an address are for.
LEMMA PrefixFacts ==
  ASSUME NEW i, ifa_list[i] \in Ifaddrs, NEW d \in Addr, NEW a, a = ifa_list[i].addr, NEW p, p = ifa_list[i].plen
  PROVE  /\ a \in Addr /\ p \in 1 .. W /\ p \in 0 .. W
         /\ Covers(i, d) <=> Masked(a, p) = Masked(d, p)
         /\ IsBroadcast(i, d) <=> p < W - 1 /\ (d = Masked(a, p) \/ d = Filled(a, p))
         /\ Covers(i, a)
  <1>1. a \in Addr /\ p \in 1 .. W /\ p \in 0 .. W
    BY IfaddrsAssumption, WAssumption
  <1> DEFINE m == Pow2[W - p]
  <1>2. m \in Nat /\ m > 0 /\ a \in Nat /\ d \in Nat
    BY <1>1, Sizes
  <1>3. /\ Covers(i, d) <=> a \div m = d \div m
        /\ Covers(i, a) <=> a \div m = a \div m
        /\ IsBroadcast(i, d) <=> p < W - 1 /\ a \div m = d \div m /\ (d % m = 0 \/ d % m = m - 1)
    BY DEF Covers, SamePrefix, IsBroadcast
  <1>4. /\ Masked(a, p) = a - (a % m) /\ Masked(d, p) = d - (d % m)
        /\ Filled(a, p) = a - (a % m) + m - 1
    BY DEF Masked, Filled
  <1> HIDE DEF m
  <1>5. /\ a \div m = d \div m <=> a - (a % m) = d - (d % m)
        /\ a \div m = d \div m /\ d % m = 0 <=> d = a - (a % m)
        /\ a \div m = d \div m /\ d % m = m - 1 <=> d = a - (a % m) + m - 1
    <2>1. a \div m = d \div m <=> a - (a % m) = d - (d % m)
      BY <1>2, Rounded, Zenon
    <2>2. a \div m = d \div m /\ d % m = 0 <=> d = a - (a % m)
      BY <1>2, Rounded, ZenonT(40)
    <2>3. a \div m = d \div m /\ d % m = m - 1 <=> d = a - (a % m) + m - 1
      BY <1>2, Rounded, ZenonT(40)
    <2> QED
      BY <2>1, <2>2, <2>3
  <1>6. Covers(i, d) <=> Masked(a, p) = Masked(d, p)
    BY <1>3, <1>4, <1>5, Zenon
  <1>7. IsBroadcast(i, d) <=> p < W - 1 /\ (d = Masked(a, p) \/ d = Filled(a, p))
    BY <1>3, <1>4, <1>5, Zenon
  <1> QED
    BY <1>1, <1>3, <1>6, <1>7

\* The node the local table should have for an own or broadcast address.
Node(i, d) ==
  [fn_key |-> d, type |-> IF IsBroadcast(i, d) THEN "BROADCAST" ELSE "LOCAL", prefsrc |-> ifa_list[i].addr]

\* What fib_add_ifaddr adds to the local table.
LEMMA LocalGrows ==
  ASSUME NEW T \in Tables, NEW i, NEW ifa \in Ifaddrs, ifa = ifa_list[i], NEW V, V = AddLocal(T, ifa)
  PROVE  /\ V \in Tables /\ \A y \in 0 .. W : y # W => V[y] = T[y]
         /\ \A d \in Addr : Special(i, d) => FirstOf(V[W], d) = Node(i, d)
         /\ \A d \in Addr : ~ Special(i, d) => FirstOf(V[W], d) = FirstOf(T[W], d)
  <1>1. PICK a, p : a = ifa.addr /\ p = ifa.plen
    OBVIOUS
  <1>2. a \in Addr /\ p \in 0 .. W /\ W \in 0 .. W
    BY <1>1, IfaddrsAssumption, WAssumption
  <1>3. PICK m, f : m = Masked(a, p) /\ f = Filled(a, p)
    OBVIOUS
  <1>4. m \in Addr /\ f \in Addr /\ Masked(m, W) = m /\ Masked(f, W) = f /\ Masked(a, W) = a
    BY <1>2, <1>3, MaskedFacts
  <1>5. PICK T1 : T1 = fn_hash_insert(T, a, W, "LOCAL", ifa)
    OBVIOUS
  <1>6. PICK T2 : T2 = fn_hash_insert(T1, m, W, "BROADCAST", ifa)
    OBVIOUS
  <1>7. PICK T3 : T3 = fn_hash_insert(T2, f, W, "BROADCAST", ifa)
    OBVIOUS
  <1>8. V = IF p < W - 1 THEN T3 ELSE T1
    BY <1>1, <1>3, <1>5, <1>6, <1>7, Zenon DEF AddLocal
  <1>9. ASSUME NEW d \in Addr
        PROVE  /\ IsBroadcast(i, d) <=> p < W - 1 /\ (d = m \/ d = f)
               /\ Special(i, d) <=> d = a \/ IsBroadcast(i, d)
    BY <1>1, <1>3, PrefixFacts DEF Special
  <1>10. PICK x1, x2, x3 : /\ x1 = [fn_key |-> a, type |-> "LOCAL", prefsrc |-> a]
                           /\ x2 = [fn_key |-> m, type |-> "BROADCAST", prefsrc |-> a]
                           /\ x3 = [fn_key |-> f, type |-> "BROADCAST", prefsrc |-> a]
    OBVIOUS
  <1>11. x1.fn_key = a /\ x2.fn_key = m /\ x3.fn_key = f
    BY <1>10
  <1>12. Pushed(T, T1, W, x1)
    BY <1>1, <1>2, <1>4, <1>5, <1>10, InsertFacts, Zenon
  <1>13. T1 \in Tables
    BY <1>12 DEF Pushed
  <1>14. Pushed(T1, T2, W, x2)
    BY <1>1, <1>2, <1>4, <1>6, <1>10, <1>13, InsertFacts, Zenon
  <1>15. T2 \in Tables
    BY <1>14 DEF Pushed
  <1>16. Pushed(T2, T3, W, x3)
    BY <1>1, <1>2, <1>4, <1>7, <1>10, <1>15, InsertFacts, Zenon
  <1>17. V \in Tables /\ \A y \in 0 .. W : y # W => V[y] = T[y]
    BY <1>8, <1>12, <1>14, <1>16 DEF Pushed
  <1>18. ASSUME NEW d \in Addr, Special(i, d) PROVE FirstOf(V[W], d) = Node(i, d)
    <2>1. CASE IsBroadcast(i, d)
      <3>1. Node(i, d) = [fn_key |-> d, type |-> "BROADCAST", prefsrc |-> a]
        BY <1>1, <2>1 DEF Node
      <3>2. V = T3 /\ (d = m \/ d = f)
        BY <1>8, <1>9, <2>1
      <3>3. CASE d = f
        BY <1>10, <1>11, <1>16, <3>1, <3>2, <3>3, Zenon DEF Pushed
      <3>4. CASE d = m /\ d # f
        BY <1>10, <1>11, <1>14, <1>16, <3>1, <3>2, <3>4, Zenon DEF Pushed
      <3> QED
        BY <3>2, <3>3, <3>4
    <2>2. CASE ~ IsBroadcast(i, d)
      <3>1. Node(i, d) = [fn_key |-> d, type |-> "LOCAL", prefsrc |-> a] /\ d = a
        BY <1>1, <1>9, <1>18, <2>2 DEF Node
      <3>2. V = T1 \/ (V = T3 /\ d # m /\ d # f)
        BY <1>8, <1>9, <2>2
      <3>3. FirstOf(T1[W], d) = Node(i, d)
        BY <1>10, <1>11, <1>12, <3>1, Zenon DEF Pushed
      <3>4. CASE V = T3 /\ d # m /\ d # f
        BY <1>11, <1>14, <1>16, <3>3, <3>4, Zenon DEF Pushed
      <3> QED
        BY <3>2, <3>3, <3>4, Zenon
    <2> QED
      BY <2>1, <2>2
  <1>19. ASSUME NEW d \in Addr, ~ Special(i, d) PROVE FirstOf(V[W], d) = FirstOf(T[W], d)
    <2>1. d # a /\ (V = T1 \/ (V = T3 /\ d # m /\ d # f))
      BY <1>8, <1>9, <1>19
    <2>2. FirstOf(T1[W], d) = FirstOf(T[W], d)
      BY <1>11, <1>12, <2>1, Zenon DEF Pushed
    <2>3. CASE V = T3 /\ d # m /\ d # f
      BY <1>11, <1>14, <1>16, <2>2, <2>3, Zenon DEF Pushed
    <2> QED
      BY <2>1, <2>2, <2>3, Zenon
  <1> QED
    BY <1>17, <1>18, <1>19

\* The node the main table should have for a destination an address covers.
Way(i, k) == [fn_key |-> k, type |-> "UNICAST", prefsrc |-> ifa_list[i].addr]

\* What fib_add_ifaddr adds to the main table.
LEMMA MainGrows ==
  ASSUME NEW T \in Tables, NEW i, NEW ifa \in Ifaddrs, ifa = ifa_list[i], NEW V, V = AddMain(T, ifa)
  PROVE  /\ V \in Tables /\ \A y \in 0 .. W : y # ifa.plen => V[y] = T[y]
         /\ \A d \in Addr, z \in 0 .. W : z = ifa.plen /\ Covers(i, d) =>
              FirstOf(V[z], Masked(d, z)) = Way(i, Masked(d, z))
         /\ \A d \in Addr, z \in 0 .. W : z = ifa.plen /\ ~ Covers(i, d) =>
              FirstOf(V[z], Masked(d, z)) = FirstOf(T[z], Masked(d, z))
  <1>1. PICK a, p : a = ifa.addr /\ p = ifa.plen
    OBVIOUS
  <1>2. a \in Addr /\ p \in 0 .. W
    BY <1>1, IfaddrsAssumption, WAssumption
  <1>3. PICK m : m = Masked(a, p)
    OBVIOUS
  <1>4. m \in Addr /\ Masked(m, p) = m
    BY <1>2, <1>3, MaskedFacts
  <1>5. V = fn_hash_insert(T, m, p, "UNICAST", ifa)
    BY <1>1, <1>3, Zenon DEF AddMain
  <1>6. ASSUME NEW d \in Addr PROVE Covers(i, d) <=> m = Masked(d, p)
    BY <1>1, <1>3, PrefixFacts
  <1>7. PICK x : x = [fn_key |-> m, type |-> "UNICAST", prefsrc |-> a]
    OBVIOUS
  <1>8. x.fn_key = m
    BY <1>7
  <1>9. Pushed(T, V, p, x)
    BY <1>1, <1>2, <1>4, <1>5, <1>7, InsertFacts, Zenon
  <1>10. V \in Tables /\ \A y \in 0 .. W : y # p => V[y] = T[y]
    BY <1>9 DEF Pushed
  <1>11. ASSUME NEW d \in Addr, Covers(i, d) PROVE FirstOf(V[p], Masked(d, p)) = Way(i, Masked(d, p))
    <2>1. m = Masked(d, p) /\ x = Way(i, m)
      BY <1>1, <1>6, <1>7, <1>11 DEF Way
    <2> QED
      BY <1>8, <1>9, <2>1, Zenon DEF Pushed
  <1>12. ASSUME NEW d \in Addr, ~ Covers(i, d)
         PROVE  FirstOf(V[p], Masked(d, p)) = FirstOf(T[p], Masked(d, p))
    <2>1. m # Masked(d, p)
      BY <1>6, <1>12
    <2> QED
      BY <1>8, <1>9, <2>1, Zenon DEF Pushed
  <1> QED
    BY <1>1, <1>10, <1>11, <1>12, Zenon

-----------------------------------------------------------------------------
(* What the tables hold after the first n addresses of the list *)

LastSpecial(i, n, d) == Special(i, d) /\ \A j \in 1 .. n : Special(j, d) => j <= i

LocalAt(T, n) ==
  /\ T \in Tables
  /\ \A z \in 0 .. W : z # W => T[z] = <<>>
  /\ \A d \in Addr : (\A i \in 1 .. n : ~ Special(i, d)) => FirstOf(T[W], d) = NoRoute
  /\ \A d \in Addr : \A i \in 1 .. n : LastSpecial(i, n, d) => FirstOf(T[W], d) = Node(i, d)

\* An address of prefix length z that covers d.
Routes(i, z, d) == ifa_list[i].plen = z /\ Covers(i, d)

LastRoute(i, n, z, d) == Routes(i, z, d) /\ \A j \in 1 .. n : Routes(j, z, d) => j <= i

MainAt(T, n) ==
  /\ T \in Tables
  /\ \A d \in Addr, z \in 0 .. W :
       (\A i \in 1 .. n : ~ Routes(i, z, d)) => FirstOf(T[z], Masked(d, z)) = NoRoute
  /\ \A d \in Addr, z \in 0 .. W : \A i \in 1 .. n :
       LastRoute(i, n, z, d) => FirstOf(T[z], Masked(d, z)) = Way(i, Masked(d, z))

\* Tables before the first address.
LEMMA EmptyTables == Empty \in Tables /\ \A z \in 0 .. W : Empty[z] = <<>> /\ \A k : FirstOf(Empty[z], k) = NoRoute
  <1>1. Empty \in Tables /\ \A z \in 0 .. W : Empty[z] = <<>>
    BY DEF Empty, Tables
  <1>2. \A k : Match(<<>>, k) = {}
    BY DEF Match
  <1>3. \A k : FirstOf(<<>>, k) = NoRoute
    BY <1>2, Zenon DEF FirstOf
  <1> QED
    BY <1>1, <1>3, Zenon

\* One more address in the local table.
LEMMA LocalStep ==
  ASSUME NEW T, NEW n \in Nat, n > 0, LocalAt(T, n - 1), ifa_list[n] \in Ifaddrs,
         NEW V, V = AddLocal(T, ifa_list[n])
  PROVE  LocalAt(V, n)
  <1>1. T \in Tables /\ \A z \in 0 .. W : z # W => T[z] = <<>>
    BY DEF LocalAt
  <1>2. /\ V \in Tables /\ \A y \in 0 .. W : y # W => V[y] = T[y]
        /\ \A d \in Addr : Special(n, d) => FirstOf(V[W], d) = Node(n, d)
        /\ \A d \in Addr : ~ Special(n, d) => FirstOf(V[W], d) = FirstOf(T[W], d)
    BY <1>1, LocalGrows
  <1>3. \A i \in 1 .. n : i = n \/ i \in 1 .. n - 1
    OBVIOUS
  <1>4. n \in 1 .. n /\ \A i \in 1 .. n - 1 : i \in 1 .. n /\ ~ (n <= i)
    OBVIOUS
  <1>5. ASSUME NEW d \in Addr, \A i \in 1 .. n : ~ Special(i, d) PROVE FirstOf(V[W], d) = NoRoute
    <2>1. \A i \in 1 .. n - 1 : ~ Special(i, d)
      BY <1>4, <1>5, Zenon
    <2>2. FirstOf(T[W], d) = NoRoute
      BY <2>1, Zenon DEF LocalAt
    <2> QED
      BY <1>2, <1>4, <1>5, <2>2, Zenon
  <1>6. ASSUME NEW d \in Addr, NEW i \in 1 .. n, LastSpecial(i, n, d) PROVE FirstOf(V[W], d) = Node(i, d)
    <2>1. CASE i = n
      BY <1>2, <1>6, <2>1, Zenon DEF LastSpecial
    <2>2. CASE i \in 1 .. n - 1
      <3>1. ~ Special(n, d)
        BY <1>4, <1>6, <2>2, Zenon DEF LastSpecial
      <3>2. LastSpecial(i, n - 1, d)
        BY <1>4, <1>6, <2>2, Zenon DEF LastSpecial
      <3>3. FirstOf(T[W], d) = Node(i, d)
        BY <2>2, <3>2, Zenon DEF LocalAt
      <3> QED
        BY <1>2, <3>1, <3>3, Zenon
    <2> QED
      BY <1>3, <2>1, <2>2
  <1> QED
    BY <1>1, <1>2, <1>5, <1>6, Zenon DEF LocalAt

\* One more address in the main table.
LEMMA MainStep ==
  ASSUME NEW T, NEW n \in Nat, n > 0, MainAt(T, n - 1), ifa_list[n] \in Ifaddrs,
         NEW V, V = AddMain(T, ifa_list[n])
  PROVE  MainAt(V, n)
  <1>1. T \in Tables
    BY DEF MainAt
  <1>2. PICK p : p = ifa_list[n].plen
    OBVIOUS
  <1>3. /\ V \in Tables /\ \A y \in 0 .. W : y # p => V[y] = T[y]
        /\ \A d \in Addr, z \in 0 .. W : z = p /\ Covers(n, d) =>
              FirstOf(V[z], Masked(d, z)) = Way(n, Masked(d, z))
        /\ \A d \in Addr, z \in 0 .. W : z = p /\ ~ Covers(n, d) =>
              FirstOf(V[z], Masked(d, z)) = FirstOf(T[z], Masked(d, z))
    BY <1>1, <1>2, MainGrows
  <1>4. ASSUME NEW d \in Addr, NEW z \in 0 .. W
        PROVE  /\ Routes(n, z, d) => FirstOf(V[z], Masked(d, z)) = Way(n, Masked(d, z))
               /\ ~ Routes(n, z, d) => FirstOf(V[z], Masked(d, z)) = FirstOf(T[z], Masked(d, z))
    BY <1>2, <1>3, Zenon DEF Routes
  <1>5. \A i \in 1 .. n : i = n \/ i \in 1 .. n - 1
    OBVIOUS
  <1>6. n \in 1 .. n /\ \A i \in 1 .. n - 1 : i \in 1 .. n /\ ~ (n <= i)
    OBVIOUS
  <1>7. ASSUME NEW d \in Addr, NEW z \in 0 .. W, \A i \in 1 .. n : ~ Routes(i, z, d)
        PROVE  FirstOf(V[z], Masked(d, z)) = NoRoute
    <2>1. \A i \in 1 .. n - 1 : ~ Routes(i, z, d)
      BY <1>6, <1>7, Zenon
    <2>2. FirstOf(T[z], Masked(d, z)) = NoRoute
      BY <2>1, Zenon DEF MainAt
    <2> QED
      BY <1>4, <1>6, <1>7, <2>2, Zenon
  <1>8. ASSUME NEW d \in Addr, NEW z \in 0 .. W, NEW i \in 1 .. n, LastRoute(i, n, z, d)
        PROVE  FirstOf(V[z], Masked(d, z)) = Way(i, Masked(d, z))
    <2>1. CASE i = n
      BY <1>4, <1>8, <2>1, Zenon DEF LastRoute
    <2>2. CASE i \in 1 .. n - 1
      <3>1. ~ Routes(n, z, d)
        BY <1>6, <1>8, <2>2, Zenon DEF LastRoute
      <3>2. LastRoute(i, n - 1, z, d)
        BY <1>6, <1>8, <2>2, Zenon DEF LastRoute
      <3>3. FirstOf(T[z], Masked(d, z)) = Way(i, Masked(d, z))
        BY <2>2, <3>2, Zenon DEF MainAt
      <3> QED
        BY <1>4, <3>1, <3>3, Zenon
    <2> QED
      BY <1>5, <2>1, <2>2
  <1> QED
    BY <1>3, <1>7, <1>8, Zenon DEF MainAt

\* The tables fib_netdev_event fills.
LEMMA EventTables ==
  ASSUME ifa_list \in Seq(Ifaddrs)
  PROVE  /\ LocalAt(fib_netdev_event(ifa_list).local, Len(ifa_list))
         /\ MainAt(fib_netdev_event(ifa_list).main, Len(ifa_list))
  <1> DEFINE L == Len(ifa_list)
  <1>1. L \in Nat /\ \A n \in 1 .. L : ifa_list[n] \in Ifaddrs
    OBVIOUS
  <1>2. PICK f : Fills(f, ifa_list, L) /\ fib_netdev_event(ifa_list) = f[L]
    BY <1>1, EventFills
  <1> HIDE DEF L
  <1> DEFINE S == {n \in Nat : LocalAt(f[n].local, n) /\ MainAt(f[n].main, n)}
  <1>3. 0 \in S
    <2>1. f[0].local = Empty /\ f[0].main = Empty
      BY <1>2 DEF Fills, None
    <2>2. 1 .. 0 = {}
      OBVIOUS
    <2>3. W \in 0 .. W
      BY WAssumption
    <2>4. LocalAt(Empty, 0)
      BY <2>2, <2>3, EmptyTables, Zenon DEF LocalAt
    <2>5. MainAt(Empty, 0)
      BY <2>2, EmptyTables, Zenon DEF MainAt
    <2> QED
      BY <2>1, <2>4, <2>5
  <1>4. ASSUME NEW n \in 1 .. L, n - 1 \in S PROVE n \in S
    <2>1. f[n].local = AddLocal(f[n - 1].local, ifa_list[n]) /\ f[n].main = AddMain(f[n - 1].main, ifa_list[n])
      <3>1. f[n] = Grown(f[n - 1], ifa_list[n])
        BY <1>2, <1>4, Zenon DEF Fills
      <3>2. \A t, i : Grown(t, i).local = AddLocal(t.local, i) /\ Grown(t, i).main = AddMain(t.main, i)
        BY DEF Grown
      <3> QED
        BY <3>1, <3>2, Zenon
    <2>2. n \in Nat /\ n > 0 /\ ifa_list[n] \in Ifaddrs /\ LocalAt(f[n - 1].local, n - 1) /\ MainAt(f[n - 1].main, n - 1)
      BY <1>1, <1>4
    <2>3. LocalAt(f[n].local, n)
      BY <2>1, <2>2, LocalStep, Zenon
    <2>4. MainAt(f[n].main, n)
      BY <2>1, <2>2, MainStep, Zenon
    <2> QED
      BY <2>2, <2>3, <2>4
  <1>5. \A n \in 0 .. L : n \in S
    <2> HIDE DEF S
    <2> QED
      BY <1>1, <1>3, <1>4, Segment
  <1>6. L \in S
    BY <1>1, <1>5
  <1> QED
    BY <1>2, <1>6 DEF L

-----------------------------------------------------------------------------
(* What fib_lookup finds in them *)

\* Once the interface is up.
TablesFilled == /\ ifa_list \in Seq(Ifaddrs)
           /\ LocalAt(local_table, Len(ifa_list))
           /\ MainAt(main_table, Len(ifa_list))

SpecialTo(d) == {i \in DOMAIN ifa_list : Special(i, d)}
Covering(d) == {i \in DOMAIN ifa_list : Covers(i, d)}
Longest(d) == {i \in Covering(d) : \A j \in Covering(d) : ifa_list[j].plen <= ifa_list[i].plen}

\* The oldest of a set of addresses is one of them.
LEMMA OldestIs ==
  ASSUME ifa_list \in Seq(Ifaddrs), NEW S, S \subseteq DOMAIN ifa_list, S # {}
  PROVE  Oldest(S) \in S /\ \A j \in S : j <= Oldest(S)
  <1>1. PICK N : N = Len(ifa_list)
    OBVIOUS
  <1>2. N \in Nat /\ S \subseteq 0 .. N
    BY <1>1
  <1>3. \E i \in S : \A j \in S : j <= i
    BY <1>2, Greatest
  <1> QED
    BY <1>3, Zenon DEF Oldest

\* The local table decides about own and broadcast addresses.
LEMMA LocalLookup ==
  ASSUME TablesFilled, NEW d \in Addr
  PROVE  /\ SpecialTo(d) = {} => fn_hash_lookup(local_table, d) = NoRoute
         /\ SpecialTo(d) # {} => fn_hash_lookup(local_table, d) = Node(Oldest(SpecialTo(d)), d)
  <1>1. PICK T, L : T = local_table /\ L = Len(ifa_list)
    OBVIOUS
  <1>2. LocalAt(T, L) /\ DOMAIN ifa_list = 1 .. L /\ L \in Nat
    BY <1>1 DEF TablesFilled
  <1>3. T \in Tables /\ W \in 0 .. W /\ Masked(d, W) = d
    BY <1>2, MaskedFacts, WAssumption DEF LocalAt
  <1>4. \A y \in 0 .. W : ~ (W < y)
    BY WAssumption
  <1>5. CASE SpecialTo(d) = {}
    <2>1. FirstOf(T[W], d) = NoRoute
      BY <1>2, <1>5 DEF LocalAt, SpecialTo
    <2>2. \A k : FirstOf(<<>>, k) = NoRoute
      BY EmptyTables, <1>3, Zenon
    <2>3. \A y \in 0 .. W : FirstOf(T[y], Masked(d, y)) = NoRoute
      BY <1>2, <1>3, <2>1, <2>2, Zenon DEF LocalAt
    <2> QED
      BY <1>1, <1>3, <1>5, <2>3, LookupNone, Zenon
  <1>6. CASE SpecialTo(d) # {}
    <2>1. PICK i : i = Oldest(SpecialTo(d))
      OBVIOUS
    <2>2. SpecialTo(d) \subseteq DOMAIN ifa_list /\ ifa_list \in Seq(Ifaddrs)
      BY DEF SpecialTo, TablesFilled
    <2>3. i \in SpecialTo(d) /\ \A j \in SpecialTo(d) : j <= i
      BY <1>6, <2>1, <2>2, OldestIs, Zenon
    <2>4. i \in 1 .. L /\ LastSpecial(i, L, d)
      BY <1>2, <2>3, Zenon DEF SpecialTo, LastSpecial
    <2>5. FirstOf(T[W], Masked(d, W)) = Node(i, d)
      BY <1>2, <1>3, <2>4, Zenon DEF LocalAt
    <2>6. Node(i, d) # NoRoute
      BY DEF Node, NoRoute
    <2>7. fn_hash_lookup(T, d) = FirstOf(T[W], Masked(d, W))
      <3>1. FirstOf(T[W], Masked(d, W)) # NoRoute
        BY <2>5, <2>6, Zenon
      <3> QED
        BY <1>3, <1>4, <3>1, LookupLongest, Zenon
    <2> QED
      BY <1>1, <1>6, <2>1, <2>5, <2>7, Zenon
  <1> QED
    BY <1>5, <1>6, Zenon

\* The main table decides by the longest prefix.
LEMMA MainLookup ==
  ASSUME TablesFilled, NEW d \in Addr
  PROVE  /\ Covering(d) = {} => fn_hash_lookup(main_table, d) = NoRoute
         /\ Covering(d) # {} =>
              LET i == Oldest(Longest(d))
              IN  /\ i \in Longest(d)
                  /\ fn_hash_lookup(main_table, d) = Way(i, Masked(d, ifa_list[i].plen))
  <1>1. PICK T, L : T = main_table /\ L = Len(ifa_list)
    OBVIOUS
  <1>2. MainAt(T, L) /\ DOMAIN ifa_list = 1 .. L /\ L \in Nat /\ ifa_list \in Seq(Ifaddrs)
    BY <1>1 DEF TablesFilled
  <1>3. T \in Tables
    BY <1>2 DEF MainAt
  <1>4. \A j \in 1 .. L : ifa_list[j].plen \in 0 .. W
    BY <1>2, IfaddrsAssumption, WAssumption
  <1>5. CASE Covering(d) = {}
    <2>1. \A z \in 0 .. W : \A i \in 1 .. L : ~ Routes(i, z, d)
      BY <1>2, <1>5 DEF Routes, Covering
    <2>2. \A z \in 0 .. W : FirstOf(T[z], Masked(d, z)) = NoRoute
      BY <1>2, <2>1, Zenon DEF MainAt
    <2> QED
      BY <1>1, <1>3, <1>5, <2>2, LookupNone, Zenon
  <1>6. CASE Covering(d) # {}
    <2>1. Longest(d) \subseteq DOMAIN ifa_list /\ Longest(d) # {}
      <3> DEFINE P == {ifa_list[j].plen : j \in Covering(d)}
      <3>1. P \subseteq 0 .. W /\ P # {} /\ W \in Nat
        BY <1>2, <1>4, <1>6, WAssumption DEF Covering
      <3> HIDE DEF P
      <3>2. PICK p \in P : \A x \in P : x <= p
        BY <3>1, Greatest
      <3> USE DEF P
      <3>3. PICK j \in Covering(d) : ifa_list[j].plen = p
        BY <3>2
      <3>4. \A x \in Covering(d) : ifa_list[x].plen <= ifa_list[j].plen
        BY <3>2, <3>3
      <3> QED
        BY <3>3, <3>4 DEF Longest, Covering
    <2>2. PICK i : i = Oldest(Longest(d))
      OBVIOUS
    <2>3. i \in Longest(d) /\ \A j \in Longest(d) : j <= i
      BY <1>2, <2>1, <2>2, OldestIs, Zenon
    <2>4. PICK z : z = ifa_list[i].plen
      OBVIOUS
    <2>5. i \in 1 .. L /\ Covers(i, d) /\ z \in 0 .. W
      BY <1>2, <1>4, <2>3, <2>4 DEF Longest, Covering
    <2>6. \A j \in 1 .. L : Covers(j, d) => ifa_list[j].plen <= z
      BY <1>2, <2>3, <2>4 DEF Longest, Covering
    <2>7. LastRoute(i, L, z, d)
      <3>1. \A j \in 1 .. L : Routes(j, z, d) => j \in Longest(d)
        BY <1>2, <1>4, <2>5, <2>6 DEF Routes, Longest, Covering
      <3> QED
        BY <2>3, <2>4, <2>5, <3>1 DEF LastRoute, Routes
    <2>8. FirstOf(T[z], Masked(d, z)) = Way(i, Masked(d, z))
      BY <1>2, <2>5, <2>7, Zenon DEF MainAt
    <2>9. \A y \in 0 .. W : z < y => FirstOf(T[y], Masked(d, y)) = NoRoute
      <3>1. \A y \in 0 .. W : z < y => \A j \in 1 .. L : ~ Routes(j, y, d)
        BY <1>4, <2>5, <2>6 DEF Routes
      <3> QED
        BY <1>2, <3>1, Zenon DEF MainAt
    <2>10. FirstOf(T[z], Masked(d, z)) # NoRoute
      <3>1. Way(i, Masked(d, z)) # NoRoute
        BY DEF Way, NoRoute
      <3> QED
        BY <2>8, <3>1, Zenon
    <2>11. fn_hash_lookup(T, d) = Way(i, Masked(d, z))
      <3>1. fn_hash_lookup(T, d) = FirstOf(T[z], Masked(d, z))
        BY <1>3, <2>5, <2>9, <2>10, LookupLongest, Zenon
      <3> QED
        BY <2>8, <3>1, Zenon
    <2> QED
      BY <1>1, <1>6, <2>2, <2>3, <2>4, <2>11, Zenon
  <1> QED
    BY <1>5, <1>6, Zenon

\* What fib_lookup says of any destination.
LEMMA FibLookup ==
  ASSUME TablesFilled, NEW d \in Addr
  PROVE  /\ SpecialTo(d) # {} => fib_lookup(d) = Node(Oldest(SpecialTo(d)), d)
         /\ SpecialTo(d) = {} /\ Covering(d) # {} =>
              LET i == Oldest(Longest(d)) IN fib_lookup(d) = Way(i, Masked(d, ifa_list[i].plen))
         /\ SpecialTo(d) = {} /\ Covering(d) = {} => fib_lookup(d) = NoRoute
  <1>1. \A i : Node(i, d) # NoRoute
    BY DEF Node, NoRoute
  <1>2. CASE SpecialTo(d) # {}
    <2>1. fn_hash_lookup(local_table, d) = Node(Oldest(SpecialTo(d)), d)
      BY <1>2, LocalLookup, Zenon
    <2> QED
      BY <1>1, <1>2, <2>1, Zenon DEF fib_lookup
  <1>3. CASE SpecialTo(d) = {}
    <2>1. fn_hash_lookup(local_table, d) = NoRoute
      BY <1>3, LocalLookup, Zenon
    <2>2. fib_lookup(d) = fn_hash_lookup(main_table, d)
      BY <2>1, Zenon DEF fib_lookup
    <2> QED
      BY <1>3, <2>2, MainLookup, Zenon
  <1> QED
    BY <1>2, <1>3, Zenon

\* An address that a destination is special to covers it.
LEMMA SpecialCovers ==
  ASSUME ifa_list \in Seq(Ifaddrs), NEW d \in Addr
  PROVE  SpecialTo(d) \subseteq Covering(d)
  <1> SUFFICES ASSUME NEW i \in SpecialTo(d) PROVE Covers(i, d)
    BY DEF SpecialTo, Covering
  <1>1. i \in DOMAIN ifa_list /\ Special(i, d) /\ ifa_list[i] \in Ifaddrs
    BY DEF SpecialTo
  <1>2. CASE IsBroadcast(i, d)
    BY <1>2 DEF IsBroadcast
  <1>3. CASE ifa_list[i].addr = d
    BY <1>1, <1>3, PrefixFacts
  <1> QED
    BY <1>1, <1>2, <1>3 DEF Special

\* The part of a node that the reference speaks of.
Shown(r) == IF r = NoRoute THEN NoRoute ELSE [type |-> r.type, prefsrc |-> r.prefsrc]

\* What the reference shows of the nodes.
LEMMA ShownFacts ==
  /\ \A i, d : Shown(Node(i, d)) = [type |-> IF IsBroadcast(i, d) THEN "BROADCAST" ELSE "LOCAL",
                                    prefsrc |-> ifa_list[i].addr]
  /\ \A i, k : Shown(Way(i, k)) = [type |-> "UNICAST", prefsrc |-> ifa_list[i].addr]
  /\ Shown(NoRoute) = NoRoute
  BY DEF Shown, Node, Way, NoRoute

\* Filled tables decide as the reference.
LEMMA FilledLookup ==
  ASSUME TablesFilled, NEW d \in Addr
  PROVE  Shown(fib_lookup(d)) = Reference(d)
  <1>1. Reference(d) =
          IF SpecialTo(d) # {}
            THEN [type |-> IF IsBroadcast(Oldest(SpecialTo(d)), d) THEN "BROADCAST" ELSE "LOCAL",
                  prefsrc |-> ifa_list[Oldest(SpecialTo(d))].addr]
            ELSE IF Covering(d) # {}
              THEN [type |-> "UNICAST", prefsrc |-> ifa_list[Oldest(Longest(d))].addr]
              ELSE NoRoute
    BY Zenon DEF Reference, SpecialTo, Covering, Longest
  <1>2. CASE SpecialTo(d) # {}
    <2>1. fib_lookup(d) = Node(Oldest(SpecialTo(d)), d)
      BY <1>2, FibLookup, Zenon
    <2> QED
      BY <1>1, <1>2, <2>1, ShownFacts, Zenon
  <1>3. CASE SpecialTo(d) = {} /\ Covering(d) # {}
    <2>1. fib_lookup(d) = Way(Oldest(Longest(d)), Masked(d, ifa_list[Oldest(Longest(d))].plen))
      BY <1>3, FibLookup, Zenon
    <2> QED
      BY <1>1, <1>3, <2>1, ShownFacts, Zenon
  <1>4. CASE SpecialTo(d) = {} /\ Covering(d) = {}
    <2>1. fib_lookup(d) = NoRoute
      BY <1>4, FibLookup, Zenon
    <2> QED
      BY <1>1, <1>4, <2>1, ShownFacts, Zenon
  <1> QED
    BY <1>2, <1>3, <1>4, Zenon

-----------------------------------------------------------------------------
(* The tables are those of the list *)

IInv ==
  /\ ifa_list \in Seq(Ifaddrs)
  /\ up \in BOOLEAN
  /\ ~ up => local_table = Empty /\ main_table = Empty
  /\ up => /\ local_table = fib_netdev_event(ifa_list).local
           /\ main_table = fib_netdev_event(ifa_list).main

\* The tables stay empty until the interface is up (NetdevUp), and are from then
\* on those fib_netdev_event fills from a list that no longer changes.
THEOREM Inductive == Spec => []IInv
  <1>1. Init => IInv
    <2>1. <<>> \in Seq(Ifaddrs)
      OBVIOUS
    <2> QED
      BY <2>1, Zenon DEF Init, IInv
  <1>2. IInv /\ [Next]_vars => IInv'
    <2> SUFFICES ASSUME IInv, [Next]_vars PROVE IInv'
      OBVIOUS
    <2>1. ASSUME NEW ifa \in Ifaddrs, InetInsertIfa(ifa) PROVE IInv'
      BY <2>1 DEF IInv, InetInsertIfa, Inserted
    <2>2. CASE NetdevUp
      <3>1. ifa_list' = ifa_list /\ up' = TRUE
        BY <2>2 DEF NetdevUp
      <3>2. /\ local_table' = fib_netdev_event(ifa_list').local
            /\ main_table' = fib_netdev_event(ifa_list').main
        BY <2>2, <3>1, Zenon DEF NetdevUp
      <3> QED
        BY <3>1, <3>2, Zenon DEF IInv
    <2>3. CASE UNCHANGED vars
      BY <2>3, Zenon DEF IInv, vars
    <2> QED
      BY <2>1, <2>2, <2>3 DEF Next
  <1> QED
    BY <1>1, <1>2, PTL DEF Spec

\* The tables are filled once the interface is up.
LEMMA UpFilled ==
  ASSUME IInv, up PROVE TablesFilled
  <1>1. /\ ifa_list \in Seq(Ifaddrs)
        /\ local_table = fib_netdev_event(ifa_list).local
        /\ main_table = fib_netdev_event(ifa_list).main
    BY Zenon DEF IInv
  <1>2. /\ LocalAt(fib_netdev_event(ifa_list).local, Len(ifa_list))
        /\ MainAt(fib_netdev_event(ifa_list).main, Len(ifa_list))
    BY <1>1, EventTables, Zenon
  <1> QED
    BY <1>1, <1>2, Zenon DEF TablesFilled

\* fib_lookup decides every destination as the addresses of the interface say,
\* for addresses of any width, any number of them and any order.
THEOREM LookupsRight == Spec => []LookupIsReference
  <1>1. IInv => LookupIsReference
    <2> SUFFICES ASSUME IInv, up, NEW d \in Addr PROVE Shown(fib_lookup(d)) = Reference(d)
      BY Zenon DEF LookupIsReference, Shown
    <2> QED
      BY UpFilled, FilledLookup, Zenon
  <1> QED
    BY <1>1, Inductive, PTL

-----------------------------------------------------------------------------
(* What the routes are good for *)

\* Kinds and sources of the nodes.
LEMMA NodeTypes ==
  /\ \A i, d : IsBroadcast(i, d) => Node(i, d).type = "BROADCAST"
  /\ \A i, d : ~ IsBroadcast(i, d) => Node(i, d).type = "LOCAL"
  /\ \A i, d : Node(i, d).prefsrc = ifa_list[i].addr /\ Node(i, d) # NoRoute
  /\ \A i, k : Way(i, k).type = "UNICAST" /\ Way(i, k).prefsrc = ifa_list[i].addr /\ Way(i, k) # NoRoute
  /\ NoRoute.type = "none"
  BY DEF Node, Way, NoRoute

\* With one address on the interface ip_route_input serves that address alone,
\* and exactly the addresses of its network have a route.
THEOREM OwnAddressServed == Spec => []OwnAddressLocal
  <1>1. IInv => OwnAddressLocal
    <2> SUFFICES ASSUME IInv, up, Len(ifa_list) = 1, ~ IsBroadcast(1, ifa_list[1].addr), NEW d \in Addr
                 PROVE  /\ fib_lookup(d).type = "LOCAL" <=> d = ifa_list[1].addr
                        /\ fib_lookup(d) # NoRoute <=> Covers(1, d)
      BY Zenon DEF OwnAddressLocal
    <2>1. TablesFilled
      BY UpFilled, Zenon
    <2>2. ifa_list \in Seq(Ifaddrs)
      BY <2>1 DEF TablesFilled
    <2>3. DOMAIN ifa_list = {1} /\ ifa_list[1] \in Ifaddrs
      BY <2>2
    <2>4. Oldest({1}) = 1
      BY DEF Oldest
    <2>5. CASE Special(1, d)
      <3>1. SpecialTo(d) = {1} /\ Covers(1, d)
        BY <2>2, <2>3, <2>5, SpecialCovers DEF SpecialTo, Covering
      <3>2. SpecialTo(d) # {}
        BY <3>1
      <3>3. fib_lookup(d) = Node(1, d)
        BY <2>1, <2>4, <3>1, <3>2, FibLookup, Zenon
      <3>4. fib_lookup(d) # NoRoute
        BY <3>3, NodeTypes, ZenonT(40)
      <3>5. CASE d = ifa_list[1].addr
        <4>1. fib_lookup(d).type = "LOCAL"
          <5>1. ~ IsBroadcast(1, d)
            BY <3>5, Zenon
          <5>2. Node(1, d).type = "LOCAL"
            BY <5>1, NodeTypes, Zenon
          <5> QED
            BY <3>3, <5>2, Zenon
        <4> QED
          BY <3>1, <3>4, <3>5, <4>1, Zenon
      <3>6. CASE d # ifa_list[1].addr
        <4>1. IsBroadcast(1, d)
          BY <2>5, <3>6, Zenon DEF Special
        <4>2. Node(1, d).type = "BROADCAST"
          BY <4>1, NodeTypes, Zenon
        <4>3. fib_lookup(d).type # "LOCAL"
          BY <3>3, <4>2
        <4> QED
          BY <3>1, <3>4, <3>6, <4>3, Zenon
      <3> QED
        BY <3>5, <3>6, Zenon
    <2>6. CASE ~ Special(1, d)
      <3>1. SpecialTo(d) = {} /\ d # ifa_list[1].addr
        BY <2>3, <2>6 DEF SpecialTo, Special
      <3>2. "LOCAL" # "UNICAST" /\ "LOCAL" # "none"
        OBVIOUS
      <3>3. CASE Covers(1, d)
        <4>1. Covering(d) # {}
          BY <2>3, <3>3 DEF Covering
        <4>2. fib_lookup(d) = Way(Oldest(Longest(d)), Masked(d, ifa_list[Oldest(Longest(d))].plen))
          BY <2>1, <3>1, <4>1, FibLookup, Zenon
        <4>3. fib_lookup(d).type = "UNICAST" /\ fib_lookup(d) # NoRoute
          <5>1. PICK i, k : fib_lookup(d) = Way(i, k)
            BY <4>2, Zenon
          <5>2. Way(i, k).type = "UNICAST" /\ Way(i, k) # NoRoute
            BY DEF Way, NoRoute
          <5> QED
            BY <5>1, <5>2, Zenon
        <4> QED
          BY <3>1, <3>2, <3>3, <4>3, Zenon
      <3>4. CASE ~ Covers(1, d)
        <4>1. Covering(d) = {}
          BY <2>3, <3>4 DEF Covering
        <4>2. fib_lookup(d) = NoRoute
          BY <2>1, <3>1, <4>1, FibLookup, Zenon
        <4> QED
          BY <3>1, <3>2, <3>4, <4>2, NodeTypes, Zenon
      <3> QED
        BY <3>3, <3>4, Zenon
    <2> QED
      BY <2>5, <2>6, Zenon
  <1> QED
    BY <1>1, Inductive, PTL

\* The source of a route is an address of the interface.
LEMMA SourceIsOwn ==
  ASSUME TablesFilled, NEW d \in Addr, fib_lookup(d) # NoRoute
  PROVE  \E i \in DOMAIN ifa_list : fib_lookup(d).prefsrc = ifa_list[i].addr
  <1>1. ifa_list \in Seq(Ifaddrs)
    BY DEF TablesFilled
  <1>2. CASE SpecialTo(d) # {}
    <2>1. fib_lookup(d) = Node(Oldest(SpecialTo(d)), d)
      BY <1>2, FibLookup, Zenon
    <2>2. SpecialTo(d) \subseteq DOMAIN ifa_list
      BY DEF SpecialTo
    <2>3. Oldest(SpecialTo(d)) \in DOMAIN ifa_list
      BY <1>1, <1>2, <2>2, OldestIs, Zenon
    <2> QED
      BY <2>1, <2>3, NodeTypes, Zenon
  <1>3. CASE SpecialTo(d) = {} /\ Covering(d) # {}
    <2>1. fib_lookup(d) = Way(Oldest(Longest(d)), Masked(d, ifa_list[Oldest(Longest(d))].plen))
      BY <1>3, FibLookup, Zenon
    <2>2. Oldest(Longest(d)) \in Longest(d)
      BY <1>3, MainLookup, Zenon
    <2>3. Longest(d) \subseteq DOMAIN ifa_list
      BY DEF Longest, Covering
    <2>4. Oldest(Longest(d)) \in DOMAIN ifa_list
      BY <2>2, <2>3, Zenon
    <2> QED
      BY <2>1, <2>4, NodeTypes, Zenon
  <1>4. CASE SpecialTo(d) = {} /\ Covering(d) = {}
    BY <1>4, FibLookup, Zenon
  <1> QED
    BY <1>2, <1>3, <1>4, Zenon

\* The source ip_route_output gives a datagram is one ip_route_input accepts,
\* unless it is also a broadcast address of a network of the interface.
THEOREM SourcesAccepted == Spec => []AnswersAccepted
  <1>1. IInv => AnswersAccepted
    <2> SUFFICES ASSUME IInv, up, NEW d \in Addr, ip_route_output(d, 0) # NoRoute
                 PROVE  \/ ip_route_input(ip_route_output(d, 0).src, d)
                        \/ \E i \in DOMAIN ifa_list : IsBroadcast(i, ip_route_output(d, 0).src)
      BY Zenon DEF AnswersAccepted
    <2>1. TablesFilled
      BY UpFilled, Zenon
    <2>2. ifa_list \in Seq(Ifaddrs)
      BY <2>1 DEF TablesFilled
    <2>3. PICK res : res = fib_lookup(d)
      OBVIOUS
    <2>4. res # NoRoute /\ ip_route_output(d, 0) = [type |-> res.type, src |-> res.prefsrc]
      BY <2>3, Zenon DEF ip_route_output
    <2>5. PICK i \in DOMAIN ifa_list : res.prefsrc = ifa_list[i].addr
      BY <2>1, <2>3, <2>4, SourceIsOwn, Zenon
    <2>6. PICK s : s = ifa_list[i].addr
      OBVIOUS
    <2>7. ip_route_output(d, 0).src = s
      BY <2>4, <2>5, <2>6
    <2>8. ifa_list[i] \in Ifaddrs
      BY <2>2, <2>5
    <2>9. s \in Addr
      BY <2>6, <2>8, IfaddrsAssumption
    <2>10. i \in SpecialTo(s) /\ SpecialTo(s) \subseteq DOMAIN ifa_list
      BY <2>5, <2>6 DEF SpecialTo, Special
    <2>11. SpecialTo(s) # {}
      BY <2>10
    <2>12. Oldest(SpecialTo(s)) \in DOMAIN ifa_list
      BY <2>2, <2>10, <2>11, OldestIs, Zenon
    <2>13. fib_lookup(s) = Node(Oldest(SpecialTo(s)), s)
      BY <2>1, <2>9, <2>11, FibLookup, Zenon
    <2>14. CASE IsBroadcast(Oldest(SpecialTo(s)), s)
      BY <2>7, <2>12, <2>14, Zenon
    <2>15. CASE ~ IsBroadcast(Oldest(SpecialTo(s)), s)
      <3>1. fib_lookup(s).type = "LOCAL"
        BY <2>13, <2>15, NodeTypes, Zenon
      <3> QED
        BY <2>7, <3>1, Zenon DEF ip_route_input
    <2> QED
      BY <2>14, <2>15, Zenon
  <1> QED
    BY <1>1, Inductive, PTL

-----------------------------------------------------------------------------
(* Types *)

NodesOf(K) == [fn_key : Addr, type : K, prefsrc : Addr]
TablesOf(K) == [0 .. W -> Seq(NodesOf(K))]

\* fn_hash_insert keeps the kind of a table.
LEMMA InsertTyped ==
  ASSUME NEW K, NEW T \in TablesOf(K), NEW a \in Addr, NEW z \in 0 .. W, NEW type \in K, NEW ifa \in Ifaddrs
  PROVE  fn_hash_insert(T, a, z, type, ifa) \in TablesOf(K)
  <1>1. PICK x : x = [fn_key |-> Masked(a, z), type |-> type, prefsrc |-> ifa.addr]
    OBVIOUS
  <1>2. x \in NodesOf(K)
    BY <1>1, MaskedFacts, IfaddrsAssumption DEF NodesOf
  <1>3. fn_hash_insert(T, a, z, type, ifa) = [T EXCEPT ![z] = <<x>> \o T[z]]
    BY <1>1, Zenon DEF fn_hash_insert
  <1>4. [T EXCEPT ![z] = <<x>> \o T[z]] \in TablesOf(K)
    BY <1>2 DEF TablesOf
  <1> QED
    BY <1>3, <1>4, Zenon

Own == {"LOCAL", "BROADCAST"}
Out == {"UNICAST"}

\* So does fib_add_ifaddr.
LEMMA AddTyped ==
  ASSUME NEW ifa \in Ifaddrs
  PROVE  /\ \A T \in TablesOf(Own) : AddLocal(T, ifa) \in TablesOf(Own)
         /\ \A T \in TablesOf(Out) : AddMain(T, ifa) \in TablesOf(Out)
  <1>1. PICK a, p : a = ifa.addr /\ p = ifa.plen
    OBVIOUS
  <1>2. a \in Addr /\ p \in 0 .. W /\ W \in 0 .. W
    BY <1>1, IfaddrsAssumption, WAssumption
  <1>3. PICK m, f : m = Masked(a, p) /\ f = Filled(a, p)
    OBVIOUS
  <1>4. m \in Addr /\ f \in Addr
    BY <1>2, <1>3, MaskedFacts
  <1>5. "LOCAL" \in Own /\ "BROADCAST" \in Own /\ "UNICAST" \in Out
    BY DEF Own, Out
  <1>6. ASSUME NEW T \in TablesOf(Own) PROVE AddLocal(T, ifa) \in TablesOf(Own)
    <2>1. PICK T1 : T1 = fn_hash_insert(T, a, W, "LOCAL", ifa)
      OBVIOUS
    <2>2. PICK T2 : T2 = fn_hash_insert(T1, m, W, "BROADCAST", ifa)
      OBVIOUS
    <2>3. PICK T3 : T3 = fn_hash_insert(T2, f, W, "BROADCAST", ifa)
      OBVIOUS
    <2>4. T1 \in TablesOf(Own)
      BY <1>2, <1>5, <2>1, InsertTyped, Zenon
    <2>5. T2 \in TablesOf(Own)
      BY <1>2, <1>4, <1>5, <2>2, <2>4, InsertTyped, Zenon
    <2>6. T3 \in TablesOf(Own)
      BY <1>2, <1>4, <1>5, <2>3, <2>5, InsertTyped, Zenon
    <2>7. AddLocal(T, ifa) = IF p < W - 1 THEN T3 ELSE T1
      BY <1>1, <1>3, <2>1, <2>2, <2>3, Zenon DEF AddLocal
    <2> QED
      BY <2>4, <2>6, <2>7, Zenon
  <1>7. ASSUME NEW T \in TablesOf(Out) PROVE AddMain(T, ifa) \in TablesOf(Out)
    <2>1. AddMain(T, ifa) = fn_hash_insert(T, m, p, "UNICAST", ifa)
      BY <1>1, <1>3, Zenon DEF AddMain
    <2> QED
      BY <1>2, <1>4, <1>5, <2>1, InsertTyped, Zenon
  <1> QED
    BY <1>6, <1>7, Zenon

\* An empty table is of every kind.
LEMMA EmptyTyped == Empty \in TablesOf(Own) /\ Empty \in TablesOf(Out)
  BY DEF Empty, TablesOf

\* So do all the addresses of the list.
LEMMA EventTyped ==
  ASSUME ifa_list \in Seq(Ifaddrs)
  PROVE  /\ fib_netdev_event(ifa_list).local \in TablesOf(Own)
         /\ fib_netdev_event(ifa_list).main \in TablesOf(Out)
  <1> DEFINE L == Len(ifa_list)
  <1>1. L \in Nat /\ \A n \in 1 .. L : ifa_list[n] \in Ifaddrs
    OBVIOUS
  <1>2. PICK f : Fills(f, ifa_list, L) /\ fib_netdev_event(ifa_list) = f[L]
    BY <1>1, EventFills
  <1> HIDE DEF L
  <1> DEFINE S == {n \in Nat : f[n].local \in TablesOf(Own) /\ f[n].main \in TablesOf(Out)}
  <1>3. 0 \in S
    <2>1. f[0].local = Empty /\ f[0].main = Empty
      BY <1>2 DEF Fills, None
    <2> QED
      BY <2>1, EmptyTyped
  <1>4. ASSUME NEW n \in 1 .. L, n - 1 \in S PROVE n \in S
    <2>1. f[n].local = AddLocal(f[n - 1].local, ifa_list[n]) /\ f[n].main = AddMain(f[n - 1].main, ifa_list[n])
      <3>1. f[n] = Grown(f[n - 1], ifa_list[n])
        BY <1>2, <1>4, Zenon DEF Fills
      <3>2. \A t, i : Grown(t, i).local = AddLocal(t.local, i) /\ Grown(t, i).main = AddMain(t.main, i)
        BY DEF Grown
      <3> QED
        BY <3>1, <3>2, Zenon
    <2>2. n \in Nat /\ ifa_list[n] \in Ifaddrs /\ f[n - 1].local \in TablesOf(Own) /\ f[n - 1].main \in TablesOf(Out)
      BY <1>1, <1>4
    <2>3. f[n].local \in TablesOf(Own) /\ f[n].main \in TablesOf(Out)
      BY <2>1, <2>2, AddTyped, Zenon
    <2> QED
      BY <2>2, <2>3
  <1>5. \A n \in 0 .. L : n \in S
    <2> HIDE DEF S
    <2> QED
      BY <1>1, <1>3, <1>4, Segment
  <1>6. L \in S
    BY <1>1, <1>5
  <1> QED
    BY <1>2, <1>6 DEF L

\* The local table has RTN_LOCAL and RTN_BROADCAST nodes only, the main table
\* RTN_UNICAST ones, and every key and source is an address.
THEOREM TablesTyped == Spec => []TypeOK
  <1>1. IInv => TypeOK
    <2> SUFFICES ASSUME IInv PROVE TypeOK
      OBVIOUS
    <2>1. ifa_list \in Seq(Ifaddrs) /\ up \in BOOLEAN
      BY Zenon DEF IInv
    <2>2. local_table \in TablesOf(Own) /\ main_table \in TablesOf(Out)
      <3>1. CASE up
        BY <2>1, <3>1, EventTyped, Zenon DEF IInv
      <3>2. CASE ~ up
        BY <3>2, EmptyTyped, Zenon DEF IInv
      <3> QED
        BY <3>1, <3>2
    <2> QED
      BY <2>1, <2>2, Zenon DEF TypeOK, TablesOf, NodesOf, Own, Out
  <1> QED
    BY <1>1, Inductive, PTL
================================================================================
