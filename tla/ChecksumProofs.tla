---------------------------- MODULE ChecksumProofs ----------------------------
(***************************************************************************)
(* Proofs about Checksum for buffers of every length that fits in a word   *)
(* and bytes of any number of values.                                      *)
(*                                                                         *)
(* Both ways of summing compute modulo Word - 1, and both give 0 only for  *)
(* a buffer of zeros.  Swapping the bytes of a word is multiplying it by   *)
(* Byte modulo Word - 1, which is why the order of the bytes does not      *)
(* matter.  What the two loops have in common is the plain sum of the      *)
(* words, without a bound (Sums).                                          *)
(***************************************************************************)
EXTENDS MCChecksum, Integers, SequenceTheorems, WellFoundedInduction, TLAPS

\* The largest word.
Top == Word - 1

-----------------------------------------------------------------------------
(* Induction *)

\* Every nonempty set of numbers has a least one.
LEMMA Least ==
  ASSUME NEW S, S \subseteq Nat, S # {}
  PROVE  \E i \in S : \A j \in S : i <= j
  <1> DEFINE R == OpToRel(<, Nat)
  <1>1. \A x, y \in Nat : x < y => <<x, y>> \in R
    BY DEF OpToRel
  <1>2. PICK i \in S : \A j \in S : ~ (<<j, i>> \in R)
    <2>1. IsWellFoundedOn(R, Nat)
      BY NatLessThanWellFounded, Zenon
    <2> HIDE DEF R
    <2> QED
      BY <2>1, WFMin, Zenon
  <1> HIDE DEF R
  <1>3. \A j \in S : ~ (j < i)
    BY <1>1, <1>2, Zenon
  <1> QED
    BY <1>3

\* Induction up to N.
LEMMA Segment ==
  ASSUME NEW N \in Nat, NEW S, 0 \in S, \A n \in 1 .. N : n - 1 \in S => n \in S
  PROVE  \A n \in 0 .. N : n \in S
  <1> DEFINE T == (0 .. N) \ S
  <1>1. SUFFICES ASSUME T # {} PROVE FALSE
    OBVIOUS
  <1>2. PICK n \in T : \A j \in T : n <= j
    <2>1. T \subseteq Nat
      OBVIOUS
    <2> HIDE DEF T
    <2> QED
      BY <1>1, <2>1, Least
  <1>3. n \in 1 .. N /\ n - 1 \in 0 .. N /\ ~ (n <= n - 1)
    BY <1>2
  <1> QED
    BY <1>2, <1>3

-----------------------------------------------------------------------------
(* Numbers modulo Word - 1 *)

\* The sizes are numbers, and everything that is added up fits.
LEMMA Sizes ==
  /\ Byte \in Nat /\ Byte > 3
  /\ Word \in Nat /\ Word = Byte * Byte /\ Word > 15 /\ Byte < Word
  /\ Top \in Nat /\ Top > 14 /\ Word = Top + 1
  /\ Acc \in Nat /\ Acc = Word * Word
  <1>1. Byte \in Nat /\ Byte > 3
    BY ByteAssumption
  <1>2. Byte * Byte \in Nat /\ Byte * Byte >= 4 * Byte
    BY <1>1
  <1>3. Word \in Nat /\ Word = Byte * Byte /\ Word > 15 /\ Byte < Word
    BY <1>1, <1>2 DEF Word
  <1>4. Word * Word \in Nat
    BY <1>3
  <1> QED
    BY <1>1, <1>3, <1>4 DEF Top, Acc

\* x and y differ by a multiple of Top.
Cong(x, y) == \E k \in Int : x = y + k * Top

\* Congruence is reflexive.
LEMMA CongRefl ==
  ASSUME NEW x \in Int PROVE Cong(x, x)
  <1>1. x = x + 0 * Top
    BY Sizes
  <1> QED
    BY <1>1 DEF Cong

\* Congruence is transitive.
LEMMA CongTrans ==
  ASSUME NEW x \in Int, NEW y \in Int, NEW z \in Int, Cong(x, y), Cong(y, z) PROVE Cong(x, z)
  <1>1. PICK k \in Int : x = y + k * Top
    BY DEF Cong
  <1>2. PICK l \in Int : y = z + l * Top
    BY DEF Cong
  <1>3. x = z + (k + l) * Top /\ k + l \in Int
    BY <1>1, <1>2, Sizes
  <1> QED
    BY <1>3 DEF Cong

\* Congruent numbers have congruent sums.
LEMMA CongAdd ==
  ASSUME NEW x \in Int, NEW y \in Int, NEW u \in Int, NEW v \in Int, Cong(x, y), Cong(u, v)
  PROVE  Cong(x + u, y + v)
  <1>1. PICK k \in Int : x = y + k * Top
    BY DEF Cong
  <1>2. PICK l \in Int : u = v + l * Top
    BY DEF Cong
  <1>3. x + u = (y + v) + (k + l) * Top /\ k + l \in Int
    BY <1>1, <1>2, Sizes
  <1> QED
    BY <1>3 DEF Cong

\* Congruent numbers have congruent multiples.
LEMMA CongScale ==
  ASSUME NEW x \in Int, NEW y \in Int, NEW c \in Int, Cong(x, y) PROVE Cong(c * x, c * y)
  <1>1. PICK k \in Int : x = y + k * Top
    BY DEF Cong
  <1>2. c * x = c * y + (c * k) * Top /\ c * k \in Int
    BY <1>1, Sizes
  <1> QED
    BY <1>2 DEF Cong

\* The difference of two multiples of Top is one.
LEMMA CongDiff ==
  ASSUME NEW x \in Int, NEW y \in Int, Cong(x, 0), Cong(y, 0) PROVE Cong(x - y, 0)
  <1>1. PICK k \in Int : x = 0 + k * Top
    BY DEF Cong
  <1>2. PICK l \in Int : y = 0 + l * Top
    BY DEF Cong
  <1>3. k - l \in Int /\ (k - l) * Top = k * Top - l * Top /\ k * Top \in Int /\ l * Top \in Int
    BY Sizes
  <1>4. x - y = 0 + (k - l) * Top
    BY <1>1, <1>2, <1>3
  <1> QED
    BY <1>3, <1>4 DEF Cong

\* Between -Top and Top only 0 is a multiple of Top.
LEMMA CongSmall ==
  ASSUME NEW x \in Int, Cong(x, 0), 0 - Top < x, x < Top PROVE x = 0
  <1>1. PICK k \in Int : x = 0 + k * Top
    BY DEF Cong
  <1>2. k >= 1 => k * Top >= Top
    BY Sizes
  <1>3. k <= 0 - 1 => k * Top <= 0 - Top
    BY Sizes
  <1>4. k = 0
    BY <1>1, <1>2, <1>3, Sizes
  <1> QED
    BY <1>1, <1>4, Sizes

\* x is the one's complement sum c stands for: it is congruent to it and 0 only if
\* c is.
Folds(x, c) == x \in 0 .. Top /\ Cong(x, c) /\ (x = 0 <=> c = 0)

\* Two words that stand for the same sum are equal.
LEMMA FoldsUnique ==
  ASSUME NEW x, NEW y, NEW c \in Int, Folds(x, c), Folds(y, c) PROVE x = y
  <1>1. x \in 0 .. Top /\ y \in 0 .. Top /\ (x = 0 <=> y = 0) /\ x \in Int /\ y \in Int
    BY Sizes DEF Folds
  <1>2. PICK k \in Int : x = c + k * Top
    BY DEF Folds, Cong
  <1>3. PICK l \in Int : y = c + l * Top
    BY DEF Folds, Cong
  <1>4. x - y = 0 + (k - l) * Top /\ k - l \in Int
    BY <1>1, <1>2, <1>3, Sizes
  <1>5. Cong(x - y, 0)
    BY <1>4 DEF Cong
  <1>6. CASE x # 0
    <2>1. 0 - Top < x - y /\ x - y < Top /\ x - y \in Int
      BY <1>1, <1>6, Sizes
    <2>2. x - y = 0
      BY <1>5, <2>1, CongSmall
    <2> QED
      BY <1>1, <2>2
  <1> QED
    BY <1>1, <1>6

\* A multiple of Top other than 0 folds to Top.
LEMMA FoldsTop ==
  ASSUME NEW x, NEW c \in Int, Folds(x, c), Cong(c, 0), c # 0 PROVE x = Top
  <1>1. PICK k \in Int : c = 0 + k * Top
    BY DEF Cong
  <1>2. Top = c + (1 - k) * Top /\ 1 - k \in Int
    BY <1>1, Sizes
  <1>3. Cong(Top, c)
    BY <1>2 DEF Cong
  <1>4. Folds(Top, c)
    BY <1>3, Sizes DEF Folds
  <1> QED
    BY <1>4, FoldsUnique, Zenon

-----------------------------------------------------------------------------
(* The operations on words *)

\* The two folds of an accumulator lose nothing.
LEMMA FinishFolds ==
  ASSUME NEW c \in 0 .. Acc - 1
  PROVE  Finish(c) \in 0 .. Top /\ Folds(Top - Finish(c), c)
  <1>1. PICK q, r : q = c \div Word /\ r = c % Word
    OBVIOUS
  <1>2. c \in Nat /\ c < Word * Word /\ Word \in Nat /\ Word > 0
    BY Sizes
  <1>3. c = Word * q + r /\ r \in 0 .. Top /\ q \in Nat
    BY <1>1, <1>2, Sizes
  <1>4. q < Word
    BY <1>2, <1>3
  <1>5. PICK o : o = q + r
    OBVIOUS
  <1>6. o \in 0 .. Top + Top /\ c = o + q * Top /\ (o = 0 <=> c = 0)
    <2>1. o \in 0 .. Top + Top
      BY <1>3, <1>4, <1>5, Sizes
    <2>2. c = o + q * Top
      BY <1>3, <1>5, Sizes
    <2>3. PICK t : t = q * Top
      OBVIOUS
    <2>4. t \in Nat /\ (q = 0 => t = 0)
      BY <1>3, <2>3, Sizes
    <2>5. c = o + t
      BY <2>2, <2>3
    <2>6. o = 0 <=> c = 0
      BY <1>3, <1>5, <2>4, <2>5
    <2> QED
      BY <2>1, <2>2, <2>6
  <1>7. PICK f : f = (o + (o \div Word)) % Word
    OBVIOUS
  <1>8. Finish(c) = Top - f
    <2>1. Finish(c) = Word - 1 - f
      BY <1>1, <1>5, <1>7, Zenon DEF Finish
    <2> QED
      BY <2>1 DEF Top
  <1>9. CASE o < Word
    <2>1. o \div Word = 0 /\ (o + 0) % Word = o
      BY <1>2, <1>6, <1>9
    <2>2. f = o
      BY <1>7, <2>1
    <2>3. o = c + (0 - q) * Top /\ 0 - q \in Int
      BY <1>3, <1>6, Sizes
    <2>4. Cong(o, c)
      BY <2>3 DEF Cong
    <2>5. Folds(o, c) /\ Top - o \in 0 .. Top /\ Top - (Top - o) = o
      BY <1>6, <1>9, <2>4, Sizes DEF Folds
    <2> QED
      BY <1>8, <2>2, <2>5
  <1>10. CASE o >= Word
    <2>1. o \div Word = 1 /\ (o + 1) % Word = o - Top
      BY <1>2, <1>6, <1>10, Sizes
    <2>2. f = o - Top
      BY <1>7, <2>1
    <2>3. f = c + (0 - 1 - q) * Top /\ 0 - 1 - q \in Int
      BY <1>3, <1>6, <2>2, Sizes
    <2>4. Cong(f, c)
      BY <2>3 DEF Cong
    <2>5. Folds(f, c) /\ Top - f \in 0 .. Top /\ Top - (Top - f) = f
      BY <1>6, <1>10, <2>2, <2>4, Sizes DEF Folds
    <2> QED
      BY <1>8, <2>5
  <1> QED
    BY <1>6, <1>9, <1>10, Sizes

\* The two bytes of a word.
LEMMA WordBytes ==
  ASSUME NEW w \in 0 .. Top
  PROVE  /\ w % Byte \in 0 .. Byte - 1 /\ w \div Byte \in 0 .. Byte - 1
         /\ w = (w % Byte) + Byte * (w \div Byte)
  <1>1. w \in Nat /\ Byte \in Nat /\ Byte > 0 /\ w < Byte * Byte
    BY Sizes
  <1>2. w = Byte * (w \div Byte) + (w % Byte) /\ w % Byte \in 0 .. Byte - 1 /\ w \div Byte \in Nat
    BY <1>1
  <1>3. w \div Byte < Byte
    BY <1>1, <1>2
  <1> QED
    BY <1>1, <1>2, <1>3

\* Two bytes are the two bytes of the word they make.
LEMMA BytesWord ==
  ASSUME NEW a \in 0 .. Byte - 1, NEW b \in 0 .. Byte - 1
  PROVE  /\ a + Byte * b \in 0 .. Top
         /\ (a + Byte * b) % Byte = a /\ (a + Byte * b) \div Byte = b
         /\ a + Byte * b = 0 <=> a = 0 /\ b = 0
  <1>1. Byte * b <= Byte * (Byte - 1) /\ Byte * (Byte - 1) = Word - Byte /\ Byte * b >= b
    BY Sizes
  <1>2. a + Byte * b \in 0 .. Top
    BY <1>1, Sizes
  <1>3. (a + Byte * b) % Byte = a /\ (a + Byte * b) \div Byte = b
    BY Sizes
  <1> QED
    BY <1>1, <1>2, <1>3, Sizes

\* Swapping the bytes of a word multiplies it by Byte.
LEMMA Swapped ==
  ASSUME NEW w \in 0 .. Top
  PROVE  /\ htons(w) \in 0 .. Top /\ Cong(htons(w), Byte * w) /\ (htons(w) = 0 <=> w = 0)
         /\ htons(Top - w) = Top - htons(w)
  <1>1. PICK a, b : a = w % Byte /\ b = w \div Byte
    OBVIOUS
  <1>2. a \in 0 .. Byte - 1 /\ b \in 0 .. Byte - 1 /\ w = a + Byte * b
    BY <1>1, WordBytes
  <1>3. htons(w) = b + Byte * a
    <2>1. htons(w) = a * Byte + b
      BY <1>1, Zenon DEF htons
    <2> QED
      BY <1>2, <2>1, Sizes
  <1>4. htons(w) \in 0 .. Top /\ (htons(w) = 0 <=> w = 0)
    BY <1>2, <1>3, BytesWord
  <1>5. Cong(htons(w), Byte * w)
    <2>1. Byte * w = Byte * a + Word * b
      BY <1>2, Sizes
    <2>2. htons(w) = Byte * w + (0 - b) * Top /\ 0 - b \in Int
      BY <1>2, <1>3, <2>1, Sizes
    <2> QED
      BY <2>2 DEF Cong
  <1>6. htons(Top - w) = Top - htons(w)
    <2>1. PICK x, y : x = Byte - 1 - a /\ y = Byte - 1 - b
      OBVIOUS
    <2>2. x \in 0 .. Byte - 1 /\ y \in 0 .. Byte - 1
      BY <1>2, <2>1, Sizes
    <2>3. Top - w = x + Byte * y /\ Top - htons(w) = x * Byte + y
      BY <1>2, <1>3, <2>1, Sizes
    <2>4. (x + Byte * y) % Byte = x /\ (x + Byte * y) \div Byte = y
      BY <2>2, BytesWord
    <2>5. htons(x + Byte * y) = x * Byte + y
      BY <2>4, Zenon DEF htons
    <2> QED
      BY <2>3, <2>5
  <1> QED
    BY <1>4, <1>5, <1>6

\* Adding with end-around carry.
LEMMA PlusFolds ==
  ASSUME NEW a \in 0 .. Top, NEW b \in 0 .. Top
  PROVE  Folds(Plus(a, b), a + b)
  <1>1. CASE a + b >= Word
    <2>1. Plus(a, b) = a + b - Top
      BY <1>1, Sizes DEF Plus
    <2>2. Plus(a, b) = a + b + (0 - 1) * Top
      BY <2>1, Sizes
    <2>3. Cong(Plus(a, b), a + b)
      BY <2>2 DEF Cong
    <2> QED
      BY <1>1, <2>1, <2>3, Sizes DEF Folds
  <1>2. CASE a + b < Word
    <2>1. Plus(a, b) = a + b
      BY <1>2, Sizes DEF Plus
    <2>2. Cong(a + b, a + b)
      BY CongRefl, Sizes
    <2> QED
      BY <1>2, <2>1, <2>2, Sizes DEF Folds
  <1> QED
    BY <1>1, <1>2, Sizes

-----------------------------------------------------------------------------
(* Sums *)

\* The values of a byte, and how many words a buffer has.
Octets == 0 .. Byte - 1
Words(s) == (Len(s) + 1) \div 2

\* The words of a buffer are words.
LEMMA WordTyped ==
  ASSUME NEW s \in Seq(Octets), NEW n \in 1 .. Words(s)
  PROVE  WordAt(s, n) \in 0 .. Top
  <1>1. PICK l : l = Len(s)
    OBVIOUS
  <1>2. l \in Nat /\ n \in 1 .. (l + 1) \div 2 /\ \A i \in 1 .. l : s[i] \in Octets
    BY <1>1 DEF Words
  <1>3. 2 * n - 1 \in 1 .. l /\ (2 * n <= l => 2 * n \in 1 .. l)
    BY <1>2
  <1>4. s[2 * n - 1] \in Octets /\ (2 * n <= l => s[2 * n] \in Octets)
    BY <1>2, <1>3
  <1>5. CASE 2 * n <= l
    <2>1. WordAt(s, n) = s[2 * n - 1] + Byte * s[2 * n]
      BY <1>1, <1>5 DEF WordAt
    <2> QED
      BY <1>4, <1>5, <2>1, BytesWord DEF Octets
  <1>6. CASE ~ (2 * n <= l)
    <2>1. WordAt(s, n) = s[2 * n - 1] + 0
      BY <1>1, <1>6, Zenon DEF WordAt
    <2> QED
      BY <1>4, <2>1, Sizes DEF Octets
  <1> QED
    BY <1>5, <1>6

\* f[n] is the sum of the first n words of s.
Sums(f, s, n) == f[0] = 0 /\ \A m \in 1 .. n : f[m] = f[m - 1] + WordAt(s, m)

\* Every buffer has its sums.
LEMMA SumsExist ==
  ASSUME NEW s, NEW N \in Nat
  PROVE  \E f : Sums(f, s, N)
  <1> DEFINE S == {n \in Nat : \E f : Sums(f, s, n)}
  <1>1. 0 \in S
    <2>1. Sums([k \in {0} |-> 0], s, 0)
      BY DEF Sums
    <2> QED
      BY <2>1
  <1>2. ASSUME NEW n \in 1 .. N, n - 1 \in S PROVE n \in S
    <2>1. PICK f : Sums(f, s, n - 1)
      BY <1>2
    <2> DEFINE g == [k \in 0 .. n |-> IF k = n THEN f[n - 1] + WordAt(s, n) ELSE f[k]]
    <2>2. g[0] = 0
      BY <2>1 DEF Sums
    <2>3. ASSUME NEW k \in 1 .. n PROVE g[k] = g[k - 1] + WordAt(s, k)
      <3>1. k - 1 \in 0 .. n /\ k - 1 # n /\ k \in 0 .. n
        OBVIOUS
      <3>2. g[k - 1] = f[k - 1]
        BY <3>1
      <3>3. CASE k = n
        BY <3>1, <3>2, <3>3
      <3>4. CASE k # n
        <4>1. k \in 1 .. n - 1 /\ g[k] = f[k]
          BY <3>1, <3>4
        <4>2. f[k] = f[k - 1] + WordAt(s, k)
          BY <2>1, <4>1 DEF Sums
        <4> QED
          BY <3>2, <4>1, <4>2, Zenon
      <3> QED
        BY <3>3, <3>4
    <2> HIDE DEF g
    <2>4. Sums(g, s, n)
      BY <2>2, <2>3 DEF Sums
    <2> QED
      BY <2>4
  <1> HIDE DEF S
  <1>3. \A n \in 0 .. N : n \in S
    BY <1>1, <1>2, Segment
  <1>4. N \in S
    BY <1>3
  <1> QED
    BY <1>4 DEF S

\* A sum of at most Word words fits in the accumulator.
LEMMA SumsBounded ==
  ASSUME NEW s \in Seq(Octets), NEW N \in Nat, N <= Words(s), N <= Word, NEW f, Sums(f, s, N)
  PROVE  \A n \in 0 .. N : f[n] \in 0 .. Acc - 1
  <1> DEFINE S == {n \in Nat : f[n] \in Nat /\ f[n] <= n * Top}
  <1>0. Words(s) \in Nat
    BY DEF Words
  <1>1. 0 \in S
    BY Sizes DEF Sums
  <1>2. ASSUME NEW n \in 1 .. N, n - 1 \in S PROVE n \in S
    <2>1. PICK w : w = WordAt(s, n)
      OBVIOUS
    <2>2. n \in 1 .. Words(s)
      BY <1>0
    <2>3. w \in 0 .. Top /\ f[n] = f[n - 1] + w
      BY <2>1, <2>2, WordTyped DEF Sums
    <2>4. f[n - 1] \in Nat /\ f[n - 1] <= (n - 1) * Top
      BY <1>2
    <2>5. (n - 1) * Top + Top = n * Top
      BY Sizes
    <2> QED
      BY <2>3, <2>4, <2>5, Sizes
  <1>3. \A n \in 0 .. N : n \in S
    <2> HIDE DEF S
    <2> QED
      BY <1>1, <1>2, Segment
  <1>4. ASSUME NEW n \in 0 .. N PROVE f[n] \in 0 .. Acc - 1
    <2>1. f[n] \in Nat /\ f[n] <= n * Top
      BY <1>3
    <2>2. n * Top <= Word * Top /\ Word * Top = Acc - Word
      BY Sizes
    <2> QED
      BY <2>1, <2>2, Sizes
  <1> QED
    BY <1>4

\* A remainder of a small number.
LEMMA SmallMod ==
  ASSUME NEW m \in Nat, NEW x \in 0 .. m - 1 PROVE x % m = x
  OBVIOUS

\* What the loop of checksum() computes.
LEMMA TotalIs ==
  ASSUME NEW s \in Seq(Octets), Words(s) <= Word, NEW f, Sums(f, s, Words(s))
  PROVE  Total(s) = f[Words(s)]
  <1> DEFINE N == Words(s)
             h == [n \in 0 .. N |-> f[n]]
             Fixed(g) == g = [n \in 0 .. N |-> IF n = 0 THEN 0 ELSE (g[n - 1] + WordAt(s, n)) % Acc]
             t == CHOOSE g : Fixed(g)
  <1>1. N \in Nat /\ N <= Words(s) /\ N <= Word /\ Sums(f, s, N)
    BY DEF Words
  <1>2. \A n \in 0 .. N : f[n] \in 0 .. Acc - 1
    <2> HIDE DEF N
    <2> QED
      BY <1>1, SumsBounded
  <1>3. ASSUME NEW n \in 1 .. N PROVE f[n] = (f[n - 1] + WordAt(s, n)) % Acc
    <2>1. f[n] = f[n - 1] + WordAt(s, n) /\ n \in 0 .. N
      BY <1>1 DEF Sums
    <2>2. f[n] \in 0 .. Acc - 1
      BY <1>2, <2>1
    <2>3. Acc \in Nat
      BY Sizes
    <2>4. f[n] % Acc = f[n]
      BY <2>2, <2>3, SmallMod
    <2> QED
      BY <2>1, <2>4
  <1>4. f[0] = 0
    BY DEF Sums
  <1>5. Fixed(h)
    <2>1. ASSUME NEW n \in 0 .. N PROVE h[n] = IF n = 0 THEN 0 ELSE (h[n - 1] + WordAt(s, n)) % Acc
      <3>1. CASE n = 0
        BY <1>4, <3>1
      <3>2. CASE n # 0
        <4>1. n \in 1 .. N /\ n - 1 \in 0 .. N
          BY <1>1, <3>2
        <4> QED
          BY <1>3, <3>2, <4>1
      <3> QED
        BY <3>1, <3>2
    <2>2. h = [n \in 0 .. N |-> h[n]]
      OBVIOUS
    <2> HIDE DEF h, N
    <2> QED
      BY <2>1, <2>2, Zenon
  <1>6. Fixed(t)
    BY <1>5, Zenon
  <1>7. Total(s) = t[N]
    BY Zenon DEF Total, Words
  <1> HIDE DEF t, N
  <1>8. ASSUME NEW n \in 0 .. N PROVE t[n] = IF n = 0 THEN 0 ELSE (t[n - 1] + WordAt(s, n)) % Acc
    BY <1>6, Zenon
  <1> DEFINE S == {n \in Nat : t[n] = f[n]}
  <1>9. 0 \in S
    BY <1>1, <1>4, <1>8
  <1>10. ASSUME NEW n \in 1 .. N, n - 1 \in S PROVE n \in S
    <2>1. n \in 0 .. N /\ n # 0 /\ n \in Nat /\ t[n - 1] = f[n - 1]
      BY <1>10
    <2>2. t[n] = (f[n - 1] + WordAt(s, n)) % Acc
      BY <1>8, <2>1, Zenon
    <2> QED
      BY <1>3, <2>1, <2>2
  <1> HIDE DEF S
  <1>11. \A n \in 0 .. N : n \in S
    BY <1>1, <1>9, <1>10, Segment
  <1>12. N \in S
    BY <1>1, <1>11
  <1> QED
    BY <1>7, <1>12 DEF N, S

\* What a sum in network order gives: the same sum with its bytes swapped.
LEMMA NetworkSumIs ==
  ASSUME NEW s \in Seq(Octets), Words(s) <= Word, NEW f, Sums(f, s, Words(s))
  PROVE  /\ f[Words(s)] \in 0 .. Acc - 1
         /\ NetworkSum(s) = htons(Top - Finish(f[Words(s)]))
  <1> DEFINE N == Words(s)
             h == [n \in 0 .. N |-> htons(Top - Finish(f[n]))]
             Fixed(g) == g = [n \in 0 .. N |-> IF n = 0 THEN 0 ELSE Plus(g[n - 1], htons(WordAt(s, n)))]
             t == CHOOSE g : Fixed(g)
  <1>1. N \in Nat /\ N <= Words(s) /\ N <= Word /\ Sums(f, s, N)
    BY DEF Words
  <1>2. \A n \in 0 .. N : f[n] \in 0 .. Acc - 1
    <2> HIDE DEF N
    <2> QED
      BY <1>1, SumsBounded
  <1>3. ASSUME NEW n \in 0 .. N PROVE f[n] \in Int /\ Folds(htons(Top - Finish(f[n])), Byte * f[n])
    <2>1. PICK c, x : c = f[n] /\ x = Top - Finish(c)
      OBVIOUS
    <2>2. c \in 0 .. Acc - 1 /\ c \in Int
      BY <1>2, <2>1
    <2>3. Folds(x, c)
      BY <2>1, <2>2, FinishFolds
    <2>4. x \in 0 .. Top /\ x \in Int /\ Cong(x, c) /\ (x = 0 <=> c = 0)
      BY <2>3, Sizes DEF Folds
    <2>5. htons(x) \in 0 .. Top /\ Cong(htons(x), Byte * x) /\ (htons(x) = 0 <=> x = 0)
      BY <2>4, Swapped
    <2>6. Byte * x \in Int /\ Byte * c \in Int /\ htons(x) \in Int /\ Byte \in Int
      BY <2>2, <2>4, <2>5, Sizes
    <2>7. Cong(Byte * x, Byte * c)
      BY <2>2, <2>4, <2>6, CongScale
    <2>8. Cong(htons(x), Byte * c)
      BY <2>5, <2>6, <2>7, CongTrans
    <2>9. Byte * c = 0 <=> c = 0
      BY <2>2, Sizes
    <2> QED
      BY <2>1, <2>2, <2>4, <2>5, <2>8, <2>9 DEF Folds
  <1>4. f[0] = 0
    BY DEF Sums
  <1>5. htons(Top - Finish(f[0])) = 0
    <2>1. 0 \in 0 .. N
      BY <1>1
    <2>2. PICK x : x = htons(Top - Finish(f[0]))
      OBVIOUS
    <2>3. Folds(x, Byte * f[0]) /\ Byte * f[0] = 0
      BY <1>3, <1>4, <2>1, <2>2, Sizes
    <2> QED
      BY <2>2, <2>3 DEF Folds
  <1>6. ASSUME NEW n \in 1 .. N
        PROVE  htons(Top - Finish(f[n])) = Plus(htons(Top - Finish(f[n - 1])), htons(WordAt(s, n)))
    <2>1. PICK x, y, w, c, d : /\ x = htons(Top - Finish(f[n])) /\ y = htons(Top - Finish(f[n - 1]))
                               /\ w = WordAt(s, n) /\ c = f[n] /\ d = f[n - 1]
      OBVIOUS
    <2>2. n \in 0 .. N /\ n - 1 \in 0 .. N /\ n \in 1 .. Words(s)
      BY <1>1
    <2>3. c \in Int /\ Folds(x, Byte * c) /\ d \in Int /\ Folds(y, Byte * d) /\ d \in Nat
      BY <1>2, <1>3, <2>1, <2>2
    <2>4. w \in 0 .. Top /\ c = d + w
      BY <1>1, <2>1, <2>2, WordTyped DEF Sums
    <2>5. PICK v : v = htons(w)
      OBVIOUS
    <2>6. v \in 0 .. Top /\ Cong(v, Byte * w) /\ (v = 0 <=> w = 0)
      BY <2>4, <2>5, Swapped
    <2>7. y \in 0 .. Top /\ Cong(y, Byte * d) /\ (y = 0 <=> Byte * d = 0)
      BY <2>3 DEF Folds
    <2>8. PICK u : u = Plus(y, v)
      OBVIOUS
    <2>9. u \in 0 .. Top /\ Cong(u, y + v) /\ (u = 0 <=> y + v = 0)
      BY <2>6, <2>7, <2>8, PlusFolds DEF Folds
    <2>10. /\ Byte * c = Byte * d + Byte * w /\ Byte * c \in Int /\ Byte * d \in Nat /\ Byte * w \in Nat
           /\ (Byte * w = 0 <=> w = 0)
      BY <2>3, <2>4, Sizes
    <2>11. y \in Int /\ v \in Int /\ u \in Int /\ y + v \in Int /\ Byte * d \in Int /\ Byte * w \in Int
      BY <2>6, <2>7, <2>9, <2>10, Sizes
    <2>12. Cong(y + v, Byte * d + Byte * w)
      BY <2>6, <2>7, <2>11, CongAdd
    <2>13. Cong(u, Byte * c)
      BY <2>9, <2>10, <2>11, <2>12, CongTrans
    <2>14. u = 0 <=> Byte * c = 0
      BY <2>6, <2>7, <2>9, <2>10
    <2>15. Folds(u, Byte * c)
      BY <2>9, <2>13, <2>14 DEF Folds
    <2>16. x = u
      BY <2>3, <2>10, <2>15, FoldsUnique
    <2> QED
      BY <2>1, <2>5, <2>8, <2>16
  <1>7. Fixed(h)
    <2>1. ASSUME NEW n \in 0 .. N PROVE h[n] = IF n = 0 THEN 0 ELSE Plus(h[n - 1], htons(WordAt(s, n)))
      <3>1. CASE n = 0
        BY <1>5, <3>1
      <3>2. CASE n # 0
        <4>1. n \in 1 .. N /\ n - 1 \in 0 .. N
          BY <1>1, <3>2
        <4>2. h[n] = htons(Top - Finish(f[n])) /\ h[n - 1] = htons(Top - Finish(f[n - 1]))
          BY <4>1
        <4> QED
          BY <1>6, <3>2, <4>1, <4>2, Zenon
      <3> QED
        BY <3>1, <3>2
    <2>2. h = [n \in 0 .. N |-> h[n]]
      OBVIOUS
    <2> HIDE DEF h, N
    <2> QED
      BY <2>1, <2>2, Zenon
  <1>8. Fixed(t)
    BY <1>7, Zenon
  <1>9. NetworkSum(s) = t[N]
    BY Zenon DEF NetworkSum, Words
  <1> HIDE DEF t, N
  <1>10. ASSUME NEW n \in 0 .. N PROVE t[n] = IF n = 0 THEN 0 ELSE Plus(t[n - 1], htons(WordAt(s, n)))
    BY <1>8, Zenon
  <1> DEFINE S == {n \in Nat : t[n] = htons(Top - Finish(f[n]))}
  <1>11. 0 \in S
    BY <1>1, <1>5, <1>10
  <1>12. ASSUME NEW n \in 1 .. N, n - 1 \in S PROVE n \in S
    <2>1. n \in 0 .. N /\ n # 0 /\ n \in Nat /\ t[n - 1] = htons(Top - Finish(f[n - 1]))
      BY <1>12
    <2>2. t[n] = Plus(htons(Top - Finish(f[n - 1])), htons(WordAt(s, n)))
      BY <1>10, <2>1, Zenon
    <2> QED
      BY <1>6, <2>1, <2>2
  <1> HIDE DEF S
  <1>13. \A n \in 0 .. N : n \in S
    BY <1>1, <1>11, <1>12, Segment
  <1>14. N \in S /\ N \in 0 .. N
    BY <1>1, <1>13
  <1> QED
    BY <1>2, <1>9, <1>14 DEF N, S

-----------------------------------------------------------------------------
(* Byte order *)

\* The checksum of any buffer, for odd and even lengths up to the largest a
\* uint16_t holds, is the one a peer of the other byte order computes.
THEOREM ByteOrderIndependent ==
  ASSUME NEW s \in Seq(Octets), Len(s) < Word
  PROVE  htons(checksum(s)) = Word - 1 - NetworkSum(s)
  <1>1. Words(s) \in Nat /\ Words(s) <= Word
    BY Sizes DEF Words
  <1>2. PICK f : Sums(f, s, Words(s))
    BY <1>1, SumsExist
  <1>3. PICK c : c = f[Words(s)]
    OBVIOUS
  <1>4. checksum(s) = Finish(c)
    BY <1>1, <1>2, <1>3, TotalIs, Zenon DEF checksum
  <1>5. c \in 0 .. Acc - 1 /\ NetworkSum(s) = htons(Top - Finish(c))
    BY <1>1, <1>2, <1>3, NetworkSumIs
  <1>6. PICK x : x = Finish(c)
    OBVIOUS
  <1>7. x \in 0 .. Top /\ Top - x \in 0 .. Top
    BY <1>5, <1>6, FinishFolds, Sizes
  <1>8. htons(Top - x) = Top - htons(x) /\ htons(x) \in 0 .. Top
    BY <1>7, Swapped
  <1>9. Top - (Top - htons(x)) = htons(x)
    BY <1>8, Sizes
  <1> QED
    BY <1>4, <1>5, <1>6, <1>8, <1>9 DEF Top

-----------------------------------------------------------------------------
(* One word changed *)

\* Two buffers of one length that differ in the word n at most.
Differ(s, r, n) ==
  /\ s \in Seq(Octets) /\ r \in Seq(Octets) /\ Len(s) = Len(r)
  /\ n \in 1 .. Words(s)
  /\ \A m \in 1 .. Words(s) : m # n => WordAt(r, m) = WordAt(s, m)

\* Their sums differ as that word does.
LEMMA OneWord ==
  ASSUME NEW s, NEW r, NEW n, Differ(s, r, n), Words(s) <= Word,
         NEW f, Sums(f, s, Words(s)), NEW g, Sums(g, r, Words(r))
  PROVE  /\ Words(r) = Words(s)
         /\ f[Words(s)] \in Nat /\ g[Words(s)] \in Nat
         /\ g[Words(s)] + WordAt(s, n) = f[Words(s)] + WordAt(r, n)
  <1>1. PICK N : N = Words(s)
    OBVIOUS
  <1>2. N \in Nat /\ Words(r) = N /\ s \in Seq(Octets) /\ r \in Seq(Octets) /\ n \in 1 .. N /\ N <= Word
    BY <1>1 DEF Differ, Words
  <1>3. \A m \in 0 .. N : f[m] \in Nat /\ g[m] \in Nat
    <2>1. \A m \in 0 .. N : f[m] \in 0 .. Acc - 1
      BY <1>1, <1>2, SumsBounded
    <2>2. \A m \in 0 .. N : g[m] \in 0 .. Acc - 1
      BY <1>1, <1>2, SumsBounded
    <2> QED
      BY <2>1, <2>2
  <1>4. PICK x, y : x = WordAt(s, n) /\ y = WordAt(r, n)
    OBVIOUS
  <1>5. x \in Nat /\ y \in Nat
    BY <1>1, <1>2, <1>4, WordTyped, Sizes
  <1> DEFINE S == {m \in Nat : (m < n => g[m] = f[m]) /\ (m >= n => g[m] + x = f[m] + y)}
  <1>6. 0 \in S
    BY <1>2 DEF Sums
  <1>7. ASSUME NEW m \in 1 .. N, m - 1 \in S PROVE m \in S
    <2>1. m \in 0 .. N /\ m - 1 \in 0 .. N /\ m \in Nat /\ m - 1 \in Nat
      BY <1>2
    <2>2. f[m] = f[m - 1] + WordAt(s, m) /\ g[m] = g[m - 1] + WordAt(r, m)
      BY <1>1, <1>2 DEF Sums
    <2>3. f[m] \in Nat /\ f[m - 1] \in Nat /\ g[m] \in Nat /\ g[m - 1] \in Nat
      BY <1>3, <2>1
    <2>4. CASE m = n
      <3>1. g[m - 1] = f[m - 1]
        BY <1>7, <2>1, <2>4
      <3>2. f[m] = f[m - 1] + x /\ g[m] = g[m - 1] + y
        BY <1>4, <2>2, <2>4
      <3>3. g[m] + x = f[m] + y
        BY <1>5, <2>3, <3>1, <3>2
      <3> QED
        BY <2>1, <2>4, <3>3
    <2>5. CASE m # n
      <3>1. PICK z : z = WordAt(s, m)
        OBVIOUS
      <3>2. z \in Nat /\ WordAt(r, m) = z
        BY <1>1, <1>2, <2>5, <3>1, WordTyped, Sizes DEF Differ
      <3>3. f[m] = f[m - 1] + z /\ g[m] = g[m - 1] + z
        BY <2>2, <3>1, <3>2
      <3>4. /\ m < n => g[m - 1] = f[m - 1]
            /\ m >= n => g[m - 1] + x = f[m - 1] + y
        BY <1>2, <1>7, <2>1, <2>5
      <3>5. /\ m < n => g[m] = f[m]
            /\ m >= n => g[m] + x = f[m] + y
        BY <1>5, <2>3, <3>2, <3>3, <3>4
      <3> QED
        BY <2>1, <3>5
    <2> QED
      BY <2>4, <2>5
  <1>8. \A m \in 0 .. N : m \in S
    <2> HIDE DEF S
    <2> QED
      BY <1>2, <1>6, <1>7, Segment
  <1>9. N \in S /\ N >= n /\ N \in 0 .. N
    BY <1>2, <1>8
  <1>10. g[N] + x = f[N] + y
    BY <1>9
  <1> QED
    BY <1>1, <1>2, <1>3, <1>4, <1>9, <1>10

\* A byte that is stored.
LEMMA Poked ==
  ASSUME NEW s \in Seq(Octets), NEW i \in 1 .. Len(s), NEW x \in Octets, NEW r, r = [s EXCEPT ![i] = x]
  PROVE  /\ r \in Seq(Octets) /\ Len(r) = Len(s) /\ r[i] = x
         /\ \A j \in 1 .. Len(s) : j # i => r[j] = s[j]
  OBVIOUS

\* A word that is stored is found again, and the others are as they were.
LEMMA Stored ==
  ASSUME NEW s \in Seq(Octets), NEW n \in 1 .. Len(s) \div 2, NEW w \in 0 .. Top
  PROVE  /\ Store(s, n, w) \in Seq(Octets) /\ Len(Store(s, n, w)) = Len(s)
         /\ n \in 1 .. Words(s) /\ WordAt(Store(s, n, w), n) = w
         /\ \A m \in 1 .. Words(s) : m # n => WordAt(Store(s, n, w), m) = WordAt(s, m)
  <1>1. PICK l, a, b, r : l = Len(s) /\ a = w % Byte /\ b = w \div Byte /\ r = Store(s, n, w)
    OBVIOUS
  <1>2. a \in Octets /\ b \in Octets /\ w = a + Byte * b
    BY <1>1, WordBytes DEF Octets
  <1>3. l \in Nat /\ 2 * n - 1 \in 1 .. l /\ 2 * n \in 1 .. l /\ n \in 1 .. Words(s) /\ 2 * n <= l
    BY <1>1 DEF Words
  <1>4. PICK q : q = [s EXCEPT ![2 * n - 1] = a]
    OBVIOUS
  <1>5. r \in Seq(Octets) /\ Len(r) = l /\ r[2 * n - 1] = a /\ r[2 * n] = b
    <2>1. q \in Seq(Octets) /\ Len(q) = l /\ q[2 * n - 1] = a
      <3>1. PICK i : i = 2 * n - 1
        OBVIOUS
      <3>2. i \in 1 .. Len(s) /\ q = [s EXCEPT ![i] = a]
        BY <1>1, <1>3, <1>4, <3>1
      <3>3. q \in Seq(Octets) /\ Len(q) = Len(s) /\ q[i] = a
        BY <1>2, <3>2, Poked
      <3> QED
        BY <1>1, <3>1, <3>3
    <2>2. r = [q EXCEPT ![2 * n] = b]
      BY <1>1, <1>4 DEF Store, Bytes
    <2>3. r \in Seq(Octets) /\ Len(r) = l /\ r[2 * n] = b /\ \A j \in 1 .. l : j # 2 * n => r[j] = q[j]
      BY <1>2, <1>3, <2>1, <2>2, Poked
    <2>4. 2 * n - 1 # 2 * n
      BY <1>3
    <2> QED
      BY <1>3, <2>1, <2>3, <2>4
  <1>6. \A i \in 1 .. l : i # 2 * n - 1 /\ i # 2 * n => r[i] = s[i]
    BY <1>1, <1>3 DEF Store, Bytes
  <1>7. WordAt(r, n) = w
    <2>1. WordAt(r, n) = r[2 * n - 1] + Byte * r[2 * n]
      BY <1>3, <1>5 DEF WordAt
    <2> QED
      BY <1>2, <1>5, <2>1
  <1>8. ASSUME NEW m \in 1 .. Words(s), m # n PROVE WordAt(r, m) = WordAt(s, m)
    <2>1. /\ 2 * m - 1 \in 1 .. l /\ 2 * m - 1 # 2 * n - 1 /\ 2 * m - 1 # 2 * n
          /\ 2 * m <= l => 2 * m \in 1 .. l /\ 2 * m # 2 * n - 1 /\ 2 * m # 2 * n
      BY <1>1, <1>3, <1>8 DEF Words
    <2>2. r[2 * m - 1] = s[2 * m - 1] /\ (2 * m <= l => r[2 * m] = s[2 * m])
      BY <1>6, <2>1
    <2> QED
      BY <1>1, <1>5, <2>2 DEF WordAt
  <1> QED
    BY <1>1, <1>3, <1>5, <1>7, <1>8

\* The field filled in: any field whose word makes the sum a multiple of Top.
LEMMA FilledIn ==
  ASSUME NEW s \in Seq(Octets), Len(s) < Word, NEW n \in 1 .. Len(s) \div 2, NEW w \in 0 .. Top,
         NEW f, NEW g
  PROVE  /\ Words(Store(s, n, w)) = Words(s) /\ Words(Store(s, n, 0)) = Words(s)
         /\ Sums(f, Store(s, n, 0), Words(s)) /\ Sums(g, Store(s, n, w), Words(s)) =>
              f[Words(s)] \in 0 .. Acc - 1 /\ g[Words(s)] = f[Words(s)] + w
  <1>1. PICK p, r : p = Store(s, n, 0) /\ r = Store(s, n, w)
    OBVIOUS
  <1>2. 0 \in 0 .. Top /\ w \in Nat
    BY Sizes
  <1>3. /\ p \in Seq(Octets) /\ Len(p) = Len(s)
        /\ n \in 1 .. Words(s) /\ WordAt(p, n) = 0
        /\ \A m \in 1 .. Words(s) : m # n => WordAt(p, m) = WordAt(s, m)
    BY <1>1, <1>2, Stored
  <1>4. /\ r \in Seq(Octets) /\ Len(r) = Len(s)
        /\ WordAt(r, n) = w
        /\ \A m \in 1 .. Words(s) : m # n => WordAt(r, m) = WordAt(s, m)
    BY <1>1, Stored
  <1>5. Words(p) = Words(s) /\ Words(r) = Words(s) /\ Words(s) <= Word /\ Words(s) \in Nat
    BY <1>3, <1>4, Sizes DEF Words
  <1>6. Differ(p, r, n)
    BY <1>3, <1>4, <1>5 DEF Differ
  <1>7. ASSUME Sums(f, p, Words(s)), Sums(g, r, Words(s))
        PROVE  f[Words(s)] \in 0 .. Acc - 1 /\ g[Words(s)] = f[Words(s)] + w
    <2>1. f[Words(s)] \in Nat /\ g[Words(s)] \in Nat /\ g[Words(s)] + 0 = f[Words(s)] + w
      BY <1>3, <1>4, <1>5, <1>6, <1>7, OneWord
    <2>2. \A m \in 0 .. Words(s) : f[m] \in 0 .. Acc - 1
      BY <1>3, <1>5, <1>7, SumsBounded
    <2> QED
      BY <1>2, <1>5, <2>1, <2>2
  <1> QED
    BY <1>1, <1>5, <1>7

\* ip_push_pending_frames makes the sum a multiple of Top other than 0.
LEMMA ProtectSums ==
  ASSUME NEW s \in Seq(Octets), Len(s) < Word, NEW n \in 1 .. Len(s) \div 2
  PROVE  /\ Protect(s, n) \in Seq(Octets) /\ Len(Protect(s, n)) = Len(s)
         /\ \E g : /\ Sums(g, Protect(s, n), Words(s))
                   /\ g[Words(s)] \in Nat /\ g[Words(s)] # 0 /\ Cong(g[Words(s)], 0)
  <1>1. PICK p : p = Store(s, n, 0)
    OBVIOUS
  <1>2. p \in Seq(Octets) /\ Len(p) = Len(s)
    BY <1>1, Stored, Sizes
  <1>3. PICK N : N = Words(s)
    OBVIOUS
  <1>4. N \in Nat /\ N <= Word /\ Words(p) = N
    BY <1>2, <1>3, Sizes DEF Words
  <1>5. PICK f : Sums(f, p, N)
    BY <1>4, SumsExist
  <1>6. PICK c : c = f[N]
    OBVIOUS
  <1>7. c \in 0 .. Acc - 1
    <2>1. \A m \in 0 .. N : f[m] \in 0 .. Acc - 1
      BY <1>2, <1>4, <1>5, SumsBounded
    <2> QED
      BY <1>4, <1>6, <2>1
  <1>8. checksum(p) = Finish(c)
    BY <1>2, <1>4, <1>5, <1>6, TotalIs, Zenon DEF checksum
  <1>9. PICK w : w = Finish(c)
    OBVIOUS
  <1>10. w \in 0 .. Top /\ Folds(Top - w, c)
    BY <1>7, <1>9, FinishFolds
  <1>11. PICK r : r = Protect(s, n)
    OBVIOUS
  <1>12. r = Store(s, n, w)
    BY <1>1, <1>8, <1>9, <1>11, Zenon DEF Protect
  <1>13. r \in Seq(Octets) /\ Len(r) = Len(s)
    BY <1>10, <1>12, Stored
  <1>14. PICK g : Sums(g, r, N)
    BY <1>4, SumsExist
  <1>15. g[N] = c + w
    BY <1>1, <1>3, <1>5, <1>6, <1>10, <1>12, <1>14, FilledIn
  <1>16. c + w \in Nat /\ c + w # 0 /\ Cong(c + w, 0)
    <2>1. PICK x : x = Top - w
      OBVIOUS
    <2>2. x \in 0 .. Top /\ w = Top - x /\ (x = 0 <=> c = 0) /\ c \in Nat
      BY <1>7, <1>10, <2>1, Sizes DEF Folds
    <2>3. PICK k \in Int : x = c + k * Top
      BY <1>10, <2>1 DEF Folds, Cong
    <2>4. c + w = 0 + (1 - k) * Top /\ 1 - k \in Int
      BY <2>2, <2>3, Sizes
    <2>5. Cong(c + w, 0)
      BY <2>4 DEF Cong
    <2> QED
      BY <1>10, <2>2, <2>5, Sizes
  <1> QED
    BY <1>3, <1>11, <1>13, <1>14, <1>15, <1>16

\* What ip_rcv finds in a buffer: 0 just for a multiple of Top other than 0.
LEMMA Verifies ==
  ASSUME NEW s \in Seq(Octets), Len(s) < Word, NEW g, Sums(g, s, Words(s))
  PROVE  checksum(s) = 0 <=> g[Words(s)] # 0 /\ Cong(g[Words(s)], 0)
  <1>1. PICK N : N = Words(s)
    OBVIOUS
  <1>2. N \in Nat /\ N <= Word
    BY <1>1, Sizes DEF Words
  <1>3. PICK c : c = g[N]
    OBVIOUS
  <1>4. c \in 0 .. Acc - 1
    <2>1. \A m \in 0 .. N : g[m] \in 0 .. Acc - 1
      BY <1>1, <1>2, SumsBounded
    <2> QED
      BY <1>2, <1>3, <2>1
  <1>5. checksum(s) = Finish(c)
    BY <1>1, <1>2, <1>3, TotalIs, Zenon DEF checksum
  <1>6. PICK x : x = Top - Finish(c)
    OBVIOUS
  <1>7. Folds(x, c) /\ Finish(c) \in 0 .. Top /\ c \in Int
    BY <1>4, <1>6, FinishFolds
  <1>8. Finish(c) = 0 <=> x = Top
    BY <1>6, <1>7, Sizes
  <1>9. c # 0 /\ Cong(c, 0) => x = Top
    BY <1>7, FoldsTop
  <1>10. ASSUME x = Top PROVE c # 0 /\ Cong(c, 0)
    <2>1. c # 0 /\ Cong(x, c)
      BY <1>7, <1>10, Sizes DEF Folds
    <2>2. PICK k \in Int : x = c + k * Top
      BY <2>1 DEF Cong
    <2>3. c = 0 + (1 - k) * Top /\ 1 - k \in Int
      BY <1>7, <1>10, <2>2, Sizes
    <2> QED
      BY <2>1, <2>3 DEF Cong
  <1> QED
    BY <1>1, <1>3, <1>5, <1>8, <1>9, <1>10, Zenon

\* A header that ip_push_pending_frames has filled in passes the test of ip_rcv,
\* and after any one byte of it has changed it does not: for buffers of every
\* length and a field anywhere in them.
THEOREM OneByteDetected ==
  ASSUME NEW s \in Seq(Octets), Len(s) < Word, NEW n \in 1 .. Len(s) \div 2
  PROVE  /\ checksum(Protect(s, n)) = 0
         /\ \A i \in DOMAIN Protect(s, n) : \A b \in Octets \ {Protect(s, n)[i]} :
              checksum([Protect(s, n) EXCEPT ![i] = b]) # 0
  <1>1. PICK r, N : r = Protect(s, n) /\ N = Words(s)
    OBVIOUS
  <1>2. r \in Seq(Octets) /\ Len(r) = Len(s)
    BY <1>1, ProtectSums
  <1>3. PICK g : Sums(g, r, N) /\ g[N] \in Nat /\ g[N] # 0 /\ Cong(g[N], 0)
    BY <1>1, ProtectSums
  <1>4. N \in Nat /\ N <= Word /\ Words(r) = N /\ Len(r) < Word
    BY <1>1, <1>2, Sizes DEF Words
  <1>5. checksum(r) = 0
    BY <1>2, <1>3, <1>4, Verifies
  <1>6. ASSUME NEW i \in DOMAIN r, NEW b \in Octets \ {r[i]} PROVE checksum([r EXCEPT ![i] = b]) # 0
    <2>1. PICK q, l, a : q = [r EXCEPT ![i] = b] /\ l = Len(r) /\ a = r[i]
      OBVIOUS
    <2>2. l \in Nat /\ i \in 1 .. l /\ b \in Octets /\ a \in Octets /\ a # b
      BY <1>2, <2>1
    <2>3. q \in Seq(Octets) /\ Len(q) = l /\ q[i] = b /\ \A j \in 1 .. l : j # i => q[j] = r[j]
      BY <1>2, <2>1, <2>2, Poked
    <2>4. PICK m : m = (i + 1) \div 2
      OBVIOUS
    <2>5. m \in 1 .. N /\ (i = 2 * m - 1 \/ i = 2 * m) /\ N = (l + 1) \div 2
      <3>1. N = (l + 1) \div 2
        BY <1>4, <2>1 DEF Words
      <3>2. i \in Nat /\ m \in Nat /\ (i = 2 * m - 1 \/ i = 2 * m)
        BY <2>2, <2>4
      <3> QED
        BY <2>2, <3>1, <3>2
    <2>6. Words(q) = N /\ Len(q) < Word
      BY <1>4, <2>1, <2>3 DEF Words
    <2>7. ASSUME NEW k \in 1 .. N, k # m PROVE WordAt(q, k) = WordAt(r, k)
      <3>1. 2 * k - 1 \in 1 .. l /\ 2 * k - 1 # i /\ (2 * k <= l => 2 * k \in 1 .. l /\ 2 * k # i)
        BY <2>2, <2>5, <2>7
      <3>2. q[2 * k - 1] = r[2 * k - 1] /\ (2 * k <= l => q[2 * k] = r[2 * k])
        BY <2>3, <3>1
      <3> QED
        BY <2>1, <2>3, <3>2 DEF WordAt
    <2>8. Differ(r, q, m)
      BY <1>2, <1>4, <2>1, <2>3, <2>5, <2>7 DEF Differ
    <2>9. PICK h : Sums(h, q, N)
      BY <1>4, SumsExist
    <2>10. PICK x, y : x = WordAt(r, m) /\ y = WordAt(q, m)
      OBVIOUS
    <2>11. g[N] \in Nat /\ h[N] \in Nat /\ h[N] + x = g[N] + y
      BY <1>3, <1>4, <2>6, <2>8, <2>9, <2>10, OneWord
    <2>12. y - x = b - a \/ y - x = Byte * (b - a)
      <3>1. CASE i = 2 * m - 1
        <4>1. 2 * m <= l => q[2 * m] = r[2 * m] /\ r[2 * m] \in Octets
          BY <1>2, <2>1, <2>2, <2>3, <2>5, <3>1
        <4>2. CASE 2 * m <= l
          <5>1. PICK e : e = r[2 * m]
            OBVIOUS
          <5>2. x = a + Byte * e /\ y = b + Byte * e
            BY <2>1, <2>3, <2>10, <3>1, <4>1, <4>2, <5>1 DEF WordAt
          <5>3. e \in Octets
            BY <4>1, <4>2, <5>1
          <5>4. Byte * e \in Int /\ a \in Int /\ b \in Int
            BY <2>2, <5>3, Sizes DEF Octets
          <5> QED
            BY <5>2, <5>4
        <4>3. CASE ~ (2 * m <= l)
          <5>1. x = a + 0 /\ y = b + 0
            BY <2>1, <2>3, <2>10, <3>1, <4>3 DEF WordAt
          <5> QED
            BY <2>2, <5>1, Sizes DEF Octets
        <4> QED
          BY <4>2, <4>3
      <3>2. CASE i = 2 * m
        <4>1. q[2 * m - 1] = r[2 * m - 1] /\ r[2 * m - 1] \in Octets /\ 2 * m <= l
          BY <1>2, <2>1, <2>2, <2>3, <2>5, <3>2
        <4>2. x = r[2 * m - 1] + Byte * a /\ y = r[2 * m - 1] + Byte * b
          BY <2>1, <2>3, <2>10, <3>2, <4>1 DEF WordAt
        <4>3. /\ r[2 * m - 1] \in Int /\ Byte * a \in Int /\ Byte * b \in Int
              /\ Byte * (b - a) = Byte * b - Byte * a
          BY <2>2, <4>1, Sizes DEF Octets
        <4> QED
          BY <4>2, <4>3
      <3> QED
        BY <2>5, <3>1, <3>2
    <2>13. x \in Int /\ y \in Int
      BY <1>2, <1>4, <2>3, <2>5, <2>6, <2>10, WordTyped
    <2>14. y - x # 0 /\ 0 - Top < y - x /\ y - x < Top
      <3>1. PICK d : d = b - a
        OBVIOUS
      <3>2. d \in Int /\ d # 0 /\ 0 - Byte < d /\ d < Byte
        BY <2>2, <3>1, Sizes DEF Octets
      <3>3. Byte * d # 0 /\ Byte * d <= Byte * (Byte - 1) /\ Byte * d >= 0 - Byte * (Byte - 1)
        BY <3>2, Sizes
      <3>4. Byte * (Byte - 1) = Word - Byte
        BY Sizes
      <3> QED
        BY <2>12, <3>1, <3>2, <3>3, <3>4, Sizes
    <2>15. ~ Cong(h[N], 0)
      <3>1. SUFFICES ASSUME Cong(h[N], 0) PROVE FALSE
        OBVIOUS
      <3>2. PICK u, v : u = h[N] /\ v = g[N]
        OBVIOUS
      <3>3. u - v = y - x /\ y - x \in Int /\ u \in Int /\ v \in Int
        <4>1. u \in Nat /\ v \in Nat /\ u + x = v + y
          BY <2>11, <3>2, Zenon
        <4> QED
          BY <2>13, <4>1
      <3>4. Cong(y - x, 0)
        <4>1. Cong(u, 0) /\ Cong(v, 0)
          BY <1>3, <3>1, <3>2, Zenon
        <4>2. Cong(u - v, 0)
          BY <3>3, <4>1, CongDiff, Zenon
        <4> QED
          BY <3>3, <4>2, Zenon
      <3> QED
        BY <2>14, <3>3, <3>4, CongSmall
    <2>16. checksum(q) # 0
      BY <2>3, <2>6, <2>9, <2>15, Verifies
    <2> QED
      BY <2>1, <2>16
  <1> QED
    BY <1>1, <1>5, <1>6, Zenon

-----------------------------------------------------------------------------
(* The pseudo header *)

\* p followed by r.
Joined(p, r) == p \o r

\* A pseudo header in front of a datagram: six words more.
LEMMA Prefixed ==
  ASSUME NEW p \in Seq(Octets), Len(p) = 12, NEW r \in Seq(Octets), NEW t, t = Joined(p, r)
  PROVE  /\ t \in Seq(Octets) /\ Words(t) = 6 + Words(r)
         /\ \A m \in 1 .. 6 : WordAt(t, m) = WordAt(p, m)
         /\ \A m \in 1 .. Words(r) : WordAt(t, 6 + m) = WordAt(r, m)
  <1>1. PICK l : l = Len(r)
    OBVIOUS
  <1>2. /\ t \in Seq(Octets) /\ l \in Nat /\ Len(t) = 12 + l
        /\ \A i \in 1 .. 12 : t[i] = p[i]
        /\ \A i \in 1 .. l : t[12 + i] = r[i]
    <2>0. /\ t \in Seq(Octets) /\ Len(t) = Len(p) + Len(r)
          /\ \A i \in 1 .. Len(p) + Len(r) : t[i] = IF i <= Len(p) THEN p[i] ELSE r[i - Len(p)]
      BY ConcatProperties, Zenon DEF Joined
    <2>1. t \in Seq(Octets) /\ l \in Nat /\ Len(t) = 12 + l
      BY <1>1, <2>0
    <2>2. ASSUME NEW i \in 1 .. 12 PROVE t[i] = p[i]
      BY <1>1, <2>0, <2>1
    <2>3. ASSUME NEW i \in 1 .. l PROVE t[12 + i] = r[i]
      <3>1. 12 + i \in 1 .. 12 + l /\ ~ (12 + i <= 12) /\ (12 + i) - 12 = i
        BY <2>1
      <3> QED
        BY <1>1, <2>0, <3>1
    <2> QED
      BY <2>1, <2>2, <2>3
  <1>3. Words(t) = 6 + Words(r) /\ Words(r) = (l + 1) \div 2
    BY <1>1, <1>2 DEF Words
  <1>4. ASSUME NEW m \in 1 .. 6 PROVE WordAt(t, m) = WordAt(p, m)
    <2>1. 2 * m - 1 \in 1 .. 12 /\ 2 * m \in 1 .. 12 /\ 2 * m <= Len(t) /\ 2 * m <= Len(p)
      BY <1>2
    <2>2. t[2 * m - 1] = p[2 * m - 1] /\ t[2 * m] = p[2 * m]
      BY <1>2, <2>1
    <2> QED
      BY <2>1, <2>2 DEF WordAt
  <1>5. ASSUME NEW m \in 1 .. Words(r) PROVE WordAt(t, 6 + m) = WordAt(r, m)
    <2>1. /\ 2 * m - 1 \in 1 .. l /\ 2 * (6 + m) - 1 = 12 + (2 * m - 1)
          /\ 2 * (6 + m) = 12 + 2 * m /\ (2 * (6 + m) <= Len(t) <=> 2 * m <= l)
          /\ 2 * m <= l => 2 * m \in 1 .. l
      BY <1>2, <1>3
    <2>2. t[2 * (6 + m) - 1] = r[2 * m - 1] /\ (2 * m <= l => t[2 * (6 + m)] = r[2 * m])
      BY <1>2, <2>1
    <2> QED
      BY <1>1, <2>1, <2>2 DEF WordAt
  <1> QED
    BY <1>2, <1>3, <1>4, <1>5

\* The sum is the one of the pseudo header and the one of the datagram.
LEMMA PrefixedSum ==
  ASSUME NEW p \in Seq(Octets), Len(p) = 12, NEW r \in Seq(Octets), NEW t, t = Joined(p, r),
         Words(t) <= Word, NEW h, Sums(h, t, Words(t)), NEW g, Sums(g, r, Words(r))
  PROVE  h[Words(t)] = WordAt(p, 1) + WordAt(p, 2) + WordAt(p, 3) + WordAt(p, 4) + WordAt(p, 5)
                         + WordAt(p, 6) + g[Words(r)]
  <1>1. PICK N : N = Words(r)
    OBVIOUS
  <1>2. /\ t \in Seq(Octets) /\ Words(t) = 6 + N /\ N \in Nat
        /\ \A m \in 1 .. 6 : WordAt(t, m) = WordAt(p, m)
        /\ \A m \in 1 .. N : WordAt(t, 6 + m) = WordAt(r, m)
    <2>1. N \in Nat
      BY <1>1 DEF Words
    <2> QED
      BY <1>1, <2>1, Prefixed
  <1>3. \A m \in 0 .. 6 + N : h[m] \in Nat
    <2>1. 6 + N \in Nat /\ 6 + N <= Words(t) /\ 6 + N <= Word /\ Sums(h, t, 6 + N)
      BY <1>2
    <2>2. \A m \in 0 .. 6 + N : h[m] \in 0 .. Acc - 1
      BY <1>2, <2>1, SumsBounded
    <2> QED
      BY <2>2
  <1>4. \A m \in 0 .. N : g[m] \in Nat
    <2>1. N <= Words(r) /\ N <= Word
      BY <1>1, <1>2, Sizes
    <2>2. \A m \in 0 .. N : g[m] \in 0 .. Acc - 1
      BY <1>1, <1>2, <2>1, SumsBounded
    <2> QED
      BY <2>2
  <1>5. \A m \in 1 .. 6 : WordAt(p, m) \in Nat
    <2>1. Words(p) = 6
      BY DEF Words
    <2> QED
      BY <2>1, WordTyped, Sizes
  <1>6. PICK x : x = WordAt(p, 1) + WordAt(p, 2) + WordAt(p, 3) + WordAt(p, 4) + WordAt(p, 5) + WordAt(p, 6)
    OBVIOUS
  <1>7. x \in Nat /\ h[6] = x
    <2>1. ASSUME NEW m \in 1 .. 6 PROVE h[m] = h[m - 1] + WordAt(p, m)
      <3>1. m \in 1 .. Words(t)
        BY <1>2
      <3>2. h[m] = h[m - 1] + WordAt(t, m)
        BY <3>1 DEF Sums
      <3> QED
        BY <1>2, <3>2
    <2>2. h[0] = 0
      BY DEF Sums
    <2>3. /\ h[1] = h[0] + WordAt(p, 1) /\ h[2] = h[1] + WordAt(p, 2) /\ h[3] = h[2] + WordAt(p, 3)
          /\ h[4] = h[3] + WordAt(p, 4) /\ h[5] = h[4] + WordAt(p, 5) /\ h[6] = h[5] + WordAt(p, 6)
      BY <2>1
    <2>4. /\ WordAt(p, 1) \in Nat /\ WordAt(p, 2) \in Nat /\ WordAt(p, 3) \in Nat
          /\ WordAt(p, 4) \in Nat /\ WordAt(p, 5) \in Nat /\ WordAt(p, 6) \in Nat
      BY <1>5
    <2>5. h[1] = WordAt(p, 1) /\ h[2] = WordAt(p, 1) + WordAt(p, 2)
      BY <2>2, <2>3, <2>4
    <2>6. h[4] = WordAt(p, 1) + WordAt(p, 2) + WordAt(p, 3) + WordAt(p, 4)
      BY <2>3, <2>5, Zenon
    <2>7. h[6] = x
      BY <1>6, <2>3, <2>6, Zenon
    <2>8. x \in Nat
      BY <1>2, <1>3, <2>7
    <2> QED
      BY <2>7, <2>8
  <1> DEFINE S == {m \in Nat : h[6 + m] = x + g[m]}
  <1>8. 0 \in S
    BY <1>7 DEF Sums
  <1>9. ASSUME NEW m \in 1 .. N, m - 1 \in S PROVE m \in S
    <2>1. /\ m \in Nat /\ 6 + m \in 1 .. 6 + N /\ (6 + m) - 1 = 6 + (m - 1)
          /\ m \in 0 .. N /\ m - 1 \in 0 .. N /\ 6 + m \in 0 .. 6 + N /\ 6 + (m - 1) \in 0 .. 6 + N
      BY <1>2
    <2>2. h[6 + m] = h[6 + (m - 1)] + WordAt(t, 6 + m)
      <3>1. h[6 + m] = h[(6 + m) - 1] + WordAt(t, 6 + m)
        BY <1>2, <2>1 DEF Sums
      <3> QED
        BY <2>1, <3>1
    <2>3. g[m] = g[m - 1] + WordAt(r, m) /\ WordAt(t, 6 + m) = WordAt(r, m)
      BY <1>1, <1>2 DEF Sums
    <2>4. h[6 + (m - 1)] = x + g[m - 1] /\ g[m - 1] \in Nat
      BY <1>4, <1>9, <2>1
    <2>5. WordAt(r, m) \in Nat
      BY <1>1, WordTyped, Sizes
    <2> QED
      BY <1>7, <2>1, <2>2, <2>3, <2>4, <2>5
  <1>10. \A m \in 0 .. N : m \in S
    <2> HIDE DEF S
    <2> QED
      BY <1>2, <1>8, <1>9, Segment
  <1>11. N \in S
    BY <1>2, <1>10
  <1> QED
    BY <1>1, <1>2, <1>6, <1>11

\* The pseudo header as a receiver puts it together.
Pseudo(saddr, daddr, proto, len) ==
  Bytes4(saddr) \o Bytes4(daddr) \o <<0, proto>> \o Bytes(htons(len))

\* The two words of an address.
LEMMA AddressWords ==
  ASSUME NEW a \in 0 .. Acc - 1
  PROVE  a % Word \in 0 .. Top /\ a \div Word \in 0 .. Top
  <1>1. a \in Nat /\ a < Word * Word /\ Word \in Nat /\ Word > 0
    BY Sizes
  <1>2. a = Word * (a \div Word) + (a % Word) /\ a % Word \in 0 .. Word - 1 /\ a \div Word \in Nat
    BY <1>1
  <1>3. a \div Word < Word
    BY <1>1, <1>2
  <1> QED
    BY <1>2, <1>3, Sizes

\* A buffer of k whole words.
Even(p, k) == p \in Seq(Octets) /\ k \in Nat /\ Len(p) = 2 * k

\* The words of p, then those of r.
Follow(t, p, k, r, l) ==
  /\ Even(t, k + l)
  /\ \A m \in 1 .. k : WordAt(t, m) = WordAt(p, m)
  /\ \A m \in 1 .. l : WordAt(t, k + m) = WordAt(r, m)

\* Two buffers of even length put together.
LEMMA JoinedWords ==
  ASSUME NEW p, NEW k, Even(p, k), NEW r, NEW l, Even(r, l), NEW t, t = Joined(p, r)
  PROVE  Follow(t, p, k, r, l)
  <1>1. /\ p \in Seq(Octets) /\ k \in Nat /\ Len(p) = 2 * k
        /\ r \in Seq(Octets) /\ l \in Nat /\ Len(r) = 2 * l
    BY DEF Even
  <1>2. /\ t \in Seq(Octets) /\ Len(t) = Len(p) + Len(r)
        /\ \A i \in 1 .. Len(p) + Len(r) : t[i] = IF i <= Len(p) THEN p[i] ELSE r[i - Len(p)]
    BY <1>1, ConcatProperties, Zenon DEF Joined
  <1>3. Len(t) = 2 * (k + l)
    BY <1>1, <1>2
  <1>4. ASSUME NEW m \in 1 .. k PROVE WordAt(t, m) = WordAt(p, m)
    <2>1. 2 * m - 1 \in 1 .. 2 * k /\ 2 * m \in 1 .. 2 * k /\ 2 * m <= Len(t) /\ 2 * m <= Len(p)
      BY <1>1, <1>3
    <2>2. t[2 * m - 1] = p[2 * m - 1] /\ t[2 * m] = p[2 * m]
      BY <1>1, <1>2, <2>1
    <2> QED
      BY <2>1, <2>2 DEF WordAt
  <1>5. ASSUME NEW m \in 1 .. l PROVE WordAt(t, k + m) = WordAt(r, m)
    <2>1. /\ 2 * (k + m) - 1 \in 1 .. 2 * k + 2 * l /\ ~ (2 * (k + m) - 1 <= 2 * k)
          /\ 2 * (k + m) \in 1 .. 2 * k + 2 * l /\ ~ (2 * (k + m) <= 2 * k)
          /\ (2 * (k + m) - 1) - 2 * k = 2 * m - 1 /\ 2 * (k + m) - 2 * k = 2 * m
          /\ 2 * (k + m) <= Len(t) /\ 2 * m <= Len(r)
      BY <1>1, <1>3
    <2>2. t[2 * (k + m) - 1] = r[2 * m - 1] /\ t[2 * (k + m)] = r[2 * m]
      BY <1>1, <1>2, <2>1
    <2> QED
      BY <2>1, <2>2 DEF WordAt
  <1> QED
    BY <1>1, <1>2, <1>3, <1>4, <1>5 DEF Even, Follow

\* Two bytes in memory.
LEMMA PairStored ==
  ASSUME NEW a \in Octets, NEW b \in Octets
  PROVE  Even(<<a, b>>, 1) /\ WordAt(<<a, b>>, 1) = a + Byte * b
  <1>1. <<a, b>> \in Seq(Octets) /\ Len(<<a, b>>) = 2
    OBVIOUS
  <1> QED
    BY <1>1 DEF WordAt, Even

\* A word in memory.
LEMMA BytesStored ==
  ASSUME NEW w \in 0 .. Top
  PROVE  Even(Bytes(w), 1) /\ WordAt(Bytes(w), 1) = w
  <1>1. PICK a, b : a = w % Byte /\ b = w \div Byte
    OBVIOUS
  <1>2. a \in Octets /\ b \in Octets /\ w = a + Byte * b
    BY <1>1, WordBytes DEF Octets
  <1>3. Bytes(w) = <<a, b>>
    BY <1>1, Zenon DEF Bytes
  <1>4. Even(<<a, b>>, 1) /\ WordAt(<<a, b>>, 1) = a + Byte * b
    BY <1>2, PairStored
  <1> QED
    BY <1>2, <1>3, <1>4, Zenon

\* An address in memory: the low word first.
LEMMA AddressStored ==
  ASSUME NEW a \in 0 .. Acc - 1
  PROVE  /\ Even(Bytes4(a), 2)
         /\ WordAt(Bytes4(a), 1) = a % Word /\ WordAt(Bytes4(a), 2) = a \div Word
  <1>1. PICK v, w : v = a % Word /\ w = a \div Word
    OBVIOUS
  <1>2. v \in 0 .. Top /\ w \in 0 .. Top
    BY <1>1, AddressWords
  <1>3. PICK p, r : p = Bytes(v) /\ r = Bytes(w)
    OBVIOUS
  <1>4. Even(p, 1) /\ WordAt(p, 1) = v
    BY <1>2, <1>3, BytesStored
  <1>5. Even(r, 1) /\ WordAt(r, 1) = w
    BY <1>2, <1>3, BytesStored
  <1>6. PICK t : t = Joined(p, r)
    OBVIOUS
  <1>7. Follow(t, p, 1, r, 1)
    BY <1>4, <1>5, <1>6, JoinedWords, Zenon
  <1>8. WordAt(t, 1) = v /\ WordAt(t, 2) = w /\ Even(t, 2)
    <2>1. 1 \in 1 .. 1 /\ 1 + 1 = 2
      OBVIOUS
    <2> QED
      BY <1>4, <1>5, <1>7, <2>1, Zenon DEF Follow
  <1>9. Bytes4(a) = t
    BY <1>1, <1>3, <1>6, Zenon DEF Bytes4, Joined
  <1> QED
    BY <1>1, <1>8, <1>9, Zenon

\* The six words of the pseudo header.
LEMMA PseudoWords ==
  ASSUME NEW saddr \in 0 .. Acc - 1, NEW daddr \in 0 .. Acc - 1, NEW proto \in Octets,
         NEW len \in 0 .. Top, NEW t, t = Pseudo(saddr, daddr, proto, len)
  PROVE  /\ t \in Seq(Octets) /\ Len(t) = 12
         /\ WordAt(t, 1) = saddr % Word /\ WordAt(t, 2) = saddr \div Word
         /\ WordAt(t, 3) = daddr % Word /\ WordAt(t, 4) = daddr \div Word
         /\ WordAt(t, 5) = htons(proto) /\ WordAt(t, 6) = htons(len)
  <1>1. PICK p, q : p = Bytes4(saddr) /\ q = Bytes4(daddr)
    OBVIOUS
  <1>2. /\ Even(p, 2)
        /\ WordAt(p, 1) = saddr % Word /\ WordAt(p, 2) = saddr \div Word
    BY <1>1, AddressStored
  <1>3. /\ Even(q, 2)
        /\ WordAt(q, 1) = daddr % Word /\ WordAt(q, 2) = daddr \div Word
    BY <1>1, AddressStored
  <1>4. PICK r : r = <<0, proto>>
    OBVIOUS
  <1>5. Even(r, 1) /\ WordAt(r, 1) = htons(proto)
    <2>1. 0 \in Octets /\ proto \in Nat /\ proto < Byte /\ Byte \in Nat /\ Byte > 0
      BY Sizes DEF Octets
    <2>2. Even(r, 1) /\ WordAt(r, 1) = 0 + Byte * proto
      BY <1>4, <2>1, PairStored
    <2>3. proto % Byte = proto /\ proto \div Byte = 0
      BY <2>1
    <2>4. htons(proto) = proto * Byte + 0
      BY <2>3, Zenon DEF htons
    <2>5. proto * Byte + 0 = 0 + Byte * proto
      BY <2>1
    <2> QED
      BY <2>2, <2>4, <2>5
  <1>6. PICK z : z = Bytes(htons(len))
    OBVIOUS
  <1>7. Even(z, 1) /\ WordAt(z, 1) = htons(len)
    <2>1. PICK w : w = htons(len)
      OBVIOUS
    <2>2. w \in 0 .. Top
      BY <2>1, Swapped
    <2> QED
      BY <1>6, <2>1, <2>2, BytesStored
  <1>8. PICK a : a = Joined(p, q)
    OBVIOUS
  <1>9. Follow(a, p, 2, q, 2)
    BY <1>2, <1>3, <1>8, JoinedWords, Zenon
  <1>10. PICK b : b = Joined(a, r)
    OBVIOUS
  <1>11. Follow(b, a, 4, r, 1)
    <2>1. Even(a, 4)
      BY <1>9 DEF Follow
    <2> QED
      BY <1>5, <1>10, <2>1, JoinedWords, Zenon
  <1>12. PICK c : c = Joined(b, z)
    OBVIOUS
  <1>13. Follow(c, b, 5, z, 1)
    <2>1. Even(b, 5)
      BY <1>11 DEF Follow
    <2> QED
      BY <1>7, <1>12, <2>1, JoinedWords, Zenon
  <1>14. t = c
    BY <1>1, <1>4, <1>6, <1>8, <1>10, <1>12, Zenon DEF Pseudo, Joined
  <1>15. /\ WordAt(c, 1) = WordAt(p, 1) /\ WordAt(c, 2) = WordAt(p, 2)
         /\ WordAt(c, 3) = WordAt(q, 1) /\ WordAt(c, 4) = WordAt(q, 2)
         /\ WordAt(c, 5) = WordAt(r, 1) /\ WordAt(c, 6) = WordAt(z, 1) /\ c \in Seq(Octets) /\ Len(c) = 12
    <2>1. WordAt(a, 3) = WordAt(q, 1) /\ WordAt(a, 4) = WordAt(q, 2)
      <3>1. WordAt(a, 2 + 1) = WordAt(q, 1) /\ WordAt(a, 2 + 2) = WordAt(q, 2)
        BY <1>9 DEF Follow
      <3> QED
        BY <3>1
    <2>2. WordAt(b, 5) = WordAt(r, 1)
      <3>1. WordAt(b, 4 + 1) = WordAt(r, 1)
        BY <1>11 DEF Follow
      <3> QED
        BY <3>1
    <2>3. WordAt(c, 6) = WordAt(z, 1)
      <3>1. WordAt(c, 5 + 1) = WordAt(z, 1)
        BY <1>13 DEF Follow
      <3> QED
        BY <3>1
    <2>4. /\ WordAt(a, 1) = WordAt(p, 1) /\ WordAt(a, 2) = WordAt(p, 2)
      BY <1>9 DEF Follow
    <2>5. /\ WordAt(b, 1) = WordAt(a, 1) /\ WordAt(b, 2) = WordAt(a, 2)
          /\ WordAt(b, 3) = WordAt(a, 3) /\ WordAt(b, 4) = WordAt(a, 4)
      BY <1>11 DEF Follow
    <2>6. /\ WordAt(c, 1) = WordAt(b, 1) /\ WordAt(c, 2) = WordAt(b, 2) /\ WordAt(c, 3) = WordAt(b, 3)
          /\ WordAt(c, 4) = WordAt(b, 4) /\ WordAt(c, 5) = WordAt(b, 5)
      BY <1>13 DEF Follow
    <2>7. c \in Seq(Octets) /\ Len(c) = 12
      BY <1>13 DEF Follow, Even
    <2> QED
      BY <2>1, <2>2, <2>3, <2>4, <2>5, <2>6, <2>7, Zenon
  <1> QED
    BY <1>2, <1>3, <1>5, <1>7, <1>14, <1>15, Zenon

\* The arithmetic of udp_push_pending_frames: c is the sum of the datagram with an
\* empty field, w the word stored there, h what the receiver sums.
LEMMA TwoParts ==
  ASSUME NEW c \in Nat, NEW x, Folds(x, c), NEW P \in Nat, NEW w \in 0 .. Top, Folds(Top - w, x + P)
  PROVE  P + (c + w) # 0 /\ Cong(P + (c + w), 0)
  <1>1. x \in 0 .. Top /\ x \in Nat /\ w \in Nat /\ (x = 0 <=> c = 0) /\ (Top - w = 0 <=> x + P = 0)
    BY Sizes DEF Folds
  <1>2. PICK j \in Int : x = c + j * Top
    BY DEF Folds, Cong
  <1>3. PICK k \in Int : Top - w = x + P + k * Top
    BY DEF Folds, Cong
  <1>4. P + (c + w) = 0 + (1 - j - k) * Top /\ 1 - j - k \in Int
    BY <1>1, <1>2, <1>3, Sizes
  <1>5. Cong(P + (c + w), 0)
    BY <1>4 DEF Cong
  <1>6. P + (c + w) # 0
    BY <1>1, Sizes
  <1> QED
    BY <1>5, <1>6

\* The checksum udp_push_pending_frames computes in two parts, the datagram first
\* and the pseudo header added to its complement, is right for a receiver that sums
\* both at once in network order: for datagrams of every length, any addresses and
\* any protocol.
THEOREM UdpChecksumVerifies ==
  ASSUME NEW s \in Seq(Octets), Len(s) < Word, NEW n \in 1 .. Len(s) \div 2,
         NEW saddr \in 0 .. Acc - 1, NEW daddr \in 0 .. Acc - 1, NEW proto \in Octets
  PROVE  NetworkSum(Joined(Pseudo(saddr, daddr, proto, Len(s)), ProtectUdp(s, n, saddr, daddr, proto)))
           = Top
  <1>1. PICK N, len : N = Words(s) /\ len = Len(s)
    OBVIOUS
  <1>2. len \in 0 .. Top /\ N \in Nat /\ N <= Word /\ 6 + N <= Word /\ N = (len + 1) \div 2
    BY <1>1, Sizes DEF Words
  \* The pseudo header.
  <1>3. PICK p : p = Pseudo(saddr, daddr, proto, len)
    OBVIOUS
  <1>4. PICK a, b, c, d, e, f : /\ a = saddr % Word /\ b = saddr \div Word
                                /\ c = daddr % Word /\ d = daddr \div Word
                                /\ e = htons(proto) /\ f = htons(len)
    OBVIOUS
  <1>5. /\ p \in Seq(Octets) /\ Len(p) = 12
        /\ WordAt(p, 1) = a /\ WordAt(p, 2) = b /\ WordAt(p, 3) = c /\ WordAt(p, 4) = d
        /\ WordAt(p, 5) = e /\ WordAt(p, 6) = f
    BY <1>2, <1>3, <1>4, PseudoWords
  <1>6. /\ a \in 0 .. Top /\ b \in 0 .. Top /\ c \in 0 .. Top /\ d \in 0 .. Top
        /\ e \in 0 .. Top /\ f \in 0 .. Top
    <2>1. proto \in 0 .. Top
      BY Sizes DEF Octets
    <2> QED
      BY <1>2, <1>4, <2>1, AddressWords, Swapped
  <1>7. PICK P : P = a + b + c + d + e + f
    OBVIOUS
  <1>8. P \in Nat /\ P <= 6 * Top
    BY <1>6, <1>7, Sizes
  \* The datagram with an empty field.
  <1>9. PICK z : z = Store(s, n, 0)
    OBVIOUS
  <1>10. z \in Seq(Octets) /\ Words(z) = N
    <2>1. 0 \in 0 .. Top
      BY Sizes
    <2>2. z \in Seq(Octets) /\ Len(z) = Len(s)
      BY <1>9, <2>1, Stored
    <2> QED
      BY <1>1, <2>2 DEF Words
  <1>11. PICK g : Sums(g, z, N)
    BY <1>2, SumsExist
  <1>12. PICK q : q = g[N]
    OBVIOUS
  <1>13. q \in 0 .. Acc - 1 /\ q \in Nat
    <2>1. \A m \in 0 .. N : g[m] \in 0 .. Acc - 1
      BY <1>2, <1>10, <1>11, SumsBounded
    <2> QED
      BY <1>2, <1>12, <2>1
  <1>14. PICK y : y = checksum(z)
    OBVIOUS
  <1>15. y = Finish(q)
    BY <1>2, <1>10, <1>11, <1>12, <1>14, TotalIs, Zenon DEF checksum
  <1>16. PICK x : x = Top - y
    OBVIOUS
  <1>17. Folds(x, q) /\ y \in 0 .. Top /\ x \in 0 .. Top
    BY <1>13, <1>15, <1>16, FinishFolds DEF Folds
  \* What csum_tcpudp_magic makes of it.
  <1>18. PICK w : w = csum_tcpudp_magic(saddr, daddr, f, proto, y)
    OBVIOUS
  <1>19. w = Finish(x + P)
    <2>1. w = Finish((Word - 1 - y + a + b + c + d + f + e) % Acc)
      BY <1>4, <1>18, Zenon DEF csum_tcpudp_magic
    <2>2. Word - 1 - y + a + b + c + d + f + e = x + P
      BY <1>6, <1>7, <1>16, <1>17, Sizes
    <2>3. x + P \in 0 .. Acc - 1 /\ Acc \in Nat
      <3>1. Acc > 7 * Top
        BY Sizes
      <3> QED
        BY <1>8, <1>17, <3>1, Sizes
    <2>4. (x + P) % Acc = x + P
      BY <2>3, SmallMod
    <2> QED
      BY <2>1, <2>2, <2>4
  <1>20. w \in 0 .. Top /\ Folds(Top - w, x + P)
    <2>1. PICK v : v = x + P
      OBVIOUS
    <2>2. v \in 0 .. Acc - 1
      <3>1. Acc > 7 * Top
        BY Sizes
      <3> QED
        BY <1>8, <1>17, <2>1, <3>1, Sizes
    <2> QED
      BY <1>19, <2>1, <2>2, FinishFolds
  \* What the receiver sums.
  <1>21. PICK r : r = ProtectUdp(s, n, saddr, daddr, proto)
    OBVIOUS
  <1>22. r = Store(s, n, w)
    BY <1>1, <1>4, <1>9, <1>14, <1>18, <1>21, Zenon DEF ProtectUdp
  <1>23. r \in Seq(Octets) /\ Words(r) = N
    <2>1. r \in Seq(Octets) /\ Len(r) = Len(s)
      BY <1>20, <1>22, Stored
    <2> QED
      BY <1>1, <2>1 DEF Words
  <1>24. PICK k : Sums(k, r, N)
    BY <1>2, SumsExist
  <1>25. k[N] = q + w
    BY <1>1, <1>9, <1>11, <1>12, <1>20, <1>22, <1>24, FilledIn
  <1>26. PICK t, M : t = Joined(p, r) /\ M = Words(t)
    OBVIOUS
  <1>27. t \in Seq(Octets) /\ M = 6 + N
    BY <1>5, <1>23, <1>26, Prefixed
  <1>28. PICK h : Sums(h, t, M)
    <2>1. M \in Nat
      BY <1>2, <1>27
    <2> QED
      BY <2>1, SumsExist
  <1>29. h[M] = P + (q + w)
    <2>1. h[M] = WordAt(p, 1) + WordAt(p, 2) + WordAt(p, 3) + WordAt(p, 4) + WordAt(p, 5)
                   + WordAt(p, 6) + k[N]
      <3>1. Words(t) <= Word /\ Sums(h, t, Words(t)) /\ Sums(k, r, Words(r))
        BY <1>2, <1>23, <1>24, <1>26, <1>27, <1>28
      <3> QED
        BY <1>5, <1>23, <1>26, <3>1, PrefixedSum
    <2> QED
      BY <1>5, <1>7, <1>25, <2>1, Zenon
  <1>30. P + (q + w) # 0 /\ Cong(P + (q + w), 0)
    BY <1>8, <1>13, <1>17, <1>20, TwoParts
  <1>31. PICK v : v = h[M]
    OBVIOUS
  <1>32. v \in 0 .. Acc - 1 /\ NetworkSum(t) = htons(Top - Finish(v))
    <2>1. Words(t) <= Word /\ Sums(h, t, Words(t)) /\ v = h[Words(t)]
      BY <1>2, <1>26, <1>27, <1>28, <1>31
    <2> QED
      BY <1>27, <2>1, NetworkSumIs
  <1>33. Top - Finish(v) = Top
    <2>1. Folds(Top - Finish(v), v) /\ v \in Int /\ v # 0 /\ Cong(v, 0)
      BY <1>29, <1>30, <1>31, <1>32, FinishFolds
    <2> QED
      BY <2>1, FoldsTop
  <1>34. htons(Top) = Top
    <2>1. 0 \in 0 .. Top /\ Top - 0 = Top
      BY Sizes
    <2>2. htons(0) = 0 /\ htons(Top - 0) = Top - htons(0)
      BY <2>1, Swapped
    <2> QED
      BY <2>1, <2>2
  <1> QED
    BY <1>1, <1>3, <1>21, <1>26, <1>32, <1>33, <1>34, Zenon

-----------------------------------------------------------------------------
(* The properties of the runs *)

\* The buffers MCChecksum grows.
Grown == buf \in Seq(Octets) /\ Len(buf) <= MaxLen

\* Every buffer that is checked is one the theorems speak of.
LEMMA GrownAlways == MCSpec => []Grown
  <1>1. MCInit => Grown
    BY MaxLenAssumption DEF MCInit, Grown
  <1>2. ASSUME Grown, [MCNext]_buf PROVE Grown'
    <2>1. CASE MCNext
      <3>1. PICK b \in Octets : Len(buf) < MaxLen /\ buf' = Append(buf, b)
        BY <2>1 DEF MCNext, Grow, Octets
      <3>2. buf' \in Seq(Octets) /\ Len(buf') = Len(buf) + 1 /\ Len(buf) \in Nat
        BY <1>2, <3>1 DEF Grown
      <3> QED
        BY <3>1, <3>2, MaxLenAssumption DEF Grown
    <2>2. CASE UNCHANGED buf
      BY <1>2, <2>2 DEF Grown
    <2> QED
      BY <1>2, <2>1, <2>2
  <1> QED
    BY <1>1, <1>2, PTL DEF MCSpec

\* The word checksum() returns for the ICMP, IP and UDP headers is the one RFC 1071
\* defines, for buffers up to any length a uint16_t can give.
THEOREM SumIsReferenceAlways == MCSpec => []SumIsReference
  <1>1. Grown => SumIsReference
    <2>1. SUFFICES ASSUME Grown PROVE SumIsReference
      OBVIOUS
    <2>2. buf \in Seq(Octets) /\ Len(buf) < Word
      BY <2>1, MaxLenAssumption, Sizes DEF Grown
    <2> QED
      BY <2>2, ByteOrderIndependent DEF SumIsReference
  <1> QED
    BY <1>1, GrownAlways, PTL

\* ip_rcv accepts the headers ip_push_pending_frames has filled in and drops them
\* when one byte has changed on the way.
THEOREM CorruptionDetectedAlways == MCSpec => []CorruptionDetected
  <1>1. Grown => CorruptionDetected
    <2>1. SUFFICES ASSUME Grown PROVE CorruptionDetected
      OBVIOUS
    <2>2. buf \in Seq(Octets) /\ Len(buf) < Word
      BY <2>1, MaxLenAssumption, Sizes DEF Grown
    <2>3. ASSUME NEW n \in 1 .. Len(buf) \div 2
          PROVE  /\ checksum(Protect(buf, n)) = 0
                 /\ \A i \in DOMAIN Protect(buf, n) : \A b \in Octets \ {Protect(buf, n)[i]} :
                      checksum([Protect(buf, n) EXCEPT ![i] = b]) # 0
      BY <2>2, OneByteDetected
    <2> QED
      BY <2>3, Zenon DEF CorruptionDetected, Fields, Octets
  <1> QED
    BY <1>1, GrownAlways, PTL

\* A receiver accepts every datagram udp_push_pending_frames has filled in.
THEOREM UdpVerifiesAlways == MCSpec => []UdpVerifies
  <1>1. Grown => UdpVerifies
    <2>1. SUFFICES ASSUME Grown PROVE UdpVerifies
      OBVIOUS
    <2>2. buf \in Seq(Octets) /\ Len(buf) < Word
      BY <2>1, MaxLenAssumption, Sizes DEF Grown
    <2>3. ASSUME NEW n \in Fields, NEW saddr \in Addresses, NEW daddr \in Addresses, NEW proto \in Protocols
          PROVE  NetworkSum(Joined(Pseudo(saddr, daddr, proto, Len(buf)),
                                   ProtectUdp(buf, n, saddr, daddr, proto))) = Top
      <3>1. n \in 1 .. Len(buf) \div 2 /\ saddr \in 0 .. Acc - 1 /\ daddr \in 0 .. Acc - 1 /\ proto \in Octets
        BY AddressesAssumption, ProtocolsAssumption, Zenon DEF Fields, Octets
      <3> QED
        BY <2>2, <3>1, UdpChecksumVerifies
    <2> QED
      BY <2>3, Zenon DEF UdpVerifies, Joined, Pseudo, Top
  <1> QED
    BY <1>1, GrownAlways, PTL
===============================================================================
