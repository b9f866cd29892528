---------------------------- MODULE HeaderProofs ----------------------------
(***************************************************************************)
(* Proofs about Header.tla: powers, the compact form of a target, the      *)
(* count of zero bits, and the Merkle tree.                                *)
(***************************************************************************)
EXTENDS Header, CoinbaseProofs

-----------------------------------------------------------------------------
(* TimesPower *)

Multiplies(b) == [i \in Nat |-> [m \in Nat |-> b * m]]

\* The function inside TimesPower.
Product(n, b, k) == CHOOSE f : f = [i \in 0..k |-> IF i = 0 THEN n ELSE b * f[i - 1]]

\* The function inside TimesPower() is multiplication by b, repeated.
LEMMA ProductIs ==
  ASSUME NEW n \in Nat, NEW b \in Nat, NEW k \in Nat
  PROVE  /\ Iterates(Product(n, b, k), k, Nat, n, Multiplies(b))
         /\ TimesPower(n, b, k) = Product(n, b, k)[k]
<1>1. PICK g : g = Multiplies(b)
  OBVIOUS
<1>2. g \in [Nat -> [Nat -> Nat]] /\ \A i \in Nat, m \in Nat : g[i][m] = b * m
  BY <1>1 DEF Multiplies
<1>3. PICK f : Iterates(f, k, Nat, n, g)
  BY <1>2, Iteration
<1>4. f = [i \in 0..k |-> IF i = 0 THEN n ELSE b * f[i - 1]]
  <2>1. ASSUME NEW i \in 1..k
        PROVE  f[i] = b * f[i - 1]
    <3>1. f[i - 1] \in Nat /\ i \in Nat
      BY <1>3 DEF Iterates
    <3> QED BY <1>2, <1>3, <3>1 DEF Iterates
  <2> QED BY <1>3, <2>1 DEF Iterates
<1> DEFINE r == Product(n, b, k)
<1>5. r = [i \in 0..k |-> IF i = 0 THEN n ELSE b * r[i - 1]]
  BY <1>4 DEF Product
<1>6. r[0] = n /\ \A i \in 1..k : r[i] = b * r[i - 1]
  <2> HIDE DEF r
  <2> QED BY <1>5
<1>7. \A i \in 0..k : r[i] \in Nat
  <2> HIDE DEF r
  <2> DEFINE S == {i \in Nat : i \in 0..k => r[i] \in Nat}
  <2>1. 0 \in S
    BY <1>6
  <2>2. ASSUME NEW i \in Nat, i \in S
        PROVE  i + 1 \in S
    <3> SUFFICES ASSUME i + 1 \in 0..k PROVE r[i + 1] \in Nat
      OBVIOUS
    <3>1. r[i + 1] = b * r[i] /\ r[i] \in Nat
      BY <1>6, <2>2
    <3> QED BY <3>1
  <2>3. Nat \subseteq S
    <3> HIDE DEF S
    <3> QED BY <2>1, <2>2, SetInduction
  <2> QED BY <2>3
<1>8. Iterates(r, k, Nat, n, g)
  <2> HIDE DEF r
  <2>1. ASSUME NEW i \in 1..k
        PROVE  g[i][r[i - 1]] = b * r[i - 1]
    <3>1. r[i - 1] \in Nat /\ i \in Nat
      BY <1>7
    <3> QED BY <1>2, <3>1
  <2>2. r \in [0..k -> Nat]
    BY <1>5, <1>7
  <2> QED BY <1>6, <2>1, <2>2 DEF Iterates
<1> QED BY <1>1, <1>8 DEF TimesPower, Product

\* TimesPower() multiplies once more for every factor.
LEMMA TimesPowerIs ==
  ASSUME NEW n \in Nat, NEW b \in Nat, NEW k \in Nat
  PROVE  /\ TimesPower(n, b, k) \in Nat
         /\ TimesPower(n, b, 0) = n
         /\ TimesPower(n, b, k + 1) = b * TimesPower(n, b, k)
<1>1. PICK g : g = Multiplies(b)
  OBVIOUS
<1>2. \A i \in Nat, m \in Nat : g[i][m] = b * m
  BY <1>1 DEF Multiplies
<1>3. k + 1 \in Nat /\ k <= k + 1 /\ k \in 0..k /\ k + 1 \in 1..(k + 1) /\ (k + 1) - 1 = k
  OBVIOUS
<1>4. PICK f : f = Product(n, b, k)
  OBVIOUS
<1>5. Iterates(f, k, Nat, n, g) /\ TimesPower(n, b, k) = f[k]
  BY <1>1, <1>4, ProductIs
<1>6. PICK h, m : h = Product(n, b, m) /\ m = k + 1
  OBVIOUS
<1>7. m \in Nat /\ k <= m /\ Iterates(h, m, Nat, n, g) /\ TimesPower(n, b, m) = h[m]
  BY <1>1, <1>3, <1>6, ProductIs
<1>8. \A i \in 0..k : f[i] = h[i]
  BY <1>5, <1>7, SameIteration
<1>9. TimesPower(n, b, k) \in Nat
  BY <1>3, <1>5 DEF Iterates
<1>10. TimesPower(n, b, m) = b * TimesPower(n, b, k)
  <2>1. h[m] = g[m][h[k]] /\ h[k] = f[k] /\ h[k] \in Nat
    BY <1>3, <1>6, <1>7, <1>8 DEF Iterates
  <2> QED BY <1>2, <1>5, <1>7, <2>1
<1>11. TimesPower(n, b, 0) = n
  <2>1. PICK z, e : z = Product(n, b, e) /\ e = 0
    OBVIOUS
  <2>2. Iterates(z, e, Nat, n, g) /\ TimesPower(n, b, e) = z[e]
    BY <1>1, <2>1, ProductIs
  <2> QED BY <2>1, <2>2 DEF Iterates
<1> QED BY <1>6, <1>9, <1>10, <1>11

\* The same for a number and a base that stay, as the inductions use it.
LEMMA TimesPowerNext ==
  ASSUME NEW n \in Nat, NEW b \in Nat
  PROVE  /\ TimesPower(n, b, 0) = n
         /\ \A k \in Nat : /\ TimesPower(n, b, k) \in Nat
                           /\ TimesPower(n, b, k + 1) = b * TimesPower(n, b, k)
BY TimesPowerIs

\* A factor may be put to the number first.
LEMMA TimesPowerFirst ==
  ASSUME NEW n \in Nat, NEW b \in Nat
  PROVE  \A k \in Nat : TimesPower(n, b, k + 1) = TimesPower(b * n, b, k)
<1> DEFINE S == {k \in Nat : TimesPower(n, b, k + 1) = TimesPower(b * n, b, k)}
<1>1. b * n \in Nat
  OBVIOUS
<1>2. 0 \in S
  BY <1>1, TimesPowerIs
<1>3. ASSUME NEW k \in Nat, k \in S
      PROVE  k + 1 \in S
  <2>1. PICK j : j = k + 1
    OBVIOUS
  <2>2. j \in Nat /\ TimesPower(n, b, j + 1) = b * TimesPower(n, b, j)
    BY <2>1, TimesPowerIs
  <2>3. TimesPower(b * n, b, j) = b * TimesPower(b * n, b, k)
    BY <1>1, <2>1, TimesPowerIs
  <2> QED BY <1>3, <2>1, <2>2, <2>3
<1> HIDE DEF S
<1>4. Nat \subseteq S
  BY <1>2, <1>3, SetInduction
<1> QED BY <1>4 DEF S

\* So may any number of them.
LEMMA TimesPowerTwice ==
  ASSUME NEW n \in Nat, NEW b \in Nat, NEW j \in Nat
  PROVE  \A k \in Nat : TimesPower(TimesPower(n, b, j), b, k) = TimesPower(n, b, j + k)
<1>1. PICK m \in Nat : m = TimesPower(n, b, j)
  BY TimesPowerIs
<1> DEFINE S == {k \in Nat : TimesPower(m, b, k) = TimesPower(n, b, j + k)}
<1>2. 0 \in S
  BY <1>1, TimesPowerIs
<1>3. ASSUME NEW k \in Nat, k \in S
      PROVE  k + 1 \in S
  <2>1. PICK i : i = j + k
    OBVIOUS
  <2>2. i \in Nat /\ j + (k + 1) = i + 1
    BY <2>1
  <2>3. TimesPower(n, b, i + 1) = b * TimesPower(n, b, i)
    BY <2>2, TimesPowerIs
  <2>4. TimesPower(m, b, k + 1) = b * TimesPower(m, b, k)
    BY TimesPowerIs
  <2> QED BY <1>3, <2>1, <2>2, <2>3, <2>4
<1> HIDE DEF S
<1>4. Nat \subseteq S
  BY <1>2, <1>3, SetInduction
<1> QED BY <1>1, <1>4 DEF S

\* A product is not 0 unless a factor is.
LEMMA TimesPowerPositive ==
  ASSUME NEW n \in Nat \ {0}, NEW b \in Nat \ {0}
  PROVE  \A k \in Nat : TimesPower(n, b, k) \in Nat \ {0}
<1> DEFINE S == {k \in Nat : TimesPower(n, b, k) \in Nat \ {0}}
<1>1. 0 \in S
  BY TimesPowerIs
<1>2. ASSUME NEW k \in Nat, k \in S
      PROVE  k + 1 \in S
  <2>1. PICK p \in Nat \ {0} : p = TimesPower(n, b, k)
    BY <1>2
  <2>2. b * p \in Nat \ {0}
    OBVIOUS
  <2> QED BY <2>1, <2>2, TimesPowerIs
<1> HIDE DEF S
<1>3. Nat \subseteq S
  BY <1>1, <1>2, SetInduction
<1> QED BY <1>3 DEF S

\* The larger number has the larger product.
LEMMA TimesPowerLess ==
  ASSUME NEW n \in Nat, NEW m \in Nat, n < m, NEW b \in Nat \ {0}
  PROVE  \A k \in Nat : TimesPower(n, b, k) < TimesPower(m, b, k)
<1> DEFINE S == {k \in Nat : TimesPower(n, b, k) < TimesPower(m, b, k)}
<1>1. 0 \in S
  BY TimesPowerIs
<1>2. ASSUME NEW k \in Nat, k \in S
      PROVE  k + 1 \in S
  <2>1. PICK p \in Nat, r \in Nat : p = TimesPower(n, b, k) /\ r = TimesPower(m, b, k)
    BY TimesPowerIs
  <2>2. TimesPower(n, b, k + 1) = b * p /\ TimesPower(m, b, k + 1) = b * r
    BY <2>1, TimesPowerIs
  <2>3. p < r
    BY <1>2, <2>1
  <2>4. b * p < b * r
    BY <2>3
  <2> QED BY <2>2, <2>4
<1> HIDE DEF S
<1>3. Nat \subseteq S
  BY <1>1, <1>2, SetInduction
<1> QED BY <1>3 DEF S

-----------------------------------------------------------------------------
(* The size of a number *)

\* Bytes come off in two goes as in one.
LEMMA ShiftedTwice ==
  ASSUME NEW n \in Int, NEW j \in Nat
  PROVE  \A k \in Nat : Shifted(Shifted(n, j), k) = Shifted(n, j + k)
<1>1. PICK m \in Int : m = Shifted(n, j)
  BY ShiftedIs
<1> DEFINE S == {k \in Nat : Shifted(m, k) = Shifted(n, j + k)}
<1>2. 0 \in S
  BY <1>1, ShiftedIs
<1>3. ASSUME NEW k \in Nat, k \in S
      PROVE  k + 1 \in S
  <2>1. PICK i : i = j + k
    OBVIOUS
  <2>2. i \in Nat /\ j + (k + 1) = i + 1
    BY <2>1
  <2>3. Shifted(n, i + 1) = Shifted(n, i) \div Base
    BY <2>2, ShiftedIs
  <2>4. Shifted(m, k + 1) = Shifted(m, k) \div Base
    BY ShiftedIs
  <2> QED BY <1>3, <2>1, <2>2, <2>3, <2>4
<1> HIDE DEF S
<1>4. Nat \subseteq S
  BY <1>2, <1>3, SetInduction
<1> QED BY <1>1, <1>4 DEF S

\* Zero bytes that were put behind a number come off again.
LEMMA ShiftedBack ==
  ASSUME NEW n \in Nat, NEW j \in Nat
  PROVE  \A k \in Nat : Shifted(TimesPower(n, Base, j + k), k) = TimesPower(n, Base, j)
<1> DEFINE S == {k \in Nat : Shifted(TimesPower(n, Base, j + k), k) = TimesPower(n, Base, j)}
<1>1. 0 \in S
  <2>1. TimesPower(n, Base, j) \in Int
    BY BaseOK, TimesPowerIs
  <2> QED BY <2>1, ShiftedIs
<1>2. ASSUME NEW k \in Nat, k \in S
      PROVE  k + 1 \in S
  <2>1. PICK i : i = j + k
    OBVIOUS
  <2>2. i \in Nat /\ j + (k + 1) = i + 1
    BY <2>1
  <2>3. PICK p \in Nat : p = TimesPower(n, Base, i)
    BY <2>2, BaseOK, TimesPowerIs
  <2>4. TimesPower(n, Base, i + 1) = Base * p
    BY <2>2, <2>3, BaseOK, TimesPowerIs
  <2>5. Base * p \in Int /\ (Base * p) \div Base = p
    BY BaseOK
  <2>6. Shifted(Base * p, k + 1) = Shifted(p, k)
    BY <2>5, ShiftedFirst
  <2> QED BY <1>2, <2>1, <2>2, <2>3, <2>4, <2>6
<1> HIDE DEF S
<1>3. Nat \subseteq S
  BY <1>1, <1>2, SetInduction
<1> QED BY <1>3 DEF S

\* A number without its lowest bytes is not larger.
LEMMA ShiftedAtMost ==
  ASSUME NEW n \in Nat
  PROVE  \A k \in Nat : Shifted(n, k) \in 0..n
<1> DEFINE S == {k \in Nat : Shifted(n, k) \in 0..n}
<1>1. 0 \in S
  BY ShiftedIs
<1>2. ASSUME NEW k \in Nat, k \in S
      PROVE  k + 1 \in S
  <2>1. PICK p \in 0..n : p = Shifted(n, k)
    BY <1>2
  <2>2. p \div Base \in 0..n
    BY BaseOK
  <2> QED BY <2>1, <2>2, ShiftedIs
<1> HIDE DEF S
<1>3. Nat \subseteq S
  BY <1>1, <1>2, SetInduction
<1> QED BY <1>3 DEF S

\* Nothing is left of a number without k bytes exactly if it is within k bytes.
LEMMA ShiftedWithin ==
  \A k \in Nat : \A n \in Nat : Shifted(n, k) = 0 <=> n < TimesPower(1, Base, k)
<1> DEFINE S == {k \in Nat : \A n \in Nat : Shifted(n, k) = 0 <=> n < TimesPower(1, Base, k)}
<1>1. 0 \in S
  <2>1. \A n \in Nat : Shifted(n, 0) = n
    BY ShiftedIs
  <2>2. TimesPower(1, Base, 0) = 1
    BY BaseOK, TimesPowerIs
  <2> QED BY <2>1, <2>2
<1>2. ASSUME NEW k \in Nat, k \in S
      PROVE  k + 1 \in S
  <2> SUFFICES ASSUME NEW n \in Nat
               PROVE  Shifted(n, k + 1) = 0 <=> n < TimesPower(1, Base, k + 1)
    OBVIOUS
  <2>1. PICK p \in Nat : p = TimesPower(1, Base, k)
    BY BaseOK, TimesPowerIs
  <2>2. TimesPower(1, Base, k + 1) = Base * p
    BY <2>1, BaseOK, TimesPowerIs
  <2>3. PICK d \in Nat, r \in Byte : d = n \div Base /\ n = r + Base * d
    BY DivMod
  <2>4. Shifted(n, k + 1) = Shifted(d, k)
    BY <2>3, ShiftedFirst
  <2>5. Shifted(d, k) = 0 <=> d < p
    BY <1>2, <2>1
  <2>6. d < p <=> n < Base * p
    <3>1. r \in Nat /\ r < Base /\ Base \in Nat \ {0}
      BY BaseOK DEF Byte
    <3>2. CASE d < p
      <4>1. Base * (d + 1) <= Base * p /\ Base * (d + 1) = Base * d + Base
        BY <3>1, <3>2
      <4>2. Base * d \in Nat /\ Base * p \in Nat
        BY <3>1
      <4> QED BY <2>3, <3>1, <3>2, <4>1, <4>2
    <3>3. CASE d >= p
      <4>1. Base * d >= Base * p /\ Base * d \in Nat /\ Base * p \in Nat
        BY <3>1, <3>3
      <4> QED BY <2>3, <3>1, <3>3, <4>1
    <3> QED BY <3>2, <3>3
  <2> QED BY <2>2, <2>4, <2>5, <2>6
<1> HIDE DEF S
<1>3. Nat \subseteq S
  BY <1>1, <1>2, SetInduction
<1> QED BY <1>3 DEF S

\* n has k bytes.
SizeIs(n, k) == Shifted(n, k) = 0 /\ \A j \in 0..(k - 1) : Shifted(n, j) # 0

\* A number within k bytes has a size.
LEMMA SizeExists ==
  ASSUME NEW n \in Nat
  PROVE  \A k \in Nat : Shifted(n, k) = 0 => \E s \in 0..k : SizeIs(n, s)
<1> DEFINE S == {k \in Nat : Shifted(n, k) = 0 => \E s \in 0..k : SizeIs(n, s)}
<1>1. 0 \in S
  BY DEF SizeIs
<1>2. ASSUME NEW k \in Nat, k \in S
      PROVE  k + 1 \in S
  <2> SUFFICES ASSUME Shifted(n, k + 1) = 0
               PROVE  \E s \in 0..(k + 1) : SizeIs(n, s)
    OBVIOUS
  <2>1. CASE \E s \in 0..k : SizeIs(n, s)
    BY <2>1
  <2>2. CASE \A s \in 0..k : ~SizeIs(n, s)
    <3>1. \A j \in 0..k : Shifted(n, j) # 0
      <4> SUFFICES ASSUME NEW j \in 0..k, Shifted(n, j) = 0
                   PROVE  FALSE
        OBVIOUS
      <4>1. \A i \in Nat : Shifted(0, i) = 0
        BY ShiftedZero
      <4>2. Shifted(n, j + (k - j)) = 0
        <5>1. k - j \in Nat /\ j \in Nat
          OBVIOUS
        <5>2. Shifted(Shifted(n, j), k - j) = Shifted(n, j + (k - j))
          BY <5>1, ShiftedTwice
        <5> QED BY <4>1, <5>1, <5>2
      <4>3. j + (k - j) = k
        OBVIOUS
      <4> QED BY <1>2, <2>2, <4>2, <4>3
    <3>2. SizeIs(n, k + 1)
      BY <3>1 DEF SizeIs
    <3> QED BY <3>2
  <2> QED BY <2>1, <2>2
<1>3. Nat \subseteq S
  <2> HIDE DEF S
  <2> QED BY <1>1, <1>2, SetInduction
<1> QED BY <1>3

\* It has one only.
LEMMA SizeUnique ==
  ASSUME NEW n, NEW j \in Nat, SizeIs(n, j), NEW k \in Nat, SizeIs(n, k)
  PROVE  j = k
<1>1. ~(j < k) /\ ~(k < j)
  BY DEF SizeIs
<1> QED BY <1>1

\* A zero byte behind a number is one byte more.
LEMMA SizeScaled ==
  ASSUME NEW n \in Nat \ {0}, NEW s \in Nat, SizeIs(n, s), NEW k \in Nat
  PROVE  SizeIs(TimesPower(n, Base, k), s + k)
<1>0. Base \in Nat \ {0} /\ n \in Nat /\ n \in Int
  BY BaseOK
<1>1. PICK t \in Nat : t = TimesPower(n, Base, k)
  BY <1>0, TimesPowerIs
<1>2. Shifted(t, k) = n
  <2>1. Shifted(TimesPower(n, Base, 0 + k), k) = TimesPower(n, Base, 0)
    BY ShiftedBack
  <2> QED BY <1>0, <1>1, <2>1, TimesPowerIs
<1>3. \A i \in Nat : Shifted(t, k + i) = Shifted(n, i)
  BY <1>2, ShiftedTwice
<1>4. Shifted(t, s + k) = 0
  <2>1. s + k = k + s
    OBVIOUS
  <2> QED BY <1>3, <2>1 DEF SizeIs
<1>5. ASSUME NEW j \in 0..(s + k - 1)
      PROVE  Shifted(t, j) # 0
  <2>1. CASE j >= k
    <3>1. PICK i : i = j - k
      OBVIOUS
    <3>2. i \in 0..(s - 1) /\ i \in Nat /\ j = k + i
      BY <2>1, <3>1
    <3> QED BY <1>3, <3>2 DEF SizeIs
  <2>2. CASE j < k
    <3>1. PICK i : i = k - j
      OBVIOUS
    <3>2. i \in Nat /\ j \in Nat /\ k = i + j
      BY <2>2, <3>1
    <3>3. Shifted(t, j) = TimesPower(n, Base, i)
      BY <1>1, <3>2, ShiftedBack
    <3>4. TimesPower(n, Base, i) # 0
      BY <1>0, <3>2, TimesPowerPositive
    <3> QED BY <3>3, <3>4
  <2> QED BY <2>1, <2>2
<1> QED BY <1>1, <1>4, <1>5 DEF SizeIs

-----------------------------------------------------------------------------
(* Compact *)

\* The top bit of three bytes is worth more than two bytes hold, and less than
\* three.
LEMMA SignBitIs ==
  /\ SignBit \in Nat \ {0}
  /\ TimesPower(1, Base, 2) <= SignBit /\ SignBit < TimesPower(1, Base, 3)
<1>1. PICK h : h = Base \div 2
  OBVIOUS
<1>2. h \in Nat /\ 2 <= h /\ h < Base /\ Base \in Nat \ {0}
  BY <1>1, BaseOK
<1>3. SignBit = TimesPower(h, Base, 2) /\ h \in Nat \ {0}
  BY <1>1, <1>2 DEF SignBit
<1>4. TimesPower(1, Base, 2) < TimesPower(h, Base, 2)
  BY <1>2, TimesPowerLess
<1>5. TimesPower(h, Base, 2) < TimesPower(Base, Base, 2)
  BY <1>2, TimesPowerLess
<1>6. TimesPower(Base, Base, 2) = TimesPower(1, Base, 3)
  <2>1. TimesPower(1, Base, 2 + 1) = TimesPower(Base * 1, Base, 2)
    BY <1>2, TimesPowerFirst
  <2>2. 2 + 1 = 3 /\ Base * 1 = Base
    BY <1>2
  <2> QED BY <2>1, <2>2
<1>7. TimesPower(h, Base, 2) \in Nat \ {0} /\ TimesPower(1, Base, 2) \in Nat
  BY <1>2, <1>3, TimesPowerPositive, TimesPowerIs
<1> QED BY <1>3, <1>4, <1>5, <1>6, <1>7

\* The operator that Compact() takes its size from finds the one there is.
LEMMA CompactIs ==
  ASSUME NEW t \in Nat, NEW longest \in Nat, NEW s \in 0..longest, SizeIs(t, s),
         NEW word, word = IF s <= 3 THEN TimesPower(t, Base, 3 - s) ELSE Shifted(t, s - 3)
  PROVE  Compact(t, longest) =
           IF word >= SignBit THEN <<s + 1, Shifted(word, 1)>> ELSE <<s, word>>
<1> DEFINE size == CHOOSE k \in 0..longest :
                     Shifted(t, k) = 0 /\ \A j \in 0..(k - 1) : Shifted(t, j) # 0
           w == IF size <= 3 THEN TimesPower(t, Base, 3 - size) ELSE Shifted(t, size - 3)
<1>1. Compact(t, longest) =
        IF w >= SignBit THEN <<size + 1, Shifted(w, 1)>> ELSE <<size, w>>
  BY DEF Compact
<1>2. size \in 0..longest /\ Shifted(t, size) = 0 /\ \A j \in 0..(size - 1) : Shifted(t, j) # 0
  BY DEF SizeIs
<1> HIDE DEF size
<1>3. size = s
  BY <1>2, SizeUnique DEF SizeIs
<1> QED BY <1>1, <1>3 DEF Compact

\* What the code makes of an exponent and a word without the bit of the sign.
LEMMA TargetOf ==
  ASSUME NEW e \in Nat, NEW v \in Nat, v < SignBit
  PROVE  bitsToTarget(e, v) =
           IF e <= 3 THEN Shifted(v, 3 - e) ELSE TimesPower(v, Base, e - 3)
<1>1. v % SignBit = v
  BY SignBitIs
<1> QED BY <1>1 DEF bitsToTarget

\* Three bytes with the highest not 0, and how many of them are to be cut off or
\* to be put behind, stand for the number m with q zero bytes.
LEMMA WordExpands ==
  ASSUME NEW m \in Nat, NEW z \in Nat, NEW q \in Nat, NEW e \in Nat, e + z = q + 3,
         TimesPower(m, Base, z) < SignBit
  PROVE  bitsToTarget(e, TimesPower(m, Base, z)) = TimesPower(m, Base, q)
<1>0. Base \in Nat
  BY BaseOK
<1>1. PICK v \in Nat : v = TimesPower(m, Base, z)
  BY <1>0, TimesPowerIs
<1>2. bitsToTarget(e, v) = IF e <= 3 THEN Shifted(v, 3 - e) ELSE TimesPower(v, Base, e - 3)
  BY <1>1, TargetOf
<1>3. CASE e <= 3
  <2>1. PICK k : k = 3 - e
    OBVIOUS
  <2>2. k \in Nat /\ z = q + k
    BY <1>3, <2>1
  <2>3. Shifted(TimesPower(m, Base, q + k), k) = TimesPower(m, Base, q)
    BY <2>2, ShiftedBack
  <2> QED BY <1>1, <1>2, <1>3, <2>1, <2>2, <2>3
<1>4. CASE e > 3
  <2>1. PICK k : k = e - 3
    OBVIOUS
  <2>2. k \in Nat /\ q = z + k
    BY <1>4, <2>1
  <2>3. TimesPower(TimesPower(m, Base, z), Base, k) = TimesPower(m, Base, z + k)
    BY <1>0, <2>2, TimesPowerTwice
  <2>4. ~(e <= 3)
    BY <1>4
  <2> QED BY <1>1, <1>2, <2>1, <2>2, <2>3, <2>4
<1> QED BY <1>3, <1>4

\* The compact form of a number of three bytes with q zero bytes behind it stands
\* for that number.
LEMMA CompactBack ==
  ASSUME NEW m \in Nat, m < SignBit, NEW q \in Nat, NEW longest \in Nat, q + 3 <= longest,
         NEW t, t = TimesPower(m, Base, q), NEW c, c = Compact(t, longest)
  PROVE  bitsToTarget(c[1], c[2]) = t /\ c[2] < SignBit
<1>0. Base \in Nat /\ t \in Nat
  BY BaseOK, TimesPowerIs
<1>1. CASE m = 0
  <2>1. t = 0
    <3>1. \A k \in Nat : TimesPower(0, Base, k + 1) = Base * TimesPower(0, Base, k)
      BY <1>0, TimesPowerIs
    <3> DEFINE S == {k \in Nat : TimesPower(0, Base, k) = 0}
    <3>2. 0 \in S
      BY <1>0, TimesPowerIs
    <3>3. ASSUME NEW k \in Nat, k \in S PROVE k + 1 \in S
      BY <1>0, <3>1, <3>3
    <3> HIDE DEF S
    <3>4. Nat \subseteq S
      BY <3>2, <3>3, SetInduction
    <3> QED BY <1>1, <3>4 DEF S
  <2>2. PICK word \in Nat : word = TimesPower(t, Base, 3)
    BY <1>0, TimesPowerIs
  <2>3. word = 0
    <3>1. TimesPower(0, Base, 0 + 1) = Base * TimesPower(0, Base, 0)
      BY <1>0, TimesPowerIs
    <3>2. TimesPower(0, Base, 1 + 1) = Base * TimesPower(0, Base, 1)
      BY <1>0, TimesPowerIs
    <3>3. TimesPower(0, Base, 2 + 1) = Base * TimesPower(0, Base, 2)
      BY <1>0, TimesPowerIs
    <3>4. TimesPower(0, Base, 0) = 0 /\ Base * 0 = 0 /\ 0 + 1 = 1 /\ 1 + 1 = 2 /\ 2 + 1 = 3
      BY <1>0, TimesPowerIs
    <3> QED BY <2>1, <2>2, <3>1, <3>2, <3>3, <3>4
  <2>4. SizeIs(t, 0)
    BY <2>1, ShiftedZero DEF SizeIs
  <2>5. c = <<0, 0>>
    <3>1. 0 \in 0..longest /\ 3 - 0 = 3 /\ ~(0 >= SignBit)
      BY SignBitIs
    <3>2. word = IF 0 <= 3 THEN TimesPower(t, Base, 3 - 0) ELSE Shifted(t, 0 - 3)
      BY <2>2, <3>1
    <3>3. Compact(t, longest) = IF word >= SignBit THEN <<0 + 1, Shifted(word, 1)>> ELSE <<0, word>>
      BY <1>0, <2>4, <3>1, <3>2, CompactIs
    <3> QED BY <2>3, <3>1, <3>3
  <2>6. bitsToTarget(0, 0) = Shifted(0, 3)
    <3>1. 0 < SignBit /\ 3 - 0 = 3
      BY SignBitIs
    <3> QED BY <3>1, TargetOf
  <2>7. c[1] = 0 /\ c[2] = 0 /\ 0 < SignBit
    BY <2>5, SignBitIs
  <2> QED BY <2>1, <2>6, <2>7, ShiftedZero
<1>2. CASE m # 0
  <2>1. PICK s \in 0..3 : SizeIs(m, s)
    <3>1. m < TimesPower(1, Base, 3)
      <4>1. TimesPower(1, Base, 3) \in Nat
        BY <1>0, TimesPowerIs
      <4> QED BY <4>1, SignBitIs
    <3>2. Shifted(m, 3) = 0
      BY <3>1, ShiftedWithin
    <3> QED BY <3>2, SizeExists
  <2>2. PICK k, z : k = s + q /\ z = 3 - s
    OBVIOUS
  <2>3. k \in 0..longest /\ k \in Nat /\ z \in 0..3 /\ z \in Nat /\ k + z = q + 3
    BY <2>2
  <2>4. SizeIs(t, k)
    BY <1>2, <2>1, <2>2, SizeScaled
  <2>5. PICK word \in Nat : word = TimesPower(m, Base, z)
    BY <1>0, <2>3, TimesPowerIs
  <2>6. word = IF k <= 3 THEN TimesPower(t, Base, 3 - k) ELSE Shifted(t, k - 3)
    <3>1. CASE k <= 3
      <4>1. PICK i : i = 3 - k
        OBVIOUS
      <4>2. i \in Nat /\ q + i = z
        BY <2>3, <3>1, <4>1
      <4>3. TimesPower(TimesPower(m, Base, q), Base, i) = TimesPower(m, Base, q + i)
        BY <1>0, <4>2, TimesPowerTwice
      <4> QED BY <2>5, <3>1, <4>1, <4>2, <4>3
    <3>2. CASE ~(k <= 3)
      <4>1. PICK i : i = k - 3
        OBVIOUS
      <4>2. i \in Nat /\ z + i = q
        BY <2>3, <3>2, <4>1
      <4>3. Shifted(TimesPower(m, Base, z + i), i) = TimesPower(m, Base, z)
        BY <2>3, <4>2, ShiftedBack
      <4> QED BY <2>5, <3>2, <4>1, <4>2, <4>3
    <3> QED BY <3>1, <3>2
  <2>7. c = IF word >= SignBit THEN <<k + 1, Shifted(word, 1)>> ELSE <<k, word>>
    <3>1. Compact(t, longest) =
            IF word >= SignBit THEN <<k + 1, Shifted(word, 1)>> ELSE <<k, word>>
      BY <1>0, <2>3, <2>4, <2>6, CompactIs
    <3> QED BY <3>1
  <2>8. CASE word < SignBit
    <3>1. c[1] = k /\ c[2] = word
      <4>1. ~(word >= SignBit)
        BY <2>8, SignBitIs
      <4> QED BY <2>7, <4>1
    <3>2. bitsToTarget(k, TimesPower(m, Base, z)) = TimesPower(m, Base, q)
      BY <2>3, <2>5, <2>8, WordExpands
    <3> QED BY <2>5, <2>8, <3>1, <3>2
  <2>9. CASE word >= SignBit
    <3>1. z # 0
      <4>1. TimesPower(m, Base, 0) = m
        BY <1>0, TimesPowerIs
      <4> QED BY <2>5, <2>9, <4>1, SignBitIs
    <3>2. PICK y : y = z - 1
      OBVIOUS
    <3>3. y \in Nat /\ y + 1 = z /\ k + 1 \in Nat /\ (k + 1) + y = q + 3 /\ s + y = 2 /\ s \in Nat
      BY <2>2, <2>3, <3>1, <3>2
    <3>4. Shifted(word, 1) = TimesPower(m, Base, y)
      <4>1. Shifted(TimesPower(m, Base, y + 1), 1) = TimesPower(m, Base, y)
        BY <3>3, ShiftedBack
      <4> QED BY <2>5, <3>3, <4>1
    <3>5. TimesPower(m, Base, y) < SignBit
      <4>1. PICK p \in Nat : p = TimesPower(1, Base, s)
        BY <1>0, <3>3, TimesPowerIs
      <4>2. m < p
        BY <2>1, <3>3, <4>1, ShiftedWithin DEF SizeIs
      <4>3. TimesPower(m, Base, y) < TimesPower(p, Base, y)
        BY <3>3, <4>2, BaseOK, TimesPowerLess
      <4>4. TimesPower(p, Base, y) = TimesPower(1, Base, 2)
        BY <1>0, <3>3, <4>1, TimesPowerTwice
      <4>5. TimesPower(m, Base, y) \in Nat /\ TimesPower(1, Base, 2) \in Nat
        BY <1>0, <3>3, TimesPowerIs
      <4> QED BY <4>3, <4>4, <4>5, SignBitIs
    <3>6. c[1] = k + 1 /\ c[2] = TimesPower(m, Base, y)
      BY <2>7, <2>9, <3>4
    <3>7. bitsToTarget(k + 1, TimesPower(m, Base, y)) = TimesPower(m, Base, q)
      BY <3>3, <3>5, WordExpands
    <3> QED BY <3>5, <3>6, <3>7
  <2> QED BY <2>5, <2>8, <2>9, SignBitIs
<1> QED BY <1>1, <1>2

\* The target of any exponent and word is such a number.
LEMMA TargetBack ==
  ASSUME NEW e \in Nat, NEW w \in Nat,
         NEW t, t = bitsToTarget(e, w), NEW c, c = Compact(t, e + 3)
  PROVE  bitsToTarget(c[1], c[2]) = t /\ c[2] < SignBit
<1>0. Base \in Nat
  BY BaseOK
<1>1. PICK m \in Nat : m = w % SignBit /\ m < SignBit
  BY SignBitIs
<1>2. t = IF e <= 3 THEN Shifted(m, 3 - e) ELSE TimesPower(m, Base, e - 3)
  BY <1>1 DEF bitsToTarget
<1>3. CASE e <= 3
  <2>1. t \in 0..m
    BY <1>2, <1>3, ShiftedAtMost
  <2>2. t \in Nat /\ t < SignBit /\ 0 + 3 <= e + 3 /\ e + 3 \in Nat
    BY <1>1, <2>1, SignBitIs
  <2>3. t = TimesPower(t, Base, 0)
    BY <1>0, <2>2, TimesPowerIs
  <2> QED BY <2>2, <2>3, CompactBack
<1>4. CASE e > 3
  <2>1. PICK q : q = e - 3
    OBVIOUS
  <2>2. q \in Nat /\ q + 3 <= e + 3 /\ e + 3 \in Nat /\ ~(e <= 3)
    BY <1>4, <2>1
  <2>3. t = TimesPower(m, Base, q)
    BY <1>2, <2>1, <2>2
  <2> QED BY <1>1, <2>2, <2>3, CompactBack
<1> QED BY <1>3, <1>4

\* A positive multiple of a number is not below it.
LEMMA MultipleAtLeast ==
  ASSUME NEW n \in Nat \ {0}, NEW q \in Int, q > 0
  PROVE  n <= n * q
<1>1. PICK p \in Nat : q = p + 1
  <2>1. q - 1 \in Nat
    OBVIOUS
  <2> QED BY <2>1
<1>2. n * q = n * p + n /\ n * p \in Nat
  BY <1>1
<1> QED BY <1>2

\* One remainder below n is left by a division.
LEMMA RemainderUnique ==
  ASSUME NEW n \in Nat \ {0}, NEW q \in Int, NEW r \in 0..(n - 1), NEW x, x = n * q + r
  PROVE  x % n = r
<1>1. x \in Int
  OBVIOUS
<1>2. PICK p \in Int, s \in 0..(n - 1) : x = n * p + s /\ x % n = s
  BY <1>1
<1>3. n * (p - q) = r - s /\ n * (q - p) = s - r
  <2>1. /\ n * (p - q) = n * p - n * q /\ n * (q - p) = n * q - n * p
        /\ n * p \in Int /\ n * q \in Int
    OBVIOUS
  <2> QED BY <1>2, <2>1
<1>4. ~(p - q > 0)
  <2> SUFFICES ASSUME p - q > 0 PROVE FALSE
    OBVIOUS
  <2>1. n <= n * (p - q)
    BY MultipleAtLeast
  <2> QED BY <1>3, <2>1
<1>5. ~(q - p > 0)
  <2> SUFFICES ASSUME q - p > 0 PROVE FALSE
    OBVIOUS
  <2>1. n <= n * (q - p)
    BY MultipleAtLeast
  <2> QED BY <1>3, <2>1
<1>6. p = q
  BY <1>4, <1>5
<1> QED BY <1>2, <1>3, <1>6

\* The bytes of a word without the bit of the sign.
LEMMA MantissaBytes ==
  ASSUME NEW w \in Nat, NEW m, m = w % SignBit
  PROVE  /\ m \in Nat
         /\ \A i \in 0..2 : Shifted(m, i) % Base = MantissaByte(w, i)
         /\ \A i \in Nat : i >= 3 => Shifted(m, i) = 0
<1>1. PICK b, h : b = Base /\ h = b \div 2
  OBVIOUS
<1>2. b \in Nat \ {0} /\ h \in Nat \ {0} /\ h < b
  BY <1>1, BaseOK
<1>3. PICK w1 \in Nat, d0 \in 0..(b - 1) : w = b * w1 + d0 /\ w1 = w \div b /\ d0 = w % b
  BY <1>2
<1>4. PICK w2 \in Nat, d1 \in 0..(b - 1) : w1 = b * w2 + d1 /\ w2 = w1 \div b /\ d1 = w1 % b
  BY <1>2
<1>5. PICK q \in Nat, d2 \in 0..(h - 1) : w2 = h * q + d2 /\ d2 = w2 % h
  <2>1. h \in Nat \ {0}
    BY <1>2
  <2>2. w2 \div h \in Nat /\ w2 % h \in 0..(h - 1) /\ w2 = h * (w2 \div h) + (w2 % h)
    BY <2>1
  <2> QED BY <2>2
<1>6. PICK v1 \in Nat, v \in Nat : v1 = b * d2 + d1 /\ v = b * v1 + d0
  BY <1>2
<1>7. SignBit \in Nat \ {0} /\ SignBit = b * (b * h)
  <2>0. h \in Nat /\ b \in Nat
    BY <1>2
  <2>1. TimesPower(h, b, 0) = h
    BY <2>0, TimesPowerIs
  <2>2. TimesPower(h, b, 0 + 1) = b * TimesPower(h, b, 0)
    BY <2>0, TimesPowerIs
  <2>3. TimesPower(h, b, 1 + 1) = b * TimesPower(h, b, 1)
    BY <2>0, TimesPowerIs
  <2>4. TimesPower(h, b, 2) = b * (b * h)
    BY <2>1, <2>2, <2>3
  <2> QED BY <1>1, <2>4, SignBitIs DEF SignBit
<1>8. m = v
  <2>1. w = SignBit * q + v
    <3>1. w1 = b * (h * q) + v1
      <4>1. PICK k \in Int : k = h * q
        BY <1>2
      <4>2. PICK x \in Int, y \in Int : x = b * k /\ y = b * d2
        BY <1>2
      <4>3. b * (k + d2) = b * k + b * d2
        BY <1>2
      <4>4. w1 = x + y + d1 /\ v1 = y + d1
        BY <1>4, <1>5, <1>6, <4>1, <4>2, <4>3
      <4> QED BY <4>1, <4>2, <4>4
    <3>2. PICK k \in Int : k = b * (h * q)
      BY <1>2
    <3>3. b * (k + v1) = b * k + b * v1
      BY <1>2
    <3>4. PICK x \in Int, y \in Int : x = b * k /\ y = b * v1
      BY <1>2
    <3>5. w = x + v
      <4>1. w1 = k + v1
        BY <3>1, <3>2
      <4>2. w = x + y + d0
        BY <1>3, <3>3, <3>4, <4>1
      <4> QED BY <1>6, <3>4, <4>2
    <3>6. b * k = SignBit * q
      BY <1>2, <1>7, <3>2
    <3> QED BY <3>4, <3>5, <3>6
  <2>2. v \in 0..(SignBit - 1)
    <3>1. v1 <= b * h - 1
      <4>1. b * d2 <= b * (h - 1) /\ b * (h - 1) = b * h - b
        BY <1>2
      <4> QED BY <1>2, <1>6, <4>1
    <3>2. PICK k \in Int : k = b * h
      BY <1>2
    <3>3. b * v1 <= b * (k - 1) /\ b * (k - 1) = b * k - b
      BY <1>2, <3>1, <3>2
    <3> QED BY <1>2, <1>6, <1>7, <3>2, <3>3
  <2> QED BY <1>7, <2>1, <2>2, RemainderUnique
<1>9. v \div b = v1 /\ v % b = d0
  BY <1>2, <1>6
<1>10. v1 \div b = d2 /\ v1 % b = d1
  BY <1>2, <1>6
<1>11. d2 \div b = 0 /\ d2 % b = d2
  BY <1>2
<1>12. /\ Shifted(w, 0) = w /\ Shifted(w, 1) = w1 /\ Shifted(w, 2) = w2
       /\ Shifted(v, 0) = v /\ Shifted(v, 1) = v1 /\ Shifted(v, 2) = d2 /\ Shifted(v, 3) = 0
  <2>1. ASSUME NEW n \in Int
        PROVE  /\ Shifted(n, 0) = n /\ Shifted(n, 1) = Shifted(n, 0) \div b
               /\ Shifted(n, 2) = Shifted(n, 1) \div b /\ Shifted(n, 3) = Shifted(n, 2) \div b
    <3>1. \A k \in Nat : Shifted(n, k + 1) = Shifted(n, k) \div b
      BY <1>1, ShiftedIs
    <3>2. Shifted(n, 0 + 1) = Shifted(n, 0) \div b /\ Shifted(n, 1 + 1) = Shifted(n, 1) \div b
          /\ Shifted(n, 2 + 1) = Shifted(n, 2) \div b
      BY <3>1
    <3> QED BY <3>2, ShiftedIs
  <2>2. w \in Int /\ v \in Int
    OBVIOUS
  <2>3. Shifted(w, 0) = w /\ Shifted(w, 1) = Shifted(w, 0) \div b /\ Shifted(w, 2) = Shifted(w, 1) \div b
    BY <2>1, <2>2
  <2>4. /\ Shifted(v, 0) = v /\ Shifted(v, 1) = Shifted(v, 0) \div b
        /\ Shifted(v, 2) = Shifted(v, 1) \div b /\ Shifted(v, 3) = Shifted(v, 2) \div b
    BY <2>1, <2>2
  <2>5. Shifted(w, 1) = w1 /\ Shifted(w, 2) = w2
    BY <1>3, <1>4, <2>3, Zenon
  <2>6. Shifted(v, 1) = v1 /\ Shifted(v, 2) = d2 /\ Shifted(v, 3) = 0
    BY <1>9, <1>10, <1>11, <2>4, Zenon
  <2> QED BY <2>3, <2>4, <2>5, <2>6
<1>13. /\ MantissaByte(w, 0) = d0 /\ MantissaByte(w, 1) = d1 /\ MantissaByte(w, 2) = d2
  <2>1. /\ MantissaByte(w, 0) = Shifted(w, 0) % Base
        /\ MantissaByte(w, 1) = Shifted(w, 1) % Base
        /\ MantissaByte(w, 2) = Shifted(w, 2) % (Base \div 2)
    BY DEF MantissaByte
  <2> QED BY <1>1, <1>3, <1>4, <1>5, <1>12, <2>1
<1>14. \A i \in 0..2 : Shifted(v, i) % Base = MantissaByte(w, i)
  <2>1. \A i \in 0..2 : i = 0 \/ i = 1 \/ i = 2
    OBVIOUS
  <2> QED BY <1>1, <1>9, <1>10, <1>11, <1>12, <1>13, <2>1
<1>15. ASSUME NEW i \in Nat, i >= 3
       PROVE  Shifted(v, i) = 0
  <2>1. PICK k \in Nat : i = 3 + k
    <3>1. i - 3 \in Nat /\ i = 3 + (i - 3)
      BY <1>15
    <3> QED BY <3>1
  <2>2. Shifted(Shifted(v, 3), k) = Shifted(v, 3 + k)
    BY ShiftedTwice
  <2>3. Shifted(0, k) = 0
    BY ShiftedAtMost
  <2> QED BY <1>12, <2>1, <2>2, <2>3
<1> QED BY <1>8, <1>14, <1>15

\* The bytes of a target are those of the mantissa, each at its place.
LEMMA TargetBytes ==
  ASSUME NEW e \in Nat, NEW w \in Nat, NEW t, t = bitsToTarget(e, w)
  PROVE  /\ \A k \in 0..(e + 2) : Shifted(t, k) % Base = MantissaByte(w, k + 3 - e)
         /\ Shifted(t, e + 3) = 0
<1>1. PICK m : m = w % SignBit
  OBVIOUS
<1>2. /\ m \in Nat
      /\ \A i \in 0..2 : Shifted(m, i) % Base = MantissaByte(w, i)
      /\ \A i \in Nat : i >= 3 => Shifted(m, i) = 0
  BY <1>1, MantissaBytes
<1>3. t = IF e <= 3 THEN Shifted(m, 3 - e) ELSE TimesPower(m, Base, e - 3)
  BY <1>1 DEF bitsToTarget
<1>4. 0 % Base = 0 /\ Base \in Nat \ {0}
  BY BaseOK
<1>5. ASSUME NEW i \in Int, i >= 3 \/ i < 0
      PROVE  MantissaByte(w, i) = 0
  BY <1>5 DEF MantissaByte
<1>6. ASSUME NEW k \in Nat, k + 3 - e >= 0
      PROVE  Shifted(t, k) = Shifted(m, k + 3 - e)
  <2>1. PICK i \in Nat : i = k + 3 - e
    BY <1>6
  <2>2. CASE e <= 3
    <3>1. PICK j \in Nat : j = 3 - e
      BY <2>2
    <3>2. Shifted(Shifted(m, j), k) = Shifted(m, j + k) /\ j + k = i
      BY <1>2, <2>1, <3>1, ShiftedTwice
    <3> QED BY <1>3, <2>1, <2>2, <3>1, <3>2
  <2>3. CASE e > 3
    <3>1. PICK j \in Nat : j = e - 3
      BY <2>3
    <3>2. t = TimesPower(m, Base, j) /\ t \in Nat
      BY <1>2, <1>3, <1>4, <2>3, <3>1, TimesPowerIs
    <3>3. Shifted(TimesPower(m, Base, 0 + j), j) = TimesPower(m, Base, 0)
      BY <1>2, ShiftedBack
    <3>4. Shifted(t, j) = m
      BY <1>2, <1>4, <3>2, <3>3, TimesPowerIs
    <3>5. Shifted(Shifted(t, j), i) = Shifted(t, j + i) /\ j + i = k
      BY <2>1, <3>1, <3>2, ShiftedTwice
    <3> QED BY <2>1, <3>4, <3>5
  <2> QED BY <2>2, <2>3
<1>7. ASSUME NEW k \in 0..(e + 2)
      PROVE  Shifted(t, k) % Base = MantissaByte(w, k + 3 - e)
  <2>1. PICK i \in Int : i = k + 3 - e
    OBVIOUS
  <2>2. CASE i \in 0..2
    BY <1>2, <1>6, <2>1, <2>2
  <2>3. CASE i >= 3
    BY <1>2, <1>4, <1>5, <1>6, <2>1, <2>3
  <2>4. CASE i < 0
    <3>1. PICK j \in Nat : e - 3 = (j + 1) + k
      <4>1. e - 3 - k - 1 \in Nat /\ e - 3 = ((e - 3 - k - 1) + 1) + k
        BY <2>1, <2>4
      <4> QED BY <4>1
    <3>2. t = TimesPower(m, Base, (j + 1) + k)
      BY <1>3, <2>1, <2>4, <3>1
    <3>3. Shifted(t, k) = TimesPower(m, Base, j + 1)
      BY <1>2, <3>2, ShiftedBack
    <3>4. PICK n \in Nat : n = TimesPower(m, Base, j)
      BY <1>2, <1>4, TimesPowerIs
    <3>5. TimesPower(m, Base, j + 1) = Base * n
      BY <1>2, <1>4, <3>4, TimesPowerIs
    <3>6. (Base * n) % Base = 0
      <4>1. Base * n = Base * n + 0 /\ 0 \in 0..(Base - 1)
        BY <1>4
      <4> QED BY <1>4, <4>1, RemainderUnique
    <3> QED BY <1>5, <2>1, <2>4, <3>3, <3>5, <3>6
  <2> QED BY <2>1, <2>2, <2>3, <2>4
<1>8. Shifted(t, e + 3) = 0
  <2>1. e + 3 \in Nat /\ (e + 3) + 3 - e = 6
    OBVIOUS
  <2> QED BY <1>2, <1>6, <2>1
<1> QED BY <1>7, <1>8

-----------------------------------------------------------------------------
(* BitLength *)

\* n has k bits.
HasBits(n, k) == n < TimesPower(1, 2, k) /\ (k > 0 => n >= TimesPower(1, 2, k - 1))

\* The powers of two, one after another.
LEMMA PowersOfTwo ==
  /\ TimesPower(1, 2, 0) = 1
  /\ \A k \in Nat : /\ TimesPower(1, 2, k) \in Nat \ {0}
                    /\ TimesPower(1, 2, k + 1) = 2 * TimesPower(1, 2, k)
<1>1. 1 \in Nat /\ 2 \in Nat /\ 1 \in Nat \ {0} /\ 2 \in Nat \ {0}
  OBVIOUS
<1>2. \A k \in Nat : TimesPower(1, 2, k) \in Nat \ {0}
  BY <1>1, TimesPowerPositive
<1> QED BY <1>1, <1>2, TimesPowerNext

\* The powers of two grow.
LEMMA PowersGrow ==
  ASSUME NEW j \in Nat
  PROVE  \A k \in Nat : TimesPower(1, 2, j) <= TimesPower(1, 2, j + k)
<1> DEFINE S == {k \in Nat : TimesPower(1, 2, j) <= TimesPower(1, 2, j + k)}
<1>1. 0 \in S
  BY PowersOfTwo
<1>2. ASSUME NEW k \in Nat, k \in S
      PROVE  k + 1 \in S
  <2>1. PICK i : i = j + k
    OBVIOUS
  <2>2. i \in Nat /\ j + (k + 1) = i + 1
    BY <2>1
  <2> QED BY <1>2, <2>1, <2>2, PowersOfTwo
<1> HIDE DEF S
<1>3. Nat \subseteq S
  BY <1>1, <1>2, SetInduction
<1> QED BY <1>3 DEF S

\* Every number has bits, not more than it counts.
LEMMA BitsExist == \A n \in Nat : \E k \in 0..n : HasBits(n, k)
<1> DEFINE S == {n \in Nat : \E k \in 0..n : HasBits(n, k)}
<1>1. 0 \in S
  <2>1. HasBits(0, 0)
    BY PowersOfTwo DEF HasBits
  <2> QED BY <2>1
<1>2. ASSUME NEW n \in Nat, n \in S
      PROVE  n + 1 \in S
  <2>1. PICK k \in 0..n : HasBits(n, k)
    BY <1>2
  <2>2. PICK p \in Nat \ {0} : p = TimesPower(1, 2, k) /\ TimesPower(1, 2, k + 1) = 2 * p
    BY PowersOfTwo
  <2>3. n < p /\ (k > 0 => n >= TimesPower(1, 2, k - 1))
    BY <2>1, <2>2 DEF HasBits
  <2>4. CASE n + 1 < p
    <3>1. k > 0
      BY <2>2, <2>4, PowersOfTwo
    <3>2. TimesPower(1, 2, k - 1) \in Nat
      <4>1. k - 1 \in Nat
        BY <3>1
      <4> QED BY <4>1, PowersOfTwo
    <3>3. HasBits(n + 1, k)
      BY <2>2, <2>3, <2>4, <3>2 DEF HasBits
    <3> QED BY <3>3
  <2>5. CASE n + 1 = p
    <3>1. (k + 1) - 1 = k
      OBVIOUS
    <3>2. HasBits(n + 1, k + 1)
      BY <2>2, <2>5, <3>1 DEF HasBits
    <3> QED BY <3>2
  <2> QED BY <2>3, <2>4, <2>5
<1>3. Nat \subseteq S
  <2> HIDE DEF S
  <2> QED BY <1>1, <1>2, SetInduction
<1> QED BY <1>3

\* The smaller number has not more bits.
LEMMA BitsOrdered ==
  ASSUME NEW n \in Nat, NEW m \in Nat, n <= m,
         NEW j \in Nat, HasBits(n, j), NEW k \in Nat, HasBits(m, k)
  PROVE  j <= k
<1> SUFFICES ASSUME k < j PROVE FALSE
  OBVIOUS
<1>1. PICK i : i = (j - 1) - k
  OBVIOUS
<1>2. i \in Nat /\ k + i = j - 1 /\ j - 1 \in Nat
  BY <1>1
<1>3. TimesPower(1, 2, k) <= TimesPower(1, 2, j - 1)
  BY <1>2, PowersGrow
<1>4. TimesPower(1, 2, k) \in Nat /\ TimesPower(1, 2, j - 1) \in Nat
  BY <1>2, PowersOfTwo
<1>5. TimesPower(1, 2, j - 1) <= n /\ m < TimesPower(1, 2, k)
  BY DEF HasBits
<1> QED BY <1>3, <1>4, <1>5

\* BitLength() is the number of bits.
LEMMA BitLengthIs ==
  ASSUME NEW n \in Nat
  PROVE  /\ BitLength(n) \in Nat /\ HasBits(n, BitLength(n))
         /\ \A k \in Nat : HasBits(n, k) => BitLength(n) = k
<1>1. \E k \in 0..n : HasBits(n, k)
  BY BitsExist
<1>2. BitLength(n) = CHOOSE k \in 0..n : HasBits(n, k)
  BY DEF BitLength, HasBits
<1>3. BitLength(n) \in 0..n /\ HasBits(n, BitLength(n))
  BY <1>1, <1>2
<1>4. BitLength(n) \in Nat /\ n <= n
  BY <1>3
<1>5. \A k \in Nat : HasBits(n, k) => BitLength(n) <= k /\ k <= BitLength(n)
  BY <1>3, <1>4, BitsOrdered
<1>6. \A k \in Nat : HasBits(n, k) => BitLength(n) = k
  BY <1>4, <1>5
<1> QED BY <1>3, <1>4, <1>6

\* Zero has no bits, and the smaller number has not more.
LEMMA BitLengthOrdered ==
  /\ BitLength(0) = 0
  /\ \A n, m \in Nat : n <= m => BitLength(n) <= BitLength(m)
<1>1. HasBits(0, 0)
  BY PowersOfTwo DEF HasBits
<1>2. ASSUME NEW n \in Nat, NEW m \in Nat, n <= m
      PROVE  BitLength(n) <= BitLength(m)
  BY <1>2, BitLengthIs, BitsOrdered
<1> QED BY <1>1, <1>2, BitLengthIs

\* One more hexadecimal digit is four more bits.
LEMMA BitLengthDigit ==
  ASSUME NEW n \in Nat \ {0}, NEW x \in 0..15
  PROVE  BitLength(16 * n + x) = BitLength(n) + 4
<1>1. PICK k \in Nat : k = BitLength(n) /\ HasBits(n, k)
  BY BitLengthIs
<1>2. ASSUME NEW i \in Nat
      PROVE  TimesPower(1, 2, i + 4) = 16 * TimesPower(1, 2, i) /\ TimesPower(1, 2, i) \in Nat
  <2>1. /\ TimesPower(1, 2, i + 1) = 2 * TimesPower(1, 2, i)
        /\ TimesPower(1, 2, (i + 1) + 1) = 2 * TimesPower(1, 2, i + 1)
        /\ TimesPower(1, 2, (i + 2) + 1) = 2 * TimesPower(1, 2, i + 2)
        /\ TimesPower(1, 2, (i + 3) + 1) = 2 * TimesPower(1, 2, i + 3)
        /\ TimesPower(1, 2, i) \in Nat
    BY PowersOfTwo
  <2>2. (i + 1) + 1 = i + 2 /\ (i + 2) + 1 = i + 3 /\ (i + 3) + 1 = i + 4
    OBVIOUS
  <2> QED BY <2>1, <2>2
<1>3. k > 0
  BY <1>1, PowersOfTwo DEF HasBits
<1>4. PICK i \in Nat : k = i + 1
  <2>1. k - 1 \in Nat /\ k = (k - 1) + 1
    BY <1>3
  <2> QED BY <2>1
<1>5. PICK p \in Nat, r \in Nat : p = TimesPower(1, 2, k) /\ r = TimesPower(1, 2, i)
  BY PowersOfTwo
<1>6. n < p /\ r <= n
  <2>1. k - 1 = i
    BY <1>4
  <2> QED BY <1>1, <1>3, <1>5, <2>1 DEF HasBits
<1>7. TimesPower(1, 2, k + 4) = 16 * p /\ TimesPower(1, 2, i + 4) = 16 * r
  BY <1>2, <1>5
<1>8. (k + 4) - 1 = i + 4 /\ k + 4 \in Nat
  BY <1>4
<1>9. 16 * n + x < 16 * p /\ 16 * r <= 16 * n + x /\ 16 * n + x \in Nat
  BY <1>6
<1>10. HasBits(16 * n + x, k + 4)
  BY <1>7, <1>8, <1>9 DEF HasBits
<1> QED BY <1>1, <1>8, <1>9, <1>10, BitLengthIs

-----------------------------------------------------------------------------
(* Leading zeros *)

\* The n digits d stand for u, whose bits begin in the first digit that is not 0.
Leading(d, n, u) ==
  \/ u = 0 /\ \A i \in 1..n : d[i] = 0
  \/ \E z \in 0..(n - 1) :
       /\ \A i \in 1..z : d[i] = 0
       /\ d[z + 1] \in 1..15
       /\ u \in Nat \ {0}
       /\ BitLength(u) = 4 * (n - z - 1) + BitLength(d[z + 1])

\* The same digits stand for the same number.
LEMMA LeadingSame ==
  ASSUME NEW d, NEW e, NEW n \in Nat, NEW u, \A i \in 1..n : d[i] = e[i], Leading(d, n, u)
  PROVE  Leading(e, n, u)
<1>1. CASE u = 0 /\ \A i \in 1..n : d[i] = 0
  BY <1>1 DEF Leading
<1>2. CASE \E z \in 0..(n - 1) :
             /\ \A i \in 1..z : d[i] = 0
             /\ d[z + 1] \in 1..15
             /\ u \in Nat \ {0}
             /\ BitLength(u) = 4 * (n - z - 1) + BitLength(d[z + 1])
  <2>1. PICK z \in 0..(n - 1) :
          /\ \A i \in 1..z : d[i] = 0
          /\ d[z + 1] \in 1..15
          /\ u \in Nat \ {0}
          /\ BitLength(u) = 4 * (n - z - 1) + BitLength(d[z + 1])
    BY <1>2
  <2>2. z + 1 \in 1..n /\ \A i \in 1..z : i \in 1..n
    OBVIOUS
  <2>3. d[z + 1] = e[z + 1] /\ \A i \in 1..z : e[i] = 0
    BY <2>1, <2>2
  <2> QED BY <2>1, <2>3 DEF Leading
<1> QED BY <1>1, <1>2 DEF Leading

\* One more digit stands for sixteen times the number and that digit.
LEMMA LeadingNext ==
  ASSUME NEW d, NEW n \in Nat, NEW u, Leading(d, n, u), NEW x \in 0..15, d[n + 1] = x
  PROVE  Leading(d, n + 1, 16 * u + x)
<1>1. CASE u = 0 /\ \A i \in 1..n : d[i] = 0
  <2>1. 16 * u + x = x
    BY <1>1
  <2>2. CASE x = 0
    <3>1. \A i \in 1..(n + 1) : d[i] = 0
      BY <1>1, <2>2
    <3> QED BY <2>1, <2>2, <3>1 DEF Leading
  <2>3. CASE x # 0
    <3>1. n \in 0..((n + 1) - 1) /\ (n + 1) - n - 1 = 0
      OBVIOUS
    <3>2. BitLength(x) = 4 * 0 + BitLength(d[n + 1])
      <4>1. BitLength(x) \in Nat
        BY BitLengthIs
      <4> QED BY <4>1
    <3>3. /\ \A i \in 1..n : d[i] = 0
          /\ d[n + 1] \in 1..15 /\ x \in Nat \ {0}
          /\ BitLength(x) = 4 * ((n + 1) - n - 1) + BitLength(d[n + 1])
      BY <1>1, <2>3, <3>1, <3>2
    <3> QED BY <2>1, <3>1, <3>3 DEF Leading
  <2> QED BY <2>2, <2>3
<1>2. CASE \E z \in 0..(n - 1) :
             /\ \A i \in 1..z : d[i] = 0
             /\ d[z + 1] \in 1..15
             /\ u \in Nat \ {0}
             /\ BitLength(u) = 4 * (n - z - 1) + BitLength(d[z + 1])
  <2>1. PICK z \in 0..(n - 1) :
          /\ \A i \in 1..z : d[i] = 0
          /\ d[z + 1] \in 1..15
          /\ u \in Nat \ {0}
          /\ BitLength(u) = 4 * (n - z - 1) + BitLength(d[z + 1])
    BY <1>2
  <2>2. PICK b \in Nat : b = BitLength(d[z + 1])
    BY <2>1, BitLengthIs
  <2>3. BitLength(16 * u + x) = BitLength(u) + 4
    BY <2>1, BitLengthDigit
  <2>4. BitLength(16 * u + x) = 4 * ((n + 1) - z - 1) + b
    BY <2>1, <2>2, <2>3
  <2>5. z \in 0..((n + 1) - 1) /\ 16 * u + x \in Nat \ {0}
    BY <2>1
  <2> QED BY <2>1, <2>2, <2>4, <2>5 DEF Leading
<1> QED BY <1>1, <1>2 DEF Leading

\* The digits d are the n digits e and the two of the byte h.
TwoMore(d, e, n, h) ==
  /\ \A i \in 1..n : e[i] = d[i]
  /\ d[n + 1] \in 0..15 /\ d[n + 2] \in 0..15
  /\ h = 16 * d[n + 1] + d[n + 2]

\* The digits of a hash are those of its higher bytes and the two of its lowest.
LEMMA DigitsNext ==
  ASSUME Base = 256, NEW hash \in Seq(Byte), hash # <<>>
  PROVE  TwoMore(HexDigits(hash), HexDigits(Tail(hash)), 2 * Len(Tail(hash)), Head(hash))
<1>0. PICK n, d, e : n = 2 * Len(Tail(hash)) /\ d = HexDigits(hash) /\ e = HexDigits(Tail(hash))
  OBVIOUS
<1>1. PICK m, rest : m = Len(rest) /\ rest = Tail(hash)
  OBVIOUS
<1>2. m \in Nat /\ Len(hash) = m + 1 /\ \A i \in 1..m : rest[i] = hash[i + 1]
  BY <1>1
<1>3. PICK h \in 0..255 : h = Head(hash) /\ h = hash[1]
  <2>1. Head(hash) = hash[1] /\ Head(hash) \in Byte
    OBVIOUS
  <2> QED BY <2>1 DEF Byte
<1>4. PICK r, q : r = Reverse(hash) /\ q = Reverse(rest)
  OBVIOUS
<1>5. Len(r) = m + 1 /\ \A i \in 1..(m + 1) : r[i] = hash[(m + 1) - i + 1]
  BY <1>2, <1>4 DEF Reverse
<1>6. Len(q) = m /\ \A i \in 1..m : q[i] = rest[m - i + 1]
  BY <1>1, <1>2, <1>4 DEF Reverse
<1>7. r[m + 1] = h
  <2>1. m + 1 \in 1..(m + 1) /\ (m + 1) - (m + 1) + 1 = 1
    BY <1>2
  <2> QED BY <1>3, <1>5, <2>1
<1>8. ASSUME NEW i \in 1..m
      PROVE  q[i] = r[i]
  <2>1. PICK j : j = m - i + 1
    OBVIOUS
  <2>2. j \in 1..m /\ i \in 1..(m + 1) /\ j + 1 = (m + 1) - i + 1
    BY <1>2, <2>1
  <2>3. q[i] = rest[j] /\ rest[j] = hash[j + 1]
    BY <1>2, <1>6, <2>1, <2>2
  <2>4. r[i] = hash[j + 1]
    BY <1>5, <2>2
  <2> QED BY <2>3, <2>4
<1>9. d = [i \in 1..(2 * (m + 1)) |-> IF i % 2 = 1 THEN r[(i + 1) \div 2] \div 16 ELSE r[i \div 2] % 16]
  BY <1>0, <1>4, <1>5 DEF HexDigits, toDisplayHex
<1>10. e = [i \in 1..(2 * m) |-> IF i % 2 = 1 THEN q[(i + 1) \div 2] \div 16 ELSE q[i \div 2] % 16]
  BY <1>0, <1>1, <1>4, <1>6 DEF HexDigits, toDisplayHex
<1>11. n = 2 * m
  BY <1>0, <1>1
<1>12. ASSUME NEW i \in 1..n
       PROVE  e[i] = d[i]
  <2>1. i \in 1..(2 * m) /\ i \in 1..(2 * (m + 1))
    BY <1>2, <1>11
  <2>2. CASE i % 2 = 1
    <3>1. PICK j : j = (i + 1) \div 2
      OBVIOUS
    <3>2. j \in 1..m
      BY <1>2, <2>1, <2>2, <3>1
    <3>3. e[i] = q[j] \div 16 /\ d[i] = r[j] \div 16
      BY <1>9, <1>10, <2>1, <2>2, <3>1
    <3> QED BY <1>8, <3>2, <3>3
  <2>3. CASE i % 2 # 1
    <3>1. PICK j : j = i \div 2
      OBVIOUS
    <3>2. j \in 1..m
      BY <1>2, <2>1, <2>3, <3>1
    <3>3. e[i] = q[j] % 16 /\ d[i] = r[j] % 16
      BY <1>9, <1>10, <2>1, <2>3, <3>1
    <3> QED BY <1>8, <3>2, <3>3
  <2> QED BY <2>2, <2>3
<1>13. d[n + 1] = h \div 16
  <2>1. n + 1 \in 1..(2 * (m + 1)) /\ (n + 1) % 2 = 1 /\ ((n + 1) + 1) \div 2 = m + 1
    BY <1>2, <1>11
  <2> QED BY <1>7, <1>9, <2>1
<1>14. d[n + 2] = h % 16
  <2>1. n + 2 \in 1..(2 * (m + 1)) /\ (n + 2) % 2 # 1 /\ (n + 2) \div 2 = m + 1
    BY <1>2, <1>11
  <2> QED BY <1>7, <1>9, <2>1
<1>15. h \div 16 \in 0..15 /\ h % 16 \in 0..15 /\ h = 16 * (h \div 16) + (h % 16)
  OBVIOUS
<1>16. TwoMore(d, e, n, h)
  BY <1>12, <1>13, <1>14, <1>15 DEF TwoMore
<1> QED BY <1>0, <1>3, <1>16, Zenon

\* The digits of a hash stand for its value.
LEMMA DigitsLead ==
  ASSUME Base = 256
  PROVE  \A k \in Nat : \A hash \in Seq(Byte) :
           Len(hash) = k => Leading(HexDigits(hash), 2 * k, Unsigned(hash))
<1> DEFINE Good(hash, k) == Leading(HexDigits(hash), 2 * k, Unsigned(hash))
           S == {k \in Nat : \A hash \in Seq(Byte) : Len(hash) = k => Good(hash, k)}
<1>1. 0 \in S
  <2> SUFFICES ASSUME NEW hash \in Seq(Byte), Len(hash) = 0
               PROVE  Good(hash, 0)
    OBVIOUS
  <2>1. hash = <<>> /\ hash \in Seq(Int)
    BY BytesAreInts
  <2>2. Unsigned(hash) = 0
    BY <2>1, UnsignedIs
  <2>3. 2 * 0 = 0 /\ \A i \in 1..0 : FALSE
    OBVIOUS
  <2> QED BY <2>2, <2>3 DEF Leading
<1>2. ASSUME NEW k \in Nat, k \in S
      PROVE  k + 1 \in S
  <2> SUFFICES ASSUME NEW hash \in Seq(Byte), Len(hash) = k + 1
               PROVE  Good(hash, k + 1)
    OBVIOUS
  <2>1. PICK rest, h, n, d, e : /\ rest = Tail(hash) /\ h = Head(hash) /\ n = 2 * k
                                /\ d = HexDigits(hash) /\ e = HexDigits(rest)
    OBVIOUS
  <2>2. hash # <<>> /\ rest \in Seq(Byte) /\ Len(rest) = k
    BY <2>1
  <2>3. PICK u \in Nat : u = Unsigned(rest)
    BY <2>2, UnsignedNat
  <2>4. Unsigned(hash) = h + 256 * u
    BY <2>1, <2>2, <2>3, BytesAreInts, UnsignedIs
  <2>5. TwoMore(d, e, n, h)
    <3>1. n = 2 * Len(Tail(hash))
      BY <2>1, <2>2
    <3>2. TwoMore(HexDigits(hash), HexDigits(Tail(hash)), 2 * Len(Tail(hash)), Head(hash))
      BY <2>2, DigitsNext, Zenon
    <3> QED BY <2>1, <3>1, <3>2, Zenon
  <2>6. Leading(e, n, u)
    BY <1>2, <2>1, <2>2, <2>3
  <2>7. Leading(d, n, u)
    <3>1. n \in Nat /\ \A i \in 1..n : e[i] = d[i]
      BY <2>1, <2>5 DEF TwoMore
    <3> QED BY <2>6, <3>1, LeadingSame
  <2>8. PICK x \in 0..15, y \in 0..15 : x = d[n + 1] /\ y = d[n + 2] /\ h = 16 * x + y
    BY <2>5 DEF TwoMore
  <2>9. PICK m \in Nat, v \in Nat : m = n + 1 /\ v = 16 * u + x
    <3>1. n = 2 * k
      BY <2>1
    <3>2. n + 1 \in Nat
      BY <3>1
    <3>3. 16 * u + x \in Nat
      OBVIOUS
    <3> QED BY <3>2, <3>3, Zenon
  <2>10. n \in Nat /\ m + 1 = n + 2 /\ n + 2 = 2 * (k + 1)
    BY <2>1, <2>9
  <2>11. Leading(d, m, v)
    BY <2>7, <2>8, <2>9, <2>10, LeadingNext
  <2>12. d[m + 1] = y
    BY <2>8, <2>10
  <2>13. Leading(d, m + 1, 16 * v + y)
    BY <2>11, <2>12, LeadingNext
  <2>14. 16 * v + y = h + 256 * u
    <3>1. 16 * (16 * u + x) + y = (16 * x + y) + 256 * u
      OBVIOUS
    <3> QED BY <2>8, <2>9, <3>1
  <2>15. d = HexDigits(hash) /\ m + 1 = 2 * (k + 1) /\ Unsigned(hash) = 16 * v + y
    BY <2>1, <2>4, <2>10, <2>14
  <2> QED BY <2>13, <2>15
<1>3. Nat \subseteq S
  <2> HIDE DEF S
  <2> QED BY <1>1, <1>2, SetInduction
<1> QED BY <1>3

\* The server's count of zero bits is the page's count for the same value.
LEMMA SameZeros ==
  ASSUME Base = 256, NEW hash \in Seq(Byte)
  PROVE  countLeadingZeroBits(hash) = hexLeadingZeroBits(HexDigits(hash))
<1>1. PICK d, k, n, u : /\ d = HexDigits(hash) /\ k = Len(hash) /\ n = 2 * k
                        /\ u = Unsigned(hash)
  OBVIOUS
<1>2. k \in Nat /\ n \in Nat /\ 8 * k = 4 * n /\ Len(d) = n
  <2>1. Len(toDisplayHex(hash)) = k
    BY <1>1 DEF toDisplayHex, Reverse
  <2> QED BY <1>1, <2>1 DEF HexDigits
<1>3. Leading(d, n, u)
  BY <1>1, <1>2, DigitsLead
<1>4. countLeadingZeroBits(hash) = 4 * n - BitLength(u)
  BY <1>1, <1>2 DEF countLeadingZeroBits, hashToBigInt
<1>5. ASSUME NEW z \in 0..n, \A i \in 1..z : d[i] = 0, z < n => d[z + 1] # 0
      PROVE  hexLeadingZeroBits(d) =
               4 * z + (IF z = n THEN 0 ELSE 4 - BitLength(d[z + 1]))
  <2>1. PICK y : y = ZeroDigits(d)
    OBVIOUS
  <2>2. y \in 0..n /\ (\A i \in 1..y : d[i] = 0) /\ (y < n => d[y + 1] # 0)
    BY <1>2, <1>5, <2>1 DEF ZeroDigits
  <2>3. y = z
    <3>1. ~(y < z)
      <4> SUFFICES ASSUME y < z PROVE FALSE
        OBVIOUS
      <4>1. y + 1 \in 1..z /\ y < n
        BY <1>2, <2>2
      <4> QED BY <1>5, <2>2, <4>1
    <3>2. ~(z < y)
      <4> SUFFICES ASSUME z < y PROVE FALSE
        OBVIOUS
      <4>1. z + 1 \in 1..y /\ z < n
        BY <1>2, <2>2
      <4> QED BY <1>5, <2>2, <4>1
    <3> QED BY <2>2, <3>1, <3>2
  <2> QED BY <1>2, <2>1, <2>3 DEF hexLeadingZeroBits
<1>6. CASE u = 0 /\ \A i \in 1..n : d[i] = 0
  <2>1. hexLeadingZeroBits(d) = 4 * n + 0
    BY <1>2, <1>5, <1>6
  <2> QED BY <1>1, <1>2, <1>4, <1>6, <2>1, BitLengthOrdered
<1>7. CASE \E z \in 0..(n - 1) :
             /\ \A i \in 1..z : d[i] = 0
             /\ d[z + 1] \in 1..15
             /\ u \in Nat \ {0}
             /\ BitLength(u) = 4 * (n - z - 1) + BitLength(d[z + 1])
  <2>1. PICK z \in 0..(n - 1) :
          /\ \A i \in 1..z : d[i] = 0
          /\ d[z + 1] \in 1..15
          /\ BitLength(u) = 4 * (n - z - 1) + BitLength(d[z + 1])
    BY <1>7
  <2>2. PICK b \in Nat : b = BitLength(d[z + 1])
    <3>1. PICK x \in 1..15 : x = d[z + 1]
      BY <2>1
    <3>2. x \in Nat
      OBVIOUS
    <3> QED BY <3>1, <3>2, BitLengthIs
  <2>3. z \in 0..n /\ z # n /\ d[z + 1] # 0
    <3>1. d[z + 1] # 0
      <4>1. 0 \notin 1..15
        OBVIOUS
      <4> QED BY <2>1, <4>1
    <3> QED BY <1>2, <3>1
  <2>4. hexLeadingZeroBits(d) = 4 * z + (4 - b)
    BY <1>5, <2>1, <2>2, <2>3
  <2> QED BY <1>1, <1>2, <1>4, <2>1, <2>2, <2>4
<1> QED BY <1>3, <1>6, <1>7 DEF Leading

-----------------------------------------------------------------------------
(* The Merkle tree *)

\* The function inside computeMerkleRoot.
Levels(ids, n) ==
  CHOOSE f : f = [i \in 0..n |->
                    IF i = 0 THEN [j \in DOMAIN ids |-> toInternalOrder(ids[j])]
                    ELSE merkleParents(f[i - 1])]

\* There is a level above every level.
LEMMA LevelsExist ==
  ASSUME NEW a
  PROVE  \A k \in Nat : \E f : f = [i \in 0..k |-> IF i = 0 THEN a ELSE merkleParents(f[i - 1])]
<1> DEFINE Good(f, k) == f = [i \in 0..k |-> IF i = 0 THEN a ELSE merkleParents(f[i - 1])]
           S == {k \in Nat : \E f : Good(f, k)}
<1>1. 0 \in S
  <2> DEFINE f == [i \in 0..0 |-> a]
  <2>1. Good(f, 0)
    OBVIOUS
  <2> QED BY <2>1
<1>2. ASSUME NEW k \in Nat, k \in S
      PROVE  k + 1 \in S
  <2>1. PICK f : Good(f, k)
    BY <1>2
  <2> DEFINE h == [i \in 0..(k + 1) |-> IF i = k + 1 THEN merkleParents(f[k]) ELSE f[i]]
  <2>2. ASSUME NEW i \in 0..(k + 1)
        PROVE  h[i] = IF i = 0 THEN a ELSE merkleParents(h[i - 1])
    <3>1. CASE i = 0
      BY <2>1, <3>1
    <3>2. CASE i = k + 1
      <4>1. i # 0 /\ i - 1 = k /\ k \in 0..(k + 1) /\ k # k + 1
        BY <3>2
      <4>2. h[k] = f[k] /\ h[i] = merkleParents(f[k])
        BY <3>2, <4>1
      <4> QED BY <4>1, <4>2
    <3>3. CASE i \in 1..k
      <4>1. i # 0 /\ i \in 0..k /\ i - 1 \in 0..(k + 1) /\ i # k + 1 /\ i - 1 # k + 1
        BY <3>3
      <4>2. f[i] = merkleParents(f[i - 1])
        BY <2>1, <4>1
      <4> QED BY <4>1, <4>2
    <3> QED BY <3>1, <3>2, <3>3
  <2>3. h = [i \in 0..(k + 1) |-> h[i]]
    OBVIOUS
  <2> HIDE DEF h
  <2>4. Good(h, k + 1)
    BY <2>2, <2>3
  <2> QED BY <2>4
<1>3. Nat \subseteq S
  <2> HIDE DEF S
  <2> QED BY <1>1, <1>2, SetInduction
<1> QED BY <1>3

\* Each level is that of the parents of the one before.
LEMMA LevelsAre ==
  ASSUME NEW ids, NEW n \in Nat, NEW f, f = Levels(ids, n)
  PROVE  /\ f[0] = [j \in DOMAIN ids |-> toInternalOrder(ids[j])]
         /\ \A i \in 0..(n - 1) : f[i + 1] = merkleParents(f[i])
<1>1. PICK a : a = [j \in DOMAIN ids |-> toInternalOrder(ids[j])]
  OBVIOUS
<1>2. f = CHOOSE g : g = [i \in 0..n |-> IF i = 0 THEN a ELSE merkleParents(g[i - 1])]
  BY <1>1 DEF Levels
<1>3. \E g : g = [i \in 0..n |-> IF i = 0 THEN a ELSE merkleParents(g[i - 1])]
  BY LevelsExist
<1>4. f = [i \in 0..n |-> IF i = 0 THEN a ELSE merkleParents(f[i - 1])]
  BY <1>2, <1>3
<1>5. ASSUME NEW i \in 0..(n - 1)
      PROVE  f[i + 1] = merkleParents(f[i])
  <2>1. PICK m : m = i + 1
    OBVIOUS
  <2>2. m \in 0..n /\ m # 0 /\ m - 1 = i
    BY <2>1
  <2>3. f[m] = IF m = 0 THEN a ELSE merkleParents(f[m - 1])
    BY <1>4, <2>2
  <2> QED BY <2>1, <2>2, <2>3
<1>6. f[0] = a
  BY <1>4
<1> QED BY <1>1, <1>5, <1>6

\* Node j of the row above the row `below`, of a tree over n leaves.
NodeAbove(below, i, j, n) ==
  LET right == IF TimesPower(2 * j + 1, 2, i - 1) < n THEN 2 * j + 1 ELSE 2 * j
  IN Hash(below[2 * j] \o below[right])

\* The places of row i.
Places(i, n) == {j \in 0..(n - 1) : TimesPower(j, 2, i) < n}

\* f is the rows up to row k of a tree over n leaves.
AreRows(f, leaves, n, k) ==
  f = [i \in 0..k |->
         [j \in Places(i, n) |->
            IF i = 0 THEN leaves[j + 1] ELSE NodeAbove(f[i - 1], i, j, n)]]

\* The function inside TreeRoot.
Rows(leaves, n, depth) == CHOOSE f : AreRows(f, leaves, n, depth)

\* There is a row above every row.
LEMMA RowsExist ==
  ASSUME NEW leaves, NEW n
  PROVE  \A k \in Nat : \E f : AreRows(f, leaves, n, k)
<1> DEFINE Row(g, i) == [j \in Places(i, n) |->
                           IF i = 0 THEN leaves[j + 1] ELSE NodeAbove(g, i, j, n)]
           Good(f, k) == f = [i \in 0..k |-> Row(f[i - 1], i)]
           S == {k \in Nat : \E f : Good(f, k)}
<1>0. \A g, h : Row(g, 0) = Row(h, 0)
  OBVIOUS
<1>1. 0 \in S
  <2>1. PICK b : b = Row(0, 0)
    OBVIOUS
  <2> DEFINE f == [i \in 0..0 |-> b]
  <2>2. \A i \in 0..0 : Row(f[i - 1], i) = b
    <3> HIDE DEF Row
    <3> QED BY <1>0, <2>1
  <2> HIDE DEF Row
  <2>3. Good(f, 0)
    BY <2>2
  <2> QED BY <2>3
<1> HIDE DEF Row
<1>2. ASSUME NEW k \in Nat, k \in S
      PROVE  k + 1 \in S
  <2>1. PICK f : Good(f, k)
    BY <1>2
  <2> DEFINE h == [i \in 0..(k + 1) |-> IF i = k + 1 THEN Row(f[k], k + 1) ELSE f[i]]
  <2>2. ASSUME NEW i \in 0..(k + 1)
        PROVE  h[i] = Row(h[i - 1], i)
    <3>1. CASE i = 0
      <4>1. h[i] = f[0] /\ f[0] = Row(f[0 - 1], 0)
        BY <2>1, <3>1
      <4> QED BY <1>0, <3>1, <4>1
    <3>2. CASE i = k + 1
      <4>1. i - 1 = k /\ k \in 0..(k + 1) /\ k # k + 1
        BY <3>2
      <4>2. h[k] = f[k] /\ h[i] = Row(f[k], k + 1)
        BY <3>2, <4>1
      <4> QED BY <3>2, <4>1, <4>2
    <3>3. CASE i \in 1..k
      <4>1. i \in 0..k /\ i - 1 \in 0..(k + 1) /\ i # k + 1 /\ i - 1 # k + 1
        BY <3>3
      <4>2. f[i] = Row(f[i - 1], i)
        BY <2>1, <4>1
      <4> QED BY <4>1, <4>2
    <3> QED BY <3>1, <3>2, <3>3
  <2>3. h = [i \in 0..(k + 1) |-> h[i]]
    OBVIOUS
  <2> HIDE DEF h
  <2>4. Good(h, k + 1)
    BY <2>2, <2>3
  <2> QED BY <2>4
<1>3. Nat \subseteq S
  <2> HIDE DEF S
  <2> QED BY <1>1, <1>2, SetInduction
<1>4. ASSUME NEW k \in Nat PROVE \E f : AreRows(f, leaves, n, k)
  <2>1. PICK f : Good(f, k)
    BY <1>3
  <2>2. AreRows(f, leaves, n, k)
    BY <2>1 DEF AreRows, Row
  <2> QED BY <2>2
<1> QED BY <1>4

\* Each row is that of the nodes above the one before.
LEMMA RowsAre ==
  ASSUME NEW leaves, NEW n, NEW depth \in Nat, NEW f, f = Rows(leaves, n, depth)
  PROVE  /\ f[0] = [j \in Places(0, n) |-> leaves[j + 1]]
         /\ \A i \in 0..(depth - 1) :
              f[i + 1] = [j \in Places(i + 1, n) |-> NodeAbove(f[i], i + 1, j, n)]
<1>1. AreRows(f, leaves, n, depth)
  BY RowsExist DEF Rows
<1>2. f = [i \in 0..depth |->
             [j \in Places(i, n) |->
                IF i = 0 THEN leaves[j + 1] ELSE NodeAbove(f[i - 1], i, j, n)]]
  BY <1>1 DEF AreRows
<1>3. f[0] = [j \in Places(0, n) |-> leaves[j + 1]]
  <2>1. f[0] = [j \in Places(0, n) |->
                  IF 0 = 0 THEN leaves[j + 1] ELSE NodeAbove(f[0 - 1], 0, j, n)]
    BY <1>2
  <2> QED BY <2>1
<1>4. ASSUME NEW i \in 0..(depth - 1)
      PROVE  f[i + 1] = [j \in Places(i + 1, n) |-> NodeAbove(f[i], i + 1, j, n)]
  <2>1. PICK m : m = i + 1
    OBVIOUS
  <2>2. m \in 0..depth /\ m # 0 /\ m - 1 = i
    BY <2>1
  <2>3. f[m] = [j \in Places(m, n) |->
                  IF m = 0 THEN leaves[j + 1] ELSE NodeAbove(f[m - 1], m, j, n)]
    BY <1>2, <2>2
  <2> QED BY <2>1, <2>2, <2>3
<1> QED BY <1>3, <1>4

\* The least d at which one node is over all leaves.
IsDepth(d, n) == TimesPower(1, 2, d) >= n /\ \A e \in 0..(d - 1) : TimesPower(1, 2, e) < n

\* A tree has a depth.
LEMMA DepthExists ==
  ASSUME NEW n \in Nat
  PROVE  \E d \in 0..n : IsDepth(d, n)
<1>1. TimesPower(1, 2, n) >= n
  <2> DEFINE S == {k \in Nat : TimesPower(1, 2, k) >= k}
  <2>1. 0 \in S
    BY PowersOfTwo
  <2>2. ASSUME NEW k \in Nat, k \in S
        PROVE  k + 1 \in S
    BY <2>2, PowersOfTwo
  <2> HIDE DEF S
  <2>3. Nat \subseteq S
    BY <2>1, <2>2, SetInduction
  <2> QED BY <2>3 DEF S
<1> DEFINE S == {k \in Nat : TimesPower(1, 2, k) >= n => \E d \in 0..k : IsDepth(d, n)}
<1>2. 0 \in S
  BY DEF IsDepth
<1>3. ASSUME NEW k \in Nat, k \in S
      PROVE  k + 1 \in S
  <2> SUFFICES ASSUME TimesPower(1, 2, k + 1) >= n
               PROVE  \E d \in 0..(k + 1) : IsDepth(d, n)
    OBVIOUS
  <2>1. CASE TimesPower(1, 2, k) >= n
    <3>1. PICK d \in 0..k : IsDepth(d, n)
      BY <1>3, <2>1
    <3> QED BY <3>1
  <2>2. CASE TimesPower(1, 2, k) < n
    <3>1. ASSUME NEW e \in 0..k
          PROVE  TimesPower(1, 2, e) < n
      <4>1. PICK i \in Nat : k = e + i
        <5>1. k - e \in Nat /\ k = e + (k - e)
          OBVIOUS
        <5> QED BY <5>1
      <4>2. TimesPower(1, 2, e) <= TimesPower(1, 2, k)
        BY <4>1, PowersGrow
      <4>3. TimesPower(1, 2, e) \in Nat /\ TimesPower(1, 2, k) \in Nat
        BY PowersOfTwo
      <4> QED BY <2>2, <4>2, <4>3
    <3>2. IsDepth(k + 1, n)
      <4>1. (k + 1) - 1 = k
        OBVIOUS
      <4> QED BY <3>1, <4>1 DEF IsDepth
    <3> QED BY <3>2
  <2>3. TimesPower(1, 2, k) \in Nat
    BY PowersOfTwo
  <2> QED BY <2>1, <2>2, <2>3
<1>4. Nat \subseteq S
  <2> HIDE DEF S
  <2> QED BY <1>2, <1>3, SetInduction
<1> QED BY <1>1, <1>4

\* `level` holds the nodes of the row i, which are w.
Matches(level, row, w, i, n) ==
  /\ w \in 1..n
  /\ level = [p \in 1..w |-> row[p - 1]]
  /\ \A j \in Nat : j < w <=> TimesPower(j, 2, i) < n

\* The parents of a level are the nodes above its row.
LEMMA ParentsMatch ==
  ASSUME NEW n \in Nat, NEW i \in Nat, NEW w, NEW level, NEW row, Matches(level, row, w, i, n),
         NEW above, above = [j \in Places(i + 1, n) |-> NodeAbove(row, i + 1, j, n)]
  PROVE  Matches(merkleParents(level), above, (w + 1) \div 2, i + 1, n)
<1>1. PICK v : v = (w + 1) \div 2
  OBVIOUS
<1>2. w \in 1..n /\ v \in 1..n /\ v <= w
  BY <1>1 DEF Matches
<1>3. ASSUME NEW j \in Nat
      PROVE  j < v <=> TimesPower(j, 2, i + 1) < n
  <2>1. TimesPower(j, 2, i + 1) = TimesPower(2 * j, 2, i)
    BY TimesPowerFirst
  <2>2. 2 * j \in Nat /\ (j < v <=> 2 * j < w)
    BY <1>1, <1>2
  <2> QED BY <2>1, <2>2 DEF Matches
<1>4. Len(level) = w
  BY <1>2 DEF Matches
<1>5. ASSUME NEW p \in 1..v
      PROVE  Hash(level[2 * p - 1] \o (IF 2 * p <= w THEN level[2 * p] ELSE level[2 * p - 1]))
               = above[p - 1]
  <2>1. PICK j : j = p - 1
    OBVIOUS
  <2>2. j \in Nat /\ j \in 0..(n - 1) /\ j < v /\ 2 * j \in Nat /\ 2 * j + 1 \in Nat
    BY <1>2, <2>1
  <2>3. above[j] = NodeAbove(row, i + 1, j, n)
    BY <1>3, <2>2 DEF Places
  <2>4. PICK right : right = IF TimesPower(2 * j + 1, 2, i) < n THEN 2 * j + 1 ELSE 2 * j
    OBVIOUS
  <2>5. NodeAbove(row, i + 1, j, n) = Hash(row[2 * j] \o row[right])
    <3>1. (i + 1) - 1 = i
      OBVIOUS
    <3> QED BY <2>4, <3>1 DEF NodeAbove
  <2>6. 2 * p - 1 \in 1..w /\ (2 * p - 1) - 1 = 2 * j
    BY <1>1, <1>2, <2>1
  <2>7. level[2 * p - 1] = row[2 * j]
    BY <2>6 DEF Matches
  <2>8. 2 * p <= w <=> TimesPower(2 * j + 1, 2, i) < n
    <3>1. 2 * p <= w <=> 2 * j + 1 < w
      BY <1>2, <2>1
    <3> QED BY <2>2, <3>1 DEF Matches
  <2>9. (IF 2 * p <= w THEN level[2 * p] ELSE level[2 * p - 1]) = row[right]
    <3>1. CASE 2 * p <= w
      <4>1. 2 * p \in 1..w /\ 2 * p - 1 = 2 * j + 1
        BY <1>2, <2>1, <3>1
      <4>2. level[2 * p] = row[2 * j + 1]
        BY <4>1 DEF Matches
      <4> QED BY <2>4, <2>8, <3>1, <4>2
    <3>2. CASE ~(2 * p <= w)
      BY <2>4, <2>7, <2>8, <3>2
    <3> QED BY <3>1, <3>2
  <2> QED BY <2>1, <2>3, <2>5, <2>7, <2>9
<1>6. merkleParents(level) = [p \in 1..v |-> above[p - 1]]
  <2>1. merkleParents(level) =
          [p \in 1..v |->
             Hash(level[2 * p - 1] \o (IF 2 * p <= w THEN level[2 * p] ELSE level[2 * p - 1]))]
    BY <1>1, <1>4 DEF merkleParents
  <2> QED BY <1>5, <2>1
<1> QED BY <1>1, <1>2, <1>3, <1>6 DEF Matches

\* Level i of the code is row i of the tree, and is the last if i is its depth.
LEMMA LevelsMatch ==
  ASSUME NEW n \in Nat \ {0}, NEW depth \in 0..n, NEW level, NEW row,
         level[0] = [p \in 1..n |-> row[0][p - 1]],
         \A i \in 0..(n - 1) : level[i + 1] = merkleParents(level[i]),
         \A i \in 0..(depth - 1) :
           row[i + 1] = [j \in Places(i + 1, n) |-> NodeAbove(row[i], i + 1, j, n)]
  PROVE  \A i \in 0..depth : \E w : Matches(level[i], row[i], w, i, n)
<1> DEFINE S == {i \in Nat : i \in 0..depth => \E w : Matches(level[i], row[i], w, i, n)}
<1>1. 0 \in S
  <2>1. \A j \in Nat : TimesPower(j, 2, 0) = j
    BY TimesPowerIs
  <2>2. Matches(level[0], row[0], n, 0, n)
    BY <2>1 DEF Matches
  <2> QED BY <2>2
<1>2. ASSUME NEW i \in Nat, i \in S
      PROVE  i + 1 \in S
  <2> SUFFICES ASSUME i + 1 \in 0..depth
               PROVE  \E w : Matches(level[i + 1], row[i + 1], w, i + 1, n)
    OBVIOUS
  <2>1. i \in 0..depth /\ i \in 0..(depth - 1) /\ i \in 0..(n - 1) /\ n \in Nat
    OBVIOUS
  <2>2. PICK w : Matches(level[i], row[i], w, i, n)
    BY <1>2, <2>1
  <2>3. Matches(merkleParents(level[i]), row[i + 1], (w + 1) \div 2, i + 1, n)
    BY <2>1, <2>2, ParentsMatch
  <2> QED BY <2>1, <2>3
<1>3. Nat \subseteq S
  <2> HIDE DEF S
  <2> QED BY <1>1, <1>2, SetInduction
<1> QED BY <1>3

\* The root that the code computes is that of the tree.
LEMMA RootOfTree ==
  ASSUME NEW n \in Nat \ {0}, NEW leaves, Len(leaves) = n,
         NEW ids, Len(ids) = n, DOMAIN ids = 1..n,
         \A p \in 1..n : toInternalOrder(ids[p]) = leaves[p]
  PROVE  computeMerkleRoot(ids) = TreeRoot(leaves)
<1> DEFINE last == CHOOSE i \in 0..n :
                     Len(Levels(ids, n)[i]) = 1 /\ \A j \in 0..(i - 1) : Len(Levels(ids, n)[j]) > 1
           deep == CHOOSE d \in 0..n : IsDepth(d, n)
<1>1. computeMerkleRoot(ids) = Levels(ids, n)[last][1]
  BY DEF computeMerkleRoot, Levels
<1>2. TreeRoot(leaves) = Rows(leaves, n, deep)[deep][0]
  BY DEF TreeRoot, Rows, AreRows, Places, NodeAbove, IsDepth
<1>3. PICK level, depth, row :
        level = Levels(ids, n) /\ depth = deep /\ row = Rows(leaves, n, depth)
  OBVIOUS
<1>4. depth \in 0..n /\ depth \in Nat /\ IsDepth(depth, n)
  <2>1. n \in Nat
    OBVIOUS
  <2>2. deep \in 0..n /\ IsDepth(deep, n)
    BY <2>1, DepthExists
  <2> QED BY <1>3, <2>2
<1> HIDE DEF deep
<1>5. /\ level[0] = [j \in DOMAIN ids |-> toInternalOrder(ids[j])]
      /\ \A i \in 0..(n - 1) : level[i + 1] = merkleParents(level[i])
  BY <1>3, LevelsAre
<1>6. /\ row[0] = [j \in Places(0, n) |-> leaves[j + 1]]
      /\ \A i \in 0..(depth - 1) :
           row[i + 1] = [j \in Places(i + 1, n) |-> NodeAbove(row[i], i + 1, j, n)]
  BY <1>3, <1>4, RowsAre
<1>7. level[0] = [p \in 1..n |-> row[0][p - 1]]
  <2>1. ASSUME NEW p \in 1..n
        PROVE  row[0][p - 1] = leaves[p]
    <3>1. PICK j : j = p - 1
      OBVIOUS
    <3>2. j \in Nat /\ j \in 0..(n - 1) /\ TimesPower(j, 2, 0) = j /\ j + 1 = p
      BY <3>1, TimesPowerIs
    <3>3. j \in Places(0, n)
      BY <3>2 DEF Places
    <3> QED BY <1>6, <3>1, <3>2, <3>3
  <2> QED BY <1>5, <2>1
<1>8. ASSUME NEW i \in 0..depth
      PROVE  /\ \E w : Matches(level[i], row[i], w, i, n)
             /\ Len(level[i]) = 1 <=> TimesPower(1, 2, i) >= n
             /\ Len(level[i]) > 1 <=> TimesPower(1, 2, i) < n
  <2>1. PICK w : Matches(level[i], row[i], w, i, n)
    BY <1>4, <1>5, <1>6, <1>7, LevelsMatch
  <2>2. w \in 1..n /\ level[i] = [p \in 1..w |-> row[i][p - 1]]
    BY <2>1 DEF Matches
  <2>3. Len(level[i]) = w
    BY <2>2
  <2>4. 1 < w <=> TimesPower(1, 2, i) < n
    BY <2>1 DEF Matches
  <2>5. PICK t \in Nat : t = TimesPower(1, 2, i)
    BY PowersOfTwo
  <2>6. (w = 1 <=> t >= n) /\ (w > 1 <=> t < n)
    <3>1. w \in Nat /\ w >= 1 /\ n \in Nat /\ (1 < w <=> t < n)
      BY <2>2, <2>4, <2>5
    <3> QED BY <3>1
  <2> QED BY <2>1, <2>3, <2>5, <2>6
<1>9. last = depth
  <2>1. Len(level[depth]) = 1 /\ \A j \in 0..(depth - 1) : Len(level[j]) > 1
    <3>1. Len(level[depth]) = 1
      BY <1>4, <1>8 DEF IsDepth
    <3>2. ASSUME NEW j \in 0..(depth - 1)
          PROVE  Len(level[j]) > 1
      <4>1. j \in 0..depth
        BY <1>4
      <4> QED BY <1>4, <1>8, <4>1 DEF IsDepth
    <3> QED BY <3>1, <3>2
  <2>2. /\ last \in 0..n /\ Len(level[last]) = 1
        /\ \A j \in 0..(last - 1) : Len(level[j]) > 1
    BY <1>3, <1>4, <2>1
  <2> HIDE DEF last
  <2>3. ~(last < depth)
    <3> SUFFICES ASSUME last < depth PROVE FALSE
      OBVIOUS
    <3>1. last \in 0..(depth - 1)
      BY <1>4, <2>2
    <3>2. Len(level[last]) > 1
      BY <2>1, <3>1
    <3> QED BY <2>2, <3>2
  <2>4. ~(depth < last)
    <3> SUFFICES ASSUME depth < last PROVE FALSE
      OBVIOUS
    <3>1. depth \in 0..(last - 1)
      BY <1>4, <2>2
    <3>2. Len(level[depth]) > 1
      BY <2>2, <3>1
    <3> QED BY <2>1, <3>2
  <2> QED BY <1>4, <2>2, <2>3, <2>4
<1> HIDE DEF last
<1>10. level[depth][1] = row[depth][0]
  <2>1. depth \in 0..depth
    BY <1>4
  <2>2. PICK w : Matches(level[depth], row[depth], w, depth, n)
    BY <1>8, <2>1
  <2>3. w \in 1..n /\ level[depth] = [p \in 1..w |-> row[depth][p - 1]]
    BY <2>2 DEF Matches
  <2>4. 1 \in 1..w /\ 1 - 1 = 0
    BY <2>3
  <2> QED BY <2>3, <2>4
<1> QED BY <1>1, <1>2, <1>3, <1>9, <1>10
=============================================================================
