-------------------------- MODULE SerializeProofs --------------------------
(***************************************************************************)
(* Proofs about Serialize.tla, for bytes of any even number of values.     *)
(* First induction and recursion over the natural numbers, with sets and   *)
(* functions in the place of operators: the encodings of the server are    *)
(* recursive functions over 0..k.                                          *)
(***************************************************************************)
EXTENDS Serialize, SequenceTheorems, WellFoundedInduction, TLAPS

-----------------------------------------------------------------------------
(* Induction *)

\* Numbers under each other.
Below == {p \in Nat \X Nat : p[1] < p[2]}

\* A set of numbers has a least one.
LEMMA BelowWF == IsWellFoundedOn(Below, Nat)
BY NatLessThanWellFounded DEF OpToRel, Below

\* Induction, for a set of numbers.  A property P is the set {n \in Nat : P(n)},
\* which the provers can put for S where they cannot put an operator.
LEMMA SetInduction ==
  ASSUME NEW S, 0 \in S, \A n \in Nat : n \in S => n + 1 \in S
  PROVE  Nat \subseteq S
<1> DEFINE T == Nat \ S
<1> SUFFICES ASSUME T # {} PROVE FALSE
  OBVIOUS
<1>1. PICK x \in T : \A y \in T : <<y, x>> \notin Below
  <2>1. T \subseteq Nat
    OBVIOUS
  <2> HIDE DEF T
  <2> QED BY <2>1, BelowWF, WFMin
<1>2. x \in Nat /\ x # 0 /\ x - 1 \in Nat /\ x - 1 \notin S
  <2>1. (x - 1) + 1 = x
    OBVIOUS
  <2> QED BY <2>1
<1>3. <<x - 1, x>> \in Below
  BY <1>2 DEF Below
<1> QED BY <1>1, <1>2, <1>3

-----------------------------------------------------------------------------
(* Recursive functions *)

\* f starts at a and makes its value at i from the one before, by g[i].
Iterates(f, k, V, a, g) ==
  f \in [0..k -> V] /\ f[0] = a /\ \A i \in 1..k : f[i] = g[i][f[i - 1]]

\* There is such a function.
LEMMA Iteration ==
  ASSUME NEW V, NEW a \in V, NEW g \in [Nat -> [V -> V]], NEW k \in Nat
  PROVE  \E f : Iterates(f, k, V, a, g)
<1> USE DEF Iterates
<1> DEFINE Good(f, j) == Iterates(f, j, V, a, g)
           S == {j \in Nat : \E f : Good(f, j)}
<1>1. 0 \in S
  <2>1. Good([i \in 0..0 |-> a], 0)
    OBVIOUS
  <2> QED BY <2>1
<1>2. ASSUME NEW j \in Nat, j \in S
      PROVE  j + 1 \in S
  <2>1. PICK f : Good(f, j)
    BY <1>2
  <2> DEFINE h == [i \in 0..(j + 1) |-> IF i = j + 1 THEN g[j + 1][f[j]] ELSE f[i]]
  <2>2. h \in [0..(j + 1) -> V]
    BY <2>1
  <2>3. h[0] = a
    BY <2>1
  <2>4. ASSUME NEW i \in 1..(j + 1)
        PROVE  h[i] = g[i][h[i - 1]]
    <3>1. i - 1 \in 0..j /\ h[i - 1] = f[i - 1]
      OBVIOUS
    <3>2. CASE i = j + 1
      BY <3>1, <3>2
    <3>3. CASE i \in 1..j
      BY <2>1, <3>1, <3>3
    <3> QED BY <3>2, <3>3
  <2> HIDE DEF h
  <2> QED BY <2>2, <2>3, <2>4
<1>3. Nat \subseteq S
  <2> HIDE DEF S
  <2> QED BY <1>1, <1>2, SetInduction
<1> QED BY <1>3

\* Two such functions are the same as far as both go.
LEMMA SameIteration ==
  ASSUME NEW V, NEW a, NEW k \in Nat, NEW m \in Nat, k <= m,
         NEW g, NEW f, Iterates(f, k, V, a, g), NEW h, Iterates(h, m, V, a, g)
  PROVE  \A i \in 0..k : f[i] = h[i]
<1> USE DEF Iterates
<1> DEFINE S == {i \in Nat : i \in 0..k => f[i] = h[i]}
<1>1. 0 \in S
  OBVIOUS
<1>2. ASSUME NEW i \in Nat, i \in S
      PROVE  i + 1 \in S
  <2> SUFFICES ASSUME i + 1 \in 0..k PROVE f[i + 1] = h[i + 1]
    OBVIOUS
  <2>1. f[i] = h[i] /\ i + 1 \in 1..k /\ i + 1 \in 1..m /\ (i + 1) - 1 = i
    BY <1>2
  <2> QED BY <2>1
<1>3. Nat \subseteq S
  <2> HIDE DEF S
  <2> QED BY <1>1, <1>2, SetInduction
<1> QED BY <1>3

-----------------------------------------------------------------------------
(* Shifted *)

Divides == [i \in Nat |-> [m \in Int |-> m \div Base]]

\* The function inside Shifted.
Rest(n, k) == CHOOSE f : f = [i \in 0..k |-> IF i = 0 THEN n ELSE f[i - 1] \div Base]

\* The function inside Shifted() is division by Base, repeated.
LEMMA RestIs ==
  ASSUME NEW n \in Int, NEW k \in Nat
  PROVE  Iterates(Rest(n, k), k, Int, n, Divides) /\ Shifted(n, k) = Rest(n, k)[k]
<1>1. Divides \in [Nat -> [Int -> Int]] /\ \A i \in Nat, m \in Int : Divides[i][m] = m \div Base
  BY BaseOK DEF Divides
<1>2. PICK f : Iterates(f, k, Int, n, Divides)
  BY <1>1, Iteration
<1>3. f = [i \in 0..k |-> IF i = 0 THEN n ELSE f[i - 1] \div Base]
  <2>1. ASSUME NEW i \in 1..k
        PROVE  f[i] = f[i - 1] \div Base
    <3>1. f[i - 1] \in Int /\ i \in Nat
      BY <1>2 DEF Iterates
    <3> QED BY <1>1, <1>2, <3>1 DEF Iterates
  <2> QED BY <1>2, <2>1 DEF Iterates
<1> DEFINE r == Rest(n, k)
<1>4. r = [i \in 0..k |-> IF i = 0 THEN n ELSE r[i - 1] \div Base]
  BY <1>3 DEF Rest
<1>5. r[0] = n /\ \A i \in 1..k : r[i] = r[i - 1] \div Base
  <2> HIDE DEF r
  <2> QED BY <1>4
<1>6. \A i \in 0..k : r[i] \in Int
  <2> HIDE DEF r
  <2> DEFINE S == {i \in Nat : i \in 0..k => r[i] \in Int}
  <2>1. 0 \in S
    BY <1>5
  <2>2. ASSUME NEW i \in Nat, i \in S
        PROVE  i + 1 \in S
    <3> SUFFICES ASSUME i + 1 \in 0..k PROVE r[i + 1] \in Int
      OBVIOUS
    <3>1. r[i + 1] = r[i] \div Base /\ r[i] \in Int
      BY <1>5, <2>2
    <3> QED BY <3>1, BaseOK
  <2>3. Nat \subseteq S
    <3> HIDE DEF S
    <3> QED BY <2>1, <2>2, SetInduction
  <2> QED BY <2>3
<1>7. Iterates(r, k, Int, n, Divides)
  <2> HIDE DEF r
  <2>1. \A i \in 0..k : r[i] \in Int
    BY <1>6
  <2>2. \A i \in 1..k : Divides[i][r[i - 1]] = r[i - 1] \div Base
    BY <1>1, <2>1
  <2>3. r \in [0..k -> Int]
    BY <1>4, <2>1
  <2> QED BY <1>5, <2>2, <2>3 DEF Iterates
<1> QED BY <1>7 DEF Shifted, Rest

\* Shifted() divides once more for every byte.
LEMMA ShiftedIs ==
  ASSUME NEW n \in Int, NEW k \in Nat
  PROVE  /\ Shifted(n, k) \in Int
         /\ Shifted(n, 0) = n
         /\ Shifted(n, k + 1) = Shifted(n, k) \div Base
<1>1. Iterates(Rest(n, k), k, Int, n, Divides) /\ Shifted(n, k) = Rest(n, k)[k]
  BY RestIs
<1>2. Iterates(Rest(n, 0), 0, Int, n, Divides) /\ Shifted(n, 0) = Rest(n, 0)[0]
  BY RestIs
<1>3. k + 1 \in Nat /\ k <= k + 1 /\ k \in 0..k /\ k + 1 \in 1..(k + 1) /\ (k + 1) - 1 = k
  OBVIOUS
<1>4. Iterates(Rest(n, k + 1), k + 1, Int, n, Divides) /\ Shifted(n, k + 1) = Rest(n, k + 1)[k + 1]
  BY <1>3, RestIs
<1>5. Rest(n, k)[k] = Rest(n, k + 1)[k]
  <2>1. PICK m, f, h : m = k + 1 /\ f = Rest(n, k) /\ h = Rest(n, m)
    OBVIOUS
  <2>2. m \in Nat /\ k <= m /\ Iterates(f, k, Int, n, Divides) /\ Iterates(h, m, Int, n, Divides)
    BY <1>1, <1>3, <1>4, <2>1
  <2>3. \A i \in 0..k : f[i] = h[i]
    BY <2>2, SameIteration
  <2> QED BY <1>3, <2>1, <2>3
<1>6. Shifted(n, k) \in Int
  BY <1>1, <1>3 DEF Iterates
<1>7. Shifted(n, k + 1) = Divides[k + 1][Shifted(n, k)]
  BY <1>1, <1>3, <1>4, <1>5 DEF Iterates
<1> QED BY <1>2, <1>3, <1>6, <1>7 DEF Iterates, Divides

\* The bytes come off from either end.
LEMMA ShiftedFirst ==
  ASSUME NEW n \in Int
  PROVE  \A k \in Nat : Shifted(n, k + 1) = Shifted(n \div Base, k)
<1> DEFINE S == {k \in Nat : Shifted(n, k + 1) = Shifted(n \div Base, k)}
<1>1. n \div Base \in Int
  BY BaseOK
<1>2. 0 \in S
  BY <1>1, ShiftedIs
<1>3. ASSUME NEW k \in Nat, k \in S
      PROVE  k + 1 \in S
  <2>1. k + 1 \in Nat
    OBVIOUS
  <2>2. Shifted(n, (k + 1) + 1) = Shifted(n, k + 1) \div Base
    BY <2>1, ShiftedIs
  <2> QED BY <1>1, <1>3, <2>1, <2>2, ShiftedIs
<1> HIDE DEF S
<1>4. Nat \subseteq S
  BY <1>2, <1>3, SetInduction
<1> QED BY <1>4 DEF S

\* What is left of a natural number is one.
LEMMA ShiftedNat ==
  ASSUME NEW n \in Nat
  PROVE  \A k \in Nat : Shifted(n, k) \in Nat
<1> DEFINE S == {k \in Nat : Shifted(n, k) \in Nat}
<1>2. 0 \in S
  BY ShiftedIs
<1>3. ASSUME NEW k \in Nat, k \in S
      PROVE  k + 1 \in S
  <2>1. Shifted(n, k) \div Base \in Nat
    BY <1>3, BaseOK
  <2> QED BY <1>3, <2>1, ShiftedIs
<1> HIDE DEF S
<1>4. Nat \subseteq S
  BY <1>2, <1>3, SetInduction
<1> QED BY <1>4 DEF S

-----------------------------------------------------------------------------
(* Unsigned and LE *)

Byte == 0..(Base - 1)

Adds(c, n) ==
  [i \in Nat |-> [m \in Int |-> (IF i \in 1..n THEN c[n + 1 - i] ELSE 0) + Base * m]]

\* One step of Unsigned(): the next byte down, beside Base times the value above it.
LEMMA AddsIs ==
  ASSUME NEW n \in Nat, NEW c \in [1..n -> Int]
  PROVE  /\ Adds(c, n) \in [Nat -> [Int -> Int]]
         /\ \A i \in 1..n, m \in Int : Adds(c, n)[i][m] = c[n + 1 - i] + Base * m
<1> DEFINE d == [i \in Nat |-> IF i \in 1..n THEN c[n + 1 - i] ELSE 0]
<1>1. d \in [Nat -> Int]
  OBVIOUS
<1>2. \A i \in 1..n : d[i] = c[n + 1 - i]
  OBVIOUS
<1>3. Adds(c, n) = [i \in Nat |-> [m \in Int |-> d[i] + Base * m]]
  BY DEF Adds
<1> HIDE DEF d
<1>4. \A i \in Nat, m \in Int : d[i] + Base * m \in Int
  <2>1. \A m \in Int : Base * m \in Int
    BY BaseOK
  <2> QED BY <1>1, <2>1
<1>5. \A i \in Nat : [m \in Int |-> d[i] + Base * m] \in [Int -> Int]
  BY <1>4
<1>6. Adds(c, n) \in [Nat -> [Int -> Int]]
  BY <1>3, <1>5
<1>7. \A i \in 1..n, m \in Int : Adds(c, n)[i][m] = d[i] + Base * m
  BY <1>3
<1> QED BY <1>2, <1>6, <1>7

\* The function inside Unsigned exists, and iterates Adds.
LEMMA ValuesExist ==
  ASSUME NEW n \in Nat, NEW c \in [1..n -> Int]
  PROVE  \E f : f = [i \in 0..n |-> IF i = 0 THEN 0 ELSE c[n + 1 - i] + Base * f[i - 1]]
<1> DEFINE g == Adds(c, n)
<1>1. /\ g \in [Nat -> [Int -> Int]]
      /\ \A i \in 1..n, m \in Int : g[i][m] = c[n + 1 - i] + Base * m
  BY AddsIs
<1> HIDE DEF g
<1>2. PICK f : Iterates(f, n, Int, 0, g)
  <2>1. 0 \in Int
    OBVIOUS
  <2> QED BY <1>1, <2>1, Iteration
<1>3. ASSUME NEW i \in 1..n
      PROVE  f[i] = c[n + 1 - i] + Base * f[i - 1]
  <2>1. f[i - 1] \in Int /\ f[i] = g[i][f[i - 1]]
    BY <1>2 DEF Iterates
  <2> QED BY <1>1, <2>1
<1>4. f \in [0..n -> Int] /\ f[0] = 0
  BY <1>2 DEF Iterates
<1>5. f = [i \in 0..n |-> IF i = 0 THEN 0 ELSE c[n + 1 - i] + Base * f[i - 1]]
  <2> DEFINE h == [i \in 0..n |-> IF i = 0 THEN 0 ELSE c[n + 1 - i] + Base * f[i - 1]]
  <2>1. \A i \in 0..n : f[i] = h[i]
    BY <1>3, <1>4
  <2>2. DOMAIN h = 0..n /\ h = [i \in DOMAIN h |-> h[i]]
    OBVIOUS
  <2> HIDE DEF h
  <2>3. f = h
    BY <1>4, <2>1, <2>2
  <2> QED BY <2>3 DEF h
<1> QED BY <1>5

\* A function that obeys the equation of Unsigned() takes these steps.
LEMMA ValuesIterate ==
  ASSUME NEW n \in Nat, NEW c \in [1..n -> Int],
         NEW r, r = [i \in 0..n |-> IF i = 0 THEN 0 ELSE c[n + 1 - i] + Base * r[i - 1]]
  PROVE  Iterates(r, n, Int, 0, Adds(c, n))
<1>1. r[0] = 0 /\ \A i \in 1..n : r[i] = c[n + 1 - i] + Base * r[i - 1]
  OBVIOUS
<1>2. \A i \in 0..n : r[i] \in Int
  <2> DEFINE S == {i \in Nat : i \in 0..n => r[i] \in Int}
  <2>1. 0 \in S
    BY <1>1
  <2>2. ASSUME NEW i \in Nat, i \in S
        PROVE  i + 1 \in S
    <3> SUFFICES ASSUME i + 1 \in 0..n PROVE r[i + 1] \in Int
      OBVIOUS
    <3>1. PICK k \in 1..n : k = i + 1
      OBVIOUS
    <3>2. r[k] = c[n + 1 - k] + Base * r[k - 1]
      BY <1>1
    <3>3. k - 1 = i /\ r[i] \in Int /\ n + 1 - k \in 1..n
      BY <2>2, <3>1
    <3>4. Base * r[i] \in Int /\ c[n + 1 - k] \in Int
      BY <3>3, BaseOK
    <3>5. r[k] \in Int
      <4>1. PICK u \in Int, v \in Int : u = Base * r[i] /\ v = c[n + 1 - k]
        BY <3>4
      <4>2. r[k] = v + u
        BY <3>2, <3>3, <4>1
      <4> QED BY <4>2
    <3> QED BY <3>1, <3>5
  <2>3. Nat \subseteq S
    <3> HIDE DEF S
    <3> QED BY <2>1, <2>2, SetInduction
  <2>4. ASSUME NEW i \in 0..n
        PROVE  r[i] \in Int
    <3>1. i \in Nat
      OBVIOUS
    <3>2. i \in S
      BY <2>3, <3>1
    <3> QED BY <3>2
  <2> QED BY <2>4
<1>3. \A i \in 1..n : Adds(c, n)[i][r[i - 1]] = c[n + 1 - i] + Base * r[i - 1]
  <2>1. \A i \in 1..n : r[i - 1] \in Int
    BY <1>2
  <2> QED BY <2>1, AddsIs
<1>4. r \in [0..n -> Int]
  BY <1>2
<1> QED BY <1>1, <1>3, <1>4 DEF Iterates

\* Unsigned() is the last value of such a function.
LEMMA UnsignedIterates ==
  ASSUME NEW bytes \in Seq(Int), NEW n, n = Len(bytes)
  PROVE  /\ n \in Nat /\ bytes \in [1..n -> Int]
         /\ \E f : Iterates(f, n, Int, 0, Adds(bytes, n)) /\ Unsigned(bytes) = f[n]
<1> DEFINE r == CHOOSE f : f = [i \in 0..n |-> IF i = 0 THEN 0 ELSE bytes[n + 1 - i] + Base * f[i - 1]]
<1>1. n \in Nat /\ bytes \in [1..n -> Int]
  OBVIOUS
<1>2. Unsigned(bytes) = r[n]
  BY DEF Unsigned
<1>3. r = [i \in 0..n |-> IF i = 0 THEN 0 ELSE bytes[n + 1 - i] + Base * r[i - 1]]
  BY <1>1, ValuesExist
<1> HIDE DEF r
<1>4. Iterates(r, n, Int, 0, Adds(bytes, n))
  BY <1>1, <1>3, ValuesIterate
<1> QED BY <1>1, <1>2, <1>4

\* The lowest byte comes first.
LEMMA UnsignedIs ==
  ASSUME NEW bytes \in Seq(Int)
  PROVE  /\ Unsigned(bytes) \in Int
         /\ bytes = <<>> => Unsigned(bytes) = 0
         /\ bytes # <<>> => Unsigned(bytes) = Head(bytes) + Base * Unsigned(Tail(bytes))
<1>1. PICK n : n = Len(bytes)
  OBVIOUS
<1>2. n \in Nat /\ bytes \in [1..n -> Int]
  BY <1>1, UnsignedIterates
<1>3. PICK f : Iterates(f, n, Int, 0, Adds(bytes, n)) /\ Unsigned(bytes) = f[n]
  BY <1>1, UnsignedIterates
<1>4. Unsigned(bytes) \in Int /\ (n = 0 => Unsigned(bytes) = 0)
  BY <1>2, <1>3 DEF Iterates
<1>5. ASSUME bytes # <<>>
      PROVE  Unsigned(bytes) = Head(bytes) + Base * Unsigned(Tail(bytes))
  <2>1. PICK rest : rest = Tail(bytes)
    OBVIOUS
  <2>2. PICK m : m = Len(rest)
    OBVIOUS
  <2>3. /\ rest \in Seq(Int) /\ m = n - 1 /\ n = m + 1 /\ Head(bytes) = bytes[1]
        /\ \A i \in 1..m : rest[i] = bytes[i + 1]
    BY <1>1, <1>5, <2>1, <2>2
  <2>4. m \in Nat /\ rest \in [1..m -> Int]
    BY <2>2, <2>3, UnsignedIterates
  <2>5. PICK h : Iterates(h, m, Int, 0, Adds(rest, m)) /\ Unsigned(rest) = h[m]
    BY <2>2, <2>3, UnsignedIterates
  <2>6. Iterates(h, m, Int, 0, Adds(bytes, n))
    <3>1. ASSUME NEW i \in 1..m
          PROVE  h[i] = Adds(bytes, n)[i][h[i - 1]]
      <4>1. h[i - 1] \in Int /\ h[i] = Adds(rest, m)[i][h[i - 1]]
        BY <2>4, <2>5 DEF Iterates
      <4>2. Adds(rest, m)[i][h[i - 1]] = rest[m + 1 - i] + Base * h[i - 1]
        BY <2>4, <4>1, AddsIs
      <4>3. Adds(bytes, n)[i][h[i - 1]] = bytes[n + 1 - i] + Base * h[i - 1]
        <5>1. i \in 1..n
          BY <2>3, <2>4
        <5> QED BY <1>2, <4>1, <5>1, AddsIs
      <4>4. rest[m + 1 - i] = bytes[n + 1 - i]
        <5>1. m + 1 - i \in 1..m /\ (m + 1 - i) + 1 = n + 1 - i
          BY <2>3, <2>4
        <5> QED BY <2>3, <5>1
      <4> QED BY <4>1, <4>2, <4>3, <4>4
    <3> QED BY <2>5, <3>1 DEF Iterates
  <2>7. f[m] = h[m]
    <3>1. m \in Nat /\ n \in Nat /\ m <= n /\ m \in 0..m /\ 0 \in Int
      BY <1>2, <2>3, <2>4
    <3>2. \A i \in 0..m : h[i] = f[i]
      <4>1. PICK g : g = Adds(bytes, n)
        OBVIOUS
      <4>2. Iterates(h, m, Int, 0, g) /\ Iterates(f, n, Int, 0, g)
        BY <1>3, <2>6, <4>1
      <4> QED BY <3>1, <4>2, SameIteration
    <3> QED BY <3>1, <3>2
  <2>8. f[n] = bytes[1] + Base * f[m]
    <3>1. n \in 1..n /\ m \in 0..n /\ n - 1 = m /\ n + 1 - n = 1
      BY <2>3, <2>4
    <3>2. f[n] = Adds(bytes, n)[n][f[m]] /\ f[m] \in Int
      BY <1>3, <3>1 DEF Iterates
    <3>3. Adds(bytes, n)[n][f[m]] = bytes[n + 1 - n] + Base * f[m]
      BY <1>2, <3>1, <3>2, AddsIs
    <3> QED BY <3>1, <3>2, <3>3
  <2> QED BY <1>3, <2>1, <2>3, <2>5, <2>7, <2>8
<1> QED BY <1>1, <1>4, <1>5

-----------------------------------------------------------------------------
(* LE *)

\* A number is its lowest byte and Base times the rest.
LEMMA DivMod ==
  ASSUME NEW n \in Int
  PROVE  /\ n \div Base \in Int /\ n % Base \in Byte
         /\ n = (n % Base) + Base * (n \div Base)
         /\ n \in Nat => n \div Base \in Nat
BY BaseOK DEF Byte

\* Bytes are integers.
LEMMA BytesAreInts ==
  ASSUME NEW s \in Seq(Byte)
  PROVE  s \in Seq(Int)
<1>1. Byte \subseteq Int
  BY DEF Byte
<1> QED BY <1>1, SeqMonotonic

\* LE() is the lowest byte, then LE() of the rest.
LEMMA LEIs ==
  ASSUME NEW n \in Int, NEW k \in Nat
  PROVE  /\ LE(n, k) \in Seq(Byte) /\ Len(LE(n, k)) = k
         /\ LE(n, k + 1) # <<>>
         /\ Head(LE(n, k + 1)) = n % Base
         /\ Tail(LE(n, k + 1)) = LE(n \div Base, k)
<1>1. \A i \in 1..(k + 1) : Shifted(n, i - 1) % Base \in Byte
  <2> TAKE i \in 1..(k + 1)
  <2>1. i - 1 \in Nat
    OBVIOUS
  <2> QED BY <2>1, ShiftedIs, DivMod
<1>2. LE(n, k) = [i \in 1..k |-> Shifted(n, i - 1) % Base]
  BY DEF LE
<1>3. LE(n, k) \in Seq(Byte) /\ Len(LE(n, k)) = k
  BY <1>1, <1>2
<1>4. LE(n, k + 1) = [i \in 1..(k + 1) |-> Shifted(n, i - 1) % Base]
  BY DEF LE
<1>5. LE(n, k + 1) \in Seq(Byte) /\ Len(LE(n, k + 1)) = k + 1 /\ LE(n, k + 1)[1] = Shifted(n, 1 - 1) % Base
  BY <1>1, <1>4
<1>6. LE(n \div Base, k) = [i \in 1..k |-> Shifted(n \div Base, i - 1) % Base]
  BY DEF LE
<1>7. Tail(LE(n, k + 1)) = [i \in 1..k |-> Shifted(n, (i + 1) - 1) % Base]
  BY <1>1, <1>4, <1>5
<1>8. \A i \in 1..k : Shifted(n, (i + 1) - 1) = Shifted(n \div Base, i - 1)
  <2> TAKE i \in 1..k
  <2>1. i - 1 \in Nat /\ (i - 1) + 1 = (i + 1) - 1
    OBVIOUS
  <2> QED BY <2>1, ShiftedFirst
<1>9. Tail(LE(n, k + 1)) = LE(n \div Base, k)
  BY <1>6, <1>7, <1>8
<1>10. LE(n, k + 1) # <<>> /\ Head(LE(n, k + 1)) = n % Base
  <2>1. PICK s : s = LE(n, k + 1)
    OBVIOUS
  <2>2. s # <<>> /\ Head(s) = s[1]
    BY <1>5, <2>1
  <2>3. 1 - 1 = 0
    OBVIOUS
  <2> QED BY <1>5, <2>1, <2>2, <2>3, ShiftedIs
<1> QED BY <1>3, <1>9, <1>10

\* LE() writes as many bytes as asked for.
LEMMA LETyped == \A n \in Int : \A k \in Nat : LE(n, k) \in Seq(Byte) /\ Len(LE(n, k)) = k
<1> TAKE n \in Int
<1> TAKE k \in Nat
<1> QED BY LEIs

\* Of a number the k lowest bytes are read back: it itself, or less of it.
LEMMA UnsignedLE ==
  \A k \in Nat : \A n \in Nat :
    /\ Unsigned(LE(n, k)) \in 0..n
    /\ Unsigned(LE(n, k)) = n <=> Shifted(n, k) = 0
<1> DEFINE Good(n, k) == Unsigned(LE(n, k)) \in 0..n /\ (Unsigned(LE(n, k)) = n <=> Shifted(n, k) = 0)
           S == {k \in Nat : \A n \in Nat : Good(n, k)}
<1>1. 0 \in S
  <2> SUFFICES ASSUME NEW n \in Nat PROVE Good(n, 0)
    OBVIOUS
  <2>1. LE(n, 0) = <<>> /\ Shifted(n, 0) = n
    BY LEIs, ShiftedIs
  <2>2. <<>> \in Seq(Int)
    OBVIOUS
  <2>3. Unsigned(<<>>) = 0
    BY <2>2, UnsignedIs
  <2> QED BY <2>1, <2>3
<1>2. ASSUME NEW k \in Nat, k \in S
      PROVE  k + 1 \in S
  <2> SUFFICES ASSUME NEW n \in Nat PROVE Good(n, k + 1)
    OBVIOUS
  <2>1. PICK q, r : q = n \div Base /\ r = n % Base
    OBVIOUS
  <2>2. q \in Nat /\ r \in Byte /\ n = r + Base * q
    BY <2>1, DivMod
  <2>3. Good(q, k)
    BY <1>2, <2>2
  <2>4. Unsigned(LE(n, k + 1)) = r + Base * Unsigned(LE(q, k))
    <3>1. PICK s : s = LE(n, k + 1)
      OBVIOUS
    <3>2. s \in Seq(Byte) /\ s # <<>> /\ Head(s) = r /\ Tail(s) = LE(q, k)
      <4>1. k + 1 \in Nat
        OBVIOUS
      <4>2. s \in Seq(Byte)
        BY <3>1, <4>1, LEIs
      <4>3. s # <<>> /\ Head(s) = n % Base /\ Tail(s) = LE(n \div Base, k)
        <5>1. n \in Int
          OBVIOUS
        <5> QED BY <3>1, <5>1, LEIs
      <4> QED BY <2>1, <4>2, <4>3
    <3> QED BY <3>1, <3>2, BytesAreInts, UnsignedIs
  <2>5. Shifted(n, k + 1) = Shifted(q, k)
    BY <2>1, ShiftedFirst
  <2>6. PICK u : u = Unsigned(LE(q, k))
    OBVIOUS
  <2>7. u \in 0..q /\ r \in Nat /\ Base \in Nat /\ Base > 0
    BY <2>2, <2>3, <2>6, BaseOK DEF Byte
  <2>8. r + Base * u \in 0..(r + Base * q) /\ (r + Base * u = r + Base * q <=> u = q)
    <3>1. PICK d \in Nat : q = u + d
      BY <2>2, <2>7
    <3>2. Base * q = Base * u + Base * d /\ Base * u \in Nat /\ Base * d \in Nat /\ (Base * d = 0 <=> d = 0)
      BY <2>7, <3>1
    <3> QED BY <2>7, <3>1, <3>2
  <2> QED BY <2>2, <2>3, <2>4, <2>5, <2>6, <2>8
<1>3. Nat \subseteq S
  <2> HIDE DEF S
  <2> QED BY <1>1, <1>2, SetInduction
<1> QED BY <1>3

-----------------------------------------------------------------------------
(* varInt *)

\* A byte, a field and what follows them.
LEMMA Prefixed ==
  ASSUME NEW b \in Byte, NEW s \in Seq(Byte), NEW rest \in Seq(Byte),
         NEW t, t = (<<b>> \o s) \o rest
  PROVE  /\ t \in Seq(Byte) /\ t # <<>> /\ Head(t) = b
         /\ <<b>> \o s \in Seq(Byte) /\ Len(<<b>> \o s) = Len(s) + 1
         /\ SubSeq(t, 2, Len(s) + 1) = s
<1> DEFINE u == <<b>> \o s
<1>1. u \in Seq(Byte) /\ Len(u) = Len(s) + 1 /\ Len(s) \in Nat
  OBVIOUS
<1>2. u[1] = b /\ \A i \in 1..Len(s) : u[i + 1] = s[i]
  OBVIOUS
<1> HIDE DEF u
<1>3. t \in Seq(Byte) /\ Len(t) = Len(s) + 1 + Len(rest) /\ Len(rest) \in Nat
  BY <1>1 DEF u
<1>4. t[1] = b /\ \A i \in 1..Len(s) : t[i + 1] = s[i]
  BY <1>1, <1>2, <1>3, ConcatProperties DEF u
<1>5. SubSeq(t, 2, Len(s) + 1) = s
  <2>1. PICK k \in Nat : k = Len(s)
    BY <1>1
  <2>2. k + 1 <= Len(t)
    BY <1>3, <2>1
  <2>3. SubSeq(t, 2, k + 1) = [i \in 1..k |-> t[i + 1]]
    BY <2>1, <2>2, <1>3
  <2> QED BY <1>4, <2>1, <2>3
<1> QED BY <1>1, <1>3, <1>4, <1>5 DEF u

\* The integer is found at the head of whatever follows it.
LEMMA VarIntAhead ==
  ASSUME NEW n \in Nat, Shifted(n, 8) = 0, NEW rest \in Seq(Byte)
  PROVE  /\ varInt(n) \in Seq(Byte)
         /\ IntSize(varInt(n) \o rest) = Len(varInt(n))
         /\ IntAt(varInt(n) \o rest) = n
         /\ Len(varInt(n)) > 1 => n >= Base - 3
         /\ \A k \in {2, 4} : Len(varInt(n)) > 1 + k => Unsigned(LE(n, k)) # n
<1> DEFINE t == varInt(n) \o rest
<1>1. Base \in Nat /\ Base >= 4
  BY BaseOK
<1>2. \A k \in Nat : Unsigned(LE(n, k)) = n <=> Shifted(n, k) = 0
  BY UnsignedLE
<1>3. \A k \in Nat : LE(n, k) \in Seq(Byte) /\ Len(LE(n, k)) = k
  <2>1. n \in Int
    OBVIOUS
  <2> QED BY <2>1, LEIs
<1>4. CASE n < Base - 3
  <2>1. varInt(n) = <<n>>
    BY <1>4 DEF varInt
  <2>2. n \in Byte /\ n # Base - 1 /\ n # Base - 2 /\ n # Base - 3
    BY <1>1, <1>4 DEF Byte
  <2>3. <<n>> \in Seq(Byte) /\ Len(<<n>>) = 1
    BY <2>2
  <2>4. Head(<<n>> \o rest) = n
    BY <2>2
  <2> QED BY <2>1, <2>2, <2>3, <2>4 DEF IntSize, IntAt
<1>5. ASSUME NEW b \in {Base - 3, Base - 2, Base - 1},
             NEW k \in {2, 4, 8}, Shifted(n, k) = 0,
             varInt(n) = <<b>> \o LE(n, k),
             k = (CASE b = Base - 1 -> 8 [] b = Base - 2 -> 4 [] OTHER -> 2)
      PROVE  /\ varInt(n) \in Seq(Byte) /\ Len(varInt(n)) = k + 1
             /\ IntSize(t) = k + 1 /\ IntAt(t) = n
  <2>1. b \in Byte /\ k \in Nat
    BY <1>1 DEF Byte
  <2>2. LE(n, k) \in Seq(Byte) /\ Len(LE(n, k)) = k
    BY <1>3, <2>1
  <2>3. /\ Head(t) = b /\ varInt(n) \in Seq(Byte)
        /\ Len(varInt(n)) = k + 1 /\ SubSeq(t, 2, k + 1) = LE(n, k)
    BY <1>5, <2>1, <2>2, Prefixed
  <2> HIDE DEF t
  <2>4. IntSize(t) = k + 1
    BY <1>1, <1>5, <2>3 DEF IntSize
  <2>5. Unsigned(LE(n, k)) = n
    BY <1>2, <1>5, <2>1
  <2>6. IntAt(t) = n
    <3>1. IntSize(t) # 1 /\ SubSeq(t, 2, IntSize(t)) = LE(n, k)
      BY <1>5, <2>3, <2>4
    <3> QED BY <2>5, <3>1 DEF IntAt
  <2> QED BY <2>3, <2>4, <2>6
<1>6. CASE n >= Base - 3 /\ Shifted(n, 2) = 0
  <2>1. varInt(n) = <<Base - 3>> \o LE(n, 2)
    BY <1>1, <1>6 DEF varInt
  <2>2. 2 = (CASE Base - 3 = Base - 1 -> 8 [] Base - 3 = Base - 2 -> 4 [] OTHER -> 2)
    BY <1>1
  <2>3. varInt(n) \in Seq(Byte) /\ Len(varInt(n)) = 2 + 1 /\ IntSize(t) = 2 + 1 /\ IntAt(t) = n
    BY <1>5, <1>6, <2>1, <2>2
  <2> QED BY <1>6, <2>3
<1>7. CASE n >= Base - 3 /\ Shifted(n, 2) # 0 /\ Shifted(n, 4) = 0
  <2>1. varInt(n) = <<Base - 2>> \o LE(n, 4)
    BY <1>1, <1>7 DEF varInt
  <2>2. 4 = (CASE Base - 2 = Base - 1 -> 8 [] Base - 2 = Base - 2 -> 4 [] OTHER -> 2)
    BY <1>1
  <2>3. varInt(n) \in Seq(Byte) /\ Len(varInt(n)) = 4 + 1 /\ IntSize(t) = 4 + 1 /\ IntAt(t) = n
    BY <1>5, <1>7, <2>1, <2>2
  <2> QED BY <1>2, <1>7, <2>3
<1>8. CASE n >= Base - 3 /\ Shifted(n, 2) # 0 /\ Shifted(n, 4) # 0
  <2>1. varInt(n) = <<Base - 1>> \o LE(n, 8)
    BY <1>1, <1>8 DEF varInt
  <2>2. 8 = (CASE Base - 1 = Base - 1 -> 8 [] Base - 1 = Base - 2 -> 4 [] OTHER -> 2)
    BY <1>1
  <2>3. varInt(n) \in Seq(Byte) /\ Len(varInt(n)) = 8 + 1 /\ IntSize(t) = 8 + 1 /\ IntAt(t) = n
    BY <1>5, <1>8, <2>1, <2>2
  <2> QED BY <1>2, <1>8, <2>3
<1> QED BY <1>1, <1>4, <1>6, <1>7, <1>8
-----------------------------------------------------------------------------
(* The highest byte *)

\* The highest byte counts with a weight that its place determines.
LEMMA UnsignedAppend ==
  \A k \in Nat : \E w \in Nat \ {0} : \A s \in Seq(Int), x \in Int :
    Len(s) = k => Unsigned(Append(s, x)) = Unsigned(s) + w * x
<1> DEFINE Good(k, w) == \A s \in Seq(Int), x \in Int :
                           Len(s) = k => Unsigned(Append(s, x)) = Unsigned(s) + w * x
           S == {k \in Nat : \E w \in Nat \ {0} : Good(k, w)}
<1>1. 0 \in S
  <2>1. Good(0, 1)
    <3> SUFFICES ASSUME NEW s \in Seq(Int), NEW x \in Int, Len(s) = 0
                 PROVE  Unsigned(Append(s, x)) = Unsigned(s) + 1 * x
      OBVIOUS
    <3>1. s = <<>>
      OBVIOUS
    <3>2. PICK t : t = Append(s, x)
      OBVIOUS
    <3>3. t \in Seq(Int) /\ t # <<>> /\ Head(t) = x /\ Tail(t) = <<>>
      BY <3>1, <3>2, AppendProperties, HeadTailAppend
    <3>4. <<>> \in Seq(Int)
      OBVIOUS
    <3>5. Unsigned(<<>>) = 0
      BY <3>4, UnsignedIs
    <3>6. Unsigned(t) = x + Base * 0
      BY <3>3, <3>5, UnsignedIs
    <3> QED BY <3>1, <3>2, <3>5, <3>6, BaseOK
  <2>2. 1 \in Nat \ {0}
    OBVIOUS
  <2> QED BY <2>1, <2>2
<1>2. ASSUME NEW k \in Nat, k \in S
      PROVE  k + 1 \in S
  <2>1. PICK w \in Nat \ {0} : Good(k, w)
    BY <1>2
  <2>2. Base * w \in Nat \ {0}
    BY BaseOK
  <2>3. Good(k + 1, Base * w)
    <3> SUFFICES ASSUME NEW s \in Seq(Int), NEW x \in Int, Len(s) = k + 1
                 PROVE  Unsigned(Append(s, x)) = Unsigned(s) + (Base * w) * x
      OBVIOUS
    <3>1. PICK t, rest, h : t = Append(s, x) /\ rest = Tail(s) /\ h = Head(s)
      OBVIOUS
    <3>2. s # <<>> /\ rest \in Seq(Int) /\ Len(rest) = k /\ h \in Int
      BY <3>1
    <3>3. t \in Seq(Int) /\ t # <<>> /\ Head(t) = h /\ Tail(t) = Append(rest, x)
      BY <3>1, <3>2, AppendProperties, HeadTailAppend
    <3>4. Unsigned(t) = h + Base * Unsigned(Append(rest, x))
      BY <3>3, UnsignedIs
    <3>5. Unsigned(s) = h + Base * Unsigned(rest)
      BY <3>1, <3>2, UnsignedIs
    <3>6. PICK u \in Int : u = Unsigned(rest)
      BY <3>2, UnsignedIs
    <3>7. Unsigned(Append(rest, x)) = u + w * x
      BY <2>1, <3>2, <3>6
    <3>8. PICK p \in Int : p = w * x
      BY <2>1
    <3>9. Base * (u + p) = Base * u + Base * p /\ Base * p = (Base * w) * x
      <4>1. Base \in Int /\ w \in Int /\ x \in Int /\ u \in Int
        BY <2>1, <3>6, BaseOK
      <4>2. Base * (w * x) = (Base * w) * x
        BY <4>1
      <4> QED BY <3>8, <4>1, <4>2
    <3>10. /\ Unsigned(t) = h + (Base * u + Base * p) /\ Unsigned(s) = h + Base * u
           /\ h \in Int /\ Base * u \in Int /\ Base * p \in Int
      <4>1. Base * u \in Int /\ Base * p \in Int
        BY <3>6, <3>8, BaseOK
      <4> QED BY <3>2, <3>4, <3>5, <3>6, <3>7, <3>8, <3>9, <4>1
    <3>11. Unsigned(t) = Unsigned(s) + Base * p
      BY <3>10
    <3> QED BY <3>1, <3>9, <3>11
  <2>4. k + 1 \in Nat
    OBVIOUS
  <2> HIDE DEF Good
  <2>5. \E v \in Nat \ {0} : Good(k + 1, v)
    BY <2>2, <2>3
  <2> QED BY <2>4, <2>5
<1>3. Nat \subseteq S
  <2> HIDE DEF S
  <2> QED BY <1>1, <1>2, SetInduction
<1> QED BY <1>3

\* Bytes hold a natural number.
LEMMA UnsignedNat ==
  \A k \in Nat : \A s \in Seq(Byte) : Len(s) = k => Unsigned(s) \in Nat
<1> DEFINE S == {k \in Nat : \A s \in Seq(Byte) : Len(s) = k => Unsigned(s) \in Nat}
<1>1. 0 \in S
  <2> SUFFICES ASSUME NEW s \in Seq(Byte), Len(s) = 0 PROVE Unsigned(s) \in Nat
    OBVIOUS
  <2>1. s = <<>>
    OBVIOUS
  <2>2. s \in Seq(Int)
    BY BytesAreInts
  <2>3. Unsigned(s) = 0
    BY <2>1, <2>2, UnsignedIs
  <2> QED BY <2>3
<1>2. ASSUME NEW k \in Nat, k \in S
      PROVE  k + 1 \in S
  <2> SUFFICES ASSUME NEW s \in Seq(Byte), Len(s) = k + 1 PROVE Unsigned(s) \in Nat
    OBVIOUS
  <2>1. PICK rest, h : rest = Tail(s) /\ h = Head(s)
    OBVIOUS
  <2>2. s # <<>> /\ rest \in Seq(Byte) /\ Len(rest) = k /\ h \in Byte
    BY <2>1
  <2>3. Unsigned(s) = h + Base * Unsigned(rest)
    BY <2>1, <2>2, BytesAreInts, UnsignedIs
  <2>4. Unsigned(rest) \in Nat
    BY <1>2, <2>2
  <2>5. Base * Unsigned(rest) \in Nat /\ h \in Nat
    BY <2>2, <2>4, BaseOK DEF Byte
  <2> QED BY <2>3, <2>5
<1>3. Nat \subseteq S
  <2> HIDE DEF S
  <2> QED BY <1>1, <1>2, SetInduction
<1> QED BY <1>3

\* A string is what comes before its last byte, and that byte.
LEMMA FrontLast ==
  ASSUME NEW T, NEW s \in Seq(T), s # <<>>
  PROVE  /\ Front(s) \in Seq(T) /\ Len(Front(s)) = Len(s) - 1 /\ Last(s) \in T
         /\ s = Append(Front(s), Last(s))
<1>1. PICK f, x, k : f = Front(s) /\ x = Last(s) /\ k = Len(s) - 1
  OBVIOUS
<1>2. k \in Nat /\ Len(s) = k + 1 /\ f = SubSeq(s, 1, k) /\ x = s[k + 1]
  BY <1>1 DEF Front, Last
<1>3. f \in Seq(T) /\ Len(f) = k /\ x \in T /\ \A i \in 1..k : f[i] = s[i]
  BY <1>2
<1>4. PICK t : t = Append(f, x)
  OBVIOUS
<1>5. /\ t \in Seq(T) /\ Len(t) = k + 1 /\ t[k + 1] = x
      /\ \A i \in 1..k : t[i] = f[i]
  BY <1>3, <1>4, AppendProperties
<1>6. \A i \in 1..(k + 1) : t[i] = s[i]
  <2> TAKE i \in 1..(k + 1)
  <2>1. CASE i = k + 1
    BY <1>2, <1>5, <2>1
  <2>2. CASE i \in 1..k
    BY <1>3, <1>5, <2>2
  <2> QED BY <1>2, <2>1, <2>2
<1>7. t = s
  BY <1>2, <1>5, <1>6, SeqEqual
<1> QED BY <1>1, <1>2, <1>3, <1>4, <1>7

\* What was appended is the last, and the front is what was before.
LEMMA FrontOfAppend ==
  ASSUME NEW T, NEW s \in Seq(T), NEW x \in T
  PROVE  /\ Append(s, x) \in Seq(T) /\ Append(s, x) # <<>> /\ Len(Append(s, x)) = Len(s) + 1
         /\ Front(Append(s, x)) = s /\ Last(Append(s, x)) = x
<1>1. PICK t : t = Append(s, x)
  OBVIOUS
<1>2. t \in Seq(T) /\ t # <<>> /\ Len(t) = Len(s) + 1
  BY <1>1, AppendProperties
<1>3. t = Append(Front(t), Last(t)) /\ Front(t) \in Seq(T) /\ Last(t) \in T
  BY <1>2, FrontLast
<1>4. Front(t) = s /\ Last(t) = x
  BY <1>1, <1>3, AppendInjective
<1> QED BY <1>1, <1>2, <1>4

\* LE() in one byte more appends the next byte.
LEMMA LEFront ==
  ASSUME NEW n \in Int, NEW k \in Nat
  PROVE  LE(n, k + 1) = Append(LE(n, k), Shifted(n, k) % Base)
<1>1. PICK s, t, x : s = LE(n, k) /\ t = LE(n, k + 1) /\ x = Shifted(n, k) % Base
  OBVIOUS
<1>2. s \in Seq(Byte) /\ Len(s) = k /\ t \in Seq(Byte) /\ Len(t) = k + 1
  <2>1. k + 1 \in Nat
    OBVIOUS
  <2> QED BY <1>1, <2>1, LEIs
<1>3. x \in Byte
  BY <1>1, ShiftedIs, DivMod
<1>4. s = [i \in 1..k |-> Shifted(n, i - 1) % Base] /\ t = [i \in 1..(k + 1) |-> Shifted(n, i - 1) % Base]
  BY <1>1 DEF LE
<1>5. \A i \in 1..k : s[i] = t[i]
  BY <1>4
<1>6. t[k + 1] = x
  <2>1. (k + 1) - 1 = k /\ k + 1 \in 1..(k + 1)
    OBVIOUS
  <2> QED BY <1>1, <1>4, <2>1
<1>7. PICK u : u = Append(s, x)
  OBVIOUS
<1>8. u \in Seq(Byte) /\ Len(u) = k + 1 /\ u[k + 1] = x /\ \A i \in 1..k : u[i] = s[i]
  BY <1>2, <1>3, <1>7, AppendProperties
<1>9. \A i \in 1..(k + 1) : u[i] = t[i]
  <2> TAKE i \in 1..(k + 1)
  <2>1. CASE i = k + 1
    BY <1>6, <1>8, <2>1
  <2>2. CASE i \in 1..k
    BY <1>5, <1>8, <2>2
  <2> QED BY <2>1, <2>2
<1>10. u = t
  BY <1>2, <1>8, <1>9, SeqEqual
<1> QED BY <1>1, <1>7, <1>10

-----------------------------------------------------------------------------
(* Script numbers *)

Half == Base \div 2

\* A script number is within what its bytes hold without a sign, and one whose
\* top bit is set is not above 0.
LEMMA ScriptNumWithin ==
  ASSUME NEW s \in Seq(Byte)
  PROVE  /\ Unsigned(s) \in Nat
         /\ ScriptNum(s) \in (-Unsigned(s))..Unsigned(s)
         /\ s # <<>> /\ Last(s) >= Half => ScriptNum(s) \in (1 - Unsigned(s))..0
<1>1. Unsigned(s) \in Nat
  BY UnsignedNat
<1>2. CASE s = <<>>
  BY <1>1, <1>2 DEF ScriptNum
<1>3. CASE s # <<>> /\ Last(s) < Half
  <2>1. Last(s) \in Byte
    BY <1>3, FrontLast
  <2>2. ScriptNum(s) = Unsigned(s)
    BY <1>3 DEF ScriptNum, Half
  <2> QED BY <1>1, <1>3, <2>1, <2>2, BaseOK DEF Byte, Half
<1>4. CASE s # <<>> /\ ~(Last(s) < Half)
  <2>1. PICK f, x : f = Front(s) /\ x = Last(s)
    OBVIOUS
  <2>2. f \in Seq(Byte) /\ x \in Byte /\ s = Append(f, x)
    BY <1>4, <2>1, FrontLast
  <2>3. x \in Nat /\ Half \in Nat /\ Half >= 2 /\ x - Half \in Nat /\ x - Half \in Byte
    BY <1>4, <2>1, <2>2, BaseOK DEF Byte, Half
  <2>4. ScriptNum(s) = -Unsigned(Append(f, x - Half))
    BY <1>4, <2>1 DEF ScriptNum, Half
  <2>5. PICK w \in Nat \ {0} :
          \A t \in Seq(Int), y \in Int : Len(t) = Len(f) => Unsigned(Append(t, y)) = Unsigned(t) + w * y
    <3>1. Len(f) \in Nat
      BY <2>2
    <3> QED BY <3>1, UnsignedAppend
  <2>6. PICK u \in Nat : u = Unsigned(f)
    BY <2>2, UnsignedNat
  <2>7. f \in Seq(Int) /\ x \in Int /\ x - Half \in Int
    BY <2>2, <2>3, BytesAreInts
  <2>8. Unsigned(s) = u + w * x /\ ScriptNum(s) = -(u + w * (x - Half))
    BY <2>2, <2>4, <2>5, <2>6, <2>7
  <2>9. PICK d \in Nat : d = x - Half
    BY <2>3
  <2>10. w * x = w * d + w * Half /\ w * d \in Nat /\ w * Half \in Nat /\ w * Half > 0
    <3>1. x = d + Half
      BY <2>3, <2>9
    <3> QED BY <2>3, <2>5, <2>9, <3>1
  <2>11. PICK a, b \in Nat : a = w * d /\ b = w * Half
    BY <2>10
  <2>12. Unsigned(s) = u + (a + b) /\ ScriptNum(s) = -(u + a) /\ b > 0
    BY <2>8, <2>9, <2>10, <2>11
  <2>13. PICK c, e : c = Unsigned(s) /\ e = ScriptNum(s)
    OBVIOUS
  <2>14. c = u + (a + b) /\ e = -(u + a)
    BY <2>12, <2>13
  <2>15. e \in (-c)..c /\ e \in (1 - c)..0
    <3>1. u \in Nat /\ a \in Nat /\ b \in Nat \ {0}
      BY <2>6, <2>11, <2>12
    <3>2. /\ -(u + a) \in (-(u + (a + b)))..(u + (a + b))
          /\ -(u + a) \in (1 - (u + (a + b)))..0
      BY <3>1
    <3> QED BY <2>14, <3>2
  <2> QED BY <1>1, <2>13, <2>15
<1> QED BY <1>2, <1>3, <1>4

\* The shortest bytes of a number that is not 0, the last of which is not 0.
LEMMA MinimalIs ==
  ASSUME NEW n \in Int, n # 0, Shifted(Magnitude(n), 8) = 0,
         NEW m, m = Magnitude(n)
  PROVE  /\ m \in Nat \ {0}
         /\ \E k \in 0..7 :
              /\ Minimal(n) = Append(LE(m, k), Shifted(m, k))
              /\ Minimal(n) = LE(m, k + 1)
              /\ Shifted(m, k) \in Byte \ {0} /\ Shifted(m, k + 1) = 0
<1>1. m \in Nat \ {0} /\ Shifted(m, 8) = 0
  BY DEF Magnitude
<1> DEFINE T == {k \in 0..8 : Shifted(m, k) = 0}
<1>2. PICK j \in T : \A i \in T : <<i, j>> \notin Below
  <2>1. T \subseteq Nat /\ 8 \in T
    BY <1>1
  <2> HIDE DEF T
  <2> QED BY <2>1, BelowWF, WFMin
<1> DEFINE Least(k) == Shifted(m, k) = 0 /\ \A i \in 0..(k - 1) : Shifted(m, i) # 0
<1>3. j \in 0..8 /\ Least(j)
  <2>1. j \in 0..8 /\ Shifted(m, j) = 0
    BY <1>2
  <2>2. ASSUME NEW i \in 0..(j - 1), Shifted(m, i) = 0
        PROVE  FALSE
    <3>1. i \in T /\ <<i, j>> \in Below
      BY <2>1, <2>2 DEF Below
    <3> QED BY <1>2, <3>1
  <2> QED BY <2>1, <2>2
<1>4. PICK k : k = CHOOSE l \in 0..8 : Least(l)
  OBVIOUS
<1>5. k \in 0..8 /\ Least(k) /\ Minimal(n) = LE(m, k)
  <2>1. k \in 0..8 /\ Least(k)
    <3> HIDE DEF Least
    <3> QED BY <1>3, <1>4
  <2>2. Minimal(n) = LE(m, k)
    BY <1>4 DEF Minimal
  <2> QED BY <2>1, <2>2
<1>6. k # 0
  BY <1>1, <1>5, ShiftedIs
<1>7. PICK i \in 0..7 : k = i + 1
  <2>1. k - 1 \in 0..7 /\ k = (k - 1) + 1
    BY <1>5, <1>6
  <2> QED BY <2>1
<1>8. Shifted(m, i) \in Nat /\ Shifted(m, i) # 0
  <2>1. i \in Nat /\ i \in 0..(k - 1)
    BY <1>7
  <2>2. Shifted(m, i) \in Nat
    BY <1>1, <2>1, ShiftedNat
  <2> QED BY <1>5, <2>1, <2>2
<1>9. Shifted(m, i + 1) = 0 /\ Shifted(m, i) \div Base = 0
  <2>1. Shifted(m, i + 1) = Shifted(m, i) \div Base
    BY <1>1, ShiftedIs
  <2> QED BY <1>5, <1>7, <2>1
<1>10. Shifted(m, i) \in Byte \ {0} /\ Shifted(m, i) % Base = Shifted(m, i)
  BY <1>8, <1>9, BaseOK DEF Byte
<1>11. LE(m, i + 1) = Append(LE(m, i), Shifted(m, i) % Base)
  <2>1. m \in Int /\ i \in Nat
    BY <1>1
  <2> QED BY <2>1, LEFront
<1> QED BY <1>1, <1>5, <1>7, <1>9, <1>10, <1>11

\* The number is read back, and not from fewer of its bytes.
LEMMA ScriptNumBack ==
  ASSUME NEW n \in Int, Shifted(Magnitude(n), 8) = 0
  PROVE  LET bytes == scriptNumEncode(n)
         IN /\ bytes \in Seq(Byte) /\ Len(bytes) <= 9
            /\ ScriptNum(bytes) = n
            /\ bytes # <<>> => ScriptNum(Front(bytes)) # n
<1>1. CASE n = 0
  <2>1. scriptNumEncode(n) = <<>>
    BY <1>1 DEF scriptNumEncode
  <2>2. <<>> \in Seq(Byte) /\ Len(<<>>) <= 9
    OBVIOUS
  <2>3. ScriptNum(<<>>) = 0
    BY DEF ScriptNum
  <2> QED BY <1>1, <2>1, <2>2, <2>3
<1>2. CASE n # 0
  <2>1. PICK m : m = Magnitude(n)
    OBVIOUS
  <2>2. m \in Nat \ {0} /\ (n = m \/ n = -m) /\ (n < 0 <=> n = -m)
    BY <1>2, <2>1 DEF Magnitude
  <2>3. PICK k \in 0..7 :
          /\ Minimal(n) = Append(LE(m, k), Shifted(m, k))
          /\ Minimal(n) = LE(m, k + 1)
          /\ Shifted(m, k) \in Byte \ {0} /\ Shifted(m, k + 1) = 0
    BY <1>2, <2>1, MinimalIs
  <2>4. PICK low, top, bytes : low = LE(m, k) /\ top = Shifted(m, k) /\ bytes = Minimal(n)
    OBVIOUS
  <2>5. /\ k \in Nat /\ k + 1 \in Nat /\ m \in Nat /\ m \in Int
        /\ low \in Seq(Byte) /\ Len(low) = k
        /\ top \in Byte /\ top # 0
        /\ bytes \in Seq(Byte) /\ Len(bytes) = k + 1
    <3>1. k \in Nat /\ k + 1 \in Nat /\ m \in Nat /\ m \in Int
      BY <2>2
    <3>2. low \in Seq(Byte) /\ Len(low) = k
      BY <2>4, <3>1, LEIs
    <3>3. bytes \in Seq(Byte) /\ Len(bytes) = k + 1
      BY <2>3, <2>4, <3>1, LEIs
    <3> QED BY <2>3, <2>4, <3>1, <3>2, <3>3
  <2>6. bytes = Append(low, top) /\ bytes # <<>> /\ Front(bytes) = low /\ Last(bytes) = top
    <3>1. bytes = Append(low, top)
      BY <2>3, <2>4
    <3> QED BY <2>5, <3>1, FrontOfAppend
  <2>7. Unsigned(bytes) = m
    BY <2>3, <2>4, <2>5, UnsignedLE
  <2>8. Unsigned(low) \in 0..(m - 1)
    <3>1. Unsigned(LE(m, k)) \in 0..m /\ Unsigned(LE(m, k)) # m
      BY <2>3, <2>5, UnsignedLE
    <3> QED BY <2>2, <2>4, <3>1
  <2>9. Half \in Byte /\ 0 \in Byte /\ 0 < Half /\ Half < Base /\ Half \in Nat /\ Base = Half + Half
    BY BaseOK DEF Half, Byte
  <2>10. PICK sign : sign = IF n < 0 THEN Half ELSE 0
    OBVIOUS
  <2>11. sign \in Byte
    BY <2>9, <2>10
  <2>12. scriptNumEncode(n) = IF top >= Half THEN Append(bytes, sign) ELSE Append(low, top + sign)
    BY <1>2, <2>4, <2>6, <2>10 DEF scriptNumEncode, Half
  <2>13. CASE top >= Half
    <3>1. PICK s : s = Append(bytes, sign)
      OBVIOUS
    <3>2. s \in Seq(Byte) /\ s # <<>> /\ Len(s) = k + 2 /\ Front(s) = bytes /\ Last(s) = sign
      BY <2>5, <2>11, <3>1, FrontOfAppend
    <3>3. Unsigned(Append(bytes, 0)) = m
      <4>1. PICK w \in Nat \ {0} :
              \A t \in Seq(Int), y \in Int : Len(t) = k + 1 => Unsigned(Append(t, y)) = Unsigned(t) + w * y
        BY <2>5, UnsignedAppend
      <4>2. bytes \in Seq(Int) /\ 0 \in Int
        BY <2>5, BytesAreInts
      <4>3. Unsigned(Append(bytes, 0)) = m + w * 0
        BY <2>5, <2>7, <4>1, <4>2
      <4> QED BY <2>5, <4>1, <4>3
    <3>4. ScriptNum(s) = n
      <4>1. CASE n < 0
        <5>1. sign = Half /\ ~(Last(s) < Half) /\ Last(s) - Half = 0
          BY <2>9, <2>10, <3>2, <4>1
        <5>2. ScriptNum(s) = -Unsigned(Append(bytes, 0))
          BY <3>2, <5>1 DEF ScriptNum, Half
        <5> QED BY <2>2, <3>3, <4>1, <5>2
      <4>2. CASE ~(n < 0)
        <5>1. sign = 0 /\ Last(s) < Half
          BY <2>9, <2>10, <3>2, <4>2
        <5>2. ScriptNum(s) = Unsigned(s)
          BY <3>2, <5>1 DEF ScriptNum, Half
        <5> QED BY <2>2, <3>1, <3>3, <4>2, <5>1, <5>2
      <4> QED BY <4>1, <4>2
    <3>5. ScriptNum(bytes) \in (1 - m)..0
      BY <2>5, <2>6, <2>7, <2>13, ScriptNumWithin
    <3>6. ScriptNum(bytes) # n
      BY <2>2, <3>5
    <3> QED BY <2>12, <2>13, <3>1, <3>2, <3>4, <3>6
  <2>14. CASE ~(top >= Half)
    <3>1. PICK s : s = Append(low, top + sign)
      OBVIOUS
    <3>2. top + sign \in Byte /\ top < Half
      BY <2>5, <2>9, <2>10, <2>14 DEF Byte
    <3>3. s \in Seq(Byte) /\ s # <<>> /\ Len(s) = k + 1 /\ Front(s) = low /\ Last(s) = top + sign
      BY <2>5, <3>1, <3>2, FrontOfAppend
    <3>4. ScriptNum(s) = n
      <4>1. CASE n < 0
        <5>1. ~(Last(s) < Half) /\ Last(s) - Half = top
          BY <2>5, <2>9, <2>10, <3>3, <4>1 DEF Byte
        <5>2. ScriptNum(s) = -Unsigned(Append(low, top))
          BY <3>3, <5>1 DEF ScriptNum, Half
        <5> QED BY <2>2, <2>6, <2>7, <4>1, <5>2
      <4>2. CASE ~(n < 0)
        <5>1. top + sign = top
          BY <2>5, <2>10, <4>2 DEF Byte
        <5>2. ScriptNum(s) = Unsigned(s)
          BY <3>2, <3>3, <5>1 DEF ScriptNum, Half
        <5> QED BY <2>2, <2>6, <2>7, <3>1, <4>2, <5>1, <5>2
      <4> QED BY <4>1, <4>2
    <3>5. ScriptNum(low) \in (-Unsigned(low))..Unsigned(low)
      BY <2>5, ScriptNumWithin
    <3>6. ScriptNum(low) # n
      BY <2>2, <2>8, <3>5
    <3> QED BY <2>12, <2>14, <3>1, <3>3, <3>4, <3>6
  <2> QED BY <2>13, <2>14
<1> QED BY <1>1, <1>2

-----------------------------------------------------------------------------
(* Reading on *)

\* The middle of three strings.
LEMMA MiddleRead ==
  ASSUME NEW a \in Seq(Byte), NEW b \in Seq(Byte), NEW c \in Seq(Byte), NEW m, m = Len(a)
  PROVE  /\ (a \o b) \o c \in Seq(Byte)
         /\ SubSeq((a \o b) \o c, m + 1, m + Len(b)) = b
<1>1. PICK ab, n, k : ab = a \o b /\ n = Len(b) /\ k = Len(c)
  OBVIOUS
<1>2. m \in Nat /\ n \in Nat /\ k \in Nat
  BY <1>1
<1>3. /\ ab \in Seq(Byte) /\ Len(ab) = m + n
      /\ \A i \in 1..(m + n) : ab[i] = IF i <= m THEN a[i] ELSE b[i - m]
  BY <1>1, ConcatProperties
<1>4. PICK s : s = ab \o c
  OBVIOUS
<1>5. /\ s \in Seq(Byte) /\ Len(s) = (m + n) + k
      /\ \A i \in 1..((m + n) + k) : s[i] = IF i <= m + n THEN ab[i] ELSE c[i - (m + n)]
  <2>1. /\ s \in Seq(Byte) /\ Len(s) = Len(ab) + Len(c)
        /\ \A i \in 1..(Len(ab) + Len(c)) : s[i] = IF i <= Len(ab) THEN ab[i] ELSE c[i - Len(ab)]
    BY <1>3, <1>4, ConcatProperties
  <2> QED BY <1>1, <1>3, <2>1
<1>6. \A i \in 1..n : s[m + i] = b[i]
  <2> TAKE i \in 1..n
  <2>1. m + i \in 1..(m + n) /\ m + i \in 1..((m + n) + k) /\ ~(m + i <= m) /\ (m + i) - m = i
    BY <1>2
  <2> QED BY <1>2, <1>3, <1>5, <2>1
<1>7. PICK lo, hi, t : lo = m + 1 /\ hi = m + n /\ t = SubSeq(s, lo, hi)
  OBVIOUS
<1>8. /\ t \in Seq(Byte) /\ Len(t) = (IF lo <= hi THEN hi - lo + 1 ELSE 0)
      /\ \A i \in 1..(hi - lo + 1) : t[i] = s[lo + i - 1]
  <2>1. lo \in Int /\ hi \in Int
    BY <1>2, <1>7
  <2>2. \A i \in lo..hi : s[i] \in Byte
    <3>1. \A i \in lo..hi : i \in 1..Len(s)
      BY <1>2, <1>5, <1>7
    <3> QED BY <1>5, <3>1
  <2> QED BY <1>7, <2>1, <2>2, SubSeqProperties
<1>9. Len(t) = n /\ \A i \in 1..n : t[i] = b[i]
  <2>1. hi - lo + 1 = n /\ (lo <= hi <=> n > 0) /\ \A i \in 1..n : lo + i - 1 = m + i
    BY <1>2, <1>7
  <2>2. Len(t) = n
    BY <1>2, <1>8, <2>1
  <2>3. ASSUME NEW i \in 1..n
        PROVE  t[i] = b[i]
    <3>1. i \in 1..(hi - lo + 1) /\ lo + i - 1 = m + i
      BY <2>1
    <3> QED BY <1>6, <1>8, <3>1
  <2> QED BY <2>2, <2>3
<1>10. t = b
  BY <1>1, <1>8, <1>9, SeqEqual
<1> QED BY <1>1, <1>4, <1>5, <1>7, <1>10

\* A field at the head of a string, and what follows it.
LEMMA HeadRead ==
  ASSUME NEW a \in Seq(Byte), NEW b \in Seq(Byte), NEW m, m = Len(a)
  PROVE  a \o b \in Seq(Byte) /\ SubSeq(a \o b, 1, m) = a /\ From(a \o b, m + 1) = b
<1>1. <<>> \in Seq(Byte) /\ Len(<<>>) = 0 /\ m \in Nat
  OBVIOUS
<1>2. PICK s : s = a \o b
  OBVIOUS
<1>3. s \in Seq(Byte) /\ Len(s) = m + Len(b)
  BY <1>2, ConcatProperties
<1>4. <<>> \o a = a /\ s \o <<>> = s
  BY <1>3, ConcatEmptySeq
<1>5. SubSeq(s, 1, m) = a
  <2>1. SubSeq((<<>> \o a) \o b, 0 + 1, 0 + Len(a)) = a
    BY <1>1, MiddleRead
  <2>2. 0 + 1 = 1 /\ 0 + m = m
    BY <1>1
  <2> QED BY <1>2, <1>4, <2>1, <2>2
<1>6. SubSeq(s, m + 1, m + Len(b)) = b
  <2>1. SubSeq((a \o b) \o <<>>, m + 1, m + Len(b)) = b
    BY <1>1, MiddleRead
  <2> QED BY <1>2, <1>4, <2>1
<1>7. From(s, m + 1) = b
  BY <1>3, <1>6 DEF From
<1> QED BY <1>2, <1>3, <1>5, <1>7

RestAt(a, b) == From(a \o b, Len(a) + 1) = b

\* What follows a field, by the place behind it.
LEMMA RestRead ==
  ASSUME NEW a \in Seq(Byte), NEW b \in Seq(Byte)
  PROVE  RestAt(a, b)
<1>1. PICK m : m = Len(a)
  OBVIOUS
<1>2. From(a \o b, m + 1) = b
  BY <1>1, HeadRead
<1> QED BY <1>1, <1>2 DEF RestAt

Associates(a, b, c) == (a \o b) \o c = a \o (b \o c)

\* The order in which strings are joined does not matter.
LEMMA Grouped ==
  ASSUME NEW a \in Seq(Byte), NEW b \in Seq(Byte), NEW c \in Seq(Byte)
  PROVE  Associates(a, b, c)
BY ConcatAssociative DEF Associates

\* A string after its length is read back, and what follows is left.
LEMMA StringRead ==
  ASSUME NEW s \in Seq(Byte), Shifted(Len(s), 8) = 0, NEW rest \in Seq(Byte),
         NEW v, v = varInt(Len(s))
  PROVE  /\ v \in Seq(Byte) /\ v \o (s \o rest) \in Seq(Byte)
         /\ Taken(v \o (s \o rest)) = s /\ Left(v \o (s \o rest)) = rest
<1>1. PICK n, sr, t : n = Len(s) /\ sr = s \o rest /\ t = v \o sr
  OBVIOUS
<1>2. n \in Nat /\ sr \in Seq(Byte)
  BY <1>1, ConcatProperties
<1>3. v \in Seq(Byte) /\ IntSize(t) = Len(v) /\ IntAt(t) = n
  BY <1>1, <1>2, VarIntAhead
<1>4. PICK m : m = Len(v)
  OBVIOUS
<1>5. m \in Nat
  BY <1>3, <1>4
<1>6. t = (v \o s) \o rest
  <2>1. Associates(v, s, rest)
    BY <1>3, Grouped
  <2> QED BY <1>1, <2>1 DEF Associates
<1>7. t \in Seq(Byte) /\ SubSeq(t, m + 1, m + n) = s
  <2>1. (v \o s) \o rest \in Seq(Byte) /\ SubSeq((v \o s) \o rest, m + 1, m + Len(s)) = s
    BY <1>3, <1>4, MiddleRead
  <2> QED BY <1>1, <1>6, <2>1
<1>8. From(t, m + n + 1) = rest
  <2>1. v \o s \in Seq(Byte) /\ Len(v \o s) = m + n
    BY <1>1, <1>3, <1>4, ConcatProperties
  <2>2. PICK vs, i : vs = v \o s /\ i = m + n + 1
    OBVIOUS
  <2>3. vs \in Seq(Byte) /\ t = vs \o rest /\ i = Len(vs) + 1
    BY <1>6, <2>1, <2>2
  <2>4. From(t, i) = rest
    <3>1. RestAt(vs, rest)
      BY <2>3, RestRead
    <3> QED BY <2>3, <3>1 DEF RestAt
  <2> QED BY <2>2, <2>4
<1>9. Taken(t) = s /\ Left(t) = rest
  BY <1>3, <1>4, <1>7, <1>8 DEF Taken, Left
<1> QED BY <1>1, <1>3, <1>7, <1>9

=============================================================================
