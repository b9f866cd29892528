------------------------------- MODULE Header -------------------------------
(***************************************************************************)
(* The block header of server/header.js and the comparison of its hash with*)
(* the target in server/hash.js, with the page's own count of zero bits.   *)
(*                                                                         *)
(* SHA256d is external: Hash(x) is a pair that determines x, which is      *)
(* enough to tell one tree, and one byte order, from another.              *)
(***************************************************************************)
EXTENDS Serialize

\* n * b ^ k, a factor at a time: the provers know no law of ^.
TimesPower(n, b, k) == LET product[i \in 0..k] == IF i = 0 THEN n ELSE b * product[i - 1] IN product[k]

Hash(x) == <<"sha256d", x>>

\* Display order and internal order are each other's reverse.
toInternalOrder(hash) == Reverse(hash)

toDisplayHex(hash) == Reverse(hash)

\* Mutant of merkleParents: the last node of an odd level is paired with the
\* first.
merkleParentsWrapped(level) ==
  [i \in 1..((Len(level) + 1) \div 2) |->
     Hash(level[2 * i - 1] \o (IF 2 * i <= Len(level) THEN level[2 * i] ELSE level[1]))]

\* The last node of an odd level is paired with itself.
merkleParents(level) ==
  [i \in 1..((Len(level) + 1) \div 2) |->
     Hash(level[2 * i - 1] \o (IF 2 * i <= Len(level) THEN level[2 * i] ELSE level[2 * i - 1]))]

\* The loop of computeMerkleRoot() ends at the first level of one node.
computeMerkleRoot(txids) ==
  LET level[i \in 0..Len(txids)] ==
        IF i = 0 THEN [j \in DOMAIN txids |-> toInternalOrder(txids[j])]
        ELSE merkleParents(level[i - 1])
      last == CHOOSE i \in 0..Len(txids) :
                Len(level[i]) = 1 /\ \A j \in 0..(i - 1) : Len(level[j]) > 1
  IN level[last][1]

\* Mutant of buildHeader: the previous hash as the node gave it.
buildHeaderDisplayed(version, previous, root, time, bits, nonce) ==
  LE(version, 4) \o previous \o root \o LE(time, 4) \o toInternalOrder(bits) \o LE(nonce, 4)

buildHeader(version, previous, root, time, bits, nonce) ==
  LE(version, 4) \o toInternalOrder(previous) \o root \o LE(time, 4) \o toInternalOrder(bits)
    \o LE(nonce, 4)

-----------------------------------------------------------------------------

\* The weight of the top bit of three bytes, 0x800000.
SignBit == TimesPower(Base \div 2, Base, 2)

\* Mutant of bitsToTarget: a mantissa of 24 bits.
bitsToTargetUnmasked(exponent, word) ==
  IF exponent <= 3 THEN Shifted(word, 3 - exponent) ELSE TimesPower(word, Base, exponent - 3)

\* `word` is what follows the exponent in the compact form; its top bit, which
\* would be a sign, is masked.
bitsToTarget(exponent, word) ==
  LET mantissa == word % SignBit
  IN IF exponent <= 3 THEN Shifted(mantissa, 3 - exponent)
     ELSE TimesPower(mantissa, Base, exponent - 3)

hashToBigInt(hash) == Unsigned(hash)

meetsTarget(hash, target) == hashToBigInt(hash) <= target

\* value.toString(2).length
BitLength(n) ==
  CHOOSE k \in 0..n : n < TimesPower(1, 2, k) /\ (k > 0 => n >= TimesPower(1, 2, k - 1))

countLeadingZeroBits(hash) == 8 * Len(hash) - BitLength(hashToBigInt(hash))

\* The digits of the hash in hexadecimal, as the server sends them.
HexDigits(hash) ==
  LET bytes == toDisplayHex(hash)
  IN [i \in 1..(2 * Len(bytes)) |->
        IF i % 2 = 1 THEN bytes[(i + 1) \div 2] \div 16 ELSE bytes[i \div 2] % 16]

ZeroDigits(digits) ==
  CHOOSE n \in 0..Len(digits) :
    /\ \A i \in 1..n : digits[i] = 0
    /\ n < Len(digits) => digits[n + 1] # 0

\* Mutant of hexLeadingZeroBits: the first digit that is not 0 is not looked at.
hexLeadingZeroDigits(digits) == 4 * ZeroDigits(digits)

\* The page's own count of the target's zeros.
hexLeadingZeroBits(digits) ==
  LET zeros == ZeroDigits(digits)
  IN 4 * zeros + (IF zeros = Len(digits) THEN 0 ELSE 4 - BitLength(digits[zeros + 1]))

-----------------------------------------------------------------------------
(* References: the tree by the position of its nodes, the bytes of a mantissa, *)
(* and the compact form of an integer.                                     *)

\* Node j of level i over n leaves is over the leaves from j * 2^i on; a node
\* that would be over none is its left neighbour.
TreeRoot(leaves) ==
  LET n == Len(leaves)
      First(i, j) == TimesPower(j, 2, i)
      depth == CHOOSE d \in 0..n : First(d, 1) >= n /\ \A e \in 0..(d - 1) : First(e, 1) < n
      row[i \in 0..depth] ==
        [j \in {j \in 0..(n - 1) : First(i, j) < n} |->
           IF i = 0 THEN leaves[j + 1]
           ELSE LET right == IF First(i - 1, 2 * j + 1) < n THEN 2 * j + 1 ELSE 2 * j
                IN Hash(row[i - 1][2 * j] \o row[i - 1][right])]
  IN row[depth][0]

\* The byte at place i of the three bytes that a word stands for, the highest
\* without its top bit; there are no others.
MantissaByte(word, i) ==
  CASE i \in {0, 1} -> Shifted(word, i) % Base
    [] i = 2 -> Shifted(word, 2) % (Base \div 2)
    [] OTHER -> 0

\* The exponent and the word that stand for a target of at most `longest` bytes.
Compact(target, longest) ==
  LET size == CHOOSE k \in 0..longest :
                Shifted(target, k) = 0 /\ \A j \in 0..(k - 1) : Shifted(target, j) # 0
      word == IF size <= 3 THEN TimesPower(target, Base, 3 - size) ELSE Shifted(target, size - 3)
  IN IF word >= SignBit THEN <<size + 1, Shifted(word, 1)>> ELSE <<size, word>>
=============================================================================
