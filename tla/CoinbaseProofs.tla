--------------------------- MODULE CoinbaseProofs ---------------------------
(***************************************************************************)
(* Proofs about the coinbase transaction and the block of Serialize.tla: a *)
(* node that reads the transaction by the rules of the protocol finds the  *)
(* fields that were written, whatever their length; and transactions one   *)
(* after another are the first and then the others.                        *)
(***************************************************************************)
EXTENDS SerializeProofs

-----------------------------------------------------------------------------
(* Strings in a row *)

LeftRow(a, b, c, d) == ((a \o b) \o c) \o d

RightRow(a, b, c, d) == a \o (b \o (c \o d))

\* The order in which four strings are joined does not matter.
LEMMA FourGrouped ==
  ASSUME NEW a \in Seq(Byte), NEW b \in Seq(Byte), NEW c \in Seq(Byte), NEW d \in Seq(Byte)
  PROVE  LeftRow(a, b, c, d) = RightRow(a, b, c, d)
<1>1. a \o b \in Seq(Byte) /\ c \o d \in Seq(Byte)
  BY ConcatProperties
<1>2. PICK ab \in Seq(Byte), cd \in Seq(Byte) : ab = a \o b /\ cd = c \o d
  BY <1>1
<1>3. (ab \o c) \o d = ab \o (c \o d)
  <2>1. Associates(ab, c, d)
    BY Grouped
  <2> QED BY <2>1 DEF Associates
<1>4. (a \o b) \o cd = a \o (b \o cd)
  <2>1. Associates(a, b, cd)
    BY Grouped
  <2> QED BY <2>1 DEF Associates
<1> QED BY <1>2, <1>3, <1>4 DEF LeftRow, RightRow

\* A byte at the head of a string.
LEMMA ByteRead ==
  ASSUME NEW b \in Byte, NEW s \in Seq(Byte)
  PROVE  /\ <<b>> \o s \in Seq(Byte) /\ <<b>> \o s # <<>>
         /\ Head(<<b>> \o s) = b /\ Tail(<<b>> \o s) = s /\ From(<<b>> \o s, 2) = s
         /\ Len(<<b>> \o s) = Len(s) + 1
<1>1. PICK a, t : a = <<b>> /\ t = a \o s
  OBVIOUS
<1>2. a \in Seq(Byte) /\ Len(a) = 1 /\ a[1] = b
  BY <1>1
<1>3. t \in Seq(Byte) /\ From(t, 1 + 1) = s
  BY <1>1, <1>2, HeadRead
<1>4. Len(t) = 1 + Len(s) /\ t[1] = b /\ Len(s) \in Nat
  <2>1. /\ Len(t) = Len(a) + Len(s)
        /\ \A i \in 1..(Len(a) + Len(s)) : t[i] = IF i <= Len(a) THEN a[i] ELSE s[i - Len(a)]
    BY <1>1, <1>2, ConcatProperties
  <2>2. Len(s) \in Nat
    OBVIOUS
  <2> QED BY <1>2, <2>1, <2>2
<1>5. t # <<>> /\ Head(t) = b
  BY <1>3, <1>4
<1>6. Tail(t) = SubSeq(t, 2, Len(t))
  BY <1>3, <1>5, TailIsSubSeq
<1>7. 1 + 1 = 2 /\ 1 + Len(s) = Len(s) + 1
  BY <1>4
<1> QED BY <1>1, <1>3, <1>4, <1>5, <1>6, <1>7 DEF From

\* A repeated byte is a string of its length.
LEMMA BytesIs ==
  ASSUME NEW n \in Nat, NEW b \in Byte
  PROVE  Bytes(n, b) \in Seq(Byte) /\ Len(Bytes(n, b)) = n
BY DEF Bytes

\* An integer of a fixed size at the head of a string.
LEMMA FixedRead ==
  ASSUME NEW n \in Nat, NEW k \in Nat, Shifted(n, k) = 0, NEW rest \in Seq(Byte)
  PROVE  /\ LE(n, k) \in Seq(Byte) /\ Len(LE(n, k)) = k /\ LE(n, k) \o rest \in Seq(Byte)
         /\ SubSeq(LE(n, k) \o rest, 1, k) = LE(n, k) /\ Unsigned(LE(n, k)) = n
         /\ From(LE(n, k) \o rest, k + 1) = rest
<1>1. LE(n, k) \in Seq(Byte) /\ Len(LE(n, k)) = k
  <2>1. n \in Int
    OBVIOUS
  <2> QED BY <2>1, LEIs
<1>2. Unsigned(LE(n, k)) = n
  BY UnsignedLE
<1>3. PICK s, m : s = LE(n, k) /\ m = Len(s)
  OBVIOUS
<1>4. s \in Seq(Byte)
  BY <1>1, <1>3
<1>5. s \o rest \in Seq(Byte) /\ SubSeq(s \o rest, 1, m) = s /\ From(s \o rest, m + 1) = rest
  BY <1>3, <1>4, HeadRead
<1> QED BY <1>1, <1>2, <1>3, <1>5

\* Nothing is left of 0.
LEMMA ShiftedZero == \A k \in Nat : Shifted(0, k) = 0
<1> DEFINE S == {k \in Nat : Shifted(0, k) = 0}
<1>1. 0 \in S
  <2>1. 0 \in Int /\ 0 \in Nat
    OBVIOUS
  <2> QED BY <2>1, ShiftedIs
<1>2. ASSUME NEW k \in Nat, k \in S
      PROVE  k + 1 \in S
  <2>1. 0 \in Int /\ k + 1 \in Nat
    OBVIOUS
  <2>2. Shifted(0, k + 1) = 0 \div Base
    BY <1>2, <2>1, ShiftedIs
  <2> QED BY <2>1, <2>2, BaseOK
<1>3. Nat \subseteq S
  <2> HIDE DEF S
  <2> QED BY <1>1, <1>2, SetInduction
<1> QED BY <1>3

-----------------------------------------------------------------------------
(* The parts of the transaction *)

Prevout == Bytes(32, 0) \o Bytes(4, Base - 1)

Sequence == Bytes(4, Base - 1)

\* A string whose length fits a variable-length integer.
Sized(s) == s \in Seq(Byte) /\ Shifted(Len(s), 8) = 0

\* What a node finds in the bytes of an input and of the rest.
InputHeads(input, sig, rest) ==
  LET tail == From(input, 37) IN
  /\ input \in Seq(Byte)
  /\ SubSeq(input, 1, 36) = Prevout
  /\ Taken(tail) = sig
  /\ SubSeq(Left(tail), 1, 4) = Sequence
  /\ From(Left(tail), 5) = rest

\* The input is read back, and what follows is left.
LEMMA InputRead ==
  ASSUME NEW sig, Sized(sig), NEW rest \in Seq(Byte)
  PROVE  InputHeads(inputBody(sig) \o rest, sig, rest)
<1>0. PICK input : input = inputBody(sig) \o rest
  OBVIOUS
<1>1. PICK p, v, q : p = Prevout /\ v = varInt(Len(sig)) /\ q = Sequence
  OBVIOUS
<1>2. p \in Seq(Byte) /\ Len(p) = 36 /\ q \in Seq(Byte) /\ Len(q) = 4
  <2>1. 0 \in Byte /\ Base - 1 \in Byte
    BY BaseOK DEF Byte
  <2>2. PICK x, y : x = Bytes(32, 0) /\ y = Bytes(4, Base - 1)
    OBVIOUS
  <2>3. x \in Seq(Byte) /\ Len(x) = 32 /\ y \in Seq(Byte) /\ Len(y) = 4
    BY <2>1, <2>2, BytesIs
  <2>4. x \o y \in Seq(Byte) /\ Len(x \o y) = Len(x) + Len(y)
    BY <2>3, ConcatProperties
  <2>5. Len(x \o y) = 36
    BY <2>3, <2>4
  <2> QED BY <1>1, <2>2, <2>3, <2>4, <2>5 DEF Prevout, Sequence
<1>3. sig \in Seq(Byte) /\ Shifted(Len(sig), 8) = 0
  BY DEF Sized
<1>4. q \o rest \in Seq(Byte) /\ SubSeq(q \o rest, 1, 4) = q /\ From(q \o rest, 5) = rest
  <2>1. PICK m : m = Len(q)
    OBVIOUS
  <2>2. q \o rest \in Seq(Byte) /\ SubSeq(q \o rest, 1, m) = q /\ From(q \o rest, m + 1) = rest
    BY <1>2, <2>1, HeadRead
  <2>3. m = 4 /\ m + 1 = 5
    BY <1>2, <2>1
  <2> QED BY <2>2, <2>3
<1>5. PICK r, s : r = q \o rest /\ s = v \o (sig \o r)
  OBVIOUS
<1>6. v \in Seq(Byte) /\ s \in Seq(Byte) /\ Taken(s) = sig /\ Left(s) = r
  BY <1>1, <1>3, <1>4, <1>5, StringRead
<1>7. input = p \o s
  <2>1. inputBody(sig) = ((p \o v) \o sig) \o q
    BY <1>1 DEF inputBody, Prevout, Sequence
  <2>2. PICK x : x = (p \o v) \o sig
    OBVIOUS
  <2>3. x \in Seq(Byte)
    <3>1. p \o v \in Seq(Byte)
      BY <1>2, <1>6, ConcatProperties
    <3> QED BY <1>3, <2>2, <3>1, ConcatProperties
  <2>4. (x \o q) \o rest = x \o (q \o rest)
    <3>1. Associates(x, q, rest)
      BY <1>2, <2>3, Grouped
    <3> QED BY <3>1 DEF Associates
  <2>5. r \in Seq(Byte)
    BY <1>4, <1>5
  <2>6. ((p \o v) \o sig) \o r = p \o (v \o (sig \o r))
    <3>1. p \in Seq(Byte) /\ v \in Seq(Byte) /\ sig \in Seq(Byte) /\ r \in Seq(Byte)
      BY <1>2, <1>3, <1>6, <2>5
    <3>2. LeftRow(p, v, sig, r) = RightRow(p, v, sig, r)
      BY <3>1, FourGrouped
    <3> QED BY <3>2 DEF LeftRow, RightRow
  <2>7. input = (x \o q) \o rest
    BY <1>0, <2>1, <2>2
  <2>8. (x \o q) \o rest = x \o r
    BY <1>5, <2>4
  <2>9. x \o r = p \o s
    BY <1>5, <2>2, <2>6
  <2> QED BY <2>7, <2>8, <2>9
<1>8. p \o s \in Seq(Byte) /\ SubSeq(p \o s, 1, 36) = p /\ From(p \o s, 37) = s
  <2>1. PICK m : m = Len(p)
    OBVIOUS
  <2>2. p \o s \in Seq(Byte) /\ SubSeq(p \o s, 1, m) = p /\ From(p \o s, m + 1) = s
    BY <1>2, <1>6, <2>1, HeadRead
  <2>3. m = 36 /\ m + 1 = 37
    BY <1>2, <2>1
  <2> QED BY <2>2, <2>3
<1>9. InputHeads(p \o s, sig, rest)
  BY <1>1, <1>4, <1>5, <1>6, <1>8 DEF InputHeads
<1> QED BY <1>0, <1>7, <1>9

\* The bytes of an input are a string.
LEMMA InputBodyIs ==
  ASSUME NEW sig, Sized(sig)
  PROVE  inputBody(sig) \in Seq(Byte)
<1>1. PICK x, y, v :
        x = Bytes(32, 0) /\ y = Bytes(4, Base - 1) /\ v = varInt(Len(sig))
  OBVIOUS
<1>2. x \in Seq(Byte) /\ y \in Seq(Byte)
  <2>1. 0 \in Byte /\ Base - 1 \in Byte
    BY BaseOK DEF Byte
  <2> QED BY <1>1, <2>1, BytesIs
<1>3. sig \in Seq(Byte) /\ v \in Seq(Byte)
  <2>1. <<>> \in Seq(Byte)
    OBVIOUS
  <2> QED BY <1>1, <2>1, StringRead DEF Sized
<1>4. inputBody(sig) = (((x \o y) \o v) \o sig) \o y
  BY <1>1 DEF inputBody
<1>5. x \o y \in Seq(Byte)
  BY <1>2, ConcatProperties
<1>6. (x \o y) \o v \in Seq(Byte)
  BY <1>3, <1>5, ConcatProperties
<1>7. ((x \o y) \o v) \o sig \in Seq(Byte)
  BY <1>3, <1>6, ConcatProperties
<1> QED BY <1>2, <1>4, <1>7, ConcatProperties

\* An output is read back, and what follows is left.
LEMMA OutputRead ==
  ASSUME NEW value \in Nat, Shifted(value, 8) = 0, NEW script, Sized(script),
         NEW rest \in Seq(Byte), NEW out, out = serializeOutput(value, script) \o rest
  PROVE  /\ out \in Seq(Byte)
         /\ serializeOutput(value, script) \in Seq(Byte)
         /\ Unsigned(SubSeq(out, 1, 8)) = value
         /\ Taken(From(out, 9)) = script
         /\ Left(From(out, 9)) = rest
<1>1. PICK n, v, s : n = LE(value, 8) /\ v = varInt(Len(script)) /\ s = v \o (script \o rest)
  OBVIOUS
<1>2. script \in Seq(Byte) /\ Shifted(Len(script), 8) = 0
  BY DEF Sized
<1>3. v \in Seq(Byte) /\ s \in Seq(Byte) /\ Taken(s) = script /\ Left(s) = rest
  BY <1>1, <1>2, StringRead
<1>4. /\ n \in Seq(Byte) /\ n \o s \in Seq(Byte) /\ SubSeq(n \o s, 1, 8) = n /\ Unsigned(n) = value
      /\ From(n \o s, 9) = s
  <2>1. PICK k \in Nat : k = 8
    OBVIOUS
  <2>2. Shifted(value, k) = 0
    BY <2>1
  <2>3. /\ LE(value, k) \in Seq(Byte) /\ LE(value, k) \o s \in Seq(Byte)
        /\ SubSeq(LE(value, k) \o s, 1, k) = LE(value, k) /\ Unsigned(LE(value, k)) = value
        /\ From(LE(value, k) \o s, k + 1) = s
    BY <1>3, <2>2, FixedRead
  <2>4. k + 1 = 9
    BY <2>1
  <2> QED BY <1>1, <2>1, <2>3, <2>4
<1>5. serializeOutput(value, script) = (n \o v) \o script
  BY <1>1 DEF serializeOutput
<1>6. n \o v \in Seq(Byte) /\ (n \o v) \o script \in Seq(Byte)
  <2>1. n \o v \in Seq(Byte)
    BY <1>3, <1>4, ConcatProperties
  <2> QED BY <1>2, <2>1, ConcatProperties
<1>7. out = n \o s
  <2>1. ((n \o v) \o script) \o rest = n \o (v \o (script \o rest))
    <3>1. n \in Seq(Byte) /\ v \in Seq(Byte) /\ script \in Seq(Byte)
      BY <1>2, <1>3, <1>4
    <3>2. LeftRow(n, v, script, rest) = RightRow(n, v, script, rest)
      BY <3>1, FourGrouped
    <3> QED BY <3>2 DEF LeftRow, RightRow
  <2> QED BY <1>1, <1>5, <2>1
<1> QED BY <1>3, <1>4, <1>5, <1>6, <1>7

\* What a node finds in the bytes of the outputs and of the rest.
OutputsHead(count, value, script, commitment, rest) ==
  LET first  == From(count, 2)
      second == Left(From(first, 9))
  IN /\ count \in Seq(Byte)
     /\ Unsigned(SubSeq(first, 1, 8)) = value
     /\ Taken(From(first, 9)) = script
     /\ (IF Head(count) = 2 THEN Taken(From(second, 9)) ELSE <<>>) = commitment
     /\ (IF Head(count) = 2 THEN Left(From(second, 9)) ELSE second) = rest

\* The outputs are read back, with the commitment or without it, and what follows
\* is left.
LEMMA OutputsRead ==
  ASSUME Base > 35, NEW value \in Nat, Shifted(value, 8) = 0, NEW script, Sized(script),
         NEW commitment, Sized(commitment)
  PROVE  /\ outputs(value, script, commitment) \in Seq(Byte)
         /\ \A rest \in Seq(Byte) :
              OutputsHead(outputs(value, script, commitment) \o rest,
                          value, script, commitment, rest)
<1>1. 1 \in Byte /\ 2 \in Byte /\ varInt(1) = <<1>> /\ varInt(2) = <<2>>
  BY BaseOK DEF Byte, varInt
<1>2. <<1>> \in Seq(Byte) /\ <<2>> \in Seq(Byte)
  BY <1>1
<1>3. PICK out : out = serializeOutput(value, script)
  OBVIOUS
<1>4. \A r \in Seq(Byte) :
        /\ out \in Seq(Byte) /\ out \o r \in Seq(Byte)
        /\ Unsigned(SubSeq(out \o r, 1, 8)) = value
        /\ Taken(From(out \o r, 9)) = script
        /\ Left(From(out \o r, 9)) = r
  BY <1>3, OutputRead
<1>5. CASE commitment = <<>>
  <2>1. outputs(value, script, commitment) = <<1>> \o out
    BY <1>1, <1>3, <1>5 DEF outputs
  <2>2. <<1>> \o out \in Seq(Byte)
    <3>1. out \in Seq(Byte)
      BY <1>4, <1>2
    <3> QED BY <1>1, <3>1, ByteRead
  <2>3. ASSUME NEW rest \in Seq(Byte)
        PROVE  OutputsHead((<<1>> \o out) \o rest, value, script, commitment, rest)
    <3>1. PICK r : r = out \o rest
      OBVIOUS
    <3>2. /\ r \in Seq(Byte) /\ Unsigned(SubSeq(r, 1, 8)) = value
          /\ Taken(From(r, 9)) = script /\ Left(From(r, 9)) = rest /\ out \in Seq(Byte)
      BY <1>4, <3>1
    <3>3. (<<1>> \o out) \o rest = <<1>> \o r
      <4>1. Associates(<<1>>, out, rest)
        BY <1>2, <3>1, <3>2, Grouped
      <4> QED BY <3>1, <4>1 DEF Associates
    <3>4. <<1>> \o r \in Seq(Byte) /\ Head(<<1>> \o r) = 1 /\ From(<<1>> \o r, 2) = r
      BY <1>1, <3>2, ByteRead
    <3>5. OutputsHead(<<1>> \o r, value, script, commitment, rest)
      BY <1>5, <3>2, <3>4 DEF OutputsHead
    <3> QED BY <3>3, <3>5
  <2> QED BY <2>1, <2>2, <2>3
<1>6. CASE commitment # <<>>
  <2>1. PICK com : com = serializeOutput(0, commitment)
    OBVIOUS
  <2>2. \A r \in Seq(Byte) :
          /\ com \in Seq(Byte) /\ com \o r \in Seq(Byte)
          /\ Taken(From(com \o r, 9)) = commitment
          /\ Left(From(com \o r, 9)) = r
    <3>1. 0 \in Nat /\ Shifted(0, 8) = 0
      BY ShiftedZero
    <3> QED BY <2>1, <3>1, OutputRead
  <2>3. outputs(value, script, commitment) = (<<2>> \o out) \o com
    BY <1>1, <1>3, <1>6, <2>1 DEF outputs
  <2>4. com \in Seq(Byte) /\ out \in Seq(Byte)
    BY <1>2, <1>4, <2>2
  <2>5. (<<2>> \o out) \o com \in Seq(Byte)
    <3>1. <<2>> \o out \in Seq(Byte)
      BY <1>1, <2>4, ByteRead
    <3> QED BY <2>4, <3>1, ConcatProperties
  <2>6. ASSUME NEW rest \in Seq(Byte)
        PROVE  OutputsHead(((<<2>> \o out) \o com) \o rest, value, script, commitment, rest)
    <3>1. PICK t : t = com \o rest
      OBVIOUS
    <3>2. t \in Seq(Byte) /\ Taken(From(t, 9)) = commitment /\ Left(From(t, 9)) = rest
      BY <2>2, <3>1
    <3>3. PICK r : r = out \o t
      OBVIOUS
    <3>4. /\ r \in Seq(Byte) /\ Unsigned(SubSeq(r, 1, 8)) = value
          /\ Taken(From(r, 9)) = script /\ Left(From(r, 9)) = t
      BY <1>4, <3>2, <3>3
    <3>5. ((<<2>> \o out) \o com) \o rest = <<2>> \o r
      <4>1. LeftRow(<<2>>, out, com, rest) = RightRow(<<2>>, out, com, rest)
        BY <1>2, <2>4, FourGrouped
      <4> QED BY <3>1, <3>3, <4>1 DEF LeftRow, RightRow
    <3>6. <<2>> \o r \in Seq(Byte) /\ Head(<<2>> \o r) = 2 /\ From(<<2>> \o r, 2) = r
      BY <1>1, <3>4, ByteRead
    <3>7. OutputsHead(<<2>> \o r, value, script, commitment, rest)
      BY <3>2, <3>4, <3>6 DEF OutputsHead
    <3> QED BY <3>5, <3>7
  <2> QED BY <2>3, <2>5, <2>6
<1> QED BY <1>5, <1>6

\* What a node finds in the bytes of the input, of the outputs and of the rest.
BodyHeads(input, sig, value, script, commitment, rest) ==
  LET tail   == From(input, 37)
      count  == From(Left(tail), 5)
      first  == From(count, 2)
      second == Left(From(first, 9))
  IN /\ input \in Seq(Byte)
     /\ SubSeq(input, 1, 36) = Prevout
     /\ Taken(tail) = sig
     /\ SubSeq(Left(tail), 1, 4) = Sequence
     /\ Unsigned(SubSeq(first, 1, 8)) = value
     /\ Taken(From(first, 9)) = script
     /\ (IF Head(count) = 2 THEN Taken(From(second, 9)) ELSE <<>>) = commitment
     /\ (IF Head(count) = 2 THEN Left(From(second, 9)) ELSE second) = rest

\* Input and outputs are read back, and what follows them is left.
LEMMA BodyRead ==
  ASSUME Base > 35, NEW sig, Sized(sig), NEW value \in Nat, Shifted(value, 8) = 0,
         NEW script, Sized(script), NEW commitment, Sized(commitment)
  PROVE  \A w \in Seq(Byte) :
           BodyHeads(inputBody(sig) \o (outputs(value, script, commitment) \o w),
                     sig, value, script, commitment, w)
<1> TAKE w \in Seq(Byte)
<1>1. PICK count : count = outputs(value, script, commitment) \o w
  OBVIOUS
<1>2. OutputsHead(count, value, script, commitment, w)
  BY <1>1, OutputsRead
<1>3. count \in Seq(Byte)
  BY <1>2 DEF OutputsHead
<1>4. PICK input : input = inputBody(sig) \o count
  OBVIOUS
<1>5. InputHeads(input, sig, count)
  BY <1>3, <1>4, InputRead
<1>6. BodyHeads(input, sig, value, script, commitment, w)
  BY <1>2, <1>5 DEF OutputsHead, InputHeads, BodyHeads
<1> QED BY <1>1, <1>4, <1>6

\* A number that fits a byte leaves nothing.
LEMMA ShiftedSmall ==
  ASSUME NEW n \in Byte
  PROVE  \A k \in Nat \ {0} : Shifted(n, k) = 0
<1> TAKE k \in Nat \ {0}
<1>1. k - 1 \in Nat /\ k = (k - 1) + 1
  OBVIOUS
<1>2. n \in Int /\ n \div Base = 0
  BY BaseOK DEF Byte
<1>3. Shifted(n, (k - 1) + 1) = Shifted(n \div Base, k - 1)
  BY <1>1, <1>2, ShiftedFirst
<1> QED BY <1>1, <1>2, <1>3, ShiftedZero

\* What the transactions begin and end with.
LEMMA EndsAre ==
  ASSUME Base > 35
  PROVE  /\ LE(2, 4) \in Seq(Byte) /\ Len(LE(2, 4)) = 4 /\ Unsigned(LE(2, 4)) = 2
         /\ LE(0, 4) \in Seq(Byte) /\ LE(0, 4) = Bytes(4, 0)
         /\ varInt(1) = <<1>> /\ <<1>> \in Seq(Byte) /\ Len(<<1>>) = 1 /\ 1 \in Byte
         /\ <<0, 1>> \in Seq(Byte) /\ Len(<<0, 1>>) = 2
         /\ Bytes(32, 0) \in Seq(Byte) /\ Len(Bytes(32, 0)) = 32 /\ Sized(Bytes(32, 0))
<1>1. 0 \in Byte /\ 1 \in Byte /\ 2 \in Byte /\ 32 \in Byte
  BY BaseOK DEF Byte
<1>2. LE(2, 4) \in Seq(Byte) /\ Len(LE(2, 4)) = 4 /\ Unsigned(LE(2, 4)) = 2
  <2>1. PICK n, k : n = 2 /\ k = 4
    OBVIOUS
  <2>2. n \in Nat /\ n \in Byte /\ k \in Nat \ {0} /\ n \in Int
    BY <1>1, <2>1
  <2>3. Shifted(n, k) = 0
    BY <2>2, ShiftedSmall
  <2>4. LE(n, k) \in Seq(Byte) /\ Len(LE(n, k)) = k
    BY <2>2, LEIs
  <2>5. Unsigned(LE(n, k)) = n
    BY <2>2, <2>3, UnsignedLE
  <2> QED BY <2>1, <2>4, <2>5
<1>3. LE(0, 4) \in Seq(Byte) /\ LE(0, 4) = Bytes(4, 0)
  <2>1. \A i \in 1..4 : Shifted(0, i - 1) % Base = 0
    <3>1. \A i \in 1..4 : i - 1 \in Nat
      OBVIOUS
    <3> QED BY <3>1, ShiftedZero, BaseOK
  <2>2. LE(0, 4) = Bytes(4, 0)
    BY <2>1 DEF LE, Bytes
  <2>3. PICK k, b : k = 4 /\ b = 0
    OBVIOUS
  <2>4. Bytes(k, b) \in Seq(Byte)
    <3>1. k \in Nat /\ b \in Byte
      BY <1>1, <2>3
    <3> QED BY <3>1, BytesIs
  <2> QED BY <2>2, <2>3, <2>4
<1>4. varInt(1) = <<1>>
  BY BaseOK DEF varInt
<1>5. /\ <<1>> \in Seq(Byte) /\ Len(<<1>>) = 1
      /\ <<0, 1>> \in Seq(Byte) /\ Len(<<0, 1>>) = 2
  BY <1>1
<1>6. Bytes(32, 0) \in Seq(Byte) /\ Len(Bytes(32, 0)) = 32 /\ Sized(Bytes(32, 0))
  <2>1. PICK n, b, k : n = 32 /\ b = 0 /\ k = 8
    OBVIOUS
  <2>2. n \in Nat /\ n \in Byte /\ b \in Byte /\ k \in Nat \ {0}
    BY <1>1, <2>1
  <2>3. Bytes(n, b) \in Seq(Byte) /\ Len(Bytes(n, b)) = n
    BY <2>2, BytesIs
  <2>4. Shifted(n, k) = 0
    BY <2>2, ShiftedSmall
  <2> QED BY <2>1, <2>3, <2>4 DEF Sized
<1> QED BY <1>1, <1>2, <1>3, <1>4, <1>5, <1>6

\* The transaction without its witness, as a node reads it.
Plain(sig, value, script, commitment) ==
  [version    |-> 2,
   inputs     |-> 1,
   prevout    |-> Prevout,
   scriptSig  |-> sig,
   sequence   |-> Sequence,
   value      |-> value,
   script     |-> script,
   commitment |-> commitment,
   witness    |-> <<>>,
   locktime   |-> Bytes(4, 0)]

\* The transaction that makes the txid is read back.
LEMMA LegacyRead ==
  ASSUME Base > 35, NEW sig, Sized(sig), NEW value \in Nat, Shifted(value, 8) = 0,
         NEW script, Sized(script), NEW commitment, Sized(commitment)
  PROVE  ReadTx(legacyTx(sig, value, script, commitment)) = Plain(sig, value, script, commitment)
<1>1. PICK tx, a, o, body, outs, w :
        /\ tx = legacyTx(sig, value, script, commitment)
        /\ a = LE(2, 4) /\ o = <<1>> /\ body = inputBody(sig)
        /\ outs = outputs(value, script, commitment) /\ w = LE(0, 4)
  OBVIOUS
<1>2. /\ a \in Seq(Byte) /\ Len(a) = 4 /\ Unsigned(a) = 2
      /\ o \in Seq(Byte) /\ Len(o) = 1 /\ o[1] = 1 /\ varInt(1) = o
      /\ w \in Seq(Byte) /\ w = Bytes(4, 0)
  BY <1>1, EndsAre
<1>3. body \in Seq(Byte) /\ outs \in Seq(Byte)
  <2>2. outs \in Seq(Byte)
    BY <1>1, OutputsRead
  <2>3. body \in Seq(Byte)
    BY <1>1, InputBodyIs
  <2> QED BY <2>2, <2>3
<1>4. PICK input : input = body \o (outs \o w)
  OBVIOUS
<1>5. PICK s : s = From(input, 37)
  OBVIOUS
<1>6. PICK count : count = From(Left(s), 5)
  OBVIOUS
<1>7. PICK first : first = From(count, 2)
  OBVIOUS
<1>8. PICK second : second = Left(From(first, 9))
  OBVIOUS
<1>9. PICK after : after = IF Head(count) = 2 THEN Left(From(second, 9)) ELSE second
  OBVIOUS
<1>10. /\ input \in Seq(Byte)
       /\ SubSeq(input, 1, 36) = Prevout /\ Taken(s) = sig /\ SubSeq(Left(s), 1, 4) = Sequence
       /\ Unsigned(SubSeq(first, 1, 8)) = value /\ Taken(From(first, 9)) = script
       /\ (IF Head(count) = 2 THEN Taken(From(second, 9)) ELSE <<>>) = commitment
       /\ after = w
  <2>1. BodyHeads(inputBody(sig) \o (outputs(value, script, commitment) \o w),
                  sig, value, script, commitment, w)
    BY <1>2, BodyRead
  <2>2. BodyHeads(input, sig, value, script, commitment, w)
    BY <1>1, <1>4, <2>1
  <2> QED BY <1>5, <1>6, <1>7, <1>8, <1>9, <2>2 DEF BodyHeads
<1>11. PICK h : h = a \o o
  OBVIOUS
<1>12. h \in Seq(Byte) /\ Len(h) = 5
  <2>1. h \in Seq(Byte) /\ Len(h) = Len(a) + Len(o)
    BY <1>2, <1>11, ConcatProperties
  <2> QED BY <1>2, <2>1
<1>13. tx = h \o input
  <2>1. LeftRow(h, body, outs, w) = RightRow(h, body, outs, w)
    BY <1>2, <1>3, <1>12, FourGrouped
  <2>2. tx = LeftRow(h, body, outs, w)
    BY <1>1, <1>2, <1>11 DEF legacyTx, LeftRow
  <2>3. RightRow(h, body, outs, w) = h \o input
    BY <1>4 DEF RightRow
  <2> QED BY <2>1, <2>2, <2>3
<1>14. From(tx, 6) = input
  <2>1. PICK m : m = Len(h)
    OBVIOUS
  <2>2. From(h \o input, m + 1) = input
    BY <1>10, <1>12, <2>1, HeadRead
  <2>3. m + 1 = 6
    BY <1>12, <2>1
  <2> QED BY <1>13, <2>2, <2>3
<1>15. PICK r : r = o \o input
  OBVIOUS
<1>16. r \in Seq(Byte) /\ tx = a \o r
  <2>1. (a \o o) \o input = a \o (o \o input)
    <3>1. a \in Seq(Byte) /\ o \in Seq(Byte) /\ input \in Seq(Byte)
      BY <1>2, <1>10
    <3>2. Associates(a, o, input)
      BY <3>1, Grouped
    <3> QED BY <3>2 DEF Associates
  <2>2. r \in Seq(Byte)
    BY <1>2, <1>10, <1>15, ConcatProperties
  <2> QED BY <1>11, <1>13, <1>15, <2>1, <2>2
<1>17. SubSeq(tx, 1, 4) = a
  <2>1. PICK m : m = Len(a)
    OBVIOUS
  <2>2. SubSeq(a \o r, 1, m) = a
    BY <1>2, <1>16, <2>1, HeadRead
  <2> QED BY <1>2, <1>16, <2>1, <2>2
<1>18. tx[5] = 1 /\ ~(SubSeq(tx, 5, 6) = <<0, 1>>)
  <2>1. r[1] = 1 /\ Len(r) >= 1
    <3>1. /\ Len(r) = Len(o) + Len(input)
          /\ \A i \in 1..(Len(o) + Len(input)) : r[i] = IF i <= Len(o) THEN o[i] ELSE input[i - Len(o)]
      BY <1>2, <1>10, <1>15, ConcatProperties
    <3>2. Len(input) \in Nat
      BY <1>10
    <3> QED BY <1>2, <3>1, <3>2
  <2>2. /\ tx \in Seq(Byte) /\ Len(tx) = Len(a) + Len(r)
        /\ \A i \in 1..(Len(a) + Len(r)) : tx[i] = IF i <= Len(a) THEN a[i] ELSE r[i - Len(a)]
    BY <1>2, <1>16, ConcatProperties
  <2>3. Len(r) \in Nat
    BY <1>16
  <2>4. tx[5] = 1
    <3>1. 5 \in 1..(Len(a) + Len(r)) /\ ~(5 <= Len(a)) /\ 5 - Len(a) = 1
      BY <1>2, <2>1, <2>3
    <3> QED BY <2>1, <2>2, <3>1
  <2>5. PICK t, u : t = SubSeq(tx, 5, 6) /\ u = <<0, 1>>
    OBVIOUS
  <2>6. u[1] = 0
    BY <2>5
  <2>7. ASSUME t = u PROVE FALSE
    <3>1. SubSeq(tx, 5, 6)[1] = tx[5]
      BY <2>2, <2>3
    <3> QED BY <2>4, <2>5, <2>6, <2>7, <3>1
  <2> QED BY <2>4, <2>5, <2>7
<1>19. ReadTx(tx) = [version |-> Unsigned(SubSeq(tx, 1, 4)), inputs |-> tx[5],
                     prevout |-> SubSeq(input, 1, 36), scriptSig |-> Taken(s),
                     sequence |-> SubSeq(Left(s), 1, 4),
                     value |-> Unsigned(SubSeq(first, 1, 8)), script |-> Taken(From(first, 9)),
                     commitment |-> IF Head(count) = 2 THEN Taken(From(second, 9)) ELSE <<>>,
                     witness |-> <<>>, locktime |-> after]
  BY <1>5, <1>6, <1>7, <1>8, <1>9, <1>14, <1>18 DEF ReadTx
<1> QED BY <1>1, <1>2, <1>10, <1>17, <1>18, <1>19 DEF Plain


\* The transaction with its witness, as a node reads it: one item, the reserved
\* value.
LEMMA RawRead ==
  ASSUME Base > 35, NEW sig, Sized(sig), NEW value \in Nat, Shifted(value, 8) = 0,
         NEW script, Sized(script), NEW commitment, Sized(commitment), commitment # <<>>
  PROVE  ReadTx(rawTx(sig, value, script, commitment)) =
           [Plain(sig, value, script, commitment) EXCEPT !.witness = <<1, Bytes(32, 0)>>]
<1>1. PICK tx, a, z, o, body, outs, v, x, w :
        /\ tx = rawTx(sig, value, script, commitment)
        /\ a = LE(2, 4) /\ z = <<0, 1>> /\ o = <<1>> /\ body = inputBody(sig)
        /\ outs = outputs(value, script, commitment) /\ v = varInt(32) /\ x = Bytes(32, 0)
        /\ w = LE(0, 4)
  OBVIOUS
<1>2. /\ a \in Seq(Byte) /\ Len(a) = 4 /\ Unsigned(a) = 2
      /\ z \in Seq(Byte) /\ Len(z) = 2
      /\ o \in Seq(Byte) /\ Len(o) = 1 /\ o[1] = 1 /\ varInt(1) = o
      /\ x \in Seq(Byte) /\ Sized(x) /\ Len(x) = 32
      /\ w \in Seq(Byte) /\ w = Bytes(4, 0)
  BY <1>1, EndsAre
<1>3. body \in Seq(Byte) /\ outs \in Seq(Byte)
  <2>1. outs \in Seq(Byte)
    BY <1>1, OutputsRead
  <2>2. body \in Seq(Byte)
    BY <1>1, InputBodyIs
  <2> QED BY <2>1, <2>2
<1>4. PICK y : y = v \o (x \o w)
  OBVIOUS
<1>5. v \in Seq(Byte) /\ y \in Seq(Byte) /\ Taken(y) = x /\ Left(y) = w
  <2>1. v = varInt(Len(x)) /\ Shifted(Len(x), 8) = 0
    BY <1>1, <1>2 DEF Sized
  <2> QED BY <1>2, <1>4, <2>1, StringRead
<1>6. PICK rest : rest = o \o y
  OBVIOUS
<1>7. rest \in Seq(Byte) /\ Head(rest) = 1 /\ Tail(rest) = y
  <2>1. 1 \in Byte
    BY BaseOK DEF Byte
  <2>2. <<1>> \o y \in Seq(Byte) /\ Head(<<1>> \o y) = 1 /\ Tail(<<1>> \o y) = y
    BY <1>5, <2>1, ByteRead
  <2> QED BY <1>1, <1>6, <2>2
<1>8. PICK input : input = body \o (outs \o rest)
  OBVIOUS
<1>9. BodyHeads(input, sig, value, script, commitment, rest)
  <2>1. BodyHeads(inputBody(sig) \o (outputs(value, script, commitment) \o rest),
                  sig, value, script, commitment, rest)
    BY <1>7, BodyRead
  <2> QED BY <1>1, <1>8, <2>1
<1>10. input \in Seq(Byte)
  BY <1>9 DEF BodyHeads
<1>11. PICK az, h, g : az = a \o z /\ h = az \o o /\ g = (h \o body) \o outs
  OBVIOUS
<1>12. az \in Seq(Byte) /\ Len(az) = 6 /\ h \in Seq(Byte) /\ Len(h) = 7 /\ h[7] = 1
  <2>1. az \in Seq(Byte) /\ Len(az) = Len(a) + Len(z)
    BY <1>2, <1>11, ConcatProperties
  <2>2. /\ h \in Seq(Byte) /\ Len(h) = Len(az) + Len(o)
        /\ \A i \in 1..(Len(az) + Len(o)) : h[i] = IF i <= Len(az) THEN az[i] ELSE o[i - Len(az)]
    <3>1. az \in Seq(Byte) /\ o \in Seq(Byte)
      BY <1>2, <2>1
    <3> QED BY <1>11, <3>1, ConcatProperties
  <2>3. Len(az) = 6
    BY <1>2, <2>1
  <2> QED BY <1>2, <2>1, <2>2, <2>3
<1>13. tx = h \o input
  <2>1. tx = (((g \o o) \o v) \o x) \o w
    BY <1>1, <1>2, <1>11 DEF rawTx
  <2>2. g \in Seq(Byte) /\ g \o o \in Seq(Byte)
    <3>1. h \o body \in Seq(Byte)
      BY <1>3, <1>12, ConcatProperties
    <3>2. g \in Seq(Byte)
      BY <1>3, <1>11, <3>1, ConcatProperties
    <3>3. o \in Seq(Byte)
      BY <1>2
    <3> QED BY <3>2, <3>3, ConcatProperties
  <2>3. (((g \o o) \o v) \o x) \o w = (g \o o) \o y
    <3>1. PICK k : k = g \o o
      OBVIOUS
    <3>2. k \in Seq(Byte) /\ v \in Seq(Byte) /\ x \in Seq(Byte) /\ w \in Seq(Byte)
      BY <1>2, <1>5, <2>2, <3>1
    <3>3. LeftRow(k, v, x, w) = RightRow(k, v, x, w)
      BY <3>2, FourGrouped
    <3>4. ((k \o v) \o x) \o w = k \o y
      BY <1>4, <3>3 DEF LeftRow, RightRow
    <3> QED BY <3>1, <3>4
  <2>4. (g \o o) \o y = g \o (o \o y)
    <3>1. g \in Seq(Byte) /\ o \in Seq(Byte) /\ y \in Seq(Byte)
      BY <1>2, <1>5, <2>2
    <3>2. Associates(g, o, y)
      BY <3>1, Grouped
    <3> QED BY <3>2 DEF Associates
  <2>5. g \o rest = h \o input
    <3>1. LeftRow(h, body, outs, rest) = RightRow(h, body, outs, rest)
      BY <1>3, <1>7, <1>12, FourGrouped
    <3> QED BY <1>8, <1>11, <3>1 DEF LeftRow, RightRow
  <2>6. g \o (o \o y) = g \o rest
    BY <1>6
  <2> QED BY <2>1, <2>3, <2>4, <2>5, <2>6
<1>14. From(tx, 8) = input
  <2>1. PICK m : m = Len(h)
    OBVIOUS
  <2>2. From(h \o input, m + 1) = input
    BY <1>10, <1>12, <2>1, HeadRead
  <2>3. m + 1 = 8
    BY <1>12, <2>1
  <2> QED BY <1>13, <2>2, <2>3
<1>15. SubSeq(tx, 1, 4) = a /\ SubSeq(tx, 5, 6) = z /\ tx[7] = 1
  <2>1. PICK c : c = o \o input
    OBVIOUS
  <2>2. c \in Seq(Byte) /\ tx = az \o c
    <3>1. az \in Seq(Byte) /\ o \in Seq(Byte) /\ input \in Seq(Byte)
      BY <1>2, <1>10, <1>12
    <3>2. (az \o o) \o input = az \o (o \o input)
      <4>1. Associates(az, o, input)
        BY <3>1, Grouped
      <4> QED BY <4>1 DEF Associates
    <3>3. c \in Seq(Byte)
      BY <2>1, <3>1, ConcatProperties
    <3> QED BY <1>11, <1>13, <2>1, <3>2, <3>3
  <2>3. PICK m, n : m = Len(a) /\ n = Len(z)
    OBVIOUS
  <2>4. SubSeq((a \o z) \o c, m + 1, m + n) = z
    <3>1. a \in Seq(Byte) /\ z \in Seq(Byte) /\ c \in Seq(Byte) /\ m = Len(a)
      BY <1>2, <2>2, <2>3
    <3>2. SubSeq((a \o z) \o c, m + 1, m + Len(z)) = z
      BY <3>1, MiddleRead
    <3> QED BY <2>3, <3>2
  <2>5. m + 1 = 5 /\ m + n = 6
    BY <1>2, <2>3
  <2>6. SubSeq(tx, 5, 6) = z
    BY <1>11, <2>2, <2>4, <2>5
  <2>7. PICK d : d = z \o c
    OBVIOUS
  <2>8. d \in Seq(Byte) /\ tx = a \o d
    <3>1. a \in Seq(Byte) /\ z \in Seq(Byte) /\ c \in Seq(Byte)
      BY <1>2, <2>2
    <3>2. (a \o z) \o c = a \o (z \o c)
      <4>1. Associates(a, z, c)
        BY <3>1, Grouped
      <4> QED BY <4>1 DEF Associates
    <3>3. d \in Seq(Byte)
      BY <2>7, <3>1, ConcatProperties
    <3> QED BY <1>11, <2>2, <2>7, <3>2, <3>3
  <2>9. SubSeq(a \o d, 1, m) = a
    BY <1>2, <2>3, <2>8, HeadRead
  <2>10. m = 4
    BY <1>2, <2>3
  <2>11. tx[7] = 1
    <3>1. \A i \in 1..(Len(h) + Len(input)) :
            (h \o input)[i] = IF i <= Len(h) THEN h[i] ELSE input[i - Len(h)]
      BY <1>10, <1>12, ConcatProperties
    <3>2. Len(input) \in Nat
      BY <1>10
    <3>3. 7 \in 1..(Len(h) + Len(input)) /\ 7 <= Len(h)
      BY <1>12, <3>2
    <3> QED BY <1>12, <1>13, <3>1, <3>3
  <2> QED BY <2>6, <2>8, <2>9, <2>10, <2>11
<1>16. PICK s : s = From(input, 37)
  OBVIOUS
<1>17. PICK count : count = From(Left(s), 5)
  OBVIOUS
<1>18. PICK first : first = From(count, 2)
  OBVIOUS
<1>19. PICK second : second = Left(From(first, 9))
  OBVIOUS
<1>20. /\ SubSeq(input, 1, 36) = Prevout /\ Taken(s) = sig /\ SubSeq(Left(s), 1, 4) = Sequence
       /\ Unsigned(SubSeq(first, 1, 8)) = value /\ Taken(From(first, 9)) = script
       /\ (IF Head(count) = 2 THEN Taken(From(second, 9)) ELSE <<>>) = commitment
       /\ (IF Head(count) = 2 THEN Left(From(second, 9)) ELSE second) = rest
  BY <1>9, <1>16, <1>17, <1>18, <1>19 DEF BodyHeads
<1>21. SubSeq(tx, 5, 6) = <<0, 1>>
  BY <1>1, <1>15
<1>22. ReadTx(tx) = [version |-> Unsigned(SubSeq(tx, 1, 4)), inputs |-> tx[7],
                     prevout |-> SubSeq(input, 1, 36), scriptSig |-> Taken(s),
                     sequence |-> SubSeq(Left(s), 1, 4),
                     value |-> Unsigned(SubSeq(first, 1, 8)), script |-> Taken(From(first, 9)),
                     commitment |-> IF Head(count) = 2 THEN Taken(From(second, 9)) ELSE <<>>,
                     witness |-> <<Head(rest), Taken(Tail(rest))>>,
                     locktime |-> Left(Tail(rest))]
  BY <1>14, <1>16, <1>17, <1>18, <1>19, <1>20, <1>21 DEF ReadTx
<1>23. ReadTx(tx) = [version |-> 2, inputs |-> 1, prevout |-> Prevout, scriptSig |-> sig,
                     sequence |-> Sequence, value |-> value, script |-> script,
                     commitment |-> commitment, witness |-> <<1, x>>, locktime |-> w]
  BY <1>2, <1>5, <1>7, <1>15, <1>20, <1>22
<1>24. [Plain(sig, value, script, commitment) EXCEPT !.witness = <<1, x>>] =
         [version |-> 2, inputs |-> 1, prevout |-> Prevout, scriptSig |-> sig,
          sequence |-> Sequence, value |-> value, script |-> script,
          commitment |-> commitment, witness |-> <<1, x>>, locktime |-> w]
  <2>1. Plain(sig, value, script, commitment) =
          [version |-> 2, inputs |-> 1, prevout |-> Prevout, scriptSig |-> sig,
           sequence |-> Sequence, value |-> value, script |-> script,
           commitment |-> commitment, witness |-> <<>>, locktime |-> w]
    <3>1. w = Bytes(4, 0)
      BY <1>2
    <3> QED BY <3>1, Zenon DEF Plain
  <2> QED BY <2>1
<1> QED BY <1>1, <1>23, <1>24

-----------------------------------------------------------------------------
(* The script of the input *)

\* A push is its length before it.
LEMMA PushIs ==
  ASSUME NEW s \in Seq(Byte), Len(s) < Base
  PROVE  /\ opPush(s) \in Seq(Byte)
         /\ Len(opPush(s)) = IF s = <<>> THEN 0 ELSE Len(s) + 1
         /\ s # <<>> => opPush(s) = <<Len(s)>> \o s
<1>1. CASE s = <<>>
  BY <1>1 DEF opPush
<1>2. CASE s # <<>>
  <2>1. PICK n : n = Len(s)
    OBVIOUS
  <2>2. n \in Byte
    BY <2>1, BaseOK DEF Byte
  <2>3. <<n>> \o s \in Seq(Byte) /\ Len(<<n>> \o s) = Len(s) + 1
    BY <2>2, ByteRead
  <2> QED BY <1>2, <2>1, <2>3 DEF opPush
<1> QED BY <1>1, <1>2

\* The bytes of a height are at most 9.
LEMMA HeightBytes ==
  ASSUME NEW height \in Nat, Shifted(height, 8) = 0
  PROVE  /\ scriptNumEncode(height) \in Seq(Byte) /\ Len(scriptNumEncode(height)) \in 0..9
         /\ ScriptNum(scriptNumEncode(height)) = height
<1>1. height \in Int /\ Magnitude(height) = height
  BY DEF Magnitude
<1>2. PICK s : s = scriptNumEncode(height)
  OBVIOUS
<1>3. s \in Seq(Byte) /\ Len(s) <= 9 /\ ScriptNum(s) = height
  BY <1>1, <1>2, ScriptNumBack
<1>4. Len(s) \in Nat
  BY <1>3
<1>5. PICK n : n = Len(s)
  OBVIOUS
<1>6. n \in Nat /\ n <= 9
  BY <1>3, <1>4, <1>5
<1>7. n \in 0..9
  BY <1>6
<1> QED BY <1>2, <1>3, <1>5, <1>7

\* The script begins with the height, which a node reads back.
LEMMA HeightRead ==
  ASSUME Base > 35, NEW height \in Nat, Shifted(height, 8) = 0
  PROVE  /\ opPush(scriptNumEncode(height)) \in Seq(Byte)
         /\ Len(opPush(scriptNumEncode(height))) \in 0..10
         /\ height # 0 => \A rest \in Seq(Byte) :
              ScriptNum(Taken(opPush(scriptNumEncode(height)) \o rest)) = height
<1>1. PICK s, p : s = scriptNumEncode(height) /\ p = opPush(s)
  OBVIOUS
<1>2. s \in Seq(Byte) /\ Len(s) \in 0..9 /\ ScriptNum(s) = height
  BY <1>1, HeightBytes
<1>3. p \in Seq(Byte) /\ Len(p) \in 0..10 /\ (s # <<>> => p = <<Len(s)>> \o s)
  <2>1. PICK n : n = Len(s)
    OBVIOUS
  <2>2. n \in 0..9
    BY <1>2, <2>1
  <2>3. n < Base
    BY <2>2, BaseOK
  <2>4. s \in Seq(Byte) /\ Len(s) < Base
    BY <1>2, <2>1, <2>3
  <2>5. /\ opPush(s) \in Seq(Byte) /\ Len(opPush(s)) = IF s = <<>> THEN 0 ELSE Len(s) + 1
        /\ s # <<>> => opPush(s) = <<Len(s)>> \o s
    BY <2>4, PushIs
  <2>6. Len(p) = 0 \/ Len(p) = n + 1
    BY <1>1, <2>1, <2>5
  <2>7. Len(p) \in 0..10
    <3>1. 0 \in 0..10 /\ n + 1 \in 0..10
      BY <2>2
    <3> QED BY <2>6, <3>1
  <2> QED BY <1>1, <2>5, <2>7
<1>4. ASSUME height # 0, NEW rest \in Seq(Byte)
      PROVE  ScriptNum(Taken(p \o rest)) = height
  <2>1. s # <<>>
    BY <1>2, <1>4 DEF ScriptNum
  <2>2. PICK n, o : n = Len(s) /\ o = <<n>>
    OBVIOUS
  <2>3. n \in Byte /\ n < Base - 3
    <3>1. n \in 0..9
      BY <1>2, <2>2
    <3> QED BY <3>1, BaseOK DEF Byte
  <2>4. o = varInt(n) /\ o \in Seq(Byte)
    BY <2>2, <2>3 DEF varInt
  <2>5. p \o rest = o \o (s \o rest)
    <3>1. o \in Seq(Byte) /\ s \in Seq(Byte)
      BY <1>2, <2>4
    <3>2. (o \o s) \o rest = o \o (s \o rest)
      <4>1. Associates(o, s, rest)
        BY <3>1, Grouped
      <4> QED BY <4>1 DEF Associates
    <3>3. p = o \o s
      BY <1>3, <2>1, <2>2
    <3> QED BY <3>2, <3>3
  <2>6. Shifted(Len(s), 8) = 0
    <3>1. PICK k \in Nat \ {0} : k = 8
      OBVIOUS
    <3>2. Shifted(n, k) = 0
      BY <2>3, ShiftedSmall
    <3> QED BY <2>2, <3>1, <3>2
  <2>7. o = varInt(Len(s))
    BY <2>2, <2>4
  <2>8. Taken(o \o (s \o rest)) = s
    BY <1>2, <2>6, <2>7, StringRead
  <2> QED BY <1>2, <2>5, <2>8
<1> QED BY <1>1, <1>3, <1>4

\* So it does with the tag and the extra nonce behind it, and its length is within
\* the limits of the protocol.
LEMMA ScriptSigIs ==
  ASSUME Base > 35, NEW height \in Nat, Shifted(height, 8) = 0,
         NEW tag \in Seq(Byte), NEW extra \in Seq(Byte),
         Len(tag) \in 1..30, Len(extra) \in 1..30
  PROVE  /\ ScriptSig(height, tag, extra) \in Seq(Byte)
         /\ Len(ScriptSig(height, tag, extra)) \in 2..100
         /\ height # 0 => ScriptNum(Taken(ScriptSig(height, tag, extra))) = height
<1>1. PICK p, t, x :
        p = opPush(scriptNumEncode(height)) /\ t = opPush(tag) /\ x = opPush(extra)
  OBVIOUS
<1>2. /\ p \in Seq(Byte) /\ Len(p) \in 0..10
      /\ height # 0 => \A rest \in Seq(Byte) : ScriptNum(Taken(p \o rest)) = height
  BY <1>1, HeightRead
<1>3. \A s \in Seq(Byte) : Len(s) \in 1..30 => opPush(s) \in Seq(Byte) /\ Len(opPush(s)) \in 2..31
  <2> TAKE s \in Seq(Byte)
  <2> HAVE Len(s) \in 1..30
  <2>1. PICK n : n = Len(s)
    OBVIOUS
  <2>2. n \in 1..30
    BY <2>1
  <2>3. n < Base
    BY <2>2, BaseOK
  <2>4. Len(s) < Base
    BY <2>1, <2>3
  <2>5. s # <<>>
    <3>1. Len(<<>>) = 0 /\ n # 0
      BY <2>2
    <3> QED BY <2>1, <3>1
  <2>6. opPush(s) \in Seq(Byte) /\ Len(opPush(s)) = Len(s) + 1
    BY <2>4, <2>5, PushIs
  <2>7. n + 1 \in 2..31
    BY <2>2
  <2> QED BY <2>1, <2>6, <2>7
<1>4. t \in Seq(Byte) /\ Len(t) \in 2..31 /\ x \in Seq(Byte) /\ Len(x) \in 2..31
  BY <1>1, <1>3
<1>5. PICK tx : tx = t \o x
  OBVIOUS
<1>6. tx \in Seq(Byte) /\ Len(tx) \in 4..62
  <2>1. t \in Seq(Byte) /\ x \in Seq(Byte)
    BY <1>4
  <2>2. tx \in Seq(Byte) /\ Len(tx) = Len(t) + Len(x)
    BY <1>5, <2>1, ConcatProperties
  <2>3. PICK n, m : n = Len(t) /\ m = Len(x)
    OBVIOUS
  <2>4. n \in 2..31 /\ m \in 2..31
    BY <1>4, <2>3
  <2>5. n + m \in 4..62
    BY <2>4
  <2> QED BY <2>2, <2>3, <2>5
<1>7. (p \o t) \o x = p \o tx
  <2>1. p \in Seq(Byte) /\ t \in Seq(Byte) /\ x \in Seq(Byte)
    BY <1>2, <1>4
  <2>3. (p \o t) \o x = p \o (t \o x)
    <3>1. Associates(p, t, x)
      BY <2>1, Grouped
    <3> QED BY <3>1 DEF Associates
  <2> QED BY <1>5, <2>3
<1>8. ScriptSig(height, tag, extra) = p \o tx
  BY <1>1, <1>7 DEF ScriptSig
<1>9. p \o tx \in Seq(Byte) /\ Len(p \o tx) \in 2..100
  <2>1. p \in Seq(Byte) /\ tx \in Seq(Byte)
    BY <1>2, <1>6
  <2>2. p \o tx \in Seq(Byte) /\ Len(p \o tx) = Len(p) + Len(tx)
    BY <2>1, ConcatProperties
  <2>3. PICK n, m : n = Len(p) /\ m = Len(tx)
    OBVIOUS
  <2>4. n \in 0..10 /\ m \in 4..62
    BY <1>2, <1>6, <2>3
  <2>5. n + m \in 2..100
    BY <2>4
  <2> QED BY <2>2, <2>3, <2>5
<1> QED BY <1>2, <1>6, <1>8, <1>9

-----------------------------------------------------------------------------
(* Strings one after another *)

\* f[i] is the first i strings of c in a row.
Joined(f, c, n) ==
  /\ f \in [1..n -> Seq(Byte)]
  /\ f[1] = c[1]
  /\ \A i \in 2..n : f[i] = f[i - 1] \o c[i]

Joins(c, n) ==
  [i \in Nat |-> [m \in Seq(Byte) |-> m \o (IF i + 1 \in 1..n THEN c[i + 1] ELSE <<>>)]]

\* There is such a function.
LEMMA JoinedExists ==
  ASSUME NEW n \in Nat \ {0}, NEW c \in [1..n -> Seq(Byte)]
  PROVE  \E f : Joined(f, c, n)
<1> DEFINE d == [i \in Nat |-> IF i + 1 \in 1..n THEN c[i + 1] ELSE <<>>]
<1>1. d \in [Nat -> Seq(Byte)] /\ \A i \in 1..(n - 1) : d[i] = c[i + 1]
  <2>1. <<>> \in Seq(Byte)
    OBVIOUS
  <2> QED BY <2>1
<1>2. Joins(c, n) = [i \in Nat |-> [m \in Seq(Byte) |-> m \o d[i]]]
  BY DEF Joins
<1> HIDE DEF d
<1>3. PICK g : g = Joins(c, n)
  OBVIOUS
<1>4. g \in [Nat -> [Seq(Byte) -> Seq(Byte)]] /\ \A i \in Nat, m \in Seq(Byte) : g[i][m] = m \o d[i]
  <2>1. \A i \in Nat, m \in Seq(Byte) : m \o d[i] \in Seq(Byte)
    BY <1>1, ConcatProperties
  <2>2. \A i \in Nat : [m \in Seq(Byte) |-> m \o d[i]] \in [Seq(Byte) -> Seq(Byte)]
    BY <2>1
  <2>3. g = [i \in Nat |-> [m \in Seq(Byte) |-> m \o d[i]]]
    BY <1>2, <1>3
  <2>4. g \in [Nat -> [Seq(Byte) -> Seq(Byte)]]
    BY <2>2, <2>3
  <2>5. \A i \in Nat, m \in Seq(Byte) : g[i][m] = m \o d[i]
    BY <2>3
  <2> QED BY <2>4, <2>5
<1>5. n - 1 \in Nat /\ c[1] \in Seq(Byte)
  OBVIOUS
<1>6. PICK f : Iterates(f, n - 1, Seq(Byte), c[1], g)
  BY <1>4, <1>5, Iteration
<1> DEFINE h == [i \in 1..n |-> f[i - 1]]
<1>7. \A i \in 1..n : i - 1 \in 0..(n - 1)
  OBVIOUS
<1>8. h \in [1..n -> Seq(Byte)] /\ h[1] = c[1]
  BY <1>6, <1>7 DEF Iterates
<1>9. ASSUME NEW i \in 2..n
      PROVE  h[i] = h[i - 1] \o c[i]
  <2>1. PICK j : j = i - 1
    OBVIOUS
  <2>2. j \in 1..(n - 1) /\ j \in Nat /\ j + 1 = i /\ i \in 1..n /\ j \in 1..n
    BY <2>1
  <2>3. f[j] = g[j][f[j - 1]] /\ f[j - 1] \in Seq(Byte)
    BY <1>6, <2>2 DEF Iterates
  <2>4. g[j][f[j - 1]] = f[j - 1] \o d[j]
    BY <1>4, <2>2, <2>3
  <2>5. d[j] = c[i]
    BY <1>1, <2>2
  <2>6. h[i] = f[j] /\ h[i - 1] = f[j - 1]
    BY <2>1, <2>2
  <2> QED BY <2>3, <2>4, <2>5, <2>6
<1> QED BY <1>8, <1>9 DEF Joined

\* FlattenSeq() is the last value of such a function.
LEMMA FlattenJoins ==
  ASSUME NEW n \in Nat \ {0}, NEW c \in [1..n -> Seq(Byte)]
  PROVE  \E f : Joined(f, c, n) /\ FlattenSeq(c) = f[n]
<1> DEFINE Row(f) == [i \in 1..n |-> IF i = 1 THEN c[i] ELSE f[i - 1] \o c[i]]
           r == CHOOSE f : f = Row(f)
<1>1. PICK h : Joined(h, c, n)
  BY JoinedExists
<1>2. h = Row(h)
  <2>1. h \in [1..n -> Seq(Byte)] /\ \A i \in 1..n : h[i] = IF i = 1 THEN c[i] ELSE h[i - 1] \o c[i]
    <3>1. \A i \in 1..n : i = 1 \/ i \in 2..n
      OBVIOUS
    <3> QED BY <1>1, <3>1 DEF Joined
  <2> QED BY <2>1
<1>3. r = Row(r)
  BY <1>2
<1>4. FlattenSeq(c) = r[n]
  <2>1. Len(c) = n
    OBVIOUS
  <2> QED BY <2>1 DEF FlattenSeq
<1> HIDE DEF r
<1>5. r[1] = c[1] /\ \A i \in 2..n : r[i] = r[i - 1] \o c[i]
  <2>1. \A i \in 1..n : r[i] = IF i = 1 THEN c[i] ELSE r[i - 1] \o c[i]
    BY <1>3
  <2>2. 1 \in 1..n /\ \A i \in 2..n : i \in 1..n /\ i # 1
    OBVIOUS
  <2> QED BY <2>1, <2>2
<1>6. \A i \in 1..n : r[i] \in Seq(Byte)
  <2> DEFINE S == {i \in Nat : i + 1 \in 1..n => r[i + 1] \in Seq(Byte)}
  <2>1. 0 \in S
    BY <1>5
  <2>2. ASSUME NEW i \in Nat, i \in S
        PROVE  i + 1 \in S
    <3> SUFFICES ASSUME (i + 1) + 1 \in 1..n
                 PROVE  r[(i + 1) + 1] \in Seq(Byte)
      OBVIOUS
    <3>1. PICK j, k : j = i + 1 /\ k = (i + 1) + 1
      OBVIOUS
    <3>2. k \in 2..n /\ k - 1 = j /\ j \in 1..n /\ k \in 1..n
      BY <3>1
    <3>3. r[j] \in Seq(Byte) /\ c[k] \in Seq(Byte)
      BY <2>2, <3>1, <3>2
    <3>4. r[k] = r[j] \o c[k]
      BY <1>5, <3>2
    <3>5. r[k] \in Seq(Byte)
      BY <3>3, <3>4, ConcatProperties
    <3> QED BY <3>1, <3>5
  <2>3. Nat \subseteq S
    <3> HIDE DEF S
    <3> QED BY <2>1, <2>2, SetInduction
  <2>4. ASSUME NEW i \in 1..n
        PROVE  r[i] \in Seq(Byte)
    <3>1. i - 1 \in Nat /\ (i - 1) + 1 = i
      OBVIOUS
    <3>2. i - 1 \in S
      BY <2>3, <3>1
    <3> QED BY <3>1, <3>2
  <2> QED BY <2>4
<1>7. r \in [1..n -> Seq(Byte)]
  BY <1>3, <1>6
<1>8. Joined(r, c, n)
  BY <1>5, <1>7 DEF Joined
<1> QED BY <1>4, <1>8

\* The first string, then the others.
LEMMA FlattenFirst ==
  ASSUME NEW n \in Nat, NEW c \in [1..(n + 1) -> Seq(Byte)],
         NEW d, d = [i \in 1..n |-> c[i + 1]]
  PROVE  FlattenSeq(c) = c[1] \o FlattenSeq(d) /\ FlattenSeq(d) \in Seq(Byte)
<1>1. PICK m : m = n + 1
  OBVIOUS
<1>2. m \in Nat \ {0} /\ c \in [1..m -> Seq(Byte)] /\ c[1] \in Seq(Byte)
  BY <1>1
<1>3. PICK f : Joined(f, c, m) /\ FlattenSeq(c) = f[m]
  BY <1>2, FlattenJoins
<1>4. CASE n = 0
  <2>1. d = <<>>
    BY <1>4
  <2>2. FlattenSeq(d) = <<>>
    BY <2>1 DEF FlattenSeq
  <2>3. FlattenSeq(c) = c[1]
    BY <1>1, <1>3, <1>4 DEF Joined
  <2>4. <<>> \in Seq(Byte) /\ c[1] \o <<>> = c[1]
    BY <1>2, ConcatEmptySeq
  <2> QED BY <2>2, <2>3, <2>4
<1>5. CASE n # 0
  <2>1. n \in Nat \ {0} /\ d \in [1..n -> Seq(Byte)] /\ \A i \in 1..n : d[i] = c[i + 1]
    BY <1>5
  <2>2. PICK h : Joined(h, d, n) /\ FlattenSeq(d) = h[n]
    BY <2>1, FlattenJoins
  <2> DEFINE Behind(i) == f[(i + 1) + 1] = c[1] \o h[i + 1]
             S == {i \in Nat : i + 1 \in 1..n => Behind(i)}
  <2>3. 0 \in S
    <3>1. 2 \in 2..m /\ 2 - 1 = 1 /\ 1 \in 1..n /\ 1 + 1 = 2
      BY <1>1, <2>1
    <3>2. f[2] = f[1] \o c[2] /\ f[1] = c[1]
      BY <1>3, <3>1 DEF Joined
    <3>3. h[1] = d[1] /\ d[1] = c[2]
      BY <2>1, <2>2, <3>1 DEF Joined
    <3>4. f[2] = c[1] \o h[1]
      BY <3>2, <3>3
    <3>5. f[(0 + 1) + 1] = c[1] \o h[0 + 1]
      <4>1. (0 + 1) + 1 = 2 /\ 0 + 1 = 1
        OBVIOUS
      <4> QED BY <3>4, <4>1
    <3> QED BY <3>5
  <2>4. ASSUME NEW i \in Nat, i \in S
        PROVE  i + 1 \in S
    <3> SUFFICES ASSUME (i + 1) + 1 \in 1..n
                 PROVE  Behind(i + 1)
      <4> HIDE DEF Behind
      <4> QED OBVIOUS
    <3>1. PICK j, k, l : j = i + 1 /\ k = (i + 1) + 1 /\ l = ((i + 1) + 1) + 1
      OBVIOUS
    <3>2. /\ j \in 1..n /\ k \in 2..n /\ k - 1 = j /\ l \in 2..m /\ l - 1 = k
          /\ k + 1 = l /\ k \in 1..n
      BY <1>1, <3>1
    <3>3. f[k] = c[1] \o h[j]
      BY <2>4, <3>1, <3>2
    <3>4. f[l] = f[k] \o c[l] /\ h[k] = h[j] \o d[k] /\ d[k] = c[l]
      BY <1>3, <2>1, <2>2, <3>2 DEF Joined
    <3>5. h[j] \in Seq(Byte) /\ c[l] \in Seq(Byte)
      BY <1>2, <2>1, <2>2, <3>2, <3>4 DEF Joined
    <3>6. (c[1] \o h[j]) \o c[l] = c[1] \o (h[j] \o c[l])
      <4>1. Associates(c[1], h[j], c[l])
        BY <1>2, <3>5, Grouped
      <4> QED BY <4>1 DEF Associates
    <3> QED BY <3>1, <3>3, <3>4, <3>6
  <2>5. Nat \subseteq S
    <3> HIDE DEF S
    <3> QED BY <2>3, <2>4, SetInduction
  <2>6. f[m] = c[1] \o h[n]
    <3>1. PICK i : i = n - 1
      OBVIOUS
    <3>2. i \in Nat /\ i + 1 = n /\ (i + 1) + 1 = m /\ i + 1 \in 1..n
      BY <1>1, <2>1, <3>1
    <3>3. i \in S
      BY <2>5, <3>2
    <3> QED BY <3>2, <3>3
  <2>7. h[n] \in Seq(Byte)
    BY <2>1, <2>2 DEF Joined
  <2> QED BY <1>3, <2>2, <2>6, <2>7
<1> QED BY <1>4, <1>5
=============================================================================
