------------------------------ MODULE Serialize ------------------------------
(***************************************************************************)
(* The encodings of server/coinbase.js and the block that server/index.js  *)
(* hands to submitblock: variable-length integers, script numbers and      *)
(* pushes, the coinbase transaction with and without its witness.          *)
(*                                                                         *)
(* A buffer is a sequence of bytes.  A byte holds Base values, 256 in the  *)
(* code; with a smaller Base every branch of varInt() is within the        *)
(* integers of TLC.                                                        *)
(***************************************************************************)
EXTENDS Integers, Sequences, SequencesExt

CONSTANT Base

\* Half of the values of a byte have the bit of the sign.
ASSUME BaseOK == Base \in Nat /\ Base >= 4 /\ Base % 2 = 0

\* What is left of n without its k lowest bytes.
Shifted(n, k) == LET rest[i \in 0..k] == IF i = 0 THEN n ELSE rest[i - 1] \div Base IN rest[k]

\* n in k bytes, little-endian; a negative n in two's complement.
LE(n, k) == [i \in 1..k |-> Shifted(n, i - 1) % Base]

\* The value of little-endian bytes, from the highest down.
Unsigned(bytes) ==
  LET value[i \in 0..Len(bytes)] ==
        IF i = 0 THEN 0 ELSE bytes[Len(bytes) + 1 - i] + Base * value[i - 1]
  IN value[Len(bytes)]

Bytes(n, byte) == [i \in 1..n |-> byte]

-----------------------------------------------------------------------------

\* Mutant of varInt: `value <= 0x10000n`.
varIntLong(n) ==
  IF n < Base - 3 THEN <<n>>
  ELSE IF Shifted(n - 1, 2) = 0 THEN <<Base - 3>> \o LE(n, 2)
  ELSE IF Shifted(n, 4) = 0 THEN <<Base - 2>> \o LE(n, 4)
  ELSE <<Base - 1>> \o LE(n, 8)

varInt(n) ==
  IF n < Base - 3 THEN <<n>>
  ELSE IF Shifted(n, 2) = 0 THEN <<Base - 3>> \o LE(n, 2)
  ELSE IF Shifted(n, 4) = 0 THEN <<Base - 2>> \o LE(n, 4)
  ELSE <<Base - 1>> \o LE(n, 8)

Magnitude(n) == IF n < 0 THEN -n ELSE n

\* The bytes of Math.abs(n) without leading zeros.
Minimal(n) ==
  LE(Magnitude(n), CHOOSE k \in 0..8 :
       Shifted(Magnitude(n), k) = 0 /\ \A j \in 0..(k - 1) : Shifted(Magnitude(n), j) # 0)

\* Mutant of scriptNumEncode: no byte for the sign.
scriptNumEncodeUnsigned(n) == Minimal(n)

\* The top bit of the last byte is the sign.
scriptNumEncode(n) ==
  IF n = 0 THEN <<>>
  ELSE LET bytes == Minimal(n)
           top == Last(bytes)
           sign == IF n < 0 THEN Base \div 2 ELSE 0
       IN IF top >= Base \div 2 THEN Append(bytes, sign) ELSE Append(Front(bytes), top + sign)

\* opPush() throws on the bytes that are not Pushable.
Pushable(bytes) == Len(bytes) < 76

opPush(bytes) == IF bytes = <<>> THEN <<>> ELSE <<Len(bytes)>> \o bytes

-----------------------------------------------------------------------------
(* buildCoinbaseTransaction().  `commitment` is <<>> if the template has none. *)

ScriptSig(height, tag, extraNonce) ==
  opPush(scriptNumEncode(height)) \o opPush(tag) \o opPush(extraNonce)

serializeOutput(value, script) == LE(value, 8) \o varInt(Len(script)) \o script

inputBody(scriptSig) ==
  Bytes(32, 0) \o Bytes(4, Base - 1) \o varInt(Len(scriptSig)) \o scriptSig \o Bytes(4, Base - 1)

outputs(value, script, commitment) ==
  IF commitment = <<>> THEN varInt(1) \o serializeOutput(value, script)
  ELSE varInt(2) \o serializeOutput(value, script) \o serializeOutput(0, commitment)

legacyTx(scriptSig, value, script, commitment) ==
  LE(2, 4) \o varInt(1) \o inputBody(scriptSig) \o outputs(value, script, commitment) \o LE(0, 4)

\* Mutant of rawTx: the reserved value without the number of witness items.
rawTxUncounted(scriptSig, value, script, commitment) ==
  IF commitment = <<>> THEN legacyTx(scriptSig, value, script, commitment)
  ELSE LE(2, 4) \o <<0, 1>> \o varInt(1) \o inputBody(scriptSig)
         \o outputs(value, script, commitment) \o varInt(32) \o Bytes(32, 0) \o LE(0, 4)

rawTx(scriptSig, value, script, commitment) ==
  IF commitment = <<>> THEN legacyTx(scriptSig, value, script, commitment)
  ELSE LE(2, 4) \o <<0, 1>> \o varInt(1) \o inputBody(scriptSig)
         \o outputs(value, script, commitment) \o varInt(1) \o varInt(32) \o Bytes(32, 0)
         \o LE(0, 4)

\* serializeBlockForSubmission(): `others` are the template's transactions, as
\* the node serialised them.
serializeBlock(header, coinbase, others) ==
  header \o varInt(1 + Len(others)) \o coinbase \o FlattenSeq(others)

-----------------------------------------------------------------------------
(* The reading of these formats by a node, from the protocol's definition. *)

From(bytes, i) == SubSeq(bytes, i, Len(bytes))

\* The integer at the head of the bytes, and how many bytes it takes.
IntSize(bytes) ==
  CASE Head(bytes) = Base - 1 -> 9 [] Head(bytes) = Base - 2 -> 5
    [] Head(bytes) = Base - 3 -> 3 [] OTHER -> 1

IntAt(bytes) ==
  IF IntSize(bytes) = 1 THEN Head(bytes) ELSE Unsigned(SubSeq(bytes, 2, IntSize(bytes)))

\* A string after its length, and what follows it.
Taken(bytes) == SubSeq(bytes, IntSize(bytes) + 1, IntSize(bytes) + IntAt(bytes))

Left(bytes) == From(bytes, IntSize(bytes) + IntAt(bytes) + 1)

ScriptNum(bytes) ==
  IF bytes = <<>> THEN 0
  ELSE IF Last(bytes) < Base \div 2 THEN Unsigned(bytes)
  ELSE -Unsigned(Append(Front(bytes), Last(bytes) - Base \div 2))

\* A transaction of one input, whose items and outputs follow one another.
ReadTx(tx) ==
  LET segwit == SubSeq(tx, 5, 6) = <<0, 1>>
      input  == From(tx, IF segwit THEN 8 ELSE 6)
      sig    == From(input, 37)
      count  == From(Left(sig), 5)
      first  == From(count, 2)
      second == Left(From(first, 9))
      after  == IF Head(count) = 2 THEN Left(From(second, 9)) ELSE second
  IN [version   |-> Unsigned(SubSeq(tx, 1, 4)),
      inputs    |-> tx[IF segwit THEN 7 ELSE 5],
      prevout   |-> SubSeq(input, 1, 36),
      scriptSig |-> Taken(sig),
      sequence  |-> SubSeq(Left(sig), 1, 4),
      value     |-> Unsigned(SubSeq(first, 1, 8)),
      script    |-> Taken(From(first, 9)),
      commitment |-> IF Head(count) = 2 THEN Taken(From(second, 9)) ELSE <<>>,
      witness   |-> IF segwit THEN <<Head(after), Taken(Tail(after))>> ELSE <<>>,
      locktime  |-> IF segwit THEN Left(Tail(after)) ELSE after]
=============================================================================
