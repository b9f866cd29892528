---------------------------- MODULE FormatsProofs ----------------------------
(***************************************************************************)
(* Proofs about the functions of Formats.tla, for every input that the     *)
(* assumptions of that module allow.                                       *)
(***************************************************************************)
EXTENDS Formats, HeaderProofs

-----------------------------------------------------------------------------
(* The inputs *)

\* A behaviour gives a function one of its arguments.
InputOK ==
  /\ Given("number") => It \in Numbers
  /\ Given("coinbase") =>
       It \in [height : Heights, value : Values, script : Scripts, commitment : Commitments]
  /\ Given("txids") => It \in LeafCounts
  /\ Given("transactions") => It \in TxCounts
  /\ Given("bits") => It \in Words
  /\ Given("hashes") => It \in Hashes \X Hashes
  /\ Given("address") => It \in Addresses
  /\ Given("host") => It \in Hosts
  /\ Given("request") => It \in Requests

\* At first no function has an argument.
LEMMA InitInput == Init => InputOK
BY DEF Init, InputOK, Given

\* The argument that a step picks is from the set of that function.
LEMMA NextInput == InputOK /\ [Next]_input => InputOK'
<1> SUFFICES ASSUME InputOK, [Next]_input
             PROVE  InputOK'
  OBVIOUS
<1>1. CASE UNCHANGED input
  BY <1>1 DEF InputOK, Given, It
<1>2. CASE Next
  <2>1. PICK function, argument :
          /\ input' = <<function, argument>>
          /\ function = "number" => argument \in Numbers
          /\ function = "coinbase" =>
               argument \in [height : Heights, value : Values,
                             script : Scripts, commitment : Commitments]
          /\ function = "txids" => argument \in LeafCounts
          /\ function = "transactions" => argument \in TxCounts
          /\ function = "bits" => argument \in Words
          /\ function = "hashes" => argument \in Hashes \X Hashes
          /\ function = "address" => argument \in Addresses
          /\ function = "host" => argument \in Hosts
          /\ function = "request" => argument \in Requests
    BY <1>2 DEF Next, Pick
  <2> QED BY <2>1 DEF InputOK, Given, It
<1> QED BY <1>1, <1>2

\* Every state of a behaviour has such an input.
LEMMA SpecInput == Spec => []InputOK
BY InitInput, NextInput, PTL DEF Spec

-----------------------------------------------------------------------------
(* Variable-length integers *)

\* An integer of 64 bits is read back.
LEMMA VarIntStep == InputOK => VarIntReads
<1> SUFFICES ASSUME InputOK, Given("number"), It >= 0
             PROVE  /\ IntAt(varInt(It)) = It
                    /\ IntSize(varInt(It)) = Len(varInt(It))
                    /\ Len(varInt(It)) > 1 => It >= Base - 3
                    /\ \A k \in {2, 4} : Len(varInt(It)) > 1 + k => Unsigned(LE(It, k)) # It
  BY DEF VarIntReads
<1>1. PICK n : n = It
  OBVIOUS
<1>2. n \in Nat /\ Shifted(n, 8) = 0
  <2>1. n \in Numbers /\ n >= 0
    BY <1>1 DEF InputOK
  <2>2. n \in Nat /\ Shifted(Magnitude(n), 8) = 0
    BY <2>1, FormatsConstantsOK
  <2>3. Magnitude(n) = n
    BY <2>1, <2>2 DEF Magnitude
  <2> QED BY <2>2, <2>3
<1>3. PICK s : s = varInt(n)
  OBVIOUS
<1>4. /\ s \in Seq(Byte) /\ IntSize(s \o <<>>) = Len(s) /\ IntAt(s \o <<>>) = n
      /\ Len(s) > 1 => n >= Base - 3
      /\ \A k \in {2, 4} : Len(s) > 1 + k => Unsigned(LE(n, k)) # n
  <2>1. <<>> \in Seq(Byte)
    OBVIOUS
  <2> QED BY <1>2, <1>3, <2>1, VarIntAhead
<1>5. s \o <<>> = s
  BY <1>4, ConcatEmptySeq
<1> QED BY <1>1, <1>3, <1>4, <1>5

\* A node reads every integer that varInt() writes, and reads no other from a
\* shorter form (coinbase.js:22-41): for integers of 64 bits and bytes of any
\* even number of values.
THEOREM VarIntIsRead == Spec => []VarIntReads
BY SpecInput, VarIntStep, PTL

\* A script number is read back.
LEMMA ScriptNumStep == InputOK => ScriptNumReads
<1> SUFFICES ASSUME InputOK, Given("number")
             PROVE  LET bytes == scriptNumEncode(It)
                    IN ScriptNum(bytes) = It /\ (bytes # <<>> => ScriptNum(Front(bytes)) # It)
  BY DEF ScriptNumReads
<1>1. It \in Int /\ Shifted(Magnitude(It), 8) = 0
  BY FormatsConstantsOK DEF InputOK
<1> QED BY <1>1, ScriptNumBack

\* A node reads every number, of either sign, that scriptNumEncode() writes, and
\* reads another one from fewer of its bytes (coinbase.js:43-59).
THEOREM ScriptNumIsRead == Spec => []ScriptNumReads
BY SpecInput, ScriptNumStep, PTL

-----------------------------------------------------------------------------
(* The coinbase transaction *)

\* What the arguments of a coinbase transaction are.
LEMMA PartsAre ==
  ASSUME NEW tx \in [height : Heights, value : Values, script : Scripts, commitment : Commitments]
  PROVE  /\ tx.height \in Nat /\ Shifted(tx.height, 8) = 0
         /\ tx.value \in Nat /\ Shifted(tx.value, 8) = 0
         /\ Sized(tx.script) /\ Sized(tx.commitment)
<1>1. /\ tx.height \in Heights /\ tx.value \in Values
      /\ tx.script \in Scripts /\ tx.commitment \in Commitments
  OBVIOUS
<1>2. tx.height \in Nat /\ tx.value \in Nat
  BY <1>1, FormatsConstantsOK
<1>3. Shifted(tx.height, 8) = 0 /\ Shifted(tx.value, 8) = 0
  BY <1>1, FormatsConstantsOK
<1>4. Sized(tx.script) /\ Sized(tx.commitment)
  BY <1>1, FormatsConstantsOK DEF Sized, Byte
<1> QED BY <1>2, <1>3, <1>4

\* The tag and the extra nonce are pushed whole.
LEMMA PushedAre ==
  ASSUME Base > 50
  PROVE  /\ Tag \in Seq(Byte) /\ Len(Tag) \in 1..30
         /\ ExtraNonce \in Seq(Byte) /\ Len(ExtraNonce) \in 1..30
<1>1. 47 \in Byte /\ 7 \in Byte
  BY BaseOK DEF Byte
<1>2. PICK n, b, m, c : n = 13 /\ b = 47 /\ m = 4 /\ c = 7
  OBVIOUS
<1>3. n \in 1..30 /\ m \in 1..30 /\ n \in Nat /\ m \in Nat /\ b \in Byte /\ c \in Byte
  BY <1>1, <1>2
<1>4. Bytes(n, b) \in Seq(Byte) /\ Len(Bytes(n, b)) = n
  BY <1>3, BytesIs
<1>5. Bytes(m, c) \in Seq(Byte) /\ Len(Bytes(m, c)) = m
  BY <1>3, BytesIs
<1>6. Tag = Bytes(n, b) /\ ExtraNonce = Bytes(m, c)
  BY <1>2 DEF Tag, ExtraNonce
<1> QED BY <1>3, <1>4, <1>5, <1>6

\* A coinbase transaction with such arguments is read back.
LEMMA CoinbaseStep == Base = 256 /\ InputOK => CoinbaseReads
<1> SUFFICES ASSUME Base = 256, InputOK, Given("coinbase")
             PROVE  CoinbaseReads
  BY DEF CoinbaseReads
<1>1. PICK tx : tx = It
  OBVIOUS
<1>2. tx \in [height : Heights, value : Values, script : Scripts, commitment : Commitments]
  BY <1>1 DEF InputOK
<1>3. PICK height, value, script, commitment :
        /\ height = tx.height /\ value = tx.value
        /\ script = tx.script /\ commitment = tx.commitment
  OBVIOUS
<1>4. /\ height \in Nat /\ Shifted(height, 8) = 0 /\ value \in Nat /\ Shifted(value, 8) = 0
      /\ Sized(script) /\ Sized(commitment)
  BY <1>2, <1>3, PartsAre
<1>5. PICK sig : sig = ScriptSig(height, Tag, ExtraNonce)
  OBVIOUS
<1>6. Base > 35 /\ Base > 50
  OBVIOUS
<1>7. /\ sig \in Seq(Byte) /\ Len(sig) \in 2..100
      /\ height # 0 => ScriptNum(Taken(sig)) = height
  <2>1. /\ Tag \in Seq(Byte) /\ Len(Tag) \in 1..30
        /\ ExtraNonce \in Seq(Byte) /\ Len(ExtraNonce) \in 1..30
    BY <1>6, PushedAre
  <2> QED BY <1>4, <1>5, <1>6, <2>1, ScriptSigIs
<1>8. Sized(sig)
  <2>1. PICK n : n = Len(sig)
    OBVIOUS
  <2>2. n \in 2..100
    BY <1>7, <2>1
  <2>3. n \in Byte
    BY <2>2 DEF Byte
  <2>4. PICK k \in Nat \ {0} : k = 8
    OBVIOUS
  <2>5. Shifted(n, k) = 0
    BY <2>3, ShiftedSmall
  <2> QED BY <1>7, <2>1, <2>4, <2>5 DEF Sized
<1>9. PICK legacy, raw :
        /\ legacy = ReadTx(legacyTx(sig, value, script, commitment))
        /\ raw = ReadTx(rawTx(sig, value, script, commitment))
  OBVIOUS
<1>10. legacy = Plain(sig, value, script, commitment)
  BY <1>4, <1>6, <1>8, <1>9, LegacyRead
<1>11. raw = [legacy EXCEPT !.witness = IF commitment = <<>> THEN <<>> ELSE <<1, Bytes(32, 0)>>]
  <2>1. CASE commitment = <<>>
    <3>1. raw = legacy
      BY <1>9, <2>1 DEF rawTx
    <3>2. legacy = [legacy EXCEPT !.witness = <<>>]
      BY <1>10 DEF Plain
    <3> QED BY <2>1, <3>1, <3>2
  <2>2. CASE commitment # <<>>
    <3>1. raw = [Plain(sig, value, script, commitment) EXCEPT !.witness = <<1, Bytes(32, 0)>>]
      BY <1>4, <1>6, <1>8, <1>9, <2>2, RawRead
    <3> QED BY <1>10, <2>2, <3>1
  <2> QED BY <2>1, <2>2
<1>12. legacy = [version |-> 2, inputs |-> 1, prevout |-> Bytes(32, 0) \o Bytes(4, 255),
                 scriptSig |-> sig, sequence |-> Bytes(4, 255), value |-> value,
                 script |-> script, commitment |-> commitment, witness |-> <<>>,
                 locktime |-> Bytes(4, 0)]
  <2>1. Base - 1 = 255
    OBVIOUS
  <2> QED BY <1>10, <2>1, Zenon DEF Plain, Prevout, Sequence
<1>13. height > 16 => ScriptNum(Taken(sig)) = height
  BY <1>4, <1>7
<1> QED BY <1>1, <1>3, <1>5, <1>7, <1>9, <1>11, <1>12, <1>13 DEF CoinbaseReads

\* A node finds in the coinbase every field that was written, with the witness
\* and without it, the height first in its script (coinbase.js:73-135): for
\* heights and values of 64 bits and scripts of any length.
THEOREM CoinbaseIsRead ==
  ASSUME Base = 256
  PROVE  Spec => []CoinbaseReads
<1>1. InputOK => CoinbaseReads
  BY CoinbaseStep
<1> QED BY <1>1, SpecInput, PTL

-----------------------------------------------------------------------------
(* Requests *)

\* The port that a client writes for a site.
WrittenPort(site) == IF OnDefaultPort(site) THEN NoPort ELSE site.port

\* A site without its default port.
LEMMA WrittenIs ==
  ASSUME NEW site \in Sites
  PROVE  /\ site.port \in Nat \ {NoPort} /\ DefaultPort[site.scheme] \in Nat \ {NoPort}
         /\ AsWritten(site).port = WrittenPort(site)
         /\ urlHost(AsWritten(site)) = <<site.host, WrittenPort(site)>>
         /\ AsWritten(site).scheme = site.scheme /\ site.scheme \notin {"none", "opaque"}
<1>1. /\ site.scheme \in {"http", "https"} /\ site.port \in Ports
      /\ site = [scheme |-> site.scheme, host |-> site.host, port |-> site.port]
  BY DEF Sites
<1>2. site.port \in Nat \ {NoPort} /\ DefaultPort[site.scheme] \in Nat \ {NoPort}
  BY <1>1, FormatsConstantsOK DEF DefaultPort, NoPort
<1>3. PICK p : p = WrittenPort(site)
  OBVIOUS
<1>4. AsWritten(site) = [scheme |-> site.scheme, host |-> site.host, port |-> p]
  BY <1>1, <1>3 DEF AsWritten, WrittenPort, OnDefaultPort
<1>5. (IF p = DefaultPort[site.scheme] THEN NoPort ELSE p) = p
  BY <1>2, <1>3 DEF WrittenPort, OnDefaultPort
<1>6. urlHost(AsWritten(site)) = <<site.host, p>>
  BY <1>4, <1>5 DEF urlHost
<1> QED BY <1>1, <1>2, <1>3, <1>4, <1>6

\* The Host and the origin that a URL parser makes of the headers decide.
LEMMA PageStep == InputOK => PageOfTheHost
<1> SUFFICES ASSUME InputOK, Given("request")
             PROVE  PageOfTheHost
  BY DEF PageOfTheHost
<1>1. PICK r : r = It
  OBVIOUS
<1>2. r \in Requests
  BY <1>1 DEF InputOK
<1>3. PICK page, target : page = r.page /\ target = r.target
  OBVIOUS
<1>4. /\ page \in Sites \/ page \in {NoPage, OpaquePage}
      /\ target \in Sites /\ r.listed \in BOOLEAN /\ r.unchecked \in BOOLEAN
  BY <1>2, <1>3 DEF Requests
<1>5. PICK safe \in BOOLEAN : safe = (r.listed \/ isPrivateHost(target.host))
  OBVIOUS
<1>6. PICK sent : sent = Sent(r, page)
  OBVIOUS
<1>7. /\ sent.host = target.host /\ sent.port = WrittenPort(target)
      /\ sent.origin = IF page \in {NoPage, OpaquePage} THEN page ELSE AsWritten(page)
      /\ sent.listed = r.listed /\ sent.unchecked = r.unchecked
  BY <1>3, <1>4, <1>6, WrittenIs DEF Sent
<1>8. hostAllowed(sent) = safe
  BY <1>5, <1>7 DEF hostAllowed
<1>9. checkRequestOrigin(sent) <=> r.unchecked \/ (safe /\ originAllowed(sent))
  BY <1>7, <1>8 DEF checkRequestOrigin
<1>10. page = NoPage => originAllowed(sent)
  BY <1>7 DEF originAllowed, NoPage
<1>11. page = OpaquePage => ~originAllowed(sent) /\ page # NoPage
  BY <1>7 DEF originAllowed, NoPage, OpaquePage
<1>12. ASSUME page \in Sites
       PROVE  /\ page \notin {NoPage, OpaquePage}
              /\ originAllowed(sent) <=>
                   page.host = target.host /\ WrittenPort(page) = WrittenPort(target)
  <2>1. page.scheme \notin {"none", "opaque"} /\ page \notin {NoPage, OpaquePage}
    BY <1>12, WrittenIs DEF NoPage, OpaquePage
  <2>2. sent.origin = AsWritten(page) /\ sent.origin.scheme \notin {"none", "opaque"}
    BY <1>7, <1>12, <2>1, WrittenIs
  <2>3. urlHost(sent.origin) = <<page.host, WrittenPort(page)>>
    BY <1>12, <2>2, WrittenIs
  <2>4. originAllowed(sent) <=> urlHost(sent.origin) = <<sent.host, sent.port>>
    BY <2>2 DEF originAllowed
  <2> QED BY <1>7, <2>1, <2>3, <2>4
<1>13. ASSUME page \in Sites, WrittenPort(page) = WrittenPort(target)
       PROVE  page.port = target.port \/ (OnDefaultPort(page) /\ OnDefaultPort(target))
  <2>1. page.port # NoPort /\ target.port # NoPort
    BY <1>4, <1>13, WrittenIs
  <2> QED BY <1>13, <2>1 DEF WrittenPort
<1>14. safe /\ page \in {NoPage, target} => originAllowed(sent)
  BY <1>4, <1>10, <1>12
<1>15. originAllowed(sent) /\ page # NoPage =>
         /\ page # OpaquePage /\ page.host = target.host
         /\ page.port = target.port \/ (OnDefaultPort(page) /\ OnDefaultPort(target))
  BY <1>4, <1>11, <1>12, <1>13
<1>16. IF r.unchecked THEN checkRequestOrigin(sent)
       ELSE /\ checkRequestOrigin(sent) => safe
            /\ safe /\ page \in {NoPage, target} => checkRequestOrigin(sent)
            /\ checkRequestOrigin(sent) /\ page # NoPage =>
                 /\ page # OpaquePage /\ page.host = target.host
                 /\ page.port = target.port \/ (OnDefaultPort(page) /\ OnDefaultPort(target))
  BY <1>9, <1>14, <1>15
<1> QED BY <1>1, <1>3, <1>5, <1>6, <1>16 DEF PageOfTheHost

\* Unless the checks are off, only requests to private or listed Hosts pass, and
\* of browsers only those of a page of the same host and port, or of one that is
\* on its default port as the Host is (index.js:43-110): for all hosts and ports.
THEOREM OnlyThePageOfTheHost == Spec => []PageOfTheHost
BY SpecInput, PageStep, PTL

-----------------------------------------------------------------------------
(* Private addresses *)

Octets == [1..4 -> 0..255]

\* The bit of an address at place 8 * (q - 1) + j + 1 is one of octet q.
LEMMA BitIs ==
  ASSUME NEW o \in Octets, NEW q \in 1..4, NEW j \in 0..7
  PROVE  Bits(o)[8 * (q - 1) + j + 1] = (o[q] \div 2 ^ (7 - j)) % 2
<1> DEFINE i == 8 * (q - 1) + j + 1
<1>1. i \in 1..32 /\ (i - 1) \div 8 = q - 1 /\ (i - 1) % 8 = j
  OBVIOUS
<1>2. Bits(o)[i] = (o[((i - 1) \div 8) + 1] \div 2 ^ (7 - ((i - 1) % 8))) % 2
  BY <1>1 DEF Bits
<1>3. (q - 1) + 1 = q
  OBVIOUS
<1> QED BY <1>1, <1>2, <1>3

\* The bits of two octets, from the highest, tell whether what is left of them
\* without the others is the same.
ByBits(a, b) ==
  /\ (\A j \in 0..1 : (a \div 2 ^ (7 - j)) % 2 = (b \div 2 ^ (7 - j)) % 2)
       <=> a \div 64 = b \div 64
  /\ (\A j \in 0..3 : (a \div 2 ^ (7 - j)) % 2 = (b \div 2 ^ (7 - j)) % 2)
       <=> a \div 16 = b \div 16
  /\ (\A j \in 0..7 : (a \div 2 ^ (7 - j)) % 2 = (b \div 2 ^ (7 - j)) % 2) <=> a = b

LEMMA OctetByBits ==
  ASSUME NEW a \in 0..255, NEW b \in 0..255
  PROVE  ByBits(a, b)
<1> DEFINE Bit(x, j) == (x \div 2 ^ (7 - j)) % 2
           Part(x, k) == x \div k
           Halves(x, k, h, j) == /\ Part(x, k) \in Nat
                                 /\ Part(x, k) \div 2 = Part(x, h)
                                 /\ Part(x, k) % 2 = Bit(x, j)
           Same(j) == Bit(a, j) = Bit(b, j)
           Whole(k) == Part(a, k) = Part(b, k)
<1>1. 2 ^ 0 = 1 /\ 2 ^ 1 = 2 /\ 2 ^ 2 = 4 /\ 2 ^ 3 = 8
  OBVIOUS
<1>2. 2 ^ 4 = 16 /\ 2 ^ 5 = 32 /\ 2 ^ 6 = 64 /\ 2 ^ 7 = 128
  OBVIOUS
<1>3. \A x \in 0..255 :
        /\ Part(x, 128) = Bit(x, 0)
        /\ Halves(x, 64, 128, 1) /\ Halves(x, 32, 64, 2) /\ Halves(x, 16, 32, 3)
        /\ Halves(x, 8, 16, 4) /\ Halves(x, 4, 8, 5) /\ Halves(x, 2, 4, 6) /\ Halves(x, 1, 2, 7)
  <2> TAKE x \in 0..255
  <2>1. Part(x, 128) = Bit(x, 0)
    BY <1>2
  <2>2. Halves(x, 64, 128, 1)
    BY <1>2
  <2>3. Halves(x, 32, 64, 2)
    BY <1>2
  <2>4. Halves(x, 16, 32, 3)
    BY <1>2
  <2>5. Halves(x, 8, 16, 4)
    BY <1>1
  <2>6. Halves(x, 4, 8, 5)
    BY <1>1
  <2>7. Halves(x, 2, 4, 6)
    BY <1>1
  <2>8. Halves(x, 1, 2, 7)
    BY <1>1
  <2> HIDE DEF Bit, Part, Halves
  <2> QED BY <2>1, <2>2, <2>3, <2>4, <2>5, <2>6, <2>7, <2>8, Zenon
<1>4. Part(a, 1) = a /\ Part(b, 1) = b
  OBVIOUS
<1> HIDE DEF Bit, Part
<1>5. ASSUME NEW k, NEW h, NEW j, Halves(a, k, h, j), Halves(b, k, h, j)
      PROVE  Whole(k) <=> Whole(h) /\ Same(j)
  <2>1. PICK m \in Nat, n \in Nat : m = Part(a, k) /\ n = Part(b, k)
    BY <1>5, Zenon
  <2>2. m = n <=> m \div 2 = n \div 2 /\ m % 2 = n % 2
    OBVIOUS
  <2> QED BY <1>5, <2>1, <2>2, Zenon
<1> HIDE DEF Halves
<1>6. (Whole(128) <=> Same(0)) /\ (Whole(1) <=> a = b)
  <2>1. Part(a, 128) = Bit(a, 0) /\ Part(b, 128) = Bit(b, 0)
    BY <1>3, Zenon
  <2> QED BY <1>4, <2>1
<1> HIDE DEF Same, Whole
<1>7. Whole(64) <=> Whole(128) /\ Same(1)
  BY <1>3, <1>5, Zenon
<1>8. Whole(32) <=> Whole(64) /\ Same(2)
  BY <1>3, <1>5, Zenon
<1>9. Whole(16) <=> Whole(32) /\ Same(3)
  BY <1>3, <1>5, Zenon
<1>10. Whole(8) <=> Whole(16) /\ Same(4)
  BY <1>3, <1>5, Zenon
<1>11. Whole(4) <=> Whole(8) /\ Same(5)
  BY <1>3, <1>5, Zenon
<1>12. Whole(2) <=> Whole(4) /\ Same(6)
  BY <1>3, <1>5, Zenon
<1>13. Whole(1) <=> Whole(2) /\ Same(7)
  BY <1>3, <1>5, Zenon
<1>14. (\A j \in 0..1 : Same(j)) <=> Same(0) /\ Same(1)
  <2>1. \A j : j \in 0..1 <=> j = 0 \/ j = 1
    OBVIOUS
  <2> QED BY <2>1, Zenon
<1>15. (\A j \in 0..3 : Same(j)) <=> Same(0) /\ Same(1) /\ Same(2) /\ Same(3)
  <2>1. \A j : j \in 0..3 <=> j = 0 \/ j = 1 \/ j = 2 \/ j = 3
    OBVIOUS
  <2> QED BY <2>1, Zenon
<1>16. (\A j \in 0..7 : Same(j))
       <=> (\A j \in 0..3 : Same(j)) /\ Same(4) /\ Same(5) /\ Same(6) /\ Same(7)
  <2>1. \A j : j \in 0..7 <=> j \in 0..3 \/ j = 4 \/ j = 5 \/ j = 6 \/ j = 7
    OBVIOUS
  <2> QED BY <2>1, Zenon
<1>17. (\A j \in 0..1 : Same(j)) <=> Whole(64)
  BY <1>6, <1>7, <1>14, Zenon
<1>18. (\A j \in 0..3 : Same(j)) <=> Whole(16)
  BY <1>6, <1>7, <1>8, <1>9, <1>15, Zenon
<1>19. (\A j \in 0..7 : Same(j)) <=> a = b
  BY <1>6, <1>10, <1>11, <1>12, <1>13, <1>16, <1>18, Zenon
<1> QED BY <1>17, <1>18, <1>19, Zenon DEF Same, Whole, Bit, Part, ByBits

\* The bits of one octet of two addresses.
LEMMA SameBits ==
  ASSUME NEW o \in Octets, NEW r \in Octets, NEW q \in 1..4, NEW m \in 0..7
  PROVE  (\A i \in (8 * (q - 1) + 1)..(8 * (q - 1) + m + 1) : Bits(o)[i] = Bits(r)[i])
         <=> \A j \in 0..m : (o[q] \div 2 ^ (7 - j)) % 2 = (r[q] \div 2 ^ (7 - j)) % 2
<1>1. \A j \in 0..m :
        /\ Bits(o)[8 * (q - 1) + j + 1] = (o[q] \div 2 ^ (7 - j)) % 2
        /\ Bits(r)[8 * (q - 1) + j + 1] = (r[q] \div 2 ^ (7 - j)) % 2
  <2> TAKE j \in 0..m
  <2>1. j \in 0..7
    OBVIOUS
  <2> QED BY <2>1, BitIs
<1>2. \A i : i \in (8 * (q - 1) + 1)..(8 * (q - 1) + m + 1)
             <=> \E j \in 0..m : i = 8 * (q - 1) + j + 1
  <2>1. \A i \in (8 * (q - 1) + 1)..(8 * (q - 1) + m + 1) :
          i - (8 * (q - 1) + 1) \in 0..m /\ i = 8 * (q - 1) + (i - (8 * (q - 1) + 1)) + 1
    OBVIOUS
  <2>2. \A j \in 0..m : 8 * (q - 1) + j + 1 \in (8 * (q - 1) + 1)..(8 * (q - 1) + m + 1)
    OBVIOUS
  <2> QED BY <2>1, <2>2, Zenon
<1> QED BY <1>1, <1>2

\* A prefix of 8, 10, 12 or 16 bits is the first octet, or that and two, four or
\* all bits of the second.
LEMMA PrefixIs ==
  ASSUME NEW o \in Octets, NEW r \in Octets
  PROVE  /\ (\A i \in 1..8 : Bits(o)[i] = Bits(r)[i]) <=> o[1] = r[1]
         /\ (\A i \in 1..10 : Bits(o)[i] = Bits(r)[i])
              <=> o[1] = r[1] /\ o[2] \div 64 = r[2] \div 64
         /\ (\A i \in 1..12 : Bits(o)[i] = Bits(r)[i])
              <=> o[1] = r[1] /\ o[2] \div 16 = r[2] \div 16
         /\ (\A i \in 1..16 : Bits(o)[i] = Bits(r)[i]) <=> o[1] = r[1] /\ o[2] = r[2]
<1>1. o[1] \in 0..255 /\ o[2] \in 0..255 /\ r[1] \in 0..255 /\ r[2] \in 0..255
  BY DEF Octets
<1>0. ByBits(o[1], r[1]) /\ ByBits(o[2], r[2])
  BY <1>1, OctetByBits, Zenon
<1> DEFINE Same(a, b) == \A i \in a..b : Bits(o)[i] = Bits(r)[i]
<1>2. Same(1, 8) <=> o[1] = r[1]
  <2>1. 8 * (1 - 1) + 1 = 1 /\ 8 * (1 - 1) + 7 + 1 = 8 /\ 1 \in 1..4 /\ 7 \in 0..7
    OBVIOUS
  <2>2. Same(1, 8) <=> \A j \in 0..7 : (o[1] \div 2 ^ (7 - j)) % 2 = (r[1] \div 2 ^ (7 - j)) % 2
    BY <2>1, SameBits
  <2>3. (\A j \in 0..7 : (o[1] \div 2 ^ (7 - j)) % 2 = (r[1] \div 2 ^ (7 - j)) % 2) <=> o[1] = r[1]
    BY <1>0, Zenon DEF ByBits
  <2> QED BY <2>2, <2>3
<1>3. 8 * (2 - 1) + 1 = 9 /\ 2 \in 1..4
  OBVIOUS
<1>4. Same(9, 10) <=> o[2] \div 64 = r[2] \div 64
  <2>1. 8 * (2 - 1) + 1 + 1 = 10 /\ 1 \in 0..7
    OBVIOUS
  <2>2. Same(9, 10) <=> \A j \in 0..1 : (o[2] \div 2 ^ (7 - j)) % 2 = (r[2] \div 2 ^ (7 - j)) % 2
    BY <1>3, <2>1, SameBits
  <2>3. (\A j \in 0..1 : (o[2] \div 2 ^ (7 - j)) % 2 = (r[2] \div 2 ^ (7 - j)) % 2)
          <=> o[2] \div 64 = r[2] \div 64
    BY <1>0, Zenon DEF ByBits
  <2> QED BY <2>2, <2>3
<1>5. Same(9, 12) <=> o[2] \div 16 = r[2] \div 16
  <2>1. 8 * (2 - 1) + 3 + 1 = 12 /\ 3 \in 0..7
    OBVIOUS
  <2>2. Same(9, 12) <=> \A j \in 0..3 : (o[2] \div 2 ^ (7 - j)) % 2 = (r[2] \div 2 ^ (7 - j)) % 2
    BY <1>3, <2>1, SameBits
  <2>3. (\A j \in 0..3 : (o[2] \div 2 ^ (7 - j)) % 2 = (r[2] \div 2 ^ (7 - j)) % 2)
          <=> o[2] \div 16 = r[2] \div 16
    BY <1>0, Zenon DEF ByBits
  <2> QED BY <2>2, <2>3
<1>6. Same(9, 16) <=> o[2] = r[2]
  <2>1. 8 * (2 - 1) + 7 + 1 = 16 /\ 7 \in 0..7
    OBVIOUS
  <2>2. Same(9, 16) <=> \A j \in 0..7 : (o[2] \div 2 ^ (7 - j)) % 2 = (r[2] \div 2 ^ (7 - j)) % 2
    BY <1>3, <2>1, SameBits
  <2>3. (\A j \in 0..7 : (o[2] \div 2 ^ (7 - j)) % 2 = (r[2] \div 2 ^ (7 - j)) % 2) <=> o[2] = r[2]
    BY <1>0, Zenon DEF ByBits
  <2> QED BY <2>2, <2>3
<1>7. \A n \in {10, 12, 16} : Same(1, n) <=> Same(1, 8) /\ Same(9, n)
  <2>1. \A n \in {10, 12, 16} : \A i : i \in 1..n <=> i \in 1..8 \/ i \in 9..n
    OBVIOUS
  <2> QED BY <2>1, Zenon
<1> QED BY <1>2, <1>4, <1>5, <1>6, <1>7

\* The masks of the code select the ranges.
LEMMA PrivateStep == InputOK => PrivateByRange
<1> SUFFICES ASSUME InputOK, Given("host"), It.kind = "ipv4"
             PROVE  isPrivateHost(It) = InRange(It.octets)
  BY DEF PrivateByRange
<1>1. PICK o : o = It.octets
  OBVIOUS
<1>2. o \in Octets
  BY <1>1, FormatsConstantsOK DEF InputOK, Octets
<1>3. isPrivateHost(It) = isPrivateIpv4(o)
  BY <1>1 DEF isPrivateHost
<1>4. o[1] \in 0..255 /\ o[2] \in 0..255
  BY <1>2 DEF Octets
<1> DEFINE Within(r, n) == \A i \in 1..n : Bits(o)[i] = Bits(r)[i]
<1>5. InRange(o) <=> \/ Within(<<127, 0, 0, 0>>, 8) \/ Within(<<10, 0, 0, 0>>, 8)
                     \/ Within(<<172, 16, 0, 0>>, 12) \/ Within(<<192, 168, 0, 0>>, 16)
                     \/ Within(<<169, 254, 0, 0>>, 16) \/ Within(<<100, 64, 0, 0>>, 10)
  BY DEF InRange, Ranges
<1>6. Within(<<127, 0, 0, 0>>, 8) <=> o[1] = 127
  <2>1. <<127, 0, 0, 0>> \in Octets
    BY DEF Octets
  <2> QED BY <1>2, <2>1, PrefixIs
<1>7. Within(<<10, 0, 0, 0>>, 8) <=> o[1] = 10
  <2>1. <<10, 0, 0, 0>> \in Octets
    BY DEF Octets
  <2> QED BY <1>2, <2>1, PrefixIs
<1>8. Within(<<172, 16, 0, 0>>, 12) <=> o[1] = 172 /\ o[2] \in 16..31
  <2>1. <<172, 16, 0, 0>> \in Octets
    BY DEF Octets
  <2>2. Within(<<172, 16, 0, 0>>, 12) <=> o[1] = 172 /\ o[2] \div 16 = 16 \div 16
    BY <1>2, <2>1, PrefixIs
  <2> QED BY <1>4, <2>2
<1>9. Within(<<192, 168, 0, 0>>, 16) <=> o[1] = 192 /\ o[2] = 168
  <2>1. <<192, 168, 0, 0>> \in Octets
    BY DEF Octets
  <2> QED BY <1>2, <2>1, PrefixIs
<1>10. Within(<<169, 254, 0, 0>>, 16) <=> o[1] = 169 /\ o[2] = 254
  <2>1. <<169, 254, 0, 0>> \in Octets
    BY DEF Octets
  <2> QED BY <1>2, <2>1, PrefixIs
<1>11. Within(<<100, 64, 0, 0>>, 10) <=> o[1] = 100 /\ o[2] \in 64..127
  <2>1. <<100, 64, 0, 0>> \in Octets
    BY DEF Octets
  <2>2. Within(<<100, 64, 0, 0>>, 10) <=> o[1] = 100 /\ o[2] \div 64 = 64 \div 64
    BY <1>2, <2>1, PrefixIs
  <2> QED BY <1>4, <2>2
<1> HIDE DEF Within
<1>12. isPrivateIpv4(o) <=> InRange(o)
  BY <1>5, <1>6, <1>7, <1>8, <1>9, <1>10, <1>11 DEF isPrivateIpv4
<1>13. isPrivateIpv4(o) \in BOOLEAN /\ InRange(o) \in BOOLEAN
  BY DEF isPrivateIpv4, InRange
<1> QED BY <1>1, <1>3, <1>12, <1>13

\* An IPv4 address is private exactly in the ranges named beside the code
\* (net-guard.js:32-42): for every address.
THEOREM PrivateExactlyInRanges == Spec => []PrivateByRange
BY SpecInput, PrivateStep, PTL
-----------------------------------------------------------------------------
(* Output scripts *)

\* The bytes of three strings in a row.
Row(a, b, c) == (a \o b) \o c

\* Where the elements of three strings in a row are.
LEMMA ThreeInARow ==
  ASSUME NEW a \in Seq(Nat), NEW b \in Seq(Nat), NEW c \in Seq(Nat)
  PROVE  /\ Row(a, b, c) \in Seq(Nat) /\ Len(Row(a, b, c)) = Len(a) + Len(b) + Len(c)
         /\ \A i \in 1..Len(a) : Row(a, b, c)[i] = a[i]
         /\ \A i \in 1..Len(b) : Row(a, b, c)[Len(a) + i] = b[i]
         /\ \A i \in 1..Len(c) : Row(a, b, c)[Len(a) + Len(b) + i] = c[i]
<1>1. PICK t, m, n, k : t = a \o b /\ m = Len(a) /\ n = Len(b) /\ k = Len(c)
  OBVIOUS
<1>2. m \in Nat /\ n \in Nat /\ k \in Nat
  BY <1>1
<1>3. /\ t \in Seq(Nat) /\ Len(t) = m + n
      /\ \A i \in 1..(m + n) : t[i] = IF i <= m THEN a[i] ELSE b[i - m]
  BY <1>1, ConcatProperties
<1>4. PICK s : s = t \o c
  OBVIOUS
<1>5. /\ s \in Seq(Nat) /\ Len(s) = (m + n) + k
      /\ \A i \in 1..((m + n) + k) : s[i] = IF i <= m + n THEN t[i] ELSE c[i - (m + n)]
  <2>1. /\ s \in Seq(Nat) /\ Len(s) = Len(t) + Len(c)
        /\ \A i \in 1..(Len(t) + Len(c)) : s[i] = IF i <= Len(t) THEN t[i] ELSE c[i - Len(t)]
    BY <1>3, <1>4, ConcatProperties
  <2> QED BY <1>1, <1>3, <2>1
<1>6. ASSUME NEW i \in 1..m
      PROVE  s[i] = a[i]
  <2>1. i \in 1..(m + n) /\ i \in 1..((m + n) + k) /\ i <= m /\ i <= m + n
    BY <1>2
  <2> QED BY <1>3, <1>5, <2>1
<1>7. ASSUME NEW i \in 1..n
      PROVE  s[m + i] = b[i]
  <2>1. PICK j : j = m + i
    OBVIOUS
  <2>2. j \in 1..(m + n) /\ j \in 1..((m + n) + k) /\ ~(j <= m) /\ j - m = i /\ j <= m + n
    BY <1>2, <2>1
  <2>3. s[j] = t[j] /\ t[j] = b[i]
    BY <1>3, <1>5, <2>2
  <2> QED BY <2>1, <2>3
<1>8. ASSUME NEW i \in 1..k
      PROVE  s[m + n + i] = c[i]
  <2>1. m + n + i \in 1..((m + n) + k) /\ ~(m + n + i <= m + n) /\ (m + n + i) - (m + n) = i
    BY <1>2
  <2> QED BY <1>2, <1>5, <2>1
<1> QED BY <1>1, <1>4, <1>5, <1>6, <1>7, <1>8 DEF Row

\* Two and three bytes of a string.
LEMMA SubSeqOfTwo ==
  ASSUME NEW s \in Seq(Nat), NEW i \in 1..(Len(s) - 1)
  PROVE  SubSeq(s, i, i + 1) = <<s[i], s[i + 1]>>
<1> DEFINE j == i + 1
<1>1. PICK t, u : t = SubSeq(s, i, j) /\ u = <<s[i], s[j]>>
  OBVIOUS
<1>2. s[i] \in Nat /\ s[j] \in Nat /\ \A q \in i..j : s[q] \in Nat
  OBVIOUS
<1>3. /\ t \in Seq(Nat) /\ Len(t) = IF i <= j THEN j - i + 1 ELSE 0
      /\ \A q \in 1..(j - i + 1) : t[q] = s[i + q - 1]
  <2>1. i \in Int /\ j \in Int
    OBVIOUS
  <2> HIDE DEF j
  <2>2. /\ SubSeq(s, i, j) \in Seq(Nat)
        /\ Len(SubSeq(s, i, j)) = IF i <= j THEN j - i + 1 ELSE 0
        /\ \A q \in 1..(j - i + 1) : SubSeq(s, i, j)[q] = s[i + q - 1]
    BY <1>2, <2>1, SubSeqProperties
  <2> QED BY <1>1, <2>2
<1>4. Len(t) = 2 /\ t[1] = s[i] /\ t[2] = s[j]
  <2>1. j - i + 1 = 2 /\ i + 1 - 1 = i /\ i + 2 - 1 = j /\ i <= j /\ 1 \in 1..2 /\ 2 \in 1..2
    OBVIOUS
  <2> QED BY <1>3, <2>1
<1>5. u \in Seq(Nat) /\ Len(u) = 2 /\ u[1] = s[i] /\ u[2] = s[j]
  BY <1>1, <1>2
<1>6. \A q \in 1..2 : t[q] = u[q]
  BY <1>4, <1>5
<1> QED BY <1>1, <1>3, <1>4, <1>5, <1>6, SeqEqual

\* The first three elements of a string.
LEMMA SubSeqOfThree ==
  ASSUME NEW s \in Seq(Nat), Len(s) >= 3
  PROVE  SubSeq(s, 1, 3) = <<s[1], s[2], s[3]>>
<1>1. PICK t, u : t = SubSeq(s, 1, 3) /\ u = <<s[1], s[2], s[3]>>
  OBVIOUS
<1>2. s[1] \in Nat /\ s[2] \in Nat /\ s[3] \in Nat /\ \A q \in 1..3 : s[q] \in Nat
  OBVIOUS
<1>3. /\ t \in Seq(Nat) /\ Len(t) = IF 1 <= 3 THEN 3 - 1 + 1 ELSE 0
      /\ \A q \in 1..(3 - 1 + 1) : t[q] = s[1 + q - 1]
  BY <1>1, <1>2, SubSeqProperties
<1>4. Len(t) = 3 /\ t[1] = s[1] /\ t[2] = s[2] /\ t[3] = s[3]
  <2>1. /\ 1 <= 3 /\ 3 - 1 + 1 = 3 /\ 1 + 1 - 1 = 1 /\ 1 + 2 - 1 = 2 /\ 1 + 3 - 1 = 3
        /\ 1 \in 1..3 /\ 2 \in 1..3 /\ 3 \in 1..3
    OBVIOUS
  <2> QED BY <1>3, <2>1
<1>5. u \in Seq(Nat) /\ Len(u) = 3 /\ u[1] = s[1] /\ u[2] = s[2] /\ u[3] = s[3]
  BY <1>1, <1>2
<1>6. \A q \in 1..3 : t[q] = u[q]
  BY <1>4, <1>5
<1> QED BY <1>1, <1>3, <1>4, <1>5, <1>6, SeqEqual

\* The push of a payload of zeros.
LEMMA PayloadIs ==
  ASSUME NEW n \in Nat, n > 0
  PROVE  /\ Bytes(n, 0) \in Seq(Nat) /\ Len(Bytes(n, 0)) = n
         /\ opPush(Bytes(n, 0)) \in Seq(Nat)
         /\ Len(opPush(Bytes(n, 0))) = n + 1
         /\ opPush(Bytes(n, 0))[1] = n
<1>1. PICK p : p = Bytes(n, 0)
  OBVIOUS
<1>2. p \in Seq(Nat) /\ Len(p) = n /\ p # <<>>
  BY <1>1 DEF Bytes
<1>3. opPush(p) = <<n>> \o p
  BY <1>2 DEF opPush
<1>4. <<n>> \in Seq(Nat) /\ Len(<<n>>) = 1 /\ <<n>>[1] = n
  OBVIOUS
<1>5. /\ <<n>> \o p \in Seq(Nat) /\ Len(<<n>> \o p) = 1 + n
      /\ \A i \in 1..(1 + n) : (<<n>> \o p)[i] = IF i <= 1 THEN <<n>>[i] ELSE p[i - 1]
  BY <1>2, <1>4, ConcatProperties
<1>6. (<<n>> \o p)[1] = n
  BY <1>4, <1>5
<1>7. 1 + n = n + 1 /\ n \in Nat
  OBVIOUS
<1> QED BY <1>1, <1>2, <1>3, <1>5, <1>6, <1>7

\* The three shapes of a script that pays: by the strings it is made of.
LEMMA KeyHashSolved ==
  ASSUME NEW s \in Seq(Nat)
  PROVE  /\ Len(s) = 25
         /\ s[1] = 118 /\ s[2] = 169 /\ s[3] = 20 /\ s[24] = 136 /\ s[25] = 172
         => Solved(s) = "p2pkh"
<1>1. Len(s) >= 3 => SubSeq(s, 1, 3) = <<s[1], s[2], s[3]>>
  BY SubSeqOfThree
<1>2. Len(s) = 25 => SubSeq(s, 24, 25) = <<s[24], s[25]>>
  <2>1. Len(s) = 25 => 24 \in 1..(Len(s) - 1)
    OBVIOUS
  <2>2. 24 \in 1..(Len(s) - 1) => SubSeq(s, 24, 24 + 1) = <<s[24], s[24 + 1]>>
    BY SubSeqOfTwo
  <2> QED BY <2>1, <2>2
<1> QED BY <1>1, <1>2 DEF Solved

\* A node takes the form of P2SH for P2SH.
LEMMA ScriptHashSolved ==
  ASSUME NEW s \in Seq(Nat)
  PROVE  Len(s) = 23 /\ s[1] = 169 /\ s[2] = 20 /\ s[23] = 135 => Solved(s) = "p2sh"
<1>1. Len(s) = 23 => SubSeq(s, 1, 2) = <<s[1], s[2]>>
  <2>1. Len(s) = 23 => 1 \in 1..(Len(s) - 1)
    OBVIOUS
  <2>2. 1 \in 1..(Len(s) - 1) => SubSeq(s, 1, 1 + 1) = <<s[1], s[1 + 1]>>
    BY SubSeqOfTwo
  <2> QED BY <2>1, <2>2
<1> QED BY <1>1 DEF Solved

WitnessType(version, n) ==
  CASE version = 0 /\ n = 20 -> "p2wpkh"
    [] version = 0 /\ n = 32 -> "p2wsh"
    [] version = 1 /\ n = 32 -> "p2tr"
    [] OTHER -> "witness"

\* Two strings joined.
Chained(s, a, b) ==
  /\ s \in Seq(Nat) /\ Len(s) = Len(a) + Len(b)
  /\ \A i \in 1..(Len(a) + Len(b)) : s[i] = IF i <= Len(a) THEN a[i] ELSE b[i - Len(a)]

LEMMA ChainedNat ==
  ASSUME NEW a \in Seq(Nat), NEW b \in Seq(Nat)
  PROVE  Chained(a \o b, a, b)
BY ConcatProperties DEF Chained

\* A node takes a witness program for the type of its version and length.
LEMMA WitnessSolved ==
  ASSUME NEW version \in 0..16, NEW n \in 2..40, version = 0 => n \in {20, 32},
         NEW a \in Seq(Nat), Len(a) = 1, a[1] = IF version = 0 THEN 0 ELSE 80 + version,
         NEW b \in Seq(Nat), Len(b) = n + 1, b[1] = n
  PROVE  Solved(a \o b) = WitnessType(version, n)
<1>1. PICK s : s = a \o b
  OBVIOUS
<1>2. /\ s \in Seq(Nat) /\ Len(s) = n + 2
      /\ \A i \in 1..(n + 2) : s[i] = IF i <= 1 THEN a[i] ELSE b[i - 1]
  <2>1. /\ s \in Seq(Nat) /\ Len(s) = Len(a) + Len(b)
        /\ \A i \in 1..(Len(a) + Len(b)) : s[i] = IF i <= Len(a) THEN a[i] ELSE b[i - Len(a)]
    <3>1. Chained(a \o b, a, b)
      BY ChainedNat, Zenon
    <3> QED BY <1>1, <3>1, Zenon DEF Chained
  <2>2. 1 + (n + 1) = n + 2
    OBVIOUS
  <2> QED BY <2>1, <2>2
<1>3. s[1] = (IF version = 0 THEN 0 ELSE 80 + version) /\ s[2] = n
  <2>1. 1 \in 1..(n + 2) /\ 2 \in 1..(n + 2) /\ 1 <= 1 /\ ~(2 <= 1) /\ 2 - 1 = 1
    OBVIOUS
  <2> QED BY <1>2, <2>1
<1>4. SubSeq(s, 1, 3)[1] = s[1] /\ SubSeq(s, 1, 2)[1] = s[1]
  BY <1>2
<1>5. SubSeq(s, 1, 3) # <<118, 169, 20>> /\ SubSeq(s, 1, 2) # <<169, 20>>
  <2>1. PICK t, u : t = <<118, 169, 20>> /\ u = <<169, 20>>
    OBVIOUS
  <2>2. t[1] = 118 /\ u[1] = 169
    BY <2>1
  <2>3. s[1] # 118 /\ s[1] # 169
    BY <1>3
  <2>4. SubSeq(s, 1, 3) # t /\ SubSeq(s, 1, 2) # u
    BY <1>4, <2>2, <2>3
  <2> QED BY <2>1, <2>4
<1>6. /\ s[1] = 0 \/ s[1] \in 81..96
      /\ s[1] = 0 <=> version = 0
      /\ s[1] = 81 <=> version = 1
      /\ n + 2 \in 4..42 /\ (n + 2) - 2 = n
      /\ n + 2 = 22 <=> n = 20
      /\ n + 2 = 34 <=> n = 32
  BY <1>3
<1>7. Solved(s) = WitnessType(version, n)
  <2>1. CASE version = 0 /\ n = 20
    BY <1>2, <1>3, <1>5, <1>6, <2>1 DEF Solved, WitnessType
  <2>2. CASE version = 0 /\ n = 32
    BY <1>2, <1>3, <1>5, <1>6, <2>2 DEF Solved, WitnessType
  <2>3. CASE version = 1 /\ n = 32
    BY <1>2, <1>3, <1>5, <1>6, <2>3 DEF Solved, WitnessType
  <2>4. CASE version # 0 /\ ~(version = 1 /\ n = 32)
    BY <1>2, <1>3, <1>5, <1>6, <2>4 DEF Solved, WitnessType
  <2> QED BY <2>1, <2>2, <2>3, <2>4
<1> QED BY <1>1, <1>7

\* The script of a base58 address is of the type of its version.
LEMMA Base58Solved ==
  ASSUME NEW address, DecodesBase58(address)
  PROVE  Solved(scriptPubKey(address)) = type(address)
<1>1. address.length = 20 /\ type(address) = Base58Type(address.version)
  BY DEF DecodesBase58, type
<1>2. PICK b : b = opPush(Bytes(20, 0))
  OBVIOUS
<1>3. b \in Seq(Nat) /\ Len(b) = 21 /\ b[1] = 20
  <2>1. 20 \in Nat /\ 20 > 0 /\ 20 + 1 = 21
    OBVIOUS
  <2> QED BY <1>2, <2>1, PayloadIs
<1>4. ASSUME address.version \in {0, 111}
      PROVE  Solved(scriptPubKey(address)) = type(address)
  <2>1. type(address) = "p2pkh"
    BY <1>1, <1>4 DEF Base58Type
  <2>2. PICK a, c, s : a = <<118, 169>> /\ c = <<136, 172>> /\ s = Row(a, b, c)
    OBVIOUS
  <2>3. scriptPubKey(address) = s
    BY <1>1, <1>2, <2>1, <2>2 DEF scriptPubKey, Row
  <2>4. a \in Seq(Nat) /\ Len(a) = 2 /\ a[1] = 118 /\ a[2] = 169
    BY <2>2
  <2>5. c \in Seq(Nat) /\ Len(c) = 2 /\ c[1] = 136 /\ c[2] = 172
    BY <2>2
  <2>6. /\ s \in Seq(Nat) /\ Len(s) = Len(a) + Len(b) + Len(c)
        /\ \A i \in 1..Len(a) : s[i] = a[i]
        /\ \A i \in 1..Len(b) : s[Len(a) + i] = b[i]
        /\ \A i \in 1..Len(c) : s[Len(a) + Len(b) + i] = c[i]
    <3>1. a \in Seq(Nat) /\ b \in Seq(Nat) /\ c \in Seq(Nat) /\ s = Row(a, b, c)
      BY <1>3, <2>2, <2>4, <2>5
    <3>2. Row(a, b, c) \in Seq(Nat) /\ Len(Row(a, b, c)) = Len(a) + Len(b) + Len(c)
      BY <3>1, ThreeInARow
    <3>3. \A i \in 1..Len(a) : Row(a, b, c)[i] = a[i]
      BY <3>1, ThreeInARow
    <3>4. \A i \in 1..Len(b) : Row(a, b, c)[Len(a) + i] = b[i]
      BY <3>1, ThreeInARow
    <3>5. \A i \in 1..Len(c) : Row(a, b, c)[Len(a) + Len(b) + i] = c[i]
      BY <3>1, ThreeInARow
    <3> QED BY <3>1, <3>2, <3>3, <3>4, <3>5
  <2>7. /\ 2 + 21 + 2 = 25 /\ 2 + 1 = 3 /\ 2 + 21 + 1 = 24
        /\ 1 \in 1..2 /\ 2 \in 1..2 /\ 1 \in 1..21
    OBVIOUS
  <2>8. Len(s) = 25 /\ s[1] = 118 /\ s[2] = 169 /\ s[3] = 20 /\ s[24] = 136 /\ s[25] = 172
    BY <1>3, <2>4, <2>5, <2>6, <2>7
  <2> QED BY <2>1, <2>3, <2>6, <2>8, KeyHashSolved
<1>5. ASSUME address.version \in {5, 196}
      PROVE  Solved(scriptPubKey(address)) = type(address)
  <2>1. type(address) = "p2sh"
    BY <1>1, <1>5 DEF Base58Type
  <2>2. PICK a, c, s : a = <<169>> /\ c = <<135>> /\ s = Row(a, b, c)
    OBVIOUS
  <2>3. scriptPubKey(address) = s
    BY <1>1, <1>2, <2>1, <2>2 DEF scriptPubKey, Row
  <2>4. a \in Seq(Nat) /\ Len(a) = 1 /\ a[1] = 169
    BY <2>2
  <2>5. c \in Seq(Nat) /\ Len(c) = 1 /\ c[1] = 135
    BY <2>2
  <2>6. /\ s \in Seq(Nat) /\ Len(s) = Len(a) + Len(b) + Len(c)
        /\ \A i \in 1..Len(a) : s[i] = a[i]
        /\ \A i \in 1..Len(b) : s[Len(a) + i] = b[i]
        /\ \A i \in 1..Len(c) : s[Len(a) + Len(b) + i] = c[i]
    <3>1. a \in Seq(Nat) /\ b \in Seq(Nat) /\ c \in Seq(Nat) /\ s = Row(a, b, c)
      BY <1>3, <2>2, <2>4, <2>5
    <3>2. Row(a, b, c) \in Seq(Nat) /\ Len(Row(a, b, c)) = Len(a) + Len(b) + Len(c)
      BY <3>1, ThreeInARow
    <3>3. \A i \in 1..Len(a) : Row(a, b, c)[i] = a[i]
      BY <3>1, ThreeInARow
    <3>4. \A i \in 1..Len(b) : Row(a, b, c)[Len(a) + i] = b[i]
      BY <3>1, ThreeInARow
    <3>5. \A i \in 1..Len(c) : Row(a, b, c)[Len(a) + Len(b) + i] = c[i]
      BY <3>1, ThreeInARow
    <3> QED BY <3>1, <3>2, <3>3, <3>4, <3>5
  <2>7. /\ 1 + 21 + 1 = 23 /\ 1 + 1 = 2
        /\ 1 \in 1..1 /\ 1 \in 1..21
    OBVIOUS
  <2>8. Len(s) = 23 /\ s[1] = 169 /\ s[2] = 20 /\ s[23] = 135
    BY <1>3, <2>4, <2>5, <2>6, <2>7
  <2> QED BY <2>1, <2>3, <2>6, <2>8, ScriptHashSolved
<1>6. address.version \in {0, 111} \/ address.version \in {5, 196}
  BY DEF DecodesBase58, Base58Type
<1> QED BY <1>4, <1>5, <1>6

\* The script of a segwit address is of the type of its version and length.
LEMMA SegwitSolved ==
  ASSUME NEW address \in AddressType, DecodesSegwit(address), ~DecodesBase58(address)
  PROVE  Solved(scriptPubKey(address)) = type(address)
<1>1. PICK version, n : version = address.version /\ n = address.length
  OBVIOUS
<1>2. version \in 0..16 /\ n \in 2..40 /\ (version = 0 => n \in {20, 32})
  BY <1>1 DEF DecodesSegwit, AddressType
<1>3. type(address) = WitnessType(version, n)
  BY <1>1 DEF type, WitnessType
<1>4. type(address) # "p2pkh" /\ type(address) # "p2sh"
  BY <1>3 DEF WitnessType
<1>5. PICK a, b : a = <<IF version = 0 THEN 0 ELSE 80 + version>> /\ b = opPush(Bytes(n, 0))
  OBVIOUS
<1>6. scriptPubKey(address) = a \o b
  BY <1>1, <1>4, <1>5 DEF scriptPubKey
<1>7. a \in Seq(Nat) /\ Len(a) = 1 /\ a[1] = IF version = 0 THEN 0 ELSE 80 + version
  BY <1>2, <1>5
<1>8. b \in Seq(Nat) /\ Len(b) = n + 1 /\ b[1] = n
  <2>1. n \in Nat /\ n > 0
    BY <1>2
  <2> QED BY <1>5, <2>1, PayloadIs
<1>9. Solved(a \o b) = WitnessType(version, n)
  BY <1>2, <1>7, <1>8, WitnessSolved
<1> QED BY <1>3, <1>6, <1>9

\* Either form of address leads to its script.
LEMMA AddressStep == InputOK => PaysAddress
<1> SUFFICES ASSUME InputOK, Given("address"), Decodes(It)
             PROVE  /\ Solved(scriptPubKey(It)) = type(It)
                    /\ It.form = "bech32" <=> It.version = 0 /\ It.form \notin {"base58"}
  BY DEF PaysAddress
<1>1. It \in AddressType
  BY FormatsConstantsOK DEF InputOK
<1>2. CASE DecodesBase58(It)
  <2>1. It.form = "base58"
    BY <1>2 DEF DecodesBase58
  <2> QED BY <1>2, <2>1, Base58Solved
<1>3. CASE ~DecodesBase58(It)
  <2>1. DecodesSegwit(It)
    BY <1>3 DEF Decodes
  <2>2. It.form = IF It.version = 0 THEN "bech32" ELSE "bech32m"
    BY <2>1 DEF DecodesSegwit
  <2> QED BY <1>1, <1>3, <2>1, <2>2, SegwitSolved
<1> QED BY <1>2, <1>3

\* An address that is accepted leads to a script that a node takes for the same
\* type (address.js:33-101): for all versions and lengths.
THEOREM AcceptedAddressIsPaid == Spec => []PaysAddress
BY SpecInput, AddressStep, PTL

-----------------------------------------------------------------------------
(* The submitted block *)

\* What is in s behind its first n bytes.
Behind(s, n, a) == SubSeq(s, n + 1, n + Len(a)) = a

\* A field between what is before it and what is behind it.
LEMMA FieldRead ==
  \A p, a, r \in Seq(Byte) : Behind((p \o a) \o r, Len(p), a)
<1> TAKE p, a, r \in Seq(Byte)
<1> QED BY MiddleRead DEF Behind

\* Strings whose order of joining does not matter.
Groups(a, b, c) == (a \o b) \o c = a \o (b \o c)

\* It never does.
LEMMA AllGroup == \A a, b, c \in Seq(Byte) : Groups(a, b, c)
BY Grouped DEF Groups

\* Two strings in a row are a string.
LEMMA TwoInARow ==
  \A p, a \in Seq(Byte) : p \o a \in Seq(Byte) /\ Len(p \o a) = Len(p) + Len(a)
<1> TAKE p, a \in Seq(Byte)
<1> QED BY ConcatProperties

\* The fields of a header, and what follows it.
Fields(s, a, b, c, d, e, f, rest) ==
  /\ SubSeq(s, 1, Len(a)) = a
  /\ SubSeq(s, Len(a) + 1, Len(a) + Len(b)) = b
  /\ SubSeq(s, Len(a) + Len(b) + 1, Len(a) + Len(b) + Len(c)) = c
  /\ SubSeq(s, Len(a) + Len(b) + Len(c) + 1, Len(a) + Len(b) + Len(c) + Len(d)) = d
  /\ SubSeq(s, Len(a) + Len(b) + Len(c) + Len(d) + 1,
            Len(a) + Len(b) + Len(c) + Len(d) + Len(e)) = e
  /\ SubSeq(s, Len(a) + Len(b) + Len(c) + Len(d) + Len(e) + 1,
            Len(a) + Len(b) + Len(c) + Len(d) + Len(e) + Len(f)) = f
  /\ From(s, Len(a) + Len(b) + Len(c) + Len(d) + Len(e) + Len(f) + 1) = rest

\* They are read back from a row of them.
LEMMA FieldsRead ==
  ASSUME NEW a \in Seq(Byte), NEW b \in Seq(Byte), NEW c \in Seq(Byte), NEW d \in Seq(Byte),
         NEW e \in Seq(Byte), NEW f \in Seq(Byte), NEW rest \in Seq(Byte)
  PROVE  Fields((((((a \o b) \o c) \o d) \o e) \o f) \o rest, a, b, c, d, e, f, rest)
<1>1. PICK p2 : p2 = a \o b
  OBVIOUS
<1>2. PICK p3 : p3 = p2 \o c
  OBVIOUS
<1>3. PICK p4 : p4 = p3 \o d
  OBVIOUS
<1>4. PICK p5 : p5 = p4 \o e
  OBVIOUS
<1>5. PICK p6 : p6 = p5 \o f
  OBVIOUS
<1>6. p2 \in Seq(Byte) /\ Len(p2) = Len(a) + Len(b)
  BY <1>1, TwoInARow
<1>7. p3 \in Seq(Byte) /\ Len(p3) = Len(p2) + Len(c)
  BY <1>2, <1>6, TwoInARow
<1>8. p4 \in Seq(Byte) /\ Len(p4) = Len(p3) + Len(d)
  BY <1>3, <1>7, TwoInARow
<1>9. p5 \in Seq(Byte) /\ Len(p5) = Len(p4) + Len(e)
  BY <1>4, <1>8, TwoInARow
<1>10. p6 \in Seq(Byte) /\ Len(p6) = Len(p5) + Len(f)
  BY <1>5, <1>9, TwoInARow
<1>11. PICK s : s = p6 \o rest
  OBVIOUS
<1>12. PICK r5 : r5 = f \o rest
  OBVIOUS
<1>13. PICK r4 : r4 = e \o r5
  OBVIOUS
<1>14. PICK r3 : r3 = d \o r4
  OBVIOUS
<1>15. PICK r2 : r2 = c \o r3
  OBVIOUS
<1>16. PICK r1 : r1 = b \o r2
  OBVIOUS
<1>17. r5 \in Seq(Byte) /\ s = p5 \o r5 /\ Behind(s, Len(p5), f)
  <2>1. p5 \in Seq(Byte) /\ f \in Seq(Byte) /\ rest \in Seq(Byte)
    BY <1>9
  <2>2. f \o rest \in Seq(Byte)
    BY <2>1, TwoInARow, Zenon
  <2>3. Groups(p5, f, rest)
    BY <2>1, AllGroup, Zenon
  <2>4. Behind((p5 \o f) \o rest, Len(p5), f)
    BY <2>1, FieldRead, Zenon
  <2> QED BY <1>5, <1>11, <1>12, <2>2, <2>3, <2>4 DEF Groups
<1>18. r4 \in Seq(Byte) /\ s = p4 \o r4 /\ Behind(s, Len(p4), e)
  <2>1. p4 \in Seq(Byte) /\ e \in Seq(Byte) /\ r5 \in Seq(Byte)
    BY <1>8, <1>17
  <2>2. e \o r5 \in Seq(Byte)
    BY <2>1, TwoInARow, Zenon
  <2>3. Groups(p4, e, r5)
    BY <2>1, AllGroup, Zenon
  <2>4. Behind((p4 \o e) \o r5, Len(p4), e)
    BY <2>1, FieldRead, Zenon
  <2> QED BY <1>4, <1>17, <1>13, <2>2, <2>3, <2>4 DEF Groups
<1>19. r3 \in Seq(Byte) /\ s = p3 \o r3 /\ Behind(s, Len(p3), d)
  <2>1. p3 \in Seq(Byte) /\ d \in Seq(Byte) /\ r4 \in Seq(Byte)
    BY <1>7, <1>18
  <2>2. d \o r4 \in Seq(Byte)
    BY <2>1, TwoInARow, Zenon
  <2>3. Groups(p3, d, r4)
    BY <2>1, AllGroup, Zenon
  <2>4. Behind((p3 \o d) \o r4, Len(p3), d)
    BY <2>1, FieldRead, Zenon
  <2> QED BY <1>3, <1>18, <1>14, <2>2, <2>3, <2>4 DEF Groups
<1>20. r2 \in Seq(Byte) /\ s = p2 \o r2 /\ Behind(s, Len(p2), c)
  <2>1. p2 \in Seq(Byte) /\ c \in Seq(Byte) /\ r3 \in Seq(Byte)
    BY <1>6, <1>19
  <2>2. c \o r3 \in Seq(Byte)
    BY <2>1, TwoInARow, Zenon
  <2>3. Groups(p2, c, r3)
    BY <2>1, AllGroup, Zenon
  <2>4. Behind((p2 \o c) \o r3, Len(p2), c)
    BY <2>1, FieldRead, Zenon
  <2> QED BY <1>2, <1>19, <1>15, <2>2, <2>3, <2>4 DEF Groups
<1>21. r1 \in Seq(Byte) /\ s = a \o r1 /\ Behind(s, Len(a), b)
  <2>1. a \in Seq(Byte) /\ b \in Seq(Byte) /\ r2 \in Seq(Byte)
    BY <1>20
  <2>2. b \o r2 \in Seq(Byte)
    BY <2>1, TwoInARow, Zenon
  <2>3. Groups(a, b, r2)
    BY <2>1, AllGroup, Zenon
  <2>4. Behind((a \o b) \o r2, Len(a), b)
    BY <2>1, FieldRead, Zenon
  <2> QED BY <1>1, <1>20, <1>16, <2>2, <2>3, <2>4 DEF Groups
<1>22. SubSeq(s, 1, Len(a)) = a
  BY <1>21, HeadRead
<1>23. From(s, Len(p6) + 1) = rest
  BY <1>10, <1>11, HeadRead
<1>24. Fields(s, a, b, c, d, e, f, rest)
  BY <1>6, <1>7, <1>8, <1>9, <1>10, <1>17, <1>18, <1>19, <1>20, <1>21, <1>22, <1>23
  DEF Fields, Behind
<1> QED BY <1>1, <1>2, <1>3, <1>4, <1>5, <1>11, <1>24

\* A string from its end to its beginning.
LEMMA ReverseIs == \A s \in Seq(Byte) : Reverse(s) \in Seq(Byte) /\ Len(Reverse(s)) = Len(s)
<1> TAKE s \in Seq(Byte)
<1>1. PICK n : n = Len(s)
  OBVIOUS
<1>2. n \in Nat /\ \A i \in 1..n : n - i + 1 \in 1..n /\ s[n - i + 1] \in Byte
  BY <1>1
<1>3. Reverse(s) = [i \in 1..n |-> s[n - i + 1]]
  BY <1>1 DEF Reverse
<1> QED BY <1>1, <1>2, <1>3

\* The transactions that stand for those of a block.
LEMMA TxIs ==
  ASSUME Base = 256
  PROVE  \A i \in Nat : Tx(i) \in Seq(Byte)
<1> TAKE i \in Nat
<1>1. PICK m, b : m = 1 + (i % 3) /\ b = i % 256
  OBVIOUS
<1>2. m \in Nat /\ b \in Byte
  BY <1>1 DEF Byte
<1>3. Bytes(m, b) \in Seq(Byte)
  BY <1>2, BytesIs
<1> QED BY <1>1, <1>3 DEF Tx

\* A version below 0 in four bytes.
LEMMA VersionIs ==
  ASSUME Base = 256
  PROVE  LE(-3, 4) = <<253, 255, 255, 255>>
<1>1. PICK n \in Int : n = -3
  OBVIOUS
<1>2. PICK m \in Int : m = -1
  OBVIOUS
<1>3. n \div Base = m /\ n % Base = 253
  <2>1. n \div Base \in Int /\ n % Base \in 0..255 /\ n = (n % Base) + 256 * (n \div Base)
    BY DivMod DEF Byte
  <2> QED BY <1>1, <1>2, <2>1
<1>4. m \div Base = m /\ m % Base = 255
  <2>1. m \div Base \in Int /\ m % Base \in 0..255 /\ m = (m % Base) + 256 * (m \div Base)
    BY DivMod DEF Byte
  <2> QED BY <1>2, <2>1
<1>5. Shifted(n, 0) = n /\ Shifted(n, 0 + 1) = m /\ Shifted(n, 1 + 1) = m /\ Shifted(n, 2 + 1) = m
  <2>1. Shifted(n, 0) = n /\ Shifted(n, 0 + 1) = Shifted(n, 0) \div Base
    BY ShiftedIs
  <2>2. Shifted(n, 1) = m
    BY <1>3, <2>1
  <2>3. Shifted(n, 1 + 1) = Shifted(n, 1) \div Base
    BY ShiftedIs
  <2>4. Shifted(n, 2) = m
    BY <1>4, <2>2, <2>3
  <2>5. Shifted(n, 2 + 1) = Shifted(n, 2) \div Base
    BY ShiftedIs
  <2> QED BY <1>4, <2>1, <2>2, <2>3, <2>4, <2>5
<1>6. \A i \in 1..4 : Shifted(n, i - 1) % Base = IF i = 1 THEN 253 ELSE 255
  <2>1. Shifted(n, 1 - 1) = n /\ Shifted(n, 2 - 1) = m /\ Shifted(n, 3 - 1) = m /\ Shifted(n, 4 - 1) = m
    BY <1>5
  <2>2. \A i \in 1..4 : i = 1 \/ i = 2 \/ i = 3 \/ i = 4
    OBVIOUS
  <2> QED BY <1>3, <1>4, <2>1, <2>2
<1>7. LE(n, 4) = [i \in 1..4 |-> IF i = 1 THEN 253 ELSE 255]
  BY <1>6 DEF LE
<1>8. [i \in 1..4 |-> IF i = 1 THEN 253 ELSE 255] = <<253, 255, 255, 255>>
  OBVIOUS
<1> QED BY <1>1, <1>7, <1>8

\* The time of a header in four bytes.
LEMMA TimeFits ==
  ASSUME Base = 256
  PROVE  Shifted(1700000000, 4) = 0
<1>1. PICK m \in Nat : m = 1700000000
  BY SMT
<1>2. PICK a \in Nat : a = m \div Base
  OBVIOUS
<1>3. PICK b \in Nat : b = a \div Base
  OBVIOUS
<1>4. PICK c \in Nat : c = b \div Base
  OBVIOUS
<1>5. c < 256
  BY <1>1, <1>2, <1>3, <1>4, SMT
<1>6. c \div Base = 0
  BY <1>5
<1>7. Shifted(m, 0) = m /\ Shifted(m, 0 + 1) = Shifted(m, 0) \div Base
  BY ShiftedIs
<1>8. Shifted(m, 1) = a
  BY <1>2, <1>7
<1>9. Shifted(m, 1 + 1) = Shifted(m, 1) \div Base
  BY ShiftedIs
<1>10. Shifted(m, 2) = b
  BY <1>3, <1>8, <1>9
<1>11. Shifted(m, 2 + 1) = Shifted(m, 2) \div Base
  BY ShiftedIs
<1>12. Shifted(m, 3) = c
  BY <1>4, <1>10, <1>11
<1>13. Shifted(m, 3 + 1) = Shifted(m, 3) \div Base
  BY ShiftedIs
<1> QED BY <1>1, <1>6, <1>12, <1>13, SMT

\* The fields of the header are strings of bytes of the lengths of the protocol.
LEMMA FieldsAre ==
  ASSUME Base = 256, NEW n \in Nat, Shifted(n, 4) = 0, NEW time \in Nat, Shifted(time, 4) = 0
  PROVE  /\ LE(-3, 4) \in Seq(Byte) /\ Len(LE(-3, 4)) = 4
         /\ [i \in 1..32 |-> i] \in Seq(Byte) /\ Len([i \in 1..32 |-> i]) = 32
         /\ [i \in 1..32 |-> 100 + i] \in Seq(Byte) /\ Len([i \in 1..32 |-> 100 + i]) = 32
         /\ LE(time, 4) \in Seq(Byte) /\ Len(LE(time, 4)) = 4 /\ Unsigned(LE(time, 4)) = time
         /\ <<29, 0, 255, 254>> \in Seq(Byte) /\ Len(<<29, 0, 255, 254>>) = 4
         /\ LE(n, 4) \in Seq(Byte) /\ Len(LE(n, 4)) = 4 /\ Unsigned(LE(n, 4)) = n
<1>1. \A m \in Int : \A k \in Nat : LE(m, k) \in Seq(Byte) /\ Len(LE(m, k)) = k
  BY LETyped
<1>2. -3 \in Int /\ time \in Int /\ n \in Int /\ 4 \in Nat
  OBVIOUS
<1>3. \A m \in Nat : \A k \in Nat : Shifted(m, k) = 0 => Unsigned(LE(m, k)) = m
  BY UnsignedLE
<1>5. \A i \in 1..32 : i \in Byte /\ 100 + i \in Byte
  BY DEF Byte
<1>6. [i \in 1..32 |-> i] \in Seq(Byte) /\ [i \in 1..32 |-> 100 + i] \in Seq(Byte)
  BY <1>5
<1>7. Len([i \in 1..32 |-> i]) = 32 /\ Len([i \in 1..32 |-> 100 + i]) = 32
  OBVIOUS
<1>8. <<29, 0, 255, 254>> \in Seq(Byte) /\ Len(<<29, 0, 255, 254>>) = 4
  <2>1. 29 \in Byte /\ 0 \in Byte /\ 255 \in Byte /\ 254 \in Byte
    BY DEF Byte
  <2> QED BY <2>1
<1>9. LE(-3, 4) \in Seq(Byte) /\ Len(LE(-3, 4)) = 4
  BY <1>1, <1>2
<1>10. LE(time, 4) \in Seq(Byte) /\ Len(LE(time, 4)) = 4 /\ Unsigned(LE(time, 4)) = time
  BY <1>1, <1>2, <1>3
<1>11. LE(n, 4) \in Seq(Byte) /\ Len(LE(n, 4)) = 4 /\ Unsigned(LE(n, 4)) = n
  BY <1>1, <1>2, <1>3
<1> QED BY <1>6, <1>7, <1>8, <1>9, <1>10, <1>11

\* What a node finds in a block of n transactions.
BlockHeads(block, previous, root, time, bits, n, all) ==
  LET rest == From(block, 81)
  IN /\ SubSeq(block, 1, 4) = <<253, 255, 255, 255>>
     /\ SubSeq(block, 5, 36) = Reverse(previous)
     /\ SubSeq(block, 37, 68) = root
     /\ Unsigned(SubSeq(block, 69, 72)) = time
     /\ SubSeq(block, 73, 76) = Reverse(bits)
     /\ Unsigned(SubSeq(block, 77, 80)) = n
     /\ IntAt(rest) = n
     /\ From(rest, IntSize(rest) + 1) = all

\* The header of a block and the transactions behind it.
LEMMA BlockRead ==
  ASSUME Base = 256, NEW n \in Nat \ {0}, Shifted(n, 4) = 0, NEW time \in Nat, Shifted(time, 4) = 0
  PROVE  LET previous == [i \in 1..32 |-> i]
             root     == [i \in 1..32 |-> 100 + i]
             bits     == <<29, 0, 255, 254>>
             header   == buildHeader(-3, previous, root, time, bits, n)
             block    == serializeBlock(header, Tx(0), [i \in 1..(n - 1) |-> Tx(i)])
         IN BlockHeads(block, previous, root, time, bits, n, FlattenSeq([i \in 1..n |-> Tx(i - 1)]))
<1>1. PICK previous, root, bits :
        /\ previous = [i \in 1..32 |-> i] /\ root = [i \in 1..32 |-> 100 + i]
        /\ bits = <<29, 0, 255, 254>>
  OBVIOUS
<1>2. PICK v, p, t, b, k :
        /\ v = LE(-3, 4) /\ p = Reverse(previous) /\ t = LE(time, 4) /\ b = Reverse(bits)
        /\ k = LE(n, 4)
  OBVIOUS
<1>3. /\ v \in Seq(Byte) /\ Len(v) = 4 /\ p \in Seq(Byte) /\ Len(p) = 32
      /\ root \in Seq(Byte) /\ Len(root) = 32 /\ t \in Seq(Byte) /\ Len(t) = 4
      /\ b \in Seq(Byte) /\ Len(b) = 4 /\ k \in Seq(Byte) /\ Len(k) = 4
      /\ Unsigned(t) = time /\ Unsigned(k) = n /\ v = <<253, 255, 255, 255>>
  <2>1. /\ v \in Seq(Byte) /\ Len(v) = 4 /\ previous \in Seq(Byte) /\ Len(previous) = 32
        /\ root \in Seq(Byte) /\ Len(root) = 32 /\ t \in Seq(Byte) /\ Len(t) = 4
        /\ bits \in Seq(Byte) /\ Len(bits) = 4 /\ k \in Seq(Byte) /\ Len(k) = 4
        /\ Unsigned(t) = time /\ Unsigned(k) = n
    <3>1. n \in Nat
      OBVIOUS
    <3>2. /\ LE(-3, 4) \in Seq(Byte) /\ Len(LE(-3, 4)) = 4
          /\ [i \in 1..32 |-> i] \in Seq(Byte) /\ Len([i \in 1..32 |-> i]) = 32
          /\ [i \in 1..32 |-> 100 + i] \in Seq(Byte) /\ Len([i \in 1..32 |-> 100 + i]) = 32
          /\ LE(time, 4) \in Seq(Byte) /\ Len(LE(time, 4)) = 4 /\ Unsigned(LE(time, 4)) = time
          /\ <<29, 0, 255, 254>> \in Seq(Byte) /\ Len(<<29, 0, 255, 254>>) = 4
          /\ LE(n, 4) \in Seq(Byte) /\ Len(LE(n, 4)) = 4 /\ Unsigned(LE(n, 4)) = n
      BY <3>1, FieldsAre
    <3> QED BY <1>1, <1>2, <3>2, Zenon
  <2>2. v = <<253, 255, 255, 255>>
    BY <1>2, VersionIs
  <2>3. p \in Seq(Byte) /\ Len(p) = Len(previous) /\ b \in Seq(Byte) /\ Len(b) = Len(bits)
    BY <1>2, <2>1, ReverseIs
  <2> QED BY <2>1, <2>2, <2>3
<1>4. PICK h, others, coinbase, fl, size :
        /\ h = (((((v \o p) \o root) \o t) \o b) \o k)
        /\ others = [i \in 1..(n - 1) |-> Tx(i)] /\ coinbase = Tx(0)
        /\ fl = FlattenSeq(others) /\ size = varInt(n)
  OBVIOUS
<1>5. PICK block : block = ((h \o size) \o coinbase) \o fl
  OBVIOUS
<1>6. serializeBlock(buildHeader(-3, previous, root, time, bits, n), Tx(0), others) = block
  <2>1. 1 + Len(others) = n
    <3>1. Len(others) = n - 1
      BY <1>4
    <3> QED BY <3>1
  <2>2. buildHeader(-3, previous, root, time, bits, n) = h
    BY <1>2, <1>4 DEF buildHeader, toInternalOrder
  <2> QED BY <1>4, <1>5, <2>1, <2>2 DEF serializeBlock
<1>7. /\ fl \in Seq(Byte) /\ coinbase \in Seq(Byte)
      /\ coinbase \o fl = FlattenSeq([i \in 1..n |-> Tx(i - 1)])
  <2>1. PICK c, m : c = [i \in 1..n |-> Tx(i - 1)] /\ m = n - 1
    OBVIOUS
  <2>2. m \in Nat /\ n = m + 1 /\ 1 \in 1..n
    BY <2>1
  <2>3. c \in [1..(m + 1) -> Seq(Byte)]
    <3>1. \A i \in 1..n : i - 1 \in Nat
      OBVIOUS
    <3> QED BY <2>1, <2>2, <3>1, TxIs
  <2>4. others = [i \in 1..m |-> c[i + 1]]
    <3>1. \A i \in 1..m : i + 1 \in 1..n /\ (i + 1) - 1 = i
      BY <2>2
    <3>2. \A i \in 1..m : c[i + 1] = Tx(i)
      BY <2>1, <3>1
    <3> QED BY <1>4, <2>1, <3>2
  <2>5. FlattenSeq(c) = c[1] \o FlattenSeq(others) /\ FlattenSeq(others) \in Seq(Byte)
    BY <2>2, <2>3, <2>4, FlattenFirst
  <2>6. c[1] = coinbase
    <3>1. 1 - 1 = 0
      OBVIOUS
    <3> QED BY <1>4, <2>1, <2>2, <3>1
  <2>7. coinbase \in Seq(Byte)
    BY <1>4, TxIs
  <2> QED BY <1>4, <2>1, <2>5, <2>6, <2>7
<1>8. PICK body, rest : body = coinbase \o fl /\ rest = size \o body
  OBVIOUS
<1>9. body \in Seq(Byte)
  BY <1>7, <1>8, TwoInARow
<1>10. size \in Seq(Byte) /\ rest \in Seq(Byte) /\ IntSize(rest) = Len(size) /\ IntAt(rest) = n
  <2>1. Shifted(n, 8) = 0
    <3>1. PICK m \in Nat : m = 0
      OBVIOUS
    <3>2. \A j \in Nat : Shifted(n, j) = 0 => Shifted(n, j + 1) = 0
      <4> TAKE j \in Nat
      <4> HAVE Shifted(n, j) = 0
      <4>1. Shifted(n, j + 1) = Shifted(n, j) \div Base
        BY ShiftedIs
      <4> QED BY <4>1
    <3>3. Shifted(n, 4 + 1) = 0 /\ 4 + 1 = 5
      BY <3>2
    <3>4. Shifted(n, 5 + 1) = 0 /\ 5 + 1 = 6
      BY <3>2, <3>3
    <3>5. Shifted(n, 6 + 1) = 0 /\ 6 + 1 = 7
      BY <3>2, <3>4
    <3>6. Shifted(n, 7 + 1) = 0 /\ 7 + 1 = 8
      BY <3>2, <3>5
    <3> QED BY <3>6
  <2>2. /\ size \in Seq(Byte) /\ IntSize(size \o body) = Len(size) /\ IntAt(size \o body) = n
    BY <1>4, <1>9, <2>1, VarIntAhead
  <2>3. size \o body \in Seq(Byte)
    BY <1>9, <2>2, TwoInARow
  <2> QED BY <1>8, <2>2, <2>3
<1>11. h \in Seq(Byte) /\ Fields(h \o rest, v, p, root, t, b, k, rest)
  <2>1. Fields((((((v \o p) \o root) \o t) \o b) \o k) \o rest, v, p, root, t, b, k, rest)
    <3>1. /\ v \in Seq(Byte) /\ p \in Seq(Byte) /\ root \in Seq(Byte) /\ t \in Seq(Byte)
          /\ b \in Seq(Byte) /\ k \in Seq(Byte) /\ rest \in Seq(Byte)
      BY <1>3, <1>10
    <3> QED BY <3>1, FieldsRead
  <2>2. PICK x2, x3, x4, x5 :
          x2 = v \o p /\ x3 = x2 \o root /\ x4 = x3 \o t /\ x5 = x4 \o b
    OBVIOUS
  <2>3. x2 \in Seq(Byte)
    BY <1>3, <2>2, TwoInARow
  <2>4. x3 \in Seq(Byte)
    BY <1>3, <2>2, <2>3, TwoInARow
  <2>5. x4 \in Seq(Byte)
    BY <1>3, <2>2, <2>4, TwoInARow
  <2>6. x5 \in Seq(Byte)
    BY <1>3, <2>2, <2>5, TwoInARow
  <2>7. x5 \o k \in Seq(Byte)
    BY <1>3, <2>6, TwoInARow
  <2> QED BY <1>4, <2>1, <2>2, <2>7
<1>12. block = h \o rest
  <2>1. LeftRow(h, size, coinbase, fl) = RightRow(h, size, coinbase, fl)
    BY <1>7, <1>10, <1>11, FourGrouped
  <2> QED BY <1>5, <1>8, <2>1 DEF LeftRow, RightRow
<1>13. /\ SubSeq(block, 1, 4) = v /\ SubSeq(block, 5, 36) = p /\ SubSeq(block, 37, 68) = root
       /\ SubSeq(block, 69, 72) = t /\ SubSeq(block, 73, 76) = b /\ SubSeq(block, 77, 80) = k
       /\ From(block, 81) = rest
  <2>1. Len(v) = 4 /\ Len(p) = 32 /\ Len(root) = 32 /\ Len(t) = 4 /\ Len(b) = 4 /\ Len(k) = 4
    BY <1>3
  <2>2. /\ Len(v) + 1 = 5 /\ Len(v) + Len(p) = 36 /\ Len(v) + Len(p) + 1 = 37
        /\ Len(v) + Len(p) + Len(root) = 68 /\ Len(v) + Len(p) + Len(root) + 1 = 69
        /\ Len(v) + Len(p) + Len(root) + Len(t) = 72
        /\ Len(v) + Len(p) + Len(root) + Len(t) + 1 = 73
        /\ Len(v) + Len(p) + Len(root) + Len(t) + Len(b) = 76
        /\ Len(v) + Len(p) + Len(root) + Len(t) + Len(b) + 1 = 77
        /\ Len(v) + Len(p) + Len(root) + Len(t) + Len(b) + Len(k) = 80
        /\ Len(v) + Len(p) + Len(root) + Len(t) + Len(b) + Len(k) + 1 = 81
    BY <2>1
  <2>3. Fields(block, v, p, root, t, b, k, rest)
    BY <1>11, <1>12
  <2> QED BY <2>1, <2>2, <2>3, Zenon DEF Fields
<1>14. From(rest, IntSize(rest) + 1) = body
  <2>1. PICK m : m = Len(size)
    OBVIOUS
  <2>2. From(size \o body, m + 1) = body
    BY <1>9, <1>10, <2>1, HeadRead
  <2> QED BY <1>8, <1>10, <2>1, <2>2
<1>15. BlockHeads(block, previous, root, time, bits, n, body)
  BY <1>2, <1>3, <1>10, <1>13, <1>14 DEF BlockHeads
<1> QED BY <1>1, <1>4, <1>6, <1>7, <1>8, <1>15

\* Every block of one transaction or more is read back.
LEMMA BlockStep == Base = 256 /\ InputOK => BlockReads
<1> SUFFICES ASSUME Base = 256, InputOK, Given("transactions")
             PROVE  BlockReads
  BY DEF BlockReads
<1>1. PICK n : n = It
  OBVIOUS
<1>2. n \in Nat \ {0} /\ Shifted(n, 4) = 0
  BY <1>1, FormatsConstantsOK DEF InputOK
<1>3. PICK time \in Nat : time = 1700000000
  BY SMT
<1>4. Shifted(time, 4) = 0
  BY <1>3, TimeFits, SMT
<1>5. LET previous == [i \in 1..32 |-> i]
          root     == [i \in 1..32 |-> 100 + i]
          bits     == <<29, 0, 255, 254>>
          header   == buildHeader(-3, previous, root, time, bits, n)
          block    == serializeBlock(header, Tx(0), [i \in 1..(n - 1) |-> Tx(i)])
      IN BlockHeads(block, previous, root, time, bits, n, FlattenSeq([i \in 1..n |-> Tx(i - 1)]))
  BY <1>2, <1>4, BlockRead
<1> QED BY <1>1, <1>3, <1>5, SMT DEF BlockReads, BlockHeads

\* A node finds in the block every field of the header in its place and byte
\* order, the number of transactions, the coinbase and the others in order
\* (header.js:63-69, index.js:269-277): for any number of transactions.
THEOREM BlockIsRead ==
  ASSUME Base = 256
  PROVE  Spec => []BlockReads
<1>1. InputOK => BlockReads
  BY BlockStep
<1> QED BY <1>1, SpecInput, PTL

-----------------------------------------------------------------------------
(* The target *)

\* The bytes of a target, and its compact form.
LEMMA TargetStep == InputOK => TargetExpands
<1> SUFFICES ASSUME InputOK, Given("bits")
             PROVE  TargetExpands
  BY DEF TargetExpands
<1>1. PICK e, w : e = It[1] /\ w = It[2]
  OBVIOUS
<1>2. e \in Nat /\ w \in Nat
  BY <1>1, FormatsConstantsOK DEF InputOK
<1>3. PICK t, c : t = bitsToTarget(e, w) /\ c = Compact(t, e + 3)
  OBVIOUS
<1>4. bitsToTarget(c[1], c[2]) = t /\ c[2] < SignBit
  BY <1>2, <1>3, TargetBack
<1>5. /\ \A k \in 0..(e + 2) : Shifted(t, k) % Base = MantissaByte(w, k + 3 - e)
      /\ Shifted(t, e + 3) = 0
  BY <1>2, <1>3, TargetBytes
<1> QED BY <1>1, <1>3, <1>4, <1>5 DEF TargetExpands

\* bitsToTarget() puts every byte of the mantissa at its place and nothing else
\* anywhere, and what it gives has a compact form (hash.js:32-39): for every
\* exponent and word, in bytes of any even number of values.
THEOREM TargetIsExpanded == Spec => []TargetExpands
BY SpecInput, TargetStep, PTL

-----------------------------------------------------------------------------
(* Zero bits *)

\* Both counts are on one scale.
LEMMA ZerosStep == Base = 256 /\ InputOK => ZerosAgree
<1> SUFFICES ASSUME Base = 256, InputOK, Given("hashes")
             PROVE  ZerosAgree
  BY DEF ZerosAgree
<1>1. PICK hash, target : hash = It[1] /\ target = It[2]
  OBVIOUS
<1>2. hash \in Seq(Byte) /\ target \in Seq(Byte) /\ Len(hash) = Len(target)
  BY <1>1, FormatsConstantsOK DEF InputOK, Byte
<1>3. /\ countLeadingZeroBits(hash) = hexLeadingZeroBits(HexDigits(hash))
      /\ countLeadingZeroBits(target) = hexLeadingZeroBits(HexDigits(target))
  BY <1>2, SameZeros
<1>4. ASSUME meetsTarget(hash, hashToBigInt(target))
      PROVE  countLeadingZeroBits(hash) >= countLeadingZeroBits(target)
  <2>1. PICK u \in Nat, v \in Nat : u = Unsigned(hash) /\ v = Unsigned(target)
    BY <1>2, UnsignedNat
  <2>2. u <= v
    BY <1>4, <2>1 DEF meetsTarget, hashToBigInt
  <2>3. BitLength(u) <= BitLength(v) /\ BitLength(u) \in Nat /\ BitLength(v) \in Nat
    BY <2>2, BitLengthOrdered, BitLengthIs
  <2>4. Len(hash) \in Nat
    BY <1>2
  <2> QED BY <1>2, <2>1, <2>3, <2>4 DEF countLeadingZeroBits, hashToBigInt
<1> QED BY <1>1, <1>3, <1>4 DEF ZerosAgree

\* The server counts of a hash the zero bits that the page counts of its digits,
\* and of a hash that meets a target not fewer than the page counts of the target
\* (hash.js:41-52, app.js:251-263): for digests of any length.
THEOREM ZerosAreOnOneScale ==
  ASSUME Base = 256
  PROVE  Spec => []ZerosAgree
<1>1. InputOK => ZerosAgree
  BY ZerosStep
<1> QED BY <1>1, SpecInput, PTL

-----------------------------------------------------------------------------
(* The Merkle root *)

\* An id in internal order is the hash.
LEMMA TxidIs ==
  ASSUME NEW i
  PROVE  toInternalOrder(Txid(i)) = Hash(i)
<1>1. PICK s, r : s = Hash(i) /\ r = Reverse(s)
  OBVIOUS
<1>2. s = <<"sha256d", i>> /\ Len(s) = 2
  BY <1>1 DEF Hash
<1>3. r = [p \in 1..2 |-> s[2 - p + 1]]
  BY <1>1, <1>2 DEF Reverse
<1>4. Len(r) = 2 /\ r[1] = s[2] /\ r[2] = s[1]
  BY <1>3
<1>5. Reverse(r) = [p \in 1..2 |-> r[2 - p + 1]]
  BY <1>4 DEF Reverse
<1>6. \A p \in 1..2 : r[2 - p + 1] = s[p]
  BY <1>4
<1>7. Reverse(r) = [p \in 1..2 |-> s[p]]
  BY <1>5, <1>6
<1>8. s = [p \in 1..2 |-> s[p]]
  BY <1>2
<1> QED BY <1>1, <1>7, <1>8 DEF toInternalOrder, Txid, toDisplayHex

\* The root is that of the tree for every number of ids.
LEMMA RootStep == InputOK => RootIsOfTree
<1> SUFFICES ASSUME InputOK, Given("txids")
             PROVE  RootIsOfTree
  BY DEF RootIsOfTree
<1>1. PICK n, ids, leaves : /\ n = It
                            /\ ids = [i \in 1..It |-> Txid(i)]
                            /\ leaves = [i \in 1..It |-> Hash(i)]
  OBVIOUS
<1>2. n \in Nat \ {0}
  BY <1>1, FormatsConstantsOK DEF InputOK
<1>3. Len(ids) = n /\ DOMAIN ids = 1..n /\ Len(leaves) = n
  BY <1>1, <1>2
<1>4. \A p \in 1..n : toInternalOrder(ids[p]) = leaves[p]
  BY <1>1, TxidIs
<1>5. computeMerkleRoot(ids) = TreeRoot(leaves)
  BY <1>2, <1>3, <1>4, RootOfTree
<1> QED BY <1>1, <1>5 DEF RootIsOfTree

\* The Merkle root of a block is that of the tree over the ids of its transactions
\* in internal order (header.js:16-38): for any number of transactions.
THEOREM RootIsTheTreeRoot == Spec => []RootIsOfTree
BY SpecInput, RootStep, PTL
=============================================================================
