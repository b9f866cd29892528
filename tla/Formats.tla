------------------------------- MODULE Formats -------------------------------
(***************************************************************************)
(* The pure functions of the server, each against a definition of what its *)
(* result must be: a behaviour picks one function and one input.           *)
(*                                                                         *)
(* What the code hands to the node, or shows to the user, is read back here*)
(* by the rules of the protocol, never by the code that wrote it.          *)
(***************************************************************************)
EXTENDS Header, Address, NetGuard

CONSTANTS
  Numbers,    \* integers to encode
  Heights, Values, Scripts, Commitments,  \* the parts of a coinbase transaction
  LeafCounts, TxCounts,  \* numbers of transactions of a block
  Words,      \* compact targets, as <<exponent, word>>
  Hashes,     \* digests, in the order of the hash function
  Addresses, Hosts,
  Visited,    \* the hosts, private and public, that serve pages and get requests
  Ports       \* the ports they do it on

\* Integers of up to 64 bits, as writeBigUInt64LE() takes them; scripts of bytes,
\* whose length is such an integer; blocks of a coinbase and of no more
\* transactions than four bytes count; digests all of one length; the addresses as
\* the libraries give them, and the hosts as net.isIPv4() does.
ASSUME FormatsConstantsOK ==
  /\ Numbers \subseteq Int /\ \A n \in Numbers : Shifted(Magnitude(n), 8) = 0
  /\ Heights \cup Values \subseteq Nat /\ \A n \in Heights \cup Values : Shifted(n, 8) = 0
  /\ \A script \in Scripts \cup Commitments :
       script \in Seq(0..(Base - 1)) /\ Shifted(Len(script), 8) = 0
  /\ LeafCounts \cup TxCounts \subseteq Nat \ {0} /\ \A n \in TxCounts : Shifted(n, 4) = 0
  /\ Words \subseteq Nat \X Nat
  /\ \A hash, target \in Hashes :
       hash \in Seq(0..(Base - 1)) /\ Len(hash) = Len(target)
  /\ Addresses \subseteq AddressType
  /\ \A host \in Hosts : host.kind = "ipv4" => host.octets \in [1..4 -> 0..255]
  /\ Ports \subseteq Nat \ {NoPort}

VARIABLE input  \* a function and its argument

Init == input = <<"none", 0>>

Pick(function, arguments) == \E argument \in arguments : input' = <<function, argument>>

\* Where a page comes from and where it sends a request to.
Sites == [scheme : {"http", "https"}, host : Visited, port : Ports]

\* A client that is no browser has no page; that of a sandboxed frame is opaque.
NoPage == [scheme |-> "none"]

OpaquePage == [scheme |-> "opaque"]

Requests ==
  [page : Sites \cup {NoPage, OpaquePage}, target : Sites, listed : BOOLEAN, unchecked : BOOLEAN]

Next ==
  /\ input[1] = "none"
  /\ \/ Pick("number", Numbers)
     \/ Pick("coinbase", [height : Heights, value : Values,
                          script : Scripts, commitment : Commitments])
     \/ Pick("txids", LeafCounts)
     \/ Pick("transactions", TxCounts)
     \/ Pick("bits", Words)
     \/ Pick("hashes", Hashes \X Hashes)
     \/ Pick("address", Addresses)
     \/ Pick("host", Hosts)
     \/ Pick("request", Requests)

Spec == Init /\ [][Next]_input

Given(function) == input[1] = function

It == input[2]

-----------------------------------------------------------------------------

\* A node reads the integer that varInt() wrote, in the shortest of the four
\* forms and with nothing left over (coinbase.js:22-41): a shorter form would be
\* taken for the head of a longer one, or holds another integer.
VarIntReads ==
  Given("number") /\ It >= 0 =>
    LET size == Len(varInt(It))
    IN /\ IntAt(varInt(It)) = It
       /\ IntSize(varInt(It)) = size
       /\ size > 1 => It >= Base - 3
       /\ \A k \in {2, 4} : size > 1 + k => Unsigned(LE(It, k)) # It

\* A node reads the number that scriptNumEncode() wrote, of either sign, and not
\* from fewer of its bytes (coinbase.js:43-59).
ScriptNumReads ==
  Given("number") =>
    LET bytes == scriptNumEncode(It)
    IN /\ ScriptNum(bytes) = It
       /\ bytes # <<>> => ScriptNum(Front(bytes)) # It

Tag == Bytes(13, 47)

ExtraNonce == Bytes(4, 7)

\* A node that reads the coinbase finds, in the serialization with the witness
\* and in the one that makes the txid, the same null input, the height first in
\* its script, the payout script with the whole value, the commitment if there
\* is one, and in the first alone the one reserved value (coinbase.js:73-135).
CoinbaseReads ==
  Given("coinbase") =>
    LET sig     == ScriptSig(It.height, Tag, ExtraNonce)
        legacy  == ReadTx(legacyTx(sig, It.value, It.script, It.commitment))
        raw     == ReadTx(rawTx(sig, It.value, It.script, It.commitment))
        witness == IF It.commitment = <<>> THEN <<>> ELSE <<1, Bytes(32, 0)>>
    IN /\ raw = [legacy EXCEPT !.witness = witness]
       /\ legacy = [version    |-> 2,
                    inputs     |-> 1,
                    prevout    |-> Bytes(32, 0) \o Bytes(4, 255),
                    scriptSig  |-> sig,
                    sequence   |-> Bytes(4, 255),
                    value      |-> It.value,
                    script     |-> It.script,
                    commitment |-> It.commitment,
                    witness    |-> <<>>,
                    locktime   |-> Bytes(4, 0)]
       /\ Len(sig) \in 2..100
       /\ It.height > 16 => ScriptNum(Taken(sig)) = It.height

\* Transactions, their ids and the headers over them, told apart by a number.
Tx(i) == Bytes(1 + (i % 3), i % 256)

Txid(i) == toDisplayHex(Hash(i))

\* The Merkle root of a block is that of the tree over the ids in internal
\* order, in which a node without a neighbour is paired with itself, for every
\* number of transactions (header.js:16-38).
RootIsOfTree ==
  Given("txids") =>
    computeMerkleRoot([i \in 1..It |-> Txid(i)]) = TreeRoot([i \in 1..It |-> Hash(i)])

\* A node that reads the submitted block finds the header of 80 bytes with every
\* field in its place and byte order, the number of transactions, the coinbase
\* and the others in order (header.js:63-69, index.js:269-277).
BlockReads ==
  Given("transactions") =>
    LET previous == [i \in 1..32 |-> i]
        root     == [i \in 1..32 |-> 100 + i]
        bits     == <<29, 0, 255, 254>>
        header   == buildHeader(-3, previous, root, 1700000000, bits, It)
        block    == serializeBlock(header, Tx(0), [i \in 1..(It - 1) |-> Tx(i)])
        rest     == From(block, 81)
    IN /\ SubSeq(block, 1, 4) = <<253, 255, 255, 255>>
       /\ SubSeq(block, 5, 36) = Reverse(previous)
       /\ SubSeq(block, 37, 68) = root
       /\ Unsigned(SubSeq(block, 69, 72)) = 1700000000
       /\ SubSeq(block, 73, 76) = Reverse(bits)
       /\ Unsigned(SubSeq(block, 77, 80)) = It
       /\ IntAt(rest) = It
       /\ From(rest, IntSize(rest) + 1) = FlattenSeq([i \in 1..It |-> Tx(i - 1)])

\* A target is a number of as many bytes as its exponent says, whose three highest
\* are the mantissa and whose others are zero: each byte of the mantissa is at its
\* place, those below place 0 are dropped, as a node drops them, the bit of the
\* sign counts nowhere, and nothing else is there.  What is left is a target that
\* a node can write in compact form without further loss (hash.js:32-39).
TargetExpands ==
  Given("bits") =>
    LET exponent == It[1]
        target == bitsToTarget(exponent, It[2])
        compact == Compact(target, exponent + 3)
    IN /\ \A place \in 0..(exponent + 2) :
            Shifted(target, place) % Base = MantissaByte(It[2], place + 3 - exponent)
       /\ Shifted(target, exponent + 3) = 0
       /\ bitsToTarget(compact[1], compact[2]) = target
       /\ compact[2] < SignBit

\* The server's count of the zero bits of a hash and the page's count of those of
\* a target are on one scale: on the same value they agree, and a hash that
\* meets a target has at least its zeros (hash.js:41-52, app.js:251-263).
ZerosAgree ==
  Given("hashes") =>
    LET hash == It[1]
        target == It[2]
    IN /\ countLeadingZeroBits(hash) = hexLeadingZeroBits(HexDigits(hash))
       /\ meetsTarget(hash, hashToBigInt(target)) =>
            countLeadingZeroBits(hash) >= hexLeadingZeroBits(HexDigits(target))

\* A payout address that is accepted leads to a script that a node takes for the
\* same type, and to a version with the checksum that belongs to it
\* (address.js:33-101).
PaysAddress ==
  Given("address") /\ Decodes(It) =>
    /\ Solved(scriptPubKey(It)) = type(It)
    /\ It.form = "bech32" <=> It.version = 0 /\ It.form \notin {"base58"}

\* An IPv4 address is private exactly in the ranges named beside the code
\* (net-guard.js:32-42).
PrivateByRange ==
  Given("host") /\ It.kind = "ipv4" => isPrivateHost(It) = InRange(It.octets)

\* External: a URL without its default port, as a client writes it in Host and a
\* browser in Origin.
AsWritten(site) ==
  [site EXCEPT !.port = IF site.port = DefaultPort[site.scheme] THEN NoPort ELSE site.port]

\* External: the headers of a request that a page, or no page, sends to a target.
Sent(request, page) ==
  [host   |-> request.target.host,
   port   |-> AsWritten(request.target).port,
   origin |-> IF page \in {NoPage, OpaquePage} THEN page ELSE AsWritten(page),
   listed |-> request.listed, unchecked |-> request.unchecked]

OnDefaultPort(site) == site.port = DefaultPort[site.scheme]

\* While the checks are on, nothing reaches a Host that is neither private nor
\* listed, not even from its own page, which stops a rebound name; at any other
\* Host, what comes from no page passes, and so does its own page, whatever
\* scheme and port they are on; and a page that passes is of the same host and
\* port, if not of the same scheme, or both are on the default port of theirs.
\* DISABLE_ORIGIN_CHECK lets everything pass (index.js:43-110).
PageOfTheHost ==
  Given("request") =>
    LET page   == It.page
        target == It.target
        safe   == It.listed \/ isPrivateHost(target.host)
        passes == checkRequestOrigin(Sent(It, page))
    IN IF It.unchecked THEN passes
       ELSE /\ passes => safe
            /\ safe /\ page \in {NoPage, target} => passes
            /\ passes /\ page # NoPage =>
                 /\ page # OpaquePage /\ page.host = target.host
                 /\ page.port = target.port \/ (OnDefaultPort(page) /\ OnDefaultPort(target))
=============================================================================
