------------------------------- MODULE Address -------------------------------
(***************************************************************************)
(* decodeAddress() of server/address.js: from a payout address to the      *)
(* scriptPubKey of the coinbase output.  bs58check and bech32 are external:*)
(* an address is what these libraries make of it, its version and the      *)
(* length of its payload, and a payload is a sequence of zeros.            *)
(***************************************************************************)
EXTENDS Serialize

\* `form` is the encoding whose checksum holds.
AddressType == [form : {"base58", "bech32", "bech32m", "none"}, hrp : {"bc", "tb", "bcrt", "ltc"},
                version : Nat, length : Nat]

\* BASE58_VERSIONS
Base58Type(version) ==
  CASE version \in {0, 111} -> "p2pkh" [] version \in {5, 196} -> "p2sh" [] OTHER -> "unknown"

DecodesBase58(address) ==
  /\ address.form = "base58"
  /\ Base58Type(address.version) # "unknown"
  /\ address.length = 20

\* Mutant of DecodesSegwit: either checksum will do.
DecodesSegwitAnyChecksum(address) ==
  /\ address.form \in {"bech32", "bech32m"} /\ address.hrp \in {"bc", "tb", "bcrt"}
  /\ address.version <= 16 /\ address.length \in 2..40
  /\ address.version = 0 => address.length \in {20, 32}

\* decodeSegwit() does not throw.
DecodesSegwit(address) ==
  /\ address.form = IF address.version = 0 THEN "bech32" ELSE "bech32m"
  /\ address.hrp \in {"bc", "tb", "bcrt"}
  /\ address.version <= 16
  /\ address.length \in 2..40
  /\ address.version = 0 => address.length \in {20, 32}

Decodes(address) == DecodesBase58(address) \/ DecodesSegwit(address)

type(address) ==
  IF DecodesBase58(address) THEN Base58Type(address.version)
  ELSE CASE address.version = 0 /\ address.length = 20 -> "p2wpkh"
         [] address.version = 0 /\ address.length = 32 -> "p2wsh"
         [] address.version = 1 /\ address.length = 32 -> "p2tr"
         [] OTHER -> "witness"

scriptPubKey(address) ==
  LET payload == opPush(Bytes(address.length, 0))
  IN CASE type(address) = "p2pkh" -> <<118, 169>> \o payload \o <<136, 172>>
       [] type(address) = "p2sh"  -> <<169>> \o payload \o <<135>>
       [] OTHER -> <<IF address.version = 0 THEN 0 ELSE 80 + address.version>> \o payload

-----------------------------------------------------------------------------

\* Reference: what a node takes an output script for.
Solved(script) ==
  LET n == Len(script)
      witness == n \in 4..42 /\ script[2] = n - 2 /\ (script[1] = 0 \/ script[1] \in 81..96)
  IN CASE n = 25 /\ SubSeq(script, 1, 3) = <<118, 169, 20>>
              /\ SubSeq(script, 24, 25) = <<136, 172>> -> "p2pkh"
       [] n = 23 /\ SubSeq(script, 1, 2) = <<169, 20>> /\ script[23] = 135 -> "p2sh"
       [] witness /\ script[1] = 0 /\ n = 22 -> "p2wpkh"
       [] witness /\ script[1] = 0 /\ n = 34 -> "p2wsh"
       [] witness /\ script[1] = 81 /\ n = 34 -> "p2tr"
       [] witness /\ script[1] # 0 /\ ~(script[1] = 81 /\ n = 34) -> "witness"
       [] OTHER -> "nonstandard"
=============================================================================
