----------------------------- MODULE MCHashing ------------------------------
(***************************************************************************)
(* Instances of Hashing for TLC: clicks that post nothing, a nonce below   *)
(* the range of a word, or a time above it.                                *)
(***************************************************************************)
EXTENDS Hashing, TLC

Clicks == {NoBody}

ClicksAndTyped ==
  {NoBody, [nonce |-> -1, time |-> Null], [nonce |-> Null, time |-> 2 * NonceMod + 1]}

Symm == Permutations(Requests) \cup Permutations(Addresses)
=============================================================================
