----------------------------- MODULE MCTabSync ------------------------------
(***************************************************************************)
(* Instances of TabSync for TLC.  Sockets and calls are model values and   *)
(* interchangeable.                                                        *)
(***************************************************************************)
EXTENDS TabSync, TLC

Symm == Permutations(Socks) \cup Permutations(Calls)
=============================================================================
