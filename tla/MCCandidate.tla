---------------------------- MODULE MCCandidate ----------------------------
(***************************************************************************)
(* Instances of Candidate for TLC.  Slots, builds and addresses are model  *)
(* values; they are interchangeable, so the runs that check safety only    *)
(* take the symmetry set Symm.                                             *)
(***************************************************************************)
EXTENDS Candidate, TLC

Symm ==
  Permutations(Requests) \cup Permutations(Polls)
    \cup Permutations(Builds) \cup Permutations(Addrs)
=============================================================================
