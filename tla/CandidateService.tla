-------------------------- MODULE CandidateService --------------------------
(***************************************************************************)
(* What the handlers of server/index.js may rely on from the shared        *)
(* candidate, with no builds, polls, cooldown or coalescing in sight: a    *)
(* register that moves only forward along the chain, and requests that are *)
(* settled together, by the publication they wait for or by one failure.   *)
(* Candidate.tla implements it.                                            *)
(***************************************************************************)
EXTENDS Naturals

CONSTANTS
  Requests,  \* the handlers that may ask for the candidate
  Addrs,     \* payout addresses
  Null       \* no candidate yet

VARIABLES
  tip,        \* height of bitcoind's best block
  candidate,  \* the live candidate, or Null
  reqs        \* "idle", "pending", "served" or "failed", for each handler

vars == <<tip, candidate, reqs>>

Init ==
  /\ tip = 0
  /\ candidate = Null
  /\ reqs = [r \in Requests |-> "idle"]

\* bitcoind connects a block.
Advance ==
  /\ tip' = tip + 1
  /\ UNCHANGED <<candidate, reqs>>

Move(r, from, to) ==
  /\ reqs[r] = from
  /\ reqs' = [reqs EXCEPT ![r] = to]
  /\ UNCHANGED <<tip, candidate>>

\* A handler waits, is refused, or finds a candidate; later it responds.
Ask(r) == Move(r, "idle", "pending")
Refuse(r) == Move(r, "idle", "failed")
ServeLive(r) == candidate # Null /\ Move(r, "idle", "served")
Done(r) == Move(r, "served", "idle") \/ Move(r, "failed", "idle")

\* Every pending request is settled in the same way, in one step.
SettleAll(outcome) ==
  reqs' = [r \in Requests |-> IF reqs[r] = "pending" THEN outcome ELSE reqs[r]]

\* A candidate for a height the chain allows, and not below the live one, is
\* published and serves everyone who waits.
PublishFor(h, a) ==
  /\ h <= tip + 1
  /\ candidate # Null => h >= candidate.height
  /\ candidate' = [height |-> h, payout |-> a]
  /\ SettleAll("served")
  /\ UNCHANGED tip

\* A build fails everyone who waits, and only them.
FailAll ==
  /\ SettleAll("failed")
  /\ UNCHANGED <<tip, candidate>>

Next ==
  \/ Advance
  \/ \E r \in Requests : Ask(r) \/ Refuse(r) \/ ServeLive(r) \/ Done(r)
  \/ \E h \in 1..(tip + 1), a \in Addrs : PublishFor(h, a)
  \/ FailAll

Spec == Init /\ [][Next]_vars
=============================================================================
