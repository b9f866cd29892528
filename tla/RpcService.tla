----------------------------- MODULE RpcService -----------------------------
(***************************************************************************)
(* What the rest of the program may count on from the JSON-RPC client: a   *)
(* call is carried out by the node at most once, and is settled at most    *)
(* once; an answer is the node's answer to this very call, while a failure *)
(* says nothing of what the node did or will still do.                     *)
(***************************************************************************)
CONSTANTS
  Calls,     \* slots of calls
  Verdicts   \* what the node may answer

VARIABLES
  outcome,   \* for each call: "none", "pending", "refused", "failed" or
             \* the answer
  done       \* for each call: "no", or what the node has made of it

vars == <<outcome, done>>

Init ==
  /\ outcome = [c \in Calls |-> "none"]
  /\ done = [c \in Calls |-> "no"]

Begin(c) ==
  /\ outcome[c] = "none"
  /\ outcome' = [outcome EXCEPT ![c] = "pending"]
  /\ UNCHANGED done

CarryOut(c, v) ==
  /\ outcome[c] \in {"pending", "failed"} /\ done[c] = "no"
  /\ done' = [done EXCEPT ![c] = v]
  /\ UNCHANGED outcome

Answer(c) ==
  /\ outcome[c] = "pending" /\ done[c] \in Verdicts
  /\ outcome' = [outcome EXCEPT ![c] = done[c]]
  /\ UNCHANGED done

Fail(c) ==
  /\ outcome[c] = "pending"
  /\ outcome' = [outcome EXCEPT ![c] = "failed"]
  /\ UNCHANGED done

\* The node never hears of a call that is refused here.
Refuse(c) ==
  /\ outcome[c] = "none"
  /\ outcome' = [outcome EXCEPT ![c] = "refused"]
  /\ UNCHANGED done

\* Whoever waited has the outcome, and the slot is free for another call.
Forget(C) ==
  /\ C # {}
  /\ outcome' = [c \in Calls |-> IF c \in C THEN "none" ELSE outcome[c]]
  /\ done' = [c \in Calls |-> IF c \in C THEN "no" ELSE done[c]]

Next ==
  \/ \E c \in Calls :
       Begin(c) \/ Refuse(c) \/ Answer(c) \/ Fail(c) \/ \E v \in Verdicts : CarryOut(c, v)
  \/ \E C \in SUBSET Calls : Forget(C)

Spec == Init /\ [][Next]_vars
=============================================================================
