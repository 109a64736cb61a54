------------------------------ MODULE Delivery ------------------------------
(***************************************************************************)
(* What a sender promises about its remote calls: each has one outcome.    *)
(* A call is delivered to the node called, or its sender gets an error     *)
(* reply for it; only a restart of the sender loses a call.                *)
(***************************************************************************)
CONSTANT Calls

VARIABLES
  outcome,     \* of each call
  restarting   \* the sender is being cleaned up after an outage

Init == outcome = [c \in Calls |-> "new"] /\ restarting = FALSE

Attempt(c) ==
  /\ outcome[c] = "new"
  /\ \E o \in {"pending", "delivered"} : outcome' = [outcome EXCEPT ![c] = o]
  /\ UNCHANGED restarting

Decide(c) ==
  /\ outcome[c] = "pending"
  /\ \E o \in {"delivered", "failed"} : outcome' = [outcome EXCEPT ![c] = o]
  /\ UNCHANGED restarting

Restart == ~restarting /\ restarting' = TRUE /\ UNCHANGED outcome

\* The restart loses some of the calls that are pending.
Lose ==
  /\ restarting /\ restarting' = FALSE
  /\ \E lost \in SUBSET {c \in Calls : outcome[c] = "pending"} :
       outcome' = [c \in Calls |-> IF c \in lost THEN "lost" ELSE outcome[c]]

Next == (\E c \in Calls : Attempt(c) \/ Decide(c)) \/ Restart \/ Lose

Spec == Init /\ [][Next]_<<outcome, restarting>>
=============================================================================
