------------------------------ MODULE RoundTrip ------------------------------
(***************************************************************************)
(* What a client is promised about its requests, whatever balancers,       *)
(* queues, channels and other clients there are on the way: its callback   *)
(* runs only after something was decided about the very request it is for  *)
(* (an instance answered it, or a sender gave it up), and only once.       *)
(***************************************************************************)
EXTENDS Integers

CONSTANT Requests

VARIABLES
  sent,             \* the requests that were made
  decided,          \* those that were answered, or given up
  finished          \* how often the callback ran for each

tripVars == <<sent, decided, finished>>

Init == sent = {} /\ decided = {} /\ finished = [r \in Requests |-> 0]

Send(r) ==
  /\ r \notin sent /\ sent' = sent \cup {r}
  /\ UNCHANGED <<decided, finished>>

Decide(r) ==
  /\ r \in sent \ decided /\ decided' = decided \cup {r}
  /\ UNCHANGED <<sent, finished>>

Finish(r) ==
  /\ r \in decided /\ finished[r] = 0
  /\ finished' = [finished EXCEPT ![r] = 1]
  /\ UNCHANGED <<sent, decided>>

Next == \E r \in Requests : Send(r) \/ Decide(r) \/ Finish(r)

Spec == Init /\ [][Next]_tripVars
=============================================================================
