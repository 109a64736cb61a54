------------------------------- MODULE Service -------------------------------
(***************************************************************************)
(* What an app node promises about the calls it is sent.  A call is made   *)
(* of stages, which it finishes in any order: it runs the closure of each  *)
(* once, or turns the stage away with a 503.  The last stage, when it has  *)
(* run, is answered with a success, unless there is no network for it.     *)
(* Only a node that fails loses a stage, and no other reply is ever sent.  *)
(***************************************************************************)
EXTENDS Integers, Sequences

CONSTANTS Calls, NumStages

Stages == 1 .. NumStages

VARIABLES
  ahead,      \* the stages of each call that are not finished
  ran,        \* the <<call, stage>> whose closure was run
  replies,    \* to the caller of each call
  failing,    \* the node is down, or has not got over it yet
  saturated   \* there is no network for some reply

Promised == <<ahead, ran, replies>>

Init ==
  /\ ahead = [c \in Calls |-> Stages]
  /\ ran = {} /\ replies = [c \in Calls |-> <<>>]

Answer(c, r) == replies' = [replies EXCEPT ![c] = Append(@, r)]

\* A call that has not been looked at is refused as a whole.
Refuse(c) ==
  /\ ahead[c] = Stages /\ replies[c] = <<>> /\ \A s \in Stages : <<c, s>> \notin ran
  /\ ahead' = [ahead EXCEPT ![c] = {}]
  /\ Answer(c, "error")
  /\ UNCHANGED ran

Run(c, s) ==
  /\ s \in ahead[c] /\ <<c, s>> \notin ran
  /\ ran' = ran \cup {<<c, s>>}
  /\ UNCHANGED <<ahead, replies>>

Reject(c, s) ==
  /\ s \in ahead[c] /\ <<c, s>> \notin ran
  /\ ahead' = [ahead EXCEPT ![c] = @ \ {s}]
  /\ Answer(c, "error")
  /\ UNCHANGED ran

Finish(c, s) ==
  /\ s \in ahead[c] /\ <<c, s>> \in ran
  /\ ahead' = [ahead EXCEPT ![c] = @ \ {s}]
  /\ \/ s = NumStages /\ Answer(c, "ok")
     \/ (s < NumStages \/ saturated) /\ UNCHANGED replies
  /\ UNCHANGED ran

\* The failure may begin with the very step that loses something.
Lose ==
  /\ failing \/ failing'
  /\ ahead' \in [Calls -> SUBSET Stages] /\ \A c \in Calls : ahead'[c] \subseteq ahead[c]
  /\ UNCHANGED <<ran, replies>>

Next == \/ \E c \in Calls : Refuse(c)
        \/ \E c \in Calls, s \in Stages : Run(c, s) \/ Reject(c, s) \/ Finish(c, s)
        \/ Lose

\* Failures and saturation come and go as they please.
Spec == Init /\ [][Next]_Promised
=============================================================================
