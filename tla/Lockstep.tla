------------------------------ MODULE Lockstep ------------------------------
(***************************************************************************)
(* What the main loop of a simulation promises: simulated time advances    *)
(* one millisecond at a time, and it advances only when every worker has   *)
(* finished its share of the current millisecond, each exactly once.       *)
(* TickLoop implements this with goroutines, a broadcast and a WaitGroup.  *)
(***************************************************************************)
EXTENDS Integers

CONSTANTS Workers,      \* the units of work that make up one millisecond
          StartTime,    \* the first simulated millisecond
          EndTime       \* the loop stops when time reaches it

VARIABLES time,         \* the simulated clock
          finished      \* the workers that are done with this millisecond

lvars == <<time, finished>>

Init == /\ time = StartTime
        /\ finished = {}

\* A worker completes its share of the millisecond.
Finish(w) == /\ time < EndTime
             /\ w \notin finished
             /\ finished' = finished \cup {w}
             /\ time' = time

\* Everyone is done: the clock advances and the next millisecond begins.
Advance == /\ time < EndTime
           /\ finished = Workers
           /\ time' = time + 1
           /\ finished' = {}

Next == Advance \/ \E w \in Workers : Finish(w)

\* The safety part, and the whole with its progress: the run reaches its end.
Safety == Init /\ [][Next]_lvars

Spec == Safety /\ WF_lvars(Next)
=============================================================================
