------------------------------ MODULE MinQueue ------------------------------
(***************************************************************************)
(* What the users of a PQueue (the calls and the tasks of a node) rely on: *)
(* a bag of items with priorities, of which one of least priority is taken *)
(* first.  Among items of one priority nothing is promised, no first in    *)
(* first out in particular.                                                *)
(***************************************************************************)
EXTENDS Integers, Functions

CONSTANTS Items, Priorities

VARIABLES
  queued,           \* the items in the queue, with their priorities
  taken             \* the item taken last, if any

qvars == <<queued, taken>>

QInit(nothing) == queued = <<>> /\ taken = nothing

Add(x, p) ==
  /\ x \notin DOMAIN queued
  /\ queued' = [y \in DOMAIN queued \cup {x} |-> IF y = x THEN p ELSE queued[y]]
  /\ UNCHANGED taken

Change(x, p) ==
  /\ x \in DOMAIN queued
  /\ queued' = [queued EXCEPT ![x] = p]
  /\ UNCHANGED taken

TakeLeast(x) ==
  /\ x \in DOMAIN queued
  /\ \A y \in DOMAIN queued : queued[x] <= queued[y]
  /\ queued' = [y \in DOMAIN queued \ {x} |-> queued[y]]
  /\ taken' = x

QNext ==
  \E x \in Items : TakeLeast(x) \/ \E p \in Priorities : Add(x, p) \/ Change(x, p)
=============================================================================
