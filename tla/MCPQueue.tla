------------------------------ MODULE MCPQueue ------------------------------
(* A small instance of PQueue: queues of up to six items, three levels.     *)
EXTENDS PQueue, TLC

Symmetry == Permutations(Items)
=============================================================================
