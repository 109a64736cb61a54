------------------------------- MODULE MCNode -------------------------------
(* Small instances of Node, each with a cfg of its own.                      *)
EXTENDS Node

CONSTANTS c1, c2

MCCalls == {c1, c2}

NoRemoteCalls == [s \in Stages |-> 0]
OneRemoteCall == [s \in Stages |-> 1]
TwoAtTheLast  == [s \in Stages |-> IF s = NumStages THEN 2 ELSE 0]
=============================================================================
