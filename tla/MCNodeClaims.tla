---------------------------- MODULE MCNodeClaims ----------------------------
(* Small instances of NodeClaims, one for each claim.                        *)
EXTENDS NodeClaims

CONSTANTS c1, c2

MCCalls == {c1, c2}

NoRemoteCalls == [s \in Stages |-> 0]
=============================================================================
