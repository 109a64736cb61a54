----------------------------- MODULE MCOutbound -----------------------------
(* A small instance of Outbound: a call with the default policy, whose first *)
(* delay exceeds the timeout, and one with a policy of its own, which can    *)
(* exhaust its retries or time out.                                          *)
EXTENDS Outbound

CONSTANTS c1, c2

MCCalls == {c1, c2}

Quick == [maxRetries |-> 2, initialDelay |-> 1, backoffFactor |-> 2,
          maxDelay |-> 2, jitter |-> 10]

MCPolicies == [c \in {c2} |-> Quick]
=============================================================================
