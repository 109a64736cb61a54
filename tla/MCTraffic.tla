------------------------------ MODULE MCTraffic -----------------------------
(* A small instance of Traffic: a request of a source and one of an app      *)
(* node, each of which gets up to two replies.                               *)
EXTENDS Traffic

CONSTANTS s1, a1, source, app

MCRequests == {s1, a1}
MCClients  == {source, app}
MCApps     == {app}
MCCaller   == [r \in Requests |-> IF r = a1 THEN app ELSE source]
MCReplies  == [r \in Requests |-> 2]
=============================================================================
