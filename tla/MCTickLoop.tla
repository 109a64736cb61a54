----------------------------- MODULE MCTickLoop -----------------------------
(* A small instance of TickLoop: one source, a load balancer and its pool of *)
(* two app nodes, for three milliseconds, so that a runner could fall behind *)
(* by more than the smallChannelSize (2) of its msCh.                        *)
EXTENDS TickLoop

CONSTANTS s1, lb1, app1, app2

MCSources == {s1}
MCLBs     == {lb1}
MCApps    == {app1, app2}
=============================================================================
