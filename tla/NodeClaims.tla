----------------------------- MODULE NodeClaims -----------------------------
(***************************************************************************)
(* What comments in the code claim of an app node and module Node refutes. *)
(* A history variable remembers which calls the node held when an          *)
(* out-of-memory kill took it down.                                        *)
(***************************************************************************)
EXTENDS Node

VARIABLE doomed    \* the calls held when the node was killed

cvars == <<nvars, doomed>>

HeldCalls == calls \cup batch \cup {t.call : t \in tasks}

CInit == NInit /\ doomed = {}

CNext == /\ NNext
         /\ doomed' = IF ~isDown /\ isDown' THEN doomed \cup HeldCalls ELSE doomed

CSpec == CInit /\ [][CNext]_cvars /\ NFairness

-----------------------------------------------------------------------------
\* resources.go:211: "At recovery time, perform full OOM cleanup outside of
\* resources.mu to avoid deadlock. OOM kill = container death, no work
\* survives."  But the cleanup comes after isDown is cleared, in critical
\* sections of its own, and the runner may run a task from before the kill in
\* between: a call the node held when it was killed is answered as a success.
NoWorkSurvivesOOM ==
  [][\A c \in doomed : "ok" \in {replies'[c][i] : i \in DOMAIN replies'[c]}
                         => replies'[c] = replies[c]]_cvars

\* node.go:120: "tryAcceptCall atomically checks callee network capacity and
\* isDown.  If the callee has room, it consumes network and pushes onto
\* callCh."  But no lock is held across the three: the node may be killed
\* between the check and the push, and a call is pushed to a node that is down.
AdmittedOnlyWhenUp == [][Len(callCh') > Len(callCh) => ~isDown]_cvars

\* task.go:76: "Queue task for later processing", for a task that comes up
\* while the node is down.  But nothing takes work out of pendingWork: the
\* call is neither processed nor answered.
PendingWorkIsProcessed ==
  \A c \in Calls :
    c \in pendingWork ~> <<c, NumStages>> \in ran \/ replies[c] # <<>>
=============================================================================
