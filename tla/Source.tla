------------------------------- MODULE Source -------------------------------
(***************************************************************************)
(* A source (source.go): NextMillisecond, which makes one call for each    *)
(* event of a Poisson process that is due.                                 *)
(*                                                                         *)
(* Event times are floats: here they are in units of which MsUnits make a  *)
(* millisecond, and relative to the clock.                                 *)
(***************************************************************************)
EXTENDS Integers

CONSTANTS
  MsUnits,
  Gaps              \* the possible times between two events, in units

ASSUME SourceAssumption == MsUnits \in Nat \ {0} /\ Gaps \subseteq Nat

VARIABLES
  running,          \* where NextMillisecond is: "no", "loop" or "sending"
  drawn,            \* the first event has been drawn
  nextEvent         \* minus the time

svars == <<running, drawn, nextEvent>>

SInit == running = "no" /\ drawn = FALSE /\ nextEvent = 0

\* A new millisecond: the first one draws the first event.
StartMs ==
  /\ running = "no" /\ running' = "loop"
  /\ drawn' = TRUE
  /\ IF drawn THEN UNCHANGED nextEvent ELSE nextEvent' \in Gaps

\* An event before the time is generated, and the next one drawn.
Generate ==
  /\ running = "loop" /\ nextEvent < 0
  /\ running' = "sending"
  /\ \E g \in Gaps : nextEvent' = nextEvent + g
  /\ UNCHANGED drawn

SentEndingMs ==                                   \* mutant
  /\ running = "sending" /\ running' = "no"
  /\ nextEvent' = nextEvent - MsUnits
  /\ UNCHANGED drawn

\* GenerateEvent's sendCall has returned.
Sent ==
  /\ running = "sending" /\ running' = "loop"
  /\ UNCHANGED <<drawn, nextEvent>>

\* No event is left before the time, which moves on.
EndMs ==
  /\ running = "loop" /\ nextEvent >= 0
  /\ running' = "no"
  /\ nextEvent' = nextEvent - MsUnits
  /\ UNCHANGED drawn

SNext == StartMs \/ Generate \/ Sent \/ EndMs

SSpec == SInit /\ [][SNext]_svars

-----------------------------------------------------------------------------
STypeOK ==
  running \in {"no", "loop", "sending"} /\ drawn \in BOOLEAN /\ nextEvent \in Int

\* source.go:80, "all the work due in the last ms": each event is generated in
\* the first millisecond that starts after it, never later.
EventsOnTime ==
  [][running = "loop" /\ running' = "sending" => nextEvent \in -MsUnits .. -1]_svars
=============================================================================
