------------------------------- MODULE Throttle ------------------------------
(***************************************************************************)
(* The inbound throttle of one WebSocket connection                        *)
(* (app/websocket/throttle.py): a fixed window that begins with the first  *)
(* frame after the last window is over.  The frames of a connection are    *)
(* handled one at a time.                                                  *)
(***************************************************************************)
EXTENDS Integers, Sequences

CONSTANTS
  MaxEvents,   \* max_events
  Window,      \* window_seconds, in ticks
  MaxNow,      \* bound on the clock
  MaxPassed    \* bound on the frames that pass

ASSUME ThrottleAssumption ==
  MaxEvents \in Nat \ {0} /\ Window \in Nat \ {0} /\ MaxNow \in Nat /\ MaxPassed \in Nat

VARIABLES
  now,          \* time.monotonic()
  windowStart,  \* _window_start
  count,        \* _count; beyond MaxEvents it is not counted on
  passed        \* history: the times of the frames that passed

throttleVars == <<now, windowStart, count, passed>>

------------------------------------------------------------------------------
\* The types; a window has begun, and does not let more than its budget pass.
ThrottleTypeOK ==
  /\ now \in Nat /\ windowStart \in 0 .. now /\ count \in 0 .. MaxEvents + 1
  /\ passed \in Seq(0 .. now)

\* The first frame comes at any time.
ThrottleInit ==
  /\ now = 0 /\ windowStart = 0 /\ count = 0 /\ passed = <<>>

\* The start of a new window.  (Mutant: it is not reset.)
StartKept == windowStart
NewStart == now

\* allow.
Allow ==
  LET over == now - windowStart >= Window
      n == (IF over THEN 0 ELSE count) + 1
  IN  /\ Len(passed) < MaxPassed
      /\ windowStart' = IF over THEN NewStart ELSE windowStart
      /\ count' = IF n <= MaxEvents THEN n ELSE MaxEvents + 1
      /\ passed' = IF n <= MaxEvents THEN Append(passed, now) ELSE passed
      /\ UNCHANGED now

TimePasses ==
  /\ now < MaxNow /\ now' = now + 1
  /\ UNCHANGED <<windowStart, count, passed>>

ThrottleNext == Allow \/ TimePasses

ThrottleSpec == ThrottleInit /\ [][ThrottleNext]_throttleVars

------------------------------------------------------------------------------
\* ConnectionThrottle: whatever a client does at the edge of a window, no interval
\* as long as the window lets more than twice the budget pass.
BurstBound ==
  \A i \in DOMAIN passed :
    i + 2 * MaxEvents \in DOMAIN passed => passed[i + 2 * MaxEvents] - passed[i] >= Window
==============================================================================
