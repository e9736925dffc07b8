\* The restored session's reconciliation, one transition after the other, and
\* a sign-out. Refuted: an action can start the service behind the sign-out.
SPECIFICATION TrackingSpec
CONSTANTS
  Called = {"restore"}
  MaxGenerations = 2
  MaxFaults = 1
  MaxEvents = 1
INVARIANTS
  SignedOutStaysOff
\* The app may be left alone.
CHECK_DEADLOCK FALSE
