\* One recipient after the other.
SPECIFICATION Spec
CONSTANTS
  Guests = {g1, g2}
  Earlier = NoOne
  NoOne = NoOne
  BurnAfterRead = FALSE
  MaxAttempts = 1
  MaxFlights = 1
  MaxQueue = 2
  MaxToggles = 0
  MaxChallenges = 2
SYMMETRY Interchangeable
INVARIANTS AckMeansReceived NoLostWakeup
CHECK_DEADLOCK FALSE
