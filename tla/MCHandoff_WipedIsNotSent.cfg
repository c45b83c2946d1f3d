\* Looks for a behaviour that refutes WipedIsNotSent.
SPECIFICATION Spec
CONSTANTS
  Guests = {g1}
  Earlier = NoOne
  NoOne = NoOne
  BurnAfterRead = TRUE
  MaxAttempts = 1
  MaxFlights = 1
  MaxQueue = 2
  MaxToggles = 0
  MaxChallenges = 1
PROPERTIES WipedIsNotSent
CHECK_DEADLOCK FALSE
