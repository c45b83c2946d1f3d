\* Looks for a behaviour that refutes ValidatedBeforeDelivery.
SPECIFICATION Spec
CONSTANTS
  Guests = {g1, g2}
  Earlier = NoOne
  NoOne = NoOne
  BurnAfterRead = TRUE
  MaxAttempts = 1
  MaxFlights = 1
  MaxQueue = 2
  MaxToggles = 0
  MaxChallenges = 2
PROPERTIES ValidatedBeforeDelivery
CHECK_DEADLOCK FALSE
