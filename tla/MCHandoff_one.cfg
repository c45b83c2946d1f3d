\* One recipient after another has gone, and an owner that switches the secret off and on.
SPECIFICATION AfterOneSpec
CONSTANTS
  Guests = {g1, g2}
  Earlier = g1
  NoOne = NoOne
  BurnAfterRead = TRUE
  MaxAttempts = 1
  MaxFlights = 2
  MaxQueue = 2
  MaxToggles = 2
  MaxChallenges = 1
INVARIANTS TypeOK OffReachesGuest
PROPERTIES OffIsNotCopied EventuallyDelivered
CHECK_DEADLOCK FALSE
