SPECIFICATION FairSpec
CONSTANTS
  Guests = {g1, g2}
  QueueLimit = 2
  Loops = {1, 2}
  MaxFaults = 1
  Trickle = {g1}
INVARIANTS TypeOK QueueIsWatched KeysAgree
PROPERTIES StallsOnlyBy EventuallyLinked
CHECK_DEADLOCK FALSE
