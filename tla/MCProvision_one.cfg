\* One secret: lost answers, retries, reloads and late leaves.
SPECIFICATION FairSpec
CONSTANTS
  Secrets = {s1}
  WithTTL = {s1}
  Codes = {c1, c2, c3, c4}
  Peers = {p1, p2, p3, p4, p5, p6, p7, p8}
  NoPeer = NoPeer
  Local = Local
  NotStored = NotStored
  Shared = {c1}
  Slots = {1, 2}
  MaxFaults = 2
  MaxLoads = 2
  MaxImports = 0
INVARIANTS TypeOK SessionsAreStored SharedLinkIsStored
PROPERTIES LostOnlyBy LateLeaveSparesRoom EventuallyPublished
CHECK_DEADLOCK FALSE
