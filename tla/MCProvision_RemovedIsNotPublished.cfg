\* A secret is deleted while the request that publishes it is under way.
SPECIFICATION Spec
CONSTANTS
  Secrets = {s1}
  WithTTL = {}
  Codes = {c1, c2, c3, c4}
  Peers = {p1, p2, p3, p4, p5, p6, p7, p8}
  NoPeer = NoPeer
  Local = Local
  NotStored = NotStored
  Shared = {c1, c2, c3, c4}
  Slots = {1, 2}
  MaxFaults = 1
  MaxLoads = 1
  MaxImports = 0
PROPERTIES RemovedIsNotPublished
CHECK_DEADLOCK FALSE
