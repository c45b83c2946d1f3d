\* Two secrets that share the stream of the page, a reload and an import.
SPECIFICATION Spec
CONSTANTS
  Secrets = {s1, s2}
  WithTTL = {s1, s2}
  Codes = {c1, c2}
  Peers = {p1, p2, p3}
  NoPeer = NoPeer
  Local = Local
  NotStored = NotStored
  Shared = {}
  Slots = {1}
  MaxFaults = 0
  MaxLoads = 2
  MaxImports = 1
SYMMETRY Interchangeable
INVARIANTS StreamFollowsSessions
PROPERTIES RecordsFollowFate UnsubscribedOnlyBy
CHECK_DEADLOCK FALSE
