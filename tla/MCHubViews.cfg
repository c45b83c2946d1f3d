\* One room, its sender and two recipients, with buffers that can overflow.
SPECIFICATION ViewSpec
CONSTANTS
  Codes = {c1}
  Peers = {p1, p2, p3}
  Subs = {s1, s2}
  BufferSize = 4
  StaleGuestGrace = 1
  StaleOwnerGrace = 2
  RoomTTL = 1
SYMMETRY Interchangeable
INVARIANTS RemoteAgrees
CONSTRAINT NoOverflowYet
