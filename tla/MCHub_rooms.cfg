\* Two rooms torn down together or apart, and a newcomer between them.
SPECIFICATION Spec
CONSTANTS
  Codes = {c1, c2}
  Peers = {p1, p2, p3}
  Subs = {s1, s2}
  BufferSize = 1
  StaleGuestGrace = 1
  StaleOwnerGrace = 1
  RoomTTL = 1
SYMMETRY Interchangeable
INVARIANTS TypeOK NoPanic StreamsWired RoomShape
PROPERTIES TeardownClosesChannels RefinesDirectory
