\* Looks for a behaviour that refutes OnlineSenderKeepsRoom.
SPECIFICATION Spec
CONSTANTS
  Codes = {c1}
  Peers = {p1, p2, p3}
  Subs = {s1, s2}
  BufferSize = 2
  StaleGuestGrace = 1
  StaleOwnerGrace = 2
  RoomTTL = 3
PROPERTIES OnlineSenderKeepsRoom
