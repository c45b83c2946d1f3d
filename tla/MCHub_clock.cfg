\* The three time-outs apart from each other: recipient, then sender, then room.
SPECIFICATION FairSpec
CONSTANTS
  Codes = {c1}
  Peers = {p1, p2, p3}
  Subs = {s1, s2}
  BufferSize = 1
  StaleGuestGrace = 1
  StaleOwnerGrace = 2
  RoomTTL = 3
PROPERTIES ActiveSenderKeepsRoom RecipientKeepsSeat UnusedRoomReclaimed
