SPECIFICATION FairSpec
CONSTANTS
  s1 = s1  s2 = s2
  Sessions = {s1, s2}
  Rooms = {"r"}
  NoSession = NoSession  NoRoom = NoRoom
  RetryMax = 1
  MaxRepeats = 1
  Faults = {"produce", "import", "livekit", "kafka", "delete"}
CHECK_DEADLOCK FALSE
INVARIANTS RoomIndexExact EndReportedOnce
PROPERTIES StateMovesOn SessionEnds
