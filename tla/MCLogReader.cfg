SPECIFICATION SpecReader
CONSTANTS
  Writers = {w1}
  NoWriter = NoWriter
  NoEvent = NoEvent
  Events = {issued, revoked}
  MaxLines = 3
  MaxEdits = 1
INVARIANTS
  AcceptedIsPublished
  OldRootBindsLeaves
CHECK_DEADLOCK FALSE
