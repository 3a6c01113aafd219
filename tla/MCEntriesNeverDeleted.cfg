SPECIFICATION Spec
CONSTANTS
  Writers = {w1, w2}
  NoWriter = NoWriter
  NoEvent = NoEvent
  Events = {issued, revoked}
  MaxLines = 4
PROPERTIES
  EntriesNeverDeleted
CHECK_DEADLOCK FALSE
