SPECIFICATION Spec
CONSTANTS
  Writers = {w1, w2}
  NoWriter = NoWriter
  NoEvent = NoEvent
  Events = {issued, revoked}
  MaxLines = 4
INVARIANTS
  TypeOK
  SeqMatchesPosition
  RootCommitsPrefix
  AckedIsPublished
  RootDistinguishesPrefixes
PROPERTIES
  PublicLogSpec
  DamageStopsTheEpoch
CHECK_DEADLOCK FALSE
