SPECIFICATION ContentSpec
CONSTANTS
  Images = {i1, i2}
  MaxMessages = 4
  MaxPageEvents = 3
INVARIANTS
  OverlaysFit
  NothingSkipped
  IconFollows
CHECK_DEADLOCK FALSE
