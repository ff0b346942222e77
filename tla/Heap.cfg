SPECIFICATION FairSpec
CONSTANTS
  e1 = e1
  e2 = e2
  e3 = e3
  NoEvent = NoEvent
  Events <- MCThree
  Junk <- MCAny
  Timeouts <- MCTimeouts
  Million = 2
  FirstCap = 2
  MaxCap = 4
  Wrap = 65536
INVARIANTS
  TypeOK
  NInArray
  NoPointerLost
PROPERTIES
  LoopsEnd
CONSTRAINT
  MCCounted
CHECK_DEADLOCK FALSE
