SPECIFICATION FairSpec
CONSTANTS
  Clients = {c1}
  InCap = 4
  OutCap = 4
  INPUT = 2
  MAX_LINE = 5
  NonBlocking = {}
  Listen = Listen
  Nobody = Nobody
  READ = 1
  BUFFER = 3
CHECK_DEADLOCK FALSE
PROPERTY KeepsReading
