SPECIFICATION Spec
CONSTANTS
  Clients = {c1, c2}
  InCap = 2
  OutCap = 4
  INPUT = 2
  MAX_LINE = 2
  NonBlocking = {c1}
  Listen = Listen
  Nobody = Nobody
  READ = 1
  BUFFER = 3
CHECK_DEADLOCK FALSE
PROPERTY AcceptsForListener
