SPECIFICATION FairSpec
CONSTANTS
  Conns = {c1}
  Fds = {3, 4}
  ListenFd = 3
  Listener = Listener
  Free = Free
  TIMEOUT = 2
  InboxCap = 1
  MAX_EVENTS = 3
  BUFLEN = 2
  SWEEP = 2
  StrayIndex <- AnyIndex
  FcntlMayFail = FALSE
CONSTRAINT Unclobbered
PROPERTIES IdleClosed TimeoutJust
