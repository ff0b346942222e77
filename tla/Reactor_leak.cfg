SPECIFICATION FairSpec
CONSTANTS
  Conns = {c1}
  Fds = {3, 4}
  ListenFd = 3
  Listener = Listener
  Free = Free
  TIMEOUT = 1
  InboxCap = 1
  MAX_EVENTS = 1
  BUFLEN = 2
  SWEEP = 1
  StrayIndex <- InTable
  FcntlMayFail = FALSE
PROPERTY SilentClosed
