SPECIFICATION Spec
CONSTANTS
  Conns = {c1, c2}
  Fds = {3, 4, 5}
  ListenFd = 3
  Listener = Listener
  Free = Free
  TIMEOUT = 1
  InboxCap = 1
  MAX_EVENTS = 2
  BUFLEN = 2
  SWEEP = 2
  StrayIndex <- ClientIndex
  FcntlMayFail = FALSE
SYMMETRY ConnSymmetry
CONSTRAINT Unclobbered
INVARIANTS TypeOK RegistryAgrees SlotOwnsConn BatchFresh
PROPERTIES HeldUntilClosed ServiceKept
