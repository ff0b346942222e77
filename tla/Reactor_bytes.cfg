SPECIFICATION Spec
CONSTANTS
  Conns = {c1, c2}
  Fds = {3, 4, 5}
  ListenFd = 3
  Listener = Listener
  Free = Free
  TIMEOUT = 1
  InboxCap = 4
  MAX_EVENTS = 1
  BUFLEN = 3
  SWEEP = 1
  StrayIndex <- AnyIndex
  FcntlMayFail = TRUE
SYMMETRY ConnSymmetry
INVARIANTS ListenerIntact CallbackReady EchoHonest
PROPERTY CloseJust
