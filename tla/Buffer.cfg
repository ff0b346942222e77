\* One bufferevent for each set of callbacks, two of them in use at a time;
\* the Fibonacci numbers go past the end of an unsigned long.
CONSTANTS
  d1 = d1
  u1 = u1
  p1 = p1
  f1 = f1
  m1 = m1
  Drains = {d1}
  Uppers = {u1}
  Proxies = {p1}
  Fibs = {f1}
  Demos = {m1}
  Bevs <- MCBevs
  Set <- MCSet
  LowMark = 2
  Tmp = 2
  Chunk = 5
  Wrap = 256
  MaxInput = 3
  MaxMade = 20
  MaxReceived = 4
SPECIFICATION FairSpec
CONSTRAINT MCBounded
INVARIANTS NothingForgotten BytesAccounted LiveTogether FibContinues
PROPERTY CallbacksReturn
CHECK_DEADLOCK FALSE
