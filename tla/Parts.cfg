\* Two events, two signals; two watchdogs and a loopexit more than they can
\* leave behind; every arrangement of the pointers of three elements.
CONSTANTS
  Evs = {e1, e2}
  Signals = {HUP, TERM}
  NoSignal = NoSignal
  Timeouts = {0, 1}
  Million = 4
  MaxSec = 2
  MaxUsec = 8
  Start <- MCStart
  Watchdogs = {w1, w2}
  Onces = {o1, o2, o3}
  ten_sec = 2
  ev1 = ev1
  ev2 = ev2
  five_second = 3
  Elems = {l1, l2, l3}
  NULL = NULL
  Head = Head
  Wild = Wild
SPECIFICATION FairSpec
INVARIANTS
  SumExact OrderExact DifferenceShort
  Leftovers TicksSpaced
  Verdict
PROPERTIES
  NewOnesHear
  TicksGoOn
  TimeoutMeansSilence HeardAgain
  Ends
CHECK_DEADLOCK FALSE
