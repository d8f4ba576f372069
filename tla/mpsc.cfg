CONSTANTS
  Senders = {w1, w2, m}
  MainSenders = {m}
  MaxSends = 4
SPECIFICATION FairSpec
INVARIANTS
  ClosedAfterLast
  SleepsOnlyInWindow
PROPERTY ReceivedOutsideWindow
CHECK_DEADLOCK FALSE
