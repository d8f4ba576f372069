CONSTANTS
  Senders = {w1, w2}
  MainSenders = {}
  MaxSends = 3
SPECIFICATION FairSpec
PROPERTY EveryMessageReceived
CHECK_DEADLOCK FALSE
