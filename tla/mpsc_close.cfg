CONSTANTS
  Senders = {m1, m2}
  MainSenders = {m1, m2}
  MaxSends = 2
SPECIFICATION FairSpec
PROPERTY CloseIsSeen
CHECK_DEADLOCK FALSE
