SPECIFICATION FairSpec
CONSTANTS
  Sock = {s1, s2}
  NoSock = NoSock
  MaxMissed = 2
  LateReplies = {FALSE}
  MaxFaults = 1
  MaxUses = 0
CHECK_DEADLOCK FALSE
PROPERTY ClientRecovers
