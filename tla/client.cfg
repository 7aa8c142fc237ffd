SPECIFICATION FairSpec
CONSTANTS
  Sock = {s1, s2, s3}
  NoSock = NoSock
  MaxMissed = 2
  LateReplies = {TRUE}
  MaxFaults = 1
  MaxUses = 2
CHECK_DEADLOCK FALSE
INVARIANTS TypeOK AttemptIsPending SignedOutIsQuiet
PROPERTY ClientRecovers
