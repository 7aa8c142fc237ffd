SPECIFICATION Spec
CONSTANTS
  None = None
  Conn = {c1, c2}
  User = {u1, u2}
  Channel = {ch1}
  Sess = {s1, s2, s3}
  Task = {t1, t2}
  Commands = {"start", "stop", "watch", "unwatch", "close"}
  Kinds = {"stream"}
  Modes = {"p2p", "sfu"}
  Watchers = {}
SYMMETRY Symmetry
CHECK_DEADLOCK FALSE
INVARIANT UniqueHost RowsFollowStreams
PROPERTY LiveSessionsStayOpen
