SPECIFICATION FairSpec
CONSTANTS
  None = None
  Conn = {c1, c2}
  User = {u1}
  Channel = {ch1}
  Sess = {s1, s2}
  Task = {t1, t2}
  Commands = {"join", "leave", "close"}
  Kinds = {}
  Modes = {"sfu"}
  Watchers = {c1, c2}
CHECK_DEADLOCK FALSE
PROPERTY RostersConverge
