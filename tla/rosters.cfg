SPECIFICATION Spec
CONSTANTS
  None = None
  Conn = {c1, c2}
  User = {u1, u2}
  Channel = {ch1}
  Sess = {s1, s2}
  Task = {t1, t2}
  Commands = {"join", "leave", "speak", "close", "mode", "crash"}
  Kinds = {}
  Modes = {"p2p", "sfu"}
  Watchers = {c1}
SYMMETRY SymmetryKeepConn
CHECK_DEADLOCK FALSE
INVARIANT TypeOK RostersRepaired
