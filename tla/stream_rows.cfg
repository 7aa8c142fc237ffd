SPECIFICATION Spec
CONSTANTS
  None = None
  Conn = {c1}
  User = {u1}
  Channel = {ch1}
  Sess = {s1}
  Task = {t1}
  Commands = {"start"}
  Kinds = {"stream"}
  Modes = {"p2p"}
  Watchers = {}
SYMMETRY Symmetry
CHECK_DEADLOCK FALSE
INVARIANT ActiveRowsAreLive
