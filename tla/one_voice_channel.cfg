SPECIFICATION Spec
CONSTANTS
  None = None
  Conn = {c1}
  User = {u1}
  Channel = {ch1, ch2}
  Sess = {s1, s2}
  Task = {t1, t2}
  Commands = {"join"}
  Kinds = {}
  Modes = {"p2p"}
  Watchers = {}
SYMMETRY Symmetry
CHECK_DEADLOCK FALSE
INVARIANT OneVoiceChannelPerUser
