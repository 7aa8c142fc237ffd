SPECIFICATION Spec
CONSTANTS
  None = None
  Conn = {c1, c2}
  User = {u1}
  Channel = {ch1, ch2}
  Sess = {s1, s2}
  Task = {t1, t2}
  Commands = {"join", "leave", "start", "reconnect", "close"}
  Kinds = {"music"}
  Modes = {"sfu"}
  Watchers = {}
SYMMETRY Symmetry
CHECK_DEADLOCK FALSE
PROPERTY LiveSessionsStayOpen VoiceDroppedByOwner
