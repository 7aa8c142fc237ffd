SPECIFICATION Spec
CONSTANTS
  Flow = {f1, f2}
  MaxSessions = 2
  MaxCaptures = 1
  MaxFaults = 1
PROPERTY PublishingKeepsCapture
CHECK_DEADLOCK FALSE
