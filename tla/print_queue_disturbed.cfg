SPECIFICATION Spec
CONSTANTS
  Printers = {1, 2}
  Users = {3}
  MaxJobs = 1
  Texts = {"ab"}
  Blank = ""
  MaySignal = {1, 2, 3}
  MayKill = {1, 2, 3}
  MayRestart = TRUE
INVARIANTS DamageBounded
CHECK_DEADLOCK FALSE
