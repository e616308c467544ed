SPECIFICATION Spec
CONSTANTS
  Printers = {1}
  Users = {2}
  MaxJobs = 2
  Texts = {"ab"}
  Blank = ""
  MaySignal = {1}
  MayKill = {}
  MayRestart = FALSE
INVARIANTS GotJobWasSent
CHECK_DEADLOCK FALSE
