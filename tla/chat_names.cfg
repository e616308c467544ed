SPECIFICATION Spec
CONSTANTS
  c1 = c1  c2 = c2
  Conn = {c1, c2}
  Names = {"ann", "bob"}
  MaxFd = 2
  SockBuf = 1
  MaxClients = 2
  Leftover <- Anything
  Ids <- Same
  Talk = {}
  MayQuit = {c1, c2}
  MayDie = {}
  MayStop = TRUE
INVARIANTS NamesUnique
PROPERTIES RosterKept
CHECK_DEADLOCK FALSE
