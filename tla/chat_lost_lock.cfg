SPECIFICATION FairSpec
CONSTANTS
  c1 = c1  c2 = c2
  Conn = {c1, c2}
  Names = {"ann", "bob"}
  MaxFd = 2
  SockBuf = 1
  MaxClients = 2
  Leftover <- Nothing
  Ids <- Same
  Talk = {}
  MayQuit = {}
  MayDie = {}
  MayStop = FALSE
PROPERTIES HeartbeatChecks
CHECK_DEADLOCK FALSE
