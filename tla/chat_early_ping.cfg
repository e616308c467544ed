SPECIFICATION Spec
CONSTANTS
  c1 = c1  c2 = c2
  Conn = {c1}
  Names = {"ann", "bob"}
  MaxFd = 1
  SockBuf = 2
  MaxClients = 1
  Leftover <- Nothing
  Ids <- Own
  Talk = {}
  MayQuit = {}
  MayDie = {}
  MayStop = FALSE
INVARIANTS FailedIsNotRegistered
CHECK_DEADLOCK FALSE
