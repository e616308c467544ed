SPECIFICATION Spec
CONSTANTS
  c1 = c1  c2 = c2
  Conn = {c1, c2}
  Names = {"ann", "bob"}
  MaxFd = 2
  SockBuf = 1
  MaxClients = 2
  Leftover <- Nothing
  Ids <- Own
  Talk = {}
  MayQuit = {}
  MayDie = {c1}
  MayStop = FALSE
INVARIANTS EvictionClosesItsClient
CHECK_DEADLOCK FALSE
