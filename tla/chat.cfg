SPECIFICATION Spec
CONSTANTS
  c1 = c1  c2 = c2
  Conn = {c1, c2}
  Names = {"ann", "bob"}
  MaxFd = 2
  SockBuf = 1
  MaxClients = 2
  Leftover <- Anything
  Ids <- Own
  Talk = {"CLIENT_TO_ALL", "CLIENT_TO_ONE"}
  MayQuit = {c1, c2}
  MayDie = {}
  MayStop = FALSE
INVARIANTS TypeOK FirstSlotOwnsSocket SocketBelongsToName ConnectionsNotForgotten LockHeldOnlyWhileSending TodoStillValid
PROPERTIES StopClosesOwnConnection
CHECK_DEADLOCK FALSE
