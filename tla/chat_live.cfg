SPECIFICATION FairSpec
CONSTANTS
  c1 = c1  c2 = c2
  Conn = {c1, c2}
  Names = {"ann", "bob"}
  MaxFd = 2
  SockBuf = 1
  MaxClients = 2
  Leftover <- Anything
  Ids <- Own
  Talk = {}
  MayQuit = {}
  MayDie = {c1}
  MayStop = TRUE
PROPERTIES RegistrationAnswered  ShutdownEndsClients
CHECK_DEADLOCK FALSE
