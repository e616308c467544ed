SPECIFICATION Spec
CONSTANTS
  Clients = {c1, c2}
  None = None
  MaxClients = 2
  MaxMessages = 2
  MaxTexts = 3
  ServerRuns = 2
  MayInterrupt = {c1}
  MayCrash = TRUE
INVARIANTS TypeOK NumberIsOwn
PROPERTIES OneOrder OnlyLeaversClosed
CHECK_DEADLOCK FALSE
