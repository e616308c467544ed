SPECIFICATION FairSpec
CONSTANTS
  Clients = {c1, c2}
  None = None
  MaxClients = 2
  MaxMessages = 1
  MaxTexts = 2
  ServerRuns = 1
  MayInterrupt = {c1, c2}
  MayCrash = FALSE
PROPERTIES ClientsGetOn
CHECK_DEADLOCK FALSE
