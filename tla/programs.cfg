CONSTANTS
  ReindeerCount = 3
  TotalDeliveries = 4
  MaxSpurious = 2
  Width = 3
  Height = 2
  NThreads = 4
  Timely = TRUE
  NProcesses = 3
  NIntervals = 8
  MayKillChild = {0, 1, 2}
  c1 = c1
  c2 = c2
  c3 = c3
  Callers = {c1, c2, c3}
  MaxRanges = 2
  MayKillCaller = {c1, c2}
  s1 = s1
  s2 = s2
  s3 = s3
  Senders = {s1, s2, s3}
  Finishers = {s3}
  MayInterruptSender = {s1}
  Lengths <- MCLengths
  Blocks <- MCBlocks
  Starts <- MCStarts
  Limits <- MCLimits

SPECIFICATION FairSpec

INVARIANTS
  SantaTypeOK NoLostWakeup AllHarnessed
  SumIsWhole
  CalculatorTypeOK IntegralsAccounted
  SuccessIsWorked Reversed FirstArrival
PROPERTIES
  SantaDelivers LifePlayed EveryOtherDrawn SumEnds CallersAnswered SendersEnd FileEnds

CHECK_DEADLOCK FALSE
