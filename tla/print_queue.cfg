SPECIFICATION FairSpec
CONSTANTS
  Printers = {1, 2}
  Users = {3, 4}
  MaxJobs = 2
  Texts = {"ab", "cd"}
  Blank = ""
  MaySignal = {}
  MayKill = {}
  MayRestart = FALSE
INVARIANTS TypeOK RingAccounted MutualExclusion
PROPERTIES SpoolKept HeadMoves
