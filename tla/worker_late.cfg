SPECIFICATION FairSpec
CONSTANTS
  w1 = w1
  w2 = w2
  d1 = d1
  None = None
  Workers = {w1}
  DryRuns = {}
  PersistInDryRun = FALSE
  Ids = {1, 2, 3, 4}
  Transfers = {1, 2}
  Late = {2}
  Limit = 3
  Overlap = 2
  MaxAhead = 3
  Rewind = 1
  ZeroIsGenesis = TRUE
  Overrides = {None}
  FirstCursors = {None}
  MaxStops = 0
PROPERTY LateIsHealed
