SPECIFICATION Spec
CONSTANTS
  w1 = w1
  w2 = w2
  d1 = d1
  None = None
  Workers = {w1, w2, d1}
  DryRuns = {d1}
  PersistInDryRun = FALSE
  Ids = {1, 2, 3, 4, 5}
  Transfers = {1, 2, 4, 5}
  Late = {4}
  Limit = 2
  Overlap = 1
  MaxAhead = 1
  Rewind = 1
  ZeroIsGenesis = FALSE
  Overrides = {None, 2}
  FirstCursors = {None, 3}
  MaxStops = 2
SYMMETRY Symmetry
INVARIANT NothingMissed
PROPERTY ImplementsIngestion
