SPECIFICATION FairPolledSpec
CONSTANTS
  w1 = w1
  d1 = d1
  None = None
  Workers = {w1}
  DryRuns = {}
  PersistInDryRun = FALSE
  Ids = {2, 3, 4, 5, 6, 7}
  Transfers = {2, 7}
  Late = {}
  Limit = 2
  Overlap = 1
  MaxAhead = 1
  Rewind = 3
  ZeroIsGenesis = FALSE
  Overrides = {None}
  FirstCursors = {None, 3, 6}
  MaxStops = 2
  MaxRetries = 2
  MaxOutage = 2
  OutageFailures = {"refused", "reset", "timed_out", "error_5xx", "overloaded", "busy_4xx"}
INVARIANTS TypeOK OnlyFaultsEnd
PROPERTIES SkipsStayBehind EventuallyStored PollerStores CallSettles ImplementsStreamWorker
