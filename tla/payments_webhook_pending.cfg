SPECIFICATION Spec
CONSTANTS
  m1 = m1
  n1 = n1
  n2 = n2
  plt = plt
  other = other
  shop = shop
  a0 = a0
  a1 = a1
  a2 = a2
  bad = bad
  tx1 = tx1
  None = None
  r1 = r1
  r2 = r2
  Requests = {r1, r2}
  Keys <- MCKeys
  Tuples <- MCTuples
  PltAssets <- MCPltAssets
  Listing <- MCListing
  MinorUnits <- MCMinorUnits
  Events <- SafetyEvents
  Misdecimals <- MCMisdecimals
  Offers <- SafetyOffers
  Calls <- WaivingCalls
  SearchLimit = 1
  PoolSize = 2
  MaxPosts = 3
  MaxFailures = 0
INVARIANT WebhookMeansFulfilled
