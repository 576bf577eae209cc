SPECIFICATION Spec
CONSTANTS
  n1 = n1
  n2 = n2
  m1 = m1
  usd = usd
  p1 = p1
  None = None
  Chains = {"testnet", "private"}
  Prices <- MCAmounts
  Assets <- MCAssets
  Decimals = {1, 2}
  Challenges <- MCChallenges
  Transfers <- MCTransfers
  Queries <- MCQueries
  SearchLimit = 1
  Indexes = {7, 9}
  DefaultIndex = 7
INVARIANTS TypeOK OkIsPaid AliasFindsMatches TextsAreWorth
PROPERTIES NoEventIsTrue OverlookedIsHidden
