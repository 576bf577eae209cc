SPECIFICATION FairSpec
CONSTANTS
  eur = eur
  t1 = t1
  w1 = w1
  w2 = w2
  k1 = k1
  k2 = k2
  None = None
  Chains = {"testnet"}
  Assets = {eur}
  Txs = {t1}
  Owners = {k1, k2}
  Writers = {w1, w2}
  Feed <- MCFeed
  SeedKeys <- MCSeedKeys
  DefaultNetwork <- Plain
  DefaultIndex = 7
  Indexes = {6, 7}
  FirstTables <- MCFirstTables
  MaxMigrations = 1
  MaxMishaps = 1
INVARIANTS InventoryTypeOK MemoIsTrue NoOrphans SpentOnceUnlessRenamed CleanIsSafe GapIsStale
PROPERTY FeedIsStored
