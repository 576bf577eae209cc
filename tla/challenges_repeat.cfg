SPECIFICATION Spec
CONSTANTS
  k1 = k1
  t1 = t1
  t2 = t2
  e1 = e1
  e2 = e2
  p1 = p1
  p2 = p2
  None = None
  Keys = {k1}
  Terms = {t1, t2}
  Extras = {e1, e2}
  Chains = {"testnet", "private"}
  Posts = {p1, p2}
  Bodies <- MCBodies
  Incomplete <- MCIncomplete
  Reposts <- MCReposts
  MaxReposts = 0
  MaxFailures = 0
INVARIANT SameOutcome
