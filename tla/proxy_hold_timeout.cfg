SPECIFICATION FairSpec
CONSTANTS
  c1 = c1
  c2 = c2
  p1 = p1
  p2 = p2
  t1 = t1
  t2 = t2
  d1 = d1
  d2 = d2
  NoDigest = NoDigest
  NoKey = NoKey
  Clients = {c1}
  Packages = {p1}
  Creds = {t1, t2}
  Digests = {d1, d2}
  Keys <- MCOnePackage
  Upstream <- MCUpstreamOne
  Rating <- MCRating
  MaxVets = 1
  MaxHolds = 2
  MaxCached = 1
  MaxMemo = 2
  DiskMayFail = TRUE
PROPERTIES HoldsResolve
CHECK_DEADLOCK FALSE
