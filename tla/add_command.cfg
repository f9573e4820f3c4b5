SPECIFICATION Spec
CONSTANTS
  root = root
  dep = dep
  a1 = a1
  a2 = a2
  d1 = d1
  d2 = d2
  Adders = {a1, a2}
  Packages = {root, dep}
  Root = root
  Digests = {d1, d2}
  NoDigest = NoDigest
  Facts <- MCFacts
  Policy <- MCPolicy
  Committed <- MCCommitted
  Flags <- MCFlags
  AiAnswers = {"no_ai"}
  MaxSwaps = 1
SYMMETRY Symmetry
INVARIANTS NothingUnasked ScriptsOffHonoured KnownDigestRespected
PROPERTY LedgerKeepsEvidence
CHECK_DEADLOCK FALSE
