SPECIFICATION Spec
CONSTANTS
  root = root
  dep = dep
  a1 = a1
  a2 = a2
  d1 = d1
  d2 = d2
  Adders = {a1}
  Packages = {root, dep}
  Root = root
  Digests = {d1, d2}
  NoDigest = NoDigest
  Facts <- MCHookFacts
  Policy <- MCPolicy
  Committed <- MCCommitted
  Flags <- MCFlags
  AiAnswers = {"no_ai"}
  MaxSwaps = 1
SYMMETRY Symmetry
INVARIANT HardBlocksNeverAdded
CHECK_DEADLOCK FALSE
