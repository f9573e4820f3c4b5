SPECIFICATION Spec
CONSTANTS
  p1 = p1
  p2 = p2
  Packages = {p1, p2}
  Facts <- MCFacts
  Policy <- MCPolicy
  Flags <- MCFlags
  MaxContents = 3
  MaxTrustEdits = 1
INVARIANT NoScriptsBinding
