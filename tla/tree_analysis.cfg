SPECIFICATION Spec
CONSTANTS
  mal = mal
  ghsa = ghsa
  clean = clean
  m1 = m1
  g1 = g1
  Order <- MCOrder
  Facts <- MCFacts
  Policy <- MCPolicy
  Records <- MCRecords
  Kind <- MCKind
  Publications <- MCPublications
  AiAnswers = {"allow", "block"}
  Audits = {"none"}
  BatchSize = 2
  Options <- MCOptions
  Files <- MCFiles
  MaxOthers = 1
INVARIANTS NeverSilentlyClean OwnVerdict CacheHonest OwnAnswersKept
PROPERTY ReviewEnds
CHECK_DEADLOCK FALSE
