SPECIFICATION AdviceSpec
CONSTANTS
  app = app
  ui = ui
  a = a
  b = b
  sri1 = sri1
  sri2 = sri2
  lead = lead
  mallory = mallory
  Absent = Absent
  Empty = Empty
  MaxDepth = 2
  WhyMaxChains = 3
  DefaultRecommendLimit = 2
  MaxRecommendLimit = 3
  TreeKeys <- MCTree
  Roots <- MCRoots
  Plain <- MCPlain
  Grave <- MCGrave
  Snapshots <- MCSnapshots
  Registry <- MCRegistry
  Suggested <- MCSuggested
  Downloads = {10, 20}
  Sound <- MCSound
  Entries <- MCEntries
  Published <- MCPublished
  EmptyPull <- MCEmptyPull
  Changes <- MCChanges
  Pins <- MCPins
  Committed <- MCCommitted
  MaxFacts <- MCMaxFacts
INVARIANTS WhyExplains FilterExplains AiOnlyAdds LockfileRead CiPassEarned
PROPERTIES ScoreNeverRises DiffRiskFollows
\* An input with MaxFacts facts is complete.
CHECK_DEADLOCK FALSE
