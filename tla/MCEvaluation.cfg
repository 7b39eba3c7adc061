\* Up to two cases replayed up to twice, and one up to 41 times.
CONSTANTS
  t1 = t1
  t2 = t2
  Steps <- MCSteps
  Rank <- MCRank
  Kind <- MCKind
  Text <- MCText
  Values <- MCValues
  Answers <- MCAnswers
  Policies <- MCPolicies
  Traces <- MCTraces
  Suites <- MCSuites
  RepetitionCounts = {0, 1, 2, 19, 20, 21, 39, 40, 41}
  Findings <- MCFindings
  Saveable <- MCSaveable
  Full = 2
  Scores <- MCScores
  Timings <- MCTimings
  EngineStores = {TRUE, FALSE}
SPECIFICATION RegressionSpec
CHECK_DEADLOCK FALSE
INVARIANTS
  ComparisonExact
  ObservationsLinked
  ReportWhole
  RepeatScoresWeighted
  P95IsNearestRank
