\* Two actions, the smallest thresholds and the window they need; two runs;
\* two tools, each with two factories.
CONSTANTS
  Signatures = {a, b}
  RepeatWarning = 2
  RepeatCritical = 3
  PingPongWarning = 2
  PingPongCritical = 3
  MaxHistory = 6
  StepLimits = {1, 3, 7}
  TokenCounts <- MCTokenCounts
  MinCount <- MCMinCount
  MaxCount <- MCMaxCount
  BinaryOutput = TRUE
  NoSignature = none
  MaxRuns = 2
  Observable = {p, q, r}
  MaxObserved = 9
  MaxRegistryCalls = 3
  Names = {exec, read_file}
  Factories = {first, second}
  Empty = Empty
  None = None

SPECIFICATION MCSpec
INVARIANTS
  OwnLoopsAreRefused
  ConversationAlternates
  TokensExact
  VerdictFitsCalls
PROPERTIES
  HookSeesRun
  ReportMatchesRun
  RunEnds
  LatestCallsDecide
  ReturnsWithOutput
