CONSTANTS
  First = first
  Second = second
  NoMessage = NoMessage
  AgentResults <- MCAgentResults
  ThrownResult <- MCThrownResult
  DefaultResult <- MCDefaultResult

SPECIFICATION Spec

INVARIANTS
  SuccessIsCompleteExchange
  NoResponseStranded
  NoThreadOutlivesRun

PROPERTIES
  RunTerminates
  ExchangeSpec
