SPECIFICATION Spec
CONSTANTS
  Nodes <- MCNodes
  NodeRole <- MCNodeRole
  Seat = "n1"
  Callers <- MCCallers
  Home <- MCHome
  TransportOf <- MCTransportOf
  MethodsOf <- MCMethodsOf
  RetryOf <- MCRetryOf
  MaxRedirectsOf <- MCMaxRedirectsOf
  Resolvable <- MCNodes
  AuthEnabled = TRUE
  TierOf <- MCTierOf
  RoleOf <- MCRoleOf
  Console = "console"
  Workflows <- MCWorkflows
  MaxFaults = 2
  MaxBatches = 2
INVARIANTS
  AnswersTrue
  SessionSafe
PROPERTIES
  CallsEnd
