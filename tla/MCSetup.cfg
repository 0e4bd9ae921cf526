SPECIFICATION SetupSpec
CONSTANTS
  w = w
  Clients <- MCClients
  Wizard = w
  AgentChat = TRUE
  MaxWizards = 1
  BreaksAfter = {0, 4}
  Pids <- MCPids
  Ports = {7400, 8123}
  DefaultPort = 7400
INVARIANTS
  Findable
  StatusTruthful
  WizardTruthful
PROPERTIES
  ShutdownEnds
CHECK_DEADLOCK FALSE
