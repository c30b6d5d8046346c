\* One device without pairing: the outbound queue against the session boundary.
CONSTANTS
  Required = FALSE
  Topics = {party, actions}
  Capacity = 3
  SoftLimit = 1
  MaxCommands = 0
  Payload = {}
  Sessions <- SessionsTo2
  Versions <- VersionsTo2
  Tokens <- NoTokens
SPECIFICATION Spec
CHECK_DEADLOCK FALSE
INVARIANTS TypeOK ClientConverges OneMessageBetweenSessions
