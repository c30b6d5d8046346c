\* An event that Send let through for a client that has gone.
CONSTANTS
  Required = FALSE
  Topics = {party}
  Capacity = 2
  SoftLimit = 2
  MaxCommands = 0
  Payload = {}
  Sessions <- SessionsTo2
  Versions <- VersionsTo2
  Tokens <- NoTokens
SPECIFICATION Spec
CHECK_DEADLOCK FALSE
INVARIANT SnapshotIsNotUndone
