\* Pairing required: credentials revoked while sessions come and go, with
\* commands queued for the game thread and a server that may be stopped at any
\* moment.
CONSTANTS
  Required = TRUE
  Topics = {}
  Capacity = 1
  SoftLimit = 0
  MaxCommands = 3
  Payload = {key}
  Sessions <- SessionsTo3
  Versions <- NoVersions
  Tokens <- TokensTo2
SPECIFICATION FairSpec
CHECK_DEADLOCK FALSE
INVARIANTS RevokedSessionIsClosed
PROPERTIES ImplementsSessionLayer RevokedSessionEnds QueueIsDrained StopReturns
