\* A device is forgotten, but its file cannot be deleted.
CONSTANTS
  MaxFailures = 3
  Codes <- To3
  Tokens <- To3
SPECIFICATION Spec
CHECK_DEADLOCK FALSE
INVARIANT ForgottenStaysForgotten
