\* A page that replaces its own socket, and a bridge that needs no pairing.
CONSTANTS
  MaxFailures = 2
  Codes <- To2
  Tokens <- To1
  Sockets = {s1, s2}
  NoSocket = NoSocket
  MaxLeaked = 1
SPECIFICATION CompanionSpec
SYMMETRY SocketSymmetry
CHECK_DEADLOCK FALSE
PROPERTY BusyMeansAnother
