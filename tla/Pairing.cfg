\* Two failed attempts rotate the code; two codes, one token; a page that
\* has two sockets at a time.
CONSTANTS
  MaxFailures = 2
  Codes <- To2
  Tokens <- To1
  Sockets = {s1, s2}
  NoSocket = NoSocket
  MaxLeaked = 1
SPECIFICATION CompanionSpec
SYMMETRY SocketSymmetry
CHECK_DEADLOCK FALSE
INVARIANTS UnpairedHasCode TokenIsDurable GuessesAreBounded NeverStranded ScreenTellsTheTruth
