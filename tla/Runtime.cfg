\* Extensions that hook, that use the arena, or that answer for files.
CONSTANTS
  Targets <- AllTargets
  Detours <- AllDetours
  Target <- TargetOf
  Priority <- PriorityOf
  Threads = {"client", "main"}
  Callers = {"client"}
  Sizes = {0, 2}
  ArenaPages = 3
  Requests = {0, 1, 2}
  Users = {u1, u2}
  Unhookable = {"frame", "read"}
  Boot <- BootFeatures
  Features <- NormalFeatures
  Installations <- Installed
  MayTimeOut = FALSE
  Reads = {tall, other, short}
  short = short
  Mips = {1, 2}
  Filled <- MipChains
SPECIFICATION Spec
SYMMETRY AlikeSymmetry
CHECK_DEADLOCK FALSE
INVARIANTS NoOneIsSkipped ExtensionsPrecedeEngine ArenaIsPartitioned BuffersAreCommitted UploadsReadLiveData NoReadIsLost
PROPERTIES HandlesAreWhole OnlyHalfArmedIsWild OnlyUnlinkedCallsFail
