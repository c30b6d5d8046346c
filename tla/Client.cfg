\* The shifted toggle, two sessions, a queue of two; two addresses for devices; two
\* maps, two phases and three tiles; two builds of the client.
CONSTANTS
  shift = shift
  f9 = f9
  Inputs <- ShiftAndToggle
  ToggleKey = f9
  Payload <- ShiftedToggle
  MaxCommands = 2
  Sessions <- Session2
  Addresses <- TwoAddresses
  Maps = {"azeroth", "outland"}
  Phases = {"gilneas", "ruins"}
  Tiles = {1, 2, 3}
  Variants <- TileVariants
  Builds = {"3.3.5a", "repack"}
SPECIFICATION FairClientSpec
CHECK_DEADLOCK FALSE
INVARIANTS HeldInputIsOwned ResetFindsNothing GameInputIsOwned TilesShowThePhase BackupIsTheOriginal
PROPERTIES HeldInputIsReleased FramesComeBack
