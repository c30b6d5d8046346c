CONSTANTS

  Buttons = {"a"}
  Sticks = {"move"}
  Slots <- AllSlots
  Assignable <- OneSlot
  Assignments <- SavedAssignments

SPECIFICATION FairSpec
INVARIANTS JumpIsCounted NothingHeldWhilePaused NavigationIsMirrored MapFollowsAssignments
PROPERTIES PressesFollowNeutral DisconnectedLetsGo
CHECK_DEADLOCK FALSE
