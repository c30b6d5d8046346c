\* A removal in a group that has become the dungeon finder's.
CONSTANTS
  ann = ann
  bob = bob
  Nobody = Nobody
  Players <- AnnAndBob
  Slots <- OneSlot
  Situations <- OrdinaryAndFinder
  Payload <- Removals
  MaxCommands = 1
  Sessions <- Session1
  PartyQueue = 1
  RequestIds = 1
  Generations <- To1
SPECIFICATION Spec
CHECK_DEADLOCK FALSE
INVARIANT RemovalFollowsLiveGroup
