\* Removals, promotions and departures against a group whose member and whose
\* kind change.
CONSTANTS
  ann = ann
  bob = bob
  Nobody = Nobody
  Players <- AnnAndBob
  Slots <- OneSlot
  Situations <- Mixed
  Payload <- Management
  MaxCommands = 1
  Sessions <- Session1
  PartyQueue = 1
  RequestIds = 1
  Generations <- To2
SPECIFICATION Spec
CHECK_DEADLOCK FALSE
INVARIANTS GenerationNamesOneGroup ActsOnWhatWasShown AddonActsInTheGroupShown
