\* Two sessions, and a command queue so short that a ReleaseAll is refused.
CONSTANTS
  ann = ann
  bob = bob
  Nobody = Nobody
  Players <- AnnAndBob
  Slots <- OneSlot
  Situations <- OneGroup
  Payload <- RequestsAndInput
  MaxCommands = 2
  Sessions <- Session2
  PartyQueue = 1
  RequestIds = 2
  Generations <- To1
SPECIFICATION Spec
CHECK_DEADLOCK FALSE
INVARIANTS RequestsAreCarriedOutOnce DeadSessionsAreNotServed
