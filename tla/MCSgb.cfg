SPECIFICATION Spec
CONSTANTS
  Commands <- OnePacketCommands
  ButtonOrder <- DirectionsThenButtons
  ResetsEach = TRUE
  MaxCommands = 2
PROPERTIES
  StaysInside
  ExecutedAsSent
  ControllersInTurn
  TilesAsCommanded
