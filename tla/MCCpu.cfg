SPECIFICATION Spec
CONSTANTS
  Program <- MCProgram
  Entry = 256
  Memories <- MCMemories
  Requested = {0, 2}
  MaxInterrupts = 2
INVARIANTS
  RoutinesRight
  TicksCounted
PROPERTIES
  ReturnsToCaller
  HandlerUnnoticed
CHECK_DEADLOCK FALSE
