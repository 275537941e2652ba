SPECIFICATION Spec
CONSTANTS
  Cartridges <- AllCartridges
  MaxLost = 1
  MaxTime = 2
  MaxAge = 1
INVARIANTS
  OffBetweenTransfers
PROPERTIES
  LoadedWhole
  SavedWhole
  ClockOfOneMoment
