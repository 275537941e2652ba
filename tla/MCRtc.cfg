CONSTANTS
  Moments <- MCMoments
  StartRegisters <- MCStartRegisters
  Banks <- MCBanks
  Values <- MCValues
  MaxLatches = 3
  MaxBlindWrites = 1
SPECIFICATION Spec
CONSTRAINT StillFollowed
INVARIANTS
  KeepsTime
  HaltsAddUp
