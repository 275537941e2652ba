SPECIFICATION Spec
CONSTANTS
  FreeButtons <- FourButtons
  KeySets <- SaveKeys
  Carts <- OneCart
  MaxIterations = 1
INVARIANT
  SavesKeepTheirGame
