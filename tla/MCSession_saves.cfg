SPECIFICATION FairSpec
CONSTANTS
  FreeButtons <- FourButtons
  KeySets <- SaveKeys
  Carts <- TwoCarts
  MaxIterations = 2
INVARIANT
  DirtyWhenUnsaved
PROPERTIES
  ExportsOwnRam
  SaveHappens
  LoadEnds
