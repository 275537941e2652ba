SPECIFICATION Spec
CONSTANTS
  Keys = {k1, k2, k3, k4, k5}
  NoKey = NoKey
  Size = 3
INVARIANT
  HeapIntact
PROPERTY
  KeepsMostRecent
