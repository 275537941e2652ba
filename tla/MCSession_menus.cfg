SPECIFICATION Spec
CONSTANTS
  FreeButtons <- ThreeButtons
  KeySets <- MenuKeys
  Carts <- OneCart
  MaxIterations = 1
CONSTRAINT NothingToSave
INVARIANTS
  CursorOnItem
  ScreenCurrent
  OneButtonEach
PROPERTY
  ReleasesActOnce
