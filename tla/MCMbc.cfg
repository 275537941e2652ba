SPECIFICATION Spec
CONSTANTS
  Carts <- AllCarts
  Bytes <- GameBytes
  HasBios = TRUE
INVARIANTS
  SramWindow
  RomWindows
  RamWindowAllocated
  DirtyCoversUnsaved
PROPERTY
  DisabledRamKept
