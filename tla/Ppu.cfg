CONSTANTS
  Height = 2
  Lines = 3
  LOCK_CPU_TO_PPU = FALSE
  MaxLines = 3
  MaxChanges = 2
SPECIFICATION FairSpec
INVARIANTS
  NoAnnouncementLost
  NeverStale
PROPERTY LinesServed
CHECK_DEADLOCK FALSE
