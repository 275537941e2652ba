SPECIFICATION FairSpec
CONSTANTS
  IsGbcSupported = TRUE
  Height = 1
  LyMax = 2
  ModeClks <- TinyModeClks
  HdmaBlockClks = 1
  DivTick = 1
  TimaTick <- SmallTimaTick
  InternalMod = 1
  TimaClockMod = 4
  FirstClock = 0
  CounterMod = 2
  Program <- ClockProgram
  OpCycles <- OneOrTwo
  IdleCycles <- One
  StatChoices <- NoBits
  Lines <- LycLines
  HdmaBlocks <- NoBlocks
  EnableChoices <- SomeEnables
  TimerChoices <- TwoTimers
PROPERTIES
  OverflowKept
  VBlankRecurs
  HaltEnds
