SPECIFICATION FairSpec
CONSTANTS
  IsGbcSupported = TRUE
  Height = 3
  LyMax = 3
  ModeClks <- SmallModeClks
  HdmaBlockClks = 1
  DivTick = 1
  TimaTick <- TrueTimaTick
  InternalMod = 1
  TimaClockMod = 64
  FirstClock = 0
  CounterMod = 1
  Program <- LcdProgram
  OpCycles <- OneOrTwo
  IdleCycles <- One
  StatChoices <- SomeBits
  Lines <- LycLines
  HdmaBlocks <- FewBlocks
  EnableChoices <- SomeEnables
  TimerChoices <- NoTimers
INVARIANTS
  ModeInTime
  FrameDrawn
  HdmaExact
PROPERTIES
  HdmaProgresses
