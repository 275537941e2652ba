-------------------------- MODULE EmuStepProofs --------------------------
(***************************************************************************)
(* Proofs about EmuStep, for every screen, every duration of the LCD modes *)
(* and every game.  Two inductive invariants: IInv, on the types, the LCD's*)
(* clocks, the DMA's counters and the timer handler; and FrameInv, on what *)
(* has been drawn, for games that do not write LY.                         *)
(* Then, what an instruction of arithmetic computes, for all bytes.        *)
(***************************************************************************)
EXTENDS EmuStep, TLAPS

InterruptTypes ==
  /\ interrupts_master_enabled \in BOOLEAN
  /\ InterruptSwitch \subseteq Interrupts
  /\ halt_for_interrupts \in BOOLEAN /\ idleCycles \in 0..6

LcdTypes ==
  /\ LcdMode \in 0..3 /\ StatSelect \subseteq StatBits
  /\ CurrentLine \in 0..LyMax /\ NextInterruptLine \in 0..255
  /\ io_lcd_mode_cycles_left \in Int
  /\ lcd_entered_hblank \in BOOLEAN /\ lcd_entered_vblank \in BOOLEAN
  /\ drawn \in [VisibleLines -> 0..2] /\ firstFrame \in BOOLEAN

HdmaTypes ==
  /\ io_hdma_running \in BOOLEAN /\ GbcHdmaControl \in 0..255
  /\ blocksAsked \in 0..128 /\ blocksMoved \in 0..128

SpeedTypes ==
  IsInDoubleSpeedMode \in BOOLEAN /\ IsSpeedSwitchPending \in BOOLEAN

TimerTypes ==
  /\ TimersStep \in Handlers
  /\ InternalClock \in Nat /\ TIMAClock \in Nat
  /\ TimerClock \in 0..CounterMod - 1 /\ TimerCounter \in 0..CounterMod - 1
  /\ TimerResetValue \in 0..CounterMod - 1 /\ TimerControl \in 0..7

StepTypes ==
  phase \in Phases /\ last_op_cycles \in Nat /\ InterruptFlags \subseteq Interrupts

LEMMA TypeParts ==
  TypeOK <=> /\ StepTypes /\ InterruptTypes /\ LcdTypes /\ HdmaTypes
             /\ SpeedTypes /\ TimerTypes
  BY DEF TypeOK, StepTypes, InterruptTypes, LcdTypes, HdmaTypes, SpeedTypes,
         TimerTypes

Lcd == LcdTypes /\ ModeInTime
Hdma == HdmaTypes /\ HdmaExact
Timing == TimerTypes /\ HandlerOfSpeed

IInv == TypeOK /\ ModeInTime /\ HdmaExact /\ HandlerOfSpeed

LEMMA InvParts ==
  IInv <=> /\ StepTypes /\ InterruptTypes /\ SpeedTypes
           /\ Lcd /\ Hdma /\ Timing
  BY TypeParts DEF IInv, Lcd, Hdma, Timing

LEMMA InvPartsPrimed ==
  ASSUME StepTypes', InterruptTypes', SpeedTypes', Lcd', Hdma', Timing'
  PROVE  IInv'
  BY Zenon DEF IInv, Lcd, Hdma, Timing, TypeOK, StepTypes, InterruptTypes,
               LcdTypes, HdmaTypes, SpeedTypes, TimerTypes

-----------------------------------------------------------------------------
(* Arithmetic.                                                             *)
LEMMA ModRange ==
  ASSUME NEW a \in Int, NEW n \in Nat \ {0}
  PROVE  a % n \in 0..n - 1
  OBVIOUS

LEMMA NextModulo ==
  ASSUME NEW n \in Nat \ {0}, NEW a \in 0..n - 1
  PROVE  (a + 1) % n = IF a = n - 1 THEN 0 ELSE a + 1
  OBVIOUS

LEMMA TimesSpeed ==
  ASSUME NEW a \in Nat, NEW b \in Nat, a <= b, NEW c \in {1, 2}
  PROVE  a * c \in Nat /\ a * c <= b * c
  OBVIOUS

LEMMA MaskedNat ==
  ASSUME NEW x \in Nat, NEW n \in Nat \ {0}
  PROVE  Masked(x, n) \in Nat
  <1>1. x \div n \in Nat
    OBVIOUS
  <1>2. (x \div n) % 2 \in {0, 1}
    BY <1>1
  <1>3. QED
    BY <1>2 DEF Masked

(* The parts of the invariant that a step leaves alone.                    *)
LEMMA LcdKept ==
  ASSUME Lcd, UNCHANGED <<lcdVars, IsInDoubleSpeedMode>>
  PROVE  Lcd'
  BY DEF Lcd, LcdTypes, ModeInTime, LcdSpeed, lcdVars

LEMMA HdmaKept ==
  ASSUME Hdma, UNCHANGED hdmaVars
  PROVE  Hdma'
  BY DEF Hdma, HdmaTypes, HdmaExact, hdmaVars

LEMMA TimingKept ==
  ASSUME Timing, UNCHANGED <<timerVars, IsInDoubleSpeedMode>>
  PROVE  Timing'
  BY DEF Timing, TimerTypes, HandlerOfSpeed, timerVars

LEMMA InterruptsKept ==
  ASSUME InterruptTypes, UNCHANGED interruptVars
  PROVE  InterruptTypes'
  BY DEF InterruptTypes, interruptVars

-----------------------------------------------------------------------------
(* The LCD.  A mode is entered with at most the clocks it has.             *)
LEMMA EnteredInTime ==
  ASSUME NEW m \in 0..3, NEW n \in 0..3, ModeClks[m] <= ModeClks[n],
         SpeedTypes, UNCHANGED IsInDoubleSpeedMode,
         Enter(m), LcdMode' = n
  PROVE  ModeInTime' /\ io_lcd_mode_cycles_left' \in Int
  <1>1. ModeClks[m] \in Nat /\ ModeClks[n] \in Nat
    BY ClksAssumption
  <1>2. LcdSpeed \in {1, 2} /\ LcdSpeed' = LcdSpeed
    BY DEF LcdSpeed, SpeedTypes
  <1>3. /\ ModeClks[m] * LcdSpeed \in Nat
        /\ ModeClks[m] * LcdSpeed <= ModeClks[n] * LcdSpeed
    BY <1>1, <1>2, TimesSpeed
  <1>4. QED
    BY <1>2, <1>3 DEF Enter, ModeInTime

LEMMA NextLineInFrame ==
  ASSUME LcdTypes
  PROVE  /\ NextLine \in 0..LyMax
         /\ NextLine = IF CurrentLine = LyMax THEN 0 ELSE CurrentLine + 1
  BY LinesAssumption, NextModulo DEF NextLine, LcdTypes

LEMMA StatIsInterrupt ==
  ASSUME NEW m, NEW line
  PROVE  /\ StatInterrupt(m) \subseteq Interrupts
         /\ LycInterrupt(line) \subseteq Interrupts
  BY DEF StatInterrupt, LycInterrupt, Interrupts, STAT

LEMMA NothingDrawnType ==
  NothingDrawn \in [VisibleLines -> 0..2]
  BY DEF NothingDrawn

LEMMA RedrawnType ==
  ASSUME drawn \in [VisibleLines -> 0..2], NEW line
  PROVE  Redrawn(line) \in [VisibleLines -> 0..2]
  <1>1. (IF drawn[line] = 0 THEN 1 ELSE 2) \in 0..2
    OBVIOUS
  <1> DEFINE n == IF drawn[line] = 0 THEN 1 ELSE 2
  <1>2. n \in 0..2 /\ Redrawn(line) = [drawn EXCEPT ![line] = n]
    BY <1>1 DEF Redrawn
  <1> HIDE DEF n
  <1>3. QED
    BY <1>2

LEMMA LcdStepKeepsLcd ==
  ASSUME Lcd, SpeedTypes, InterruptFlags \subseteq Interrupts,
         last_op_cycles \in Nat, LcdStep
  PROVE  Lcd' /\ InterruptFlags' \subseteq Interrupts
  <1> USE DEF Lcd
  <1>0. EndHBlank \/ EndVBlank \/ EndOam \/ EndRender \/ StayInMode =>
          lcd_entered_hblank' \in BOOLEAN /\ lcd_entered_vblank' \in BOOLEAN
    BY Zenon DEF EndHBlank, EndVBlank, EndOam, EndRender, StayInMode,
                 LastVisibleLine
  <1>1. UNCHANGED <<StatSelect, NextInterruptLine, IsInDoubleSpeedMode>>
    BY DEF LcdStep, speedVars
  <1>2. CASE EndHBlank
    <2> DEFINE m == IF LastVisibleLine THEN VBLANK_MODE ELSE OAM_MODE
    <2>1. m \in {1, 2} /\ Enter(m) /\ LcdMode' = OrComparison(m, NextLine)
      BY <1>2 DEF EndHBlank, VBLANK_MODE, OAM_MODE
    <2>2. LcdMode' \in 0..3 /\ ModeClks[m] <= ModeClks[LcdMode']
      <3>1. LcdMode' = m \/ (m = 2 /\ LcdMode' = 3)
        BY <2>1 DEF OrComparison
      <3>2. QED
        BY <2>1, <3>1, ClksAssumption
    <2>3. ModeInTime' /\ io_lcd_mode_cycles_left' \in Int
      BY <2>1, <2>2, <1>1, EnteredInTime
    <2>4. CurrentLine' \in 0..LyMax
      BY <1>2, NextLineInFrame DEF EndHBlank
    <2>5. InterruptFlags' \subseteq Interrupts
      <3>1. PICK S \in SUBSET Interrupts, T \in SUBSET Interrupts :
              InterruptFlags' = InterruptFlags \cup S \cup T
                                  \cup (IF LastVisibleLine THEN {VBLANK} ELSE {})
        <4> DEFINE S == LycInterrupt(NextLine)
                   T == StatInterrupt(LcdMode')
        <4>1. S \in SUBSET Interrupts /\ T \in SUBSET Interrupts
          BY StatIsInterrupt
        <4>2. QED
          BY <1>2, <4>1 DEF EndHBlank
      <3>2. VBLANK \in Interrupts
        BY DEF VBLANK, Interrupts
      <3>3. QED
        BY <3>1, <3>2
    <2>6. UNCHANGED <<drawn, firstFrame>>
      BY <1>2 DEF EndHBlank
    <2>7. QED
      BY <1>0, <1>1, <1>2, <2>2, <2>3, <2>4, <2>5, <2>6 DEF LcdTypes
  <1>3. CASE EndVBlank
    <2>1. ModeInTime' /\ io_lcd_mode_cycles_left' \in Int
      BY <1>1, <1>3, EnteredInTime, ClksAssumption DEF EndVBlank, OAM_MODE
    <2>2. InterruptFlags' \subseteq Interrupts
      BY <1>3, StatIsInterrupt DEF EndVBlank
    <2>3. LcdMode' \in 0..3 /\ CurrentLine' = CurrentLine
      BY <1>3 DEF EndVBlank, OAM_MODE
    <2>4. drawn' \in [VisibleLines -> 0..2] /\ firstFrame' \in BOOLEAN
      <3>1. drawn' = NothingDrawn /\ firstFrame' = FALSE
        BY <1>3 DEF EndVBlank
      <3>2. QED
        BY <3>1, NothingDrawnType
    <2>5. QED
      BY <1>0, <1>1, <1>3, <2>1, <2>2, <2>3, <2>4 DEF LcdTypes
  <1>4. CASE EndOam
    <2>1. ModeInTime' /\ io_lcd_mode_cycles_left' \in Int
      BY <1>1, <1>4, EnteredInTime, ClksAssumption DEF EndOam, RENDER_MODE
    <2>2. LcdMode' \in 0..3
          /\ UNCHANGED <<InterruptFlags, CurrentLine, drawn, firstFrame>>
      BY <1>4 DEF EndOam, RENDER_MODE
    <2>3. QED
      BY <1>0, <1>1, <1>4, <2>1, <2>2 DEF LcdTypes
  <1>5. CASE EndRender
    <2>1. ModeInTime' /\ io_lcd_mode_cycles_left' \in Int
      BY <1>1, <1>5, EnteredInTime, ClksAssumption DEF EndRender, HBLANK_MODE
    <2>2. InterruptFlags' \subseteq Interrupts
      BY <1>5, StatIsInterrupt DEF EndRender
    <2>3. drawn' \in [VisibleLines -> 0..2]
      <3>1. /\ drawn \in [VisibleLines -> 0..2]
            /\ drawn' = IF CurrentLine < Height THEN Redrawn(CurrentLine)
                                                ELSE drawn
        BY <1>5 DEF EndRender, LcdTypes
      <3>2. QED
        BY <3>1, RedrawnType
    <2>4. /\ LcdMode' \in 0..3 /\ CurrentLine' = CurrentLine
          /\ firstFrame' = firstFrame
      BY <1>5 DEF EndRender, HBLANK_MODE
    <2>5. QED
      BY <1>0, <1>1, <1>5, <2>1, <2>2, <2>3, <2>4 DEF LcdTypes
  <1>6. CASE StayInMode /\ io_lcd_mode_cycles_left - last_op_cycles >= 0
    <2>1. LcdSpeed' = LcdSpeed /\ LcdMode' = LcdMode
      BY <1>1, <1>6 DEF LcdSpeed, StayInMode
    <2>2. io_lcd_mode_cycles_left' \in Int /\ io_lcd_mode_cycles_left' >= 0
          /\ io_lcd_mode_cycles_left' <= io_lcd_mode_cycles_left
      BY <1>6 DEF StayInMode, LcdTypes
    <2>3. ModeClks[LcdMode] * LcdSpeed \in Int
      BY ClksAssumption DEF LcdSpeed, LcdTypes
    <2>4. ModeInTime'
      BY <2>1, <2>2, <2>3 DEF ModeInTime, LcdTypes
    <2>5. QED
      BY <1>0, <1>1, <1>6, <2>2, <2>4 DEF StayInMode, LcdTypes
  <1>7. QED
    BY <1>2, <1>3, <1>4, <1>5, <1>6 DEF LcdStep, LcdTypes

-----------------------------------------------------------------------------
(* The DMA.  One block keeps the counters in step, whatever they are.      *)
LEMMA HdmaDoKeepsHdma ==
  ASSUME NEW control \in 0..127, NEW moved \in 0..127,
         blocksAsked' \in 0..128, moved + control + 1 = blocksAsked',
         HdmaDo(control, moved)
  PROVE  Hdma'
  <1>1. /\ blocksMoved' = moved + 1
        /\ control = 0 => GbcHdmaControl' = 255
        /\ control # 0 => GbcHdmaControl' = control - 1
    BY DEF HdmaDo
  <1>2. io_hdma_running' = (control # 0)
    BY DEF HdmaDo
  <1>3. io_hdma_running' \in BOOLEAN
    BY Zenon, <1>2
  <1>4. CASE control = 0
    <2>1. ~io_hdma_running'
      BY <1>2, <1>4
    <2>2. QED
      BY <1>1, <1>3, <1>4, <2>1 DEF Hdma, HdmaTypes, HdmaExact
  <1>5. CASE control # 0
    <2>1. io_hdma_running'
      BY <1>2, <1>5
    <2>2. QED
      BY <1>1, <1>3, <1>5, <2>1 DEF Hdma, HdmaTypes, HdmaExact
  <1>6. QED
    BY <1>4, <1>5

LEMMA ClksOfBlocks ==
  ASSUME NEW n \in Nat, NEW cost \in Nat, SpeedTypes
  PROVE  cost + n * HdmaBlockClks * Speed \in Nat
         /\ cost + HdmaBlockClks * Speed \in Nat
  BY ClksAssumption DEF Speed, SpeedTypes

LEMMA MmuStepKeepsHdma ==
  ASSUME Hdma, SpeedTypes, last_op_cycles \in Nat, MmuStep
  PROVE  Hdma' /\ last_op_cycles' \in Nat
  <1>1. CASE lcd_entered_hblank /\ io_hdma_running
    <2>1. GbcHdmaControl \in 0..127 /\ blocksMoved \in 0..127
          /\ blocksMoved + GbcHdmaControl + 1 = blocksAsked
          /\ blocksAsked \in 0..128
      BY <1>1 DEF Hdma, HdmaTypes, HdmaExact
    <2>2. /\ HdmaDo(GbcHdmaControl, blocksMoved) /\ blocksAsked' = blocksAsked
          /\ last_op_cycles' = last_op_cycles + HdmaBlockClks * Speed
      BY <1>1 DEF MmuStep
    <2>3. QED
      BY <2>1, <2>2, HdmaDoKeepsHdma, ClksOfBlocks
  <1>2. CASE ~(lcd_entered_hblank /\ io_hdma_running)
    BY <1>2, HdmaKept DEF MmuStep
  <1>3. QED
    BY <1>1, <1>2

LEMMA WriteHdmaKeepsHdma ==
  ASSUME Hdma, SpeedTypes, NEW c \in OpCycles, WriteHdma(c)
  PROVE  Hdma' /\ last_op_cycles' \in Nat
  <1>1. c \in Nat
    BY ProgramAssumption
  <1>2. PICK blocks \in HdmaBlocks : \/ WriteGeneralDma(blocks, c)
                                     \/ WriteHBlankDma(blocks, c)
    BY DEF WriteHdma
  <1>3. blocks \in 1..128
    BY ProgramAssumption
  <1>4. last_op_cycles' \in Nat
    <2>1. /\ c + blocks * HdmaBlockClks * Speed \in Nat
          /\ c + HdmaBlockClks * Speed \in Nat
      <3>1. blocks \in Nat
        BY <1>3
      <3>2. QED
        BY Zenon, <1>1, <3>1, ClksOfBlocks
    <2>2. last_op_cycles' \in {c, c + blocks * HdmaBlockClks * Speed,
                              c + HdmaBlockClks * Speed}
      BY <1>2 DEF WriteGeneralDma, WriteHBlankDma
    <2>3. QED
      BY <1>1, <2>1, <2>2
  <1>5. CASE WriteGeneralDma(blocks, c) /\ io_hdma_running
    <2>1. io_hdma_running' = FALSE /\ blocksAsked' = 0 /\ blocksMoved' = 0
          /\ GbcHdmaControl' = 255
      BY <1>5 DEF WriteGeneralDma, HdmaDone
    <2>2. io_hdma_running' \in BOOLEAN /\ ~io_hdma_running'
      BY Zenon, <2>1
    <2>3. QED
      BY <1>4, <2>1, <2>2 DEF Hdma, HdmaTypes, HdmaExact
  <1>6. CASE WriteGeneralDma(blocks, c) /\ ~io_hdma_running
    <2>1. UNCHANGED <<io_hdma_running, blocksAsked, blocksMoved>>
          /\ GbcHdmaControl' = 255
      BY <1>6 DEF WriteGeneralDma, HdmaDone
    <2>2. QED
      BY <1>4, <1>6, <2>1 DEF Hdma, HdmaTypes, HdmaExact
  <1>7. CASE WriteHBlankDma(blocks, c) /\ LcdMode = HBLANK_MODE
    <2>1. HdmaDo(blocks - 1, 0) /\ blocksAsked' = blocks
      BY <1>7 DEF WriteHBlankDma
    <2>2. /\ blocks - 1 \in 0..127 /\ 0 \in 0..127
          /\ 0 + (blocks - 1) + 1 = blocksAsked' /\ blocksAsked' \in 0..128
      BY <1>3, <2>1
    <2>3. Hdma'
      BY <2>1, <2>2, HdmaDoKeepsHdma
    <2>4. QED
      BY <1>4, <2>3
  <1>8. CASE WriteHBlankDma(blocks, c) /\ LcdMode # HBLANK_MODE
    <2>1. io_hdma_running' = TRUE /\ blocksAsked' = blocks /\ blocksMoved' = 0
          /\ GbcHdmaControl' = blocks - 1
      BY <1>8 DEF WriteHBlankDma
    <2>2. io_hdma_running' \in BOOLEAN /\ io_hdma_running'
      BY Zenon, <2>1
    <2>3. QED
      BY <1>3, <1>4, <2>1, <2>2 DEF Hdma, HdmaTypes, HdmaExact
  <1>9. QED
    BY <1>2, <1>5, <1>6, <1>7, <1>8

-----------------------------------------------------------------------------
(* The timers.  A run of either handler keeps the counters bytes and       *)
(* leaves installed the handler it was given or the one of the overflow.   *)
LEMMA RunTimersTypes ==
  ASSUME TimerTypes, last_op_cycles \in Nat, NEW factor \in {1, 2},
         NEW handler \in Handlers, NEW counter \in 0..CounterMod - 1,
         RunTimers(factor, handler, counter)
  PROVE  /\ TimerTypes'
         /\ TimersStep' \in {handler, "timersStepPendingInterrupt"}
  <1> DEFINE clock == (InternalClock + last_op_cycles) % InternalMod
             tick == TimaTick[TimerControl % 4] * factor
             timaClock == (TIMAClock + last_op_cycles) % TimaClockMod
  <1>1. clock \in Nat
    BY TimersAssumption, ModRange DEF TimerTypes
  <1>2. timaClock \in Nat
    BY TimersAssumption, ModRange DEF TimerTypes
  <1>3. DivTick * factor \in Nat \ {0} /\ tick \in Nat \ {0}
    <2>1. TimerControl % 4 \in 0..3
      BY DEF TimerTypes
    <2>2. TimaTick[TimerControl % 4] \in Nat \ {0}
      BY <2>1, TimersAssumption
    <2>3. QED
      BY <2>2, TimersAssumption
  <1>4. Masked(clock, DivTick * factor) \in Nat
    BY <1>1, <1>3, MaskedNat
  <1>5. Masked(timaClock, tick) \in Nat
    BY <1>2, <1>3, MaskedNat
  <1>6. /\ (TimerClock + 1) % CounterMod \in 0..CounterMod - 1
        /\ (counter + 1) % CounterMod \in 0..CounterMod - 1
    <2>1. /\ CounterMod \in Nat \ {0}
          /\ TimerClock + 1 \in Int /\ counter + 1 \in Int
      BY TimersAssumption DEF TimerTypes
    <2>2. QED
      BY <2>1, ModRange
  <1>7. InternalClock' \in Nat /\ TimerClock' \in 0..CounterMod - 1
    BY <1>1, <1>4, <1>6 DEF RunTimers, TimerTypes
  <1>8. TIMAClock' \in Nat
    <2>1. TIMAClock' \in {TIMAClock, Masked(timaClock, tick), timaClock}
      BY DEF RunTimers
    <2>2. QED
      BY <1>2, <1>5, <2>1 DEF TimerTypes
  <1>9. TimerCounter' \in 0..CounterMod - 1
    BY <1>6 DEF RunTimers
  <1>10. TimersStep' \in {handler, "timersStepPendingInterrupt"}
    BY DEF RunTimers
  <1>11. TimerResetValue' = TimerResetValue /\ TimerControl' = TimerControl
    BY DEF RunTimers
  <1>12. QED
    BY <1>7, <1>8, <1>9, <1>10, <1>11 DEF TimerTypes, Handlers

LEMMA StepTimersKeepsTiming ==
  ASSUME Timing, SpeedTypes, last_op_cycles \in Nat,
         InterruptFlags \subseteq Interrupts, StepTimers
  PROVE  Timing' /\ InterruptFlags' \subseteq Interrupts
  <1>1. IsInDoubleSpeedMode' = IsInDoubleSpeedMode
    BY DEF StepTimers, speedVars
  <1>2. TimerTypes /\ TimerCounter \in 0..CounterMod - 1
        /\ TimerResetValue \in 0..CounterMod - 1
    BY DEF Timing, TimerTypes
  <1>3. CASE RunNormal \/ RunDouble
    <2>1. /\ TimersStep \in Handlers
          /\ TimersStep # "timersStepPendingInterrupt"
          /\ \E f \in {1, 2} : RunTimers(f, TimersStep, TimerCounter)
      BY <1>3 DEF RunNormal, RunDouble, Handlers
    <2>2. TimerTypes' /\ TimersStep' \in {TimersStep, "timersStepPendingInterrupt"}
      BY <1>2, <2>1, RunTimersTypes
    <2>3. InterruptFlags' = InterruptFlags
      BY <1>3 DEF RunNormal, RunDouble
    <2>4. QED
      BY <1>1, <2>1, <2>2, <2>3 DEF Timing, HandlerOfSpeed
  <1>4. CASE RunPendingInterrupt
    <2>1. ResumedHandler \in Handlers /\ Speed \in {1, 2}
      BY DEF ResumedHandler, Handlers, Speed
    <2>2. TimerTypes'
          /\ TimersStep' \in {ResumedHandler, "timersStepPendingInterrupt"}
      BY <1>2, <1>4, <2>1, RunTimersTypes DEF RunPendingInterrupt
    <2>3. InterruptFlags' \subseteq Interrupts
      BY <1>4 DEF RunPendingInterrupt, TIMER, Interrupts
    <2>4. HandlerOfSpeed'
      BY <1>1, <2>2 DEF HandlerOfSpeed, ResumedHandler
    <2>5. QED
      BY <2>2, <2>3, <2>4 DEF Timing
  <1>5. QED
    BY <1>3, <1>4 DEF StepTimers

-----------------------------------------------------------------------------
(* The CPU.  STOP changes speed: the clocks left are rescaled, and the     *)
(* timer handler changed unless an overflow is pending.                    *)
LEMMA StopKeepsLcdAndTiming ==
  ASSUME Lcd, Timing, SpeedTypes, Stop
  PROVE  Lcd' /\ Timing' /\ SpeedTypes'
  <1>1. CASE SwitchesSpeed
    <2>1. /\ IsInDoubleSpeedMode' = ~IsInDoubleSpeedMode
          /\ IsSpeedSwitchPending' = FALSE
          /\ TimersStep' = SpeedHandler(~IsInDoubleSpeedMode)
          /\ io_lcd_mode_cycles_left' = RescaledClocks
          /\ UNCHANGED <<LcdMode, StatSelect, CurrentLine, NextInterruptLine,
                         lcd_entered_hblank, lcd_entered_vblank,
                         drawn, firstFrame, InternalClock, TIMAClock, TimerClock, TimerCounter,
                         TimerResetValue, TimerControl>>
      BY <1>1 DEF Stop
    <2>2. IsInDoubleSpeedMode' \in BOOLEAN /\ IsSpeedSwitchPending' \in BOOLEAN
      BY Zenon, <2>1
    <2>3. IsGbcSupported
      BY <1>1 DEF SwitchesSpeed
    <2>4. ModeClks[LcdMode] \in Nat
      BY ClksAssumption DEF Lcd, LcdTypes
    <2>5. io_lcd_mode_cycles_left' \in Int /\ ModeInTime'
      <3>1. CASE IsInDoubleSpeedMode
        <4>1. /\ LcdSpeed = 2 /\ LcdSpeed' = 1
              /\ io_lcd_mode_cycles_left' = io_lcd_mode_cycles_left \div 2
          BY <2>1, <2>3, <3>1 DEF LcdSpeed, RescaledClocks
        <4>2. QED
          BY <2>1, <2>4, <4>1 DEF Lcd, LcdTypes, ModeInTime
      <3>2. CASE ~IsInDoubleSpeedMode
        <4>1. /\ LcdSpeed = 1 /\ LcdSpeed' = 2
              /\ io_lcd_mode_cycles_left' = io_lcd_mode_cycles_left * 2
          BY <2>1, <2>3, <3>2 DEF LcdSpeed, RescaledClocks
        <4>2. QED
          BY <2>1, <2>4, <4>1 DEF Lcd, LcdTypes, ModeInTime
      <3>3. QED
        BY <3>1, <3>2
    <2>6. LcdTypes'
      BY <2>1, <2>5 DEF Lcd, LcdTypes
    <2>7. TimersStep' \in Handlers
      BY <2>1 DEF SpeedHandler, Handlers, Timing, TimerTypes
    <2>8. HandlerOfSpeed'
      BY <2>1 DEF SpeedHandler, HandlerOfSpeed
    <2>9. TimerTypes'
      BY <2>1, <2>7 DEF Timing, TimerTypes
    <2>10. QED
      BY <2>2, <2>5, <2>6, <2>8, <2>9 DEF Lcd, Timing, SpeedTypes
  <1>2. CASE ~SwitchesSpeed
    <2>1. UNCHANGED <<lcdVars, speedVars, timerVars>>
      BY <1>2 DEF Stop, lcdVars, timerVars
    <2>2. QED
      BY <2>1, LcdKept, TimingKept DEF SpeedTypes, speedVars
  <1>3. QED
    BY <1>1, <1>2

LEMMA WriteLcdKeepsLcd ==
  ASSUME Lcd, SpeedTypes, NEW c \in OpCycles, WriteLcd(c)
  PROVE  Lcd'
  <1>1. UNCHANGED <<LcdMode, io_lcd_mode_cycles_left, IsInDoubleSpeedMode,
                    lcd_entered_hblank, lcd_entered_vblank,
                    drawn, firstFrame>>
    BY DEF WriteLcd, WriteLcdStatus, WriteCurrentLine, WriteNextInterruptLine,
           speedVars
  <1>2. ModeInTime'
    BY <1>1 DEF Lcd, ModeInTime, LcdSpeed
  <1>3. StatSelect' \subseteq StatBits
    BY ProgramAssumption DEF WriteLcd, WriteLcdStatus, WriteCurrentLine,
                             WriteNextInterruptLine, Lcd, LcdTypes
  <1>4. CurrentLine' \in 0..LyMax
    BY LinesAssumption DEF WriteLcd, WriteLcdStatus, WriteCurrentLine,
                           WriteNextInterruptLine, Lcd, LcdTypes
  <1>5. NextInterruptLine' \in 0..255
    BY ProgramAssumption DEF WriteLcd, WriteLcdStatus, WriteCurrentLine,
                             WriteNextInterruptLine, Lcd, LcdTypes
  <1>6. QED
    BY <1>1, <1>2, <1>3, <1>4, <1>5 DEF Lcd, LcdTypes

LEMMA WriteTimerKeepsTiming ==
  ASSUME Timing, NEW c \in OpCycles, WriteTimer(c)
  PROVE  Timing'
  <1>1. UNCHANGED <<TimersStep, InternalClock, TIMAClock, IsInDoubleSpeedMode>>
    BY DEF WriteTimer, WriteDiv, WriteTimers, speedVars
  <1>2. HandlerOfSpeed'
    BY <1>1 DEF Timing, HandlerOfSpeed
  <1>3. CASE WriteDiv
    BY <1>1, <1>2, <1>3, TimersAssumption DEF WriteDiv, Timing, TimerTypes
  <1>4. CASE \E t \in TimerChoices : WriteTimers(t[1], t[2], t[3])
    <2>1. PICK t \in TimerChoices : WriteTimers(t[1], t[2], t[3])
      BY <1>4
    <2>2. /\ t[1] \in 0..CounterMod - 1 /\ t[2] \in 0..CounterMod - 1
          /\ t[3] \in 0..7
      BY ProgramAssumption
    <2>3. QED
      BY <1>1, <1>2, <2>1, <2>2 DEF WriteTimers, Timing, TimerTypes
  <1>5. QED
    BY <1>3, <1>4 DEF WriteTimer

(* What the instructions do to the interrupts.                             *)
LEMMA InstructionKeepsInterrupts ==
  ASSUME InterruptTypes, InterruptFlags \subseteq Interrupts, NEW c \in OpCycles,
         \/ Idle \/ Op(c) \/ Stop \/ (\E next \in IdleCycles : Halt(next))
         \/ SetMaster(TRUE, c) \/ SetMaster(FALSE, c)
         \/ (\E S \in EnableChoices : WriteEnabled(S, c))
         \/ ClearFlags(c) \/ WriteLcd(c) \/ WriteHdma(c)
         \/ WriteSpeedSwitch(c) \/ WriteTimer(c)
  PROVE  InterruptTypes' /\ InterruptFlags' \subseteq Interrupts
  <1>1. CASE \/ Idle \/ Op(c) \/ Stop \/ ClearFlags(c) \/ WriteLcd(c)
             \/ WriteHdma(c) \/ WriteSpeedSwitch(c) \/ WriteTimer(c)
    <2>1. UNCHANGED interruptVars
      BY <1>1 DEF Idle, Op, Stop, ClearFlags, WriteLcd, WriteHdma,
                  WriteSpeedSwitch, WriteTimer
    <2>2. InterruptFlags' \subseteq Interrupts
      BY <1>1 DEF Idle, Op, Stop, ClearFlags, WriteLcd, WriteHdma,
                  WriteSpeedSwitch, WriteTimer
    <2>3. QED
      BY <2>1, <2>2, InterruptsKept
  <1>2. CASE \E next \in IdleCycles : Halt(next)
    <2>1. /\ idleCycles' \in 0..6 /\ halt_for_interrupts' = TRUE
          /\ UNCHANGED <<interrupts_master_enabled, InterruptSwitch, InterruptFlags>>
      BY <1>2, ProgramAssumption DEF Halt
    <2>2. halt_for_interrupts' \in BOOLEAN
      BY Zenon, <2>1
    <2>3. QED
      BY <2>1, <2>2 DEF InterruptTypes
  <1>3. CASE SetMaster(TRUE, c) \/ SetMaster(FALSE, c)
    <2>1. interrupts_master_enabled' \in BOOLEAN
      BY Zenon, <1>3 DEF SetMaster
    <2>2. UNCHANGED <<InterruptSwitch, halt_for_interrupts, idleCycles, InterruptFlags>>
      BY <1>3 DEF SetMaster
    <2>3. QED
      BY <2>1, <2>2 DEF InterruptTypes
  <1>4. CASE \E S \in EnableChoices : WriteEnabled(S, c)
    BY <1>4, ProgramAssumption DEF WriteEnabled, InterruptTypes
  <1>5. QED
    BY <1>1, <1>2, <1>3, <1>4

LEMMA CpuStepKeeps ==
  ASSUME IInv, CpuStep
  PROVE  IInv'
  <1>1. /\ StepTypes /\ InterruptTypes /\ SpeedTypes /\ Lcd /\ Hdma /\ Timing
        /\ InterruptFlags \subseteq Interrupts
    BY InvParts DEF StepTypes
  <1>2. phase' \in Phases
    BY DEF CpuStep, Phases
  <1>3. /\ \A c \in OpCycles : c \in Nat
        /\ \E c \in OpCycles : TRUE
    <2>1. OpCycles \subseteq 1..6
      BY ProgramAssumption
    <2>2. \E c \in OpCycles : TRUE
      BY Zenon, ProgramAssumption
    <2>3. QED
      BY <2>1, <2>2
  <1> DEFINE Good == /\ last_op_cycles' \in Nat
                     /\ InterruptFlags' \subseteq Interrupts
                     /\ InterruptTypes' /\ SpeedTypes' /\ Lcd' /\ Hdma' /\ Timing'
             Others(c) ==
               \/ Op(c) \/ SetMaster(TRUE, c) \/ SetMaster(FALSE, c)
               \/ (\E S \in EnableChoices : WriteEnabled(S, c))
               \/ ClearFlags(c)
  <1>4. ASSUME NEW c \in OpCycles,
               Idle \/ (\E next \in IdleCycles : Halt(next)) \/ Others(c)
        PROVE  Good
    <2>1. last_op_cycles' \in Nat
      BY <1>1, <1>3, <1>4 DEF Idle, Halt, Op, SetMaster, WriteEnabled,
                              ClearFlags, InterruptTypes
    <2>2. UNCHANGED <<lcdVars, hdmaVars, speedVars, timerVars>>
      BY <1>4 DEF Idle, Halt, Op, SetMaster, WriteEnabled, ClearFlags
    <2>3. IsInDoubleSpeedMode' = IsInDoubleSpeedMode /\ SpeedTypes'
      BY <1>1, <2>2 DEF speedVars, SpeedTypes
    <2>4. InterruptTypes' /\ InterruptFlags' \subseteq Interrupts
      BY <1>1, <1>4, InstructionKeepsInterrupts
    <2>5. QED
      BY <1>1, <2>1, <2>2, <2>3, <2>4, LcdKept, HdmaKept, TimingKept
  <1>5. ASSUME Stop PROVE Good
    <2>1. last_op_cycles' \in Nat /\ UNCHANGED hdmaVars
      BY <1>5 DEF Stop
    <2>2. InterruptTypes' /\ InterruptFlags' \subseteq Interrupts
      BY <1>1, <1>3, <1>5, InstructionKeepsInterrupts
    <2>3. QED
      BY <1>1, <1>5, <2>1, <2>2, HdmaKept, StopKeepsLcdAndTiming
  <1>6. ASSUME NEW c \in OpCycles, WriteLcd(c) PROVE Good
    <2>1. last_op_cycles' \in Nat /\ UNCHANGED <<hdmaVars, speedVars, timerVars>>
      BY <1>3, <1>6 DEF WriteLcd
    <2>2. IsInDoubleSpeedMode' = IsInDoubleSpeedMode /\ SpeedTypes'
      BY <1>1, <2>1 DEF speedVars, SpeedTypes
    <2>3. InterruptTypes' /\ InterruptFlags' \subseteq Interrupts
      BY <1>1, <1>6, InstructionKeepsInterrupts
    <2>4. QED
      BY <1>1, <1>6, <2>1, <2>2, <2>3, HdmaKept, TimingKept, WriteLcdKeepsLcd
  <1>7. ASSUME NEW c \in OpCycles, WriteHdma(c) PROVE Good
    <2>1. UNCHANGED <<lcdVars, speedVars, timerVars>>
      BY <1>7 DEF WriteHdma
    <2>2. IsInDoubleSpeedMode' = IsInDoubleSpeedMode /\ SpeedTypes'
      BY <1>1, <2>1 DEF speedVars, SpeedTypes
    <2>3. InterruptTypes' /\ InterruptFlags' \subseteq Interrupts
      BY <1>1, <1>7, InstructionKeepsInterrupts
    <2>4. QED
      BY <1>1, <1>7, <2>1, <2>2, <2>3, LcdKept, TimingKept, WriteHdmaKeepsHdma
  <1>8. ASSUME NEW c \in OpCycles, WriteSpeedSwitch(c) PROVE Good
    <2>1. /\ last_op_cycles' \in Nat /\ UNCHANGED <<lcdVars, hdmaVars, timerVars>>
          /\ IsInDoubleSpeedMode' = IsInDoubleSpeedMode
          /\ IsSpeedSwitchPending' \in BOOLEAN
      BY <1>3, <1>8 DEF WriteSpeedSwitch
    <2>2. InterruptTypes' /\ InterruptFlags' \subseteq Interrupts
      BY <1>1, <1>8, InstructionKeepsInterrupts
    <2>3. SpeedTypes'
      BY <1>1, <2>1 DEF SpeedTypes
    <2>4. QED
      BY <1>1, <2>1, <2>2, <2>3, LcdKept, HdmaKept, TimingKept
  <1>9. ASSUME NEW c \in OpCycles, WriteTimer(c) PROVE Good
    <2>1. last_op_cycles' \in Nat /\ UNCHANGED <<lcdVars, hdmaVars, speedVars>>
      BY <1>3, <1>9 DEF WriteTimer
    <2>2. IsInDoubleSpeedMode' = IsInDoubleSpeedMode /\ SpeedTypes'
      BY <1>1, <2>1 DEF speedVars, SpeedTypes
    <2>3. InterruptTypes' /\ InterruptFlags' \subseteq Interrupts
      BY <1>1, <1>9, InstructionKeepsInterrupts
    <2>4. QED
      BY <1>1, <1>9, <2>1, <2>2, <2>3, LcdKept, HdmaKept, WriteTimerKeepsTiming
  <1>10. Good
    <2>1. CASE Idle
      BY <1>3, <1>4, <2>1
    <2>2. CASE \E next \in IdleCycles : Halt(next)
      BY <1>3, <1>4, <2>2
    <2>3. CASE Stop
      BY <1>5, <2>3
    <2>4. ASSUME NEW c \in OpCycles,
                 \/ Others(c) \/ WriteLcd(c) \/ WriteHdma(c)
                 \/ WriteSpeedSwitch(c) \/ WriteTimer(c)
          PROVE  Good
      BY <1>4, <1>6, <1>7, <1>8, <1>9, <2>4
    <2>5. \/ Idle \/ (\E next \in IdleCycles : Halt(next)) \/ Stop
          \/ \E c \in OpCycles : \/ Others(c) \/ WriteLcd(c) \/ WriteHdma(c)
                                 \/ WriteSpeedSwitch(c) \/ WriteTimer(c)
      BY DEF CpuStep, Execute
    <2>6. QED
      BY <2>1, <2>2, <2>3, <2>4, <2>5
  <1>11. QED
    BY <1>2, <1>10, InvPartsPrimed DEF StepTypes

-----------------------------------------------------------------------------
(* The dispatch of interrupts and the other parts of emu_step.             *)
LEMMA HandleInterruptsKeeps ==
  ASSUME IInv, HandleInterrupts
  PROVE  IInv'
  <1>1. /\ StepTypes /\ InterruptTypes /\ SpeedTypes /\ Lcd /\ Hdma /\ Timing
    BY InvParts
  <1>2. /\ phase' \in Phases /\ last_op_cycles' = last_op_cycles
        /\ UNCHANGED <<lcdVars, hdmaVars, speedVars, timerVars>>
    BY DEF HandleInterrupts, Phases
  <1>3. IsInDoubleSpeedMode' = IsInDoubleSpeedMode /\ SpeedTypes'
    BY <1>1, <1>2 DEF speedVars, SpeedTypes
  <1>4. Lcd' /\ Hdma' /\ Timing'
    BY <1>1, <1>2, <1>3, LcdKept, HdmaKept, TimingKept
  <1>5. InterruptFlags' \subseteq Interrupts /\ InterruptSwitch' = InterruptSwitch
    BY <1>1 DEF HandleInterrupts, TakeInterrupt, WakeUp, NoInterrupt,
                interruptVars, StepTypes
  <1>6. idleCycles' \in 0..6
    BY <1>1 DEF HandleInterrupts, TakeInterrupt, WakeUp, NoInterrupt,
                interruptVars, InterruptTypes
  <1>7. interrupts_master_enabled' \in BOOLEAN /\ halt_for_interrupts' \in BOOLEAN
    <2>1. \/ interrupts_master_enabled' = FALSE
          \/ interrupts_master_enabled' = interrupts_master_enabled
      BY Zenon DEF HandleInterrupts, TakeInterrupt, WakeUp, NoInterrupt,
                   interruptVars
    <2>2. \/ halt_for_interrupts' = FALSE
          \/ halt_for_interrupts' = halt_for_interrupts
      BY Zenon DEF HandleInterrupts, TakeInterrupt, WakeUp, NoInterrupt,
                   interruptVars
    <2>3. QED
      BY Zenon, <1>1, <2>1, <2>2 DEF InterruptTypes
  <1>8. InterruptTypes' /\ StepTypes'
    BY <1>1, <1>2, <1>5, <1>6, <1>7 DEF InterruptTypes, StepTypes
  <1>9. QED
    BY <1>3, <1>4, <1>8, InvPartsPrimed

LEMMA ResetKeeps ==
  ASSUME IInv, Reset
  PROVE  IInv'
  <1>1. StepTypes /\ Hdma
    BY InvParts
  <1>2. StepTypes'
    BY <1>1 DEF Reset, StepTypes
  <1>3. IsInDoubleSpeedMode' \in BOOLEAN /\ IsSpeedSwitchPending' \in BOOLEAN
    BY Zenon, GbcAssumption DEF Reset
  <1>4. Hdma'
    BY <1>1, HdmaKept DEF Reset
  <1>5. InterruptTypes'
    <2>1. interrupts_master_enabled' \in BOOLEAN /\ halt_for_interrupts' \in BOOLEAN
      BY Zenon DEF Reset
    <2>2. InterruptSwitch' = {} /\ idleCycles' = 0
      BY DEF Reset
    <2>3. QED
      BY <2>1, <2>2 DEF InterruptTypes
  <1>6. Lcd'
    <2>1. lcd_entered_hblank' \in BOOLEAN /\ lcd_entered_vblank' \in BOOLEAN
      BY TypeParts DEF IInv, Reset, LcdTypes
    <2>2. /\ LcdMode' = 0 /\ StatSelect' = {} /\ CurrentLine' = 0
          /\ NextInterruptLine' = 0 /\ io_lcd_mode_cycles_left' = 0
          /\ drawn' = NothingDrawn /\ firstFrame' = TRUE
      BY DEF Reset, HBLANK_MODE
    <2>3. ModeInTime'
      <3>1. ModeClks[0] \in Nat /\ LcdSpeed' \in {1, 2}
        BY ClksAssumption DEF LcdSpeed
      <3>2. QED
        BY <2>2, <3>1 DEF ModeInTime
    <2>4. QED
      BY <2>1, <2>2, <2>3, LinesAssumption, NothingDrawnType DEF Lcd, LcdTypes
  <1>7. Timing'
    <2>1. /\ TimersStep' = "timersStep" /\ InternalClock' = FirstClock
          /\ TIMAClock' = 0 /\ TimerClock' = 0 /\ TimerCounter' = 0
          /\ TimerResetValue' = 0 /\ TimerControl' = 0
      BY DEF Reset
    <2>2. TimerTypes'
      BY <2>1, TimersAssumption DEF TimerTypes, Handlers
    <2>3. HandlerOfSpeed'
      BY <2>1 DEF Reset, HandlerOfSpeed
    <2>4. QED
      BY <2>2, <2>3 DEF Timing
  <1>8. QED
    BY <1>2, <1>3, <1>4, <1>5, <1>6, <1>7, InvPartsPrimed DEF SpeedTypes

LEMMA InitHolds ==
  ASSUME Init
  PROVE  IInv
  <1>1. StepTypes
    BY DEF Init, StepTypes, Phases
  <1>2. SpeedTypes
    BY Zenon, GbcAssumption DEF Init, SpeedTypes
  <1>3. Hdma
    <2>1. io_hdma_running \in BOOLEAN /\ ~io_hdma_running
      BY Zenon DEF Init
    <2>2. GbcHdmaControl = 0 /\ blocksAsked = 0 /\ blocksMoved = 0
      BY DEF Init
    <2>3. QED
      BY <2>1, <2>2 DEF Hdma, HdmaTypes, HdmaExact
  <1>4. InterruptTypes
    <2>1. interrupts_master_enabled \in BOOLEAN /\ halt_for_interrupts \in BOOLEAN
      BY Zenon DEF Init
    <2>2. InterruptSwitch = {} /\ idleCycles = 0
      BY DEF Init
    <2>3. QED
      BY <2>1, <2>2 DEF InterruptTypes
  <1>5. Lcd
    <2>1. lcd_entered_hblank \in BOOLEAN /\ lcd_entered_vblank \in BOOLEAN
      BY Zenon DEF Init
    <2>2. /\ LcdMode = 0 /\ StatSelect = {} /\ CurrentLine = 0
          /\ NextInterruptLine = 0 /\ io_lcd_mode_cycles_left = 0
          /\ drawn = NothingDrawn /\ firstFrame = TRUE
      BY DEF Init, HBLANK_MODE
    <2>3. ModeInTime
      <3>1. ModeClks[0] \in Nat /\ LcdSpeed \in {1, 2}
        BY ClksAssumption DEF LcdSpeed
      <3>2. QED
        BY <2>2, <3>1 DEF ModeInTime
    <2>4. QED
      BY <2>1, <2>2, <2>3, LinesAssumption, NothingDrawnType DEF Lcd, LcdTypes
  <1>6. Timing
    <2>1. TimerTypes
      BY TimersAssumption DEF Init, TimerTypes, Handlers
    <2>2. HandlerOfSpeed
      BY DEF Init, HandlerOfSpeed
    <2>3. QED
      BY <2>1, <2>2 DEF Timing
  <1>7. QED
    BY <1>1, <1>2, <1>3, <1>4, <1>5, <1>6, InvParts

LEMMA NextKeeps ==
  ASSUME IInv, [Next]_vars
  PROVE  IInv'
  <1>1. /\ StepTypes /\ InterruptTypes /\ SpeedTypes /\ Lcd /\ Hdma /\ Timing
        /\ InterruptFlags \subseteq Interrupts /\ last_op_cycles \in Nat
    BY InvParts DEF StepTypes
  <1>2. CASE phase = "lcd" /\ phase' = "mmu" /\ LcdStep
    <2>1. /\ last_op_cycles' = last_op_cycles
          /\ UNCHANGED <<interruptVars, hdmaVars, speedVars, timerVars>>
      BY <1>2 DEF LcdStep
    <2>2. IsInDoubleSpeedMode' = IsInDoubleSpeedMode /\ SpeedTypes'
      BY <1>1, <2>1 DEF speedVars, SpeedTypes
    <2>3. Lcd' /\ InterruptFlags' \subseteq Interrupts
      BY <1>1, <1>2, LcdStepKeepsLcd
    <2>4. StepTypes'
      BY <1>1, <1>2, <2>1, <2>3 DEF StepTypes, Phases
    <2>5. QED
      BY <1>1, <2>1, <2>2, <2>3, <2>4, InterruptsKept, HdmaKept, TimingKept,
         InvPartsPrimed
  <1>3. CASE phase = "mmu" /\ phase' = "timers" /\ MmuStep
    <2>1. UNCHANGED <<InterruptFlags, interruptVars, lcdVars, speedVars, timerVars>>
      BY <1>3 DEF MmuStep
    <2>2. IsInDoubleSpeedMode' = IsInDoubleSpeedMode /\ SpeedTypes'
      BY <1>1, <2>1 DEF speedVars, SpeedTypes
    <2>3. Hdma' /\ last_op_cycles' \in Nat
      BY <1>1, <1>3, MmuStepKeepsHdma
    <2>4. StepTypes'
      BY <1>1, <1>3, <2>1, <2>3 DEF StepTypes, Phases
    <2>5. QED
      BY <1>1, <2>1, <2>2, <2>3, <2>4, InterruptsKept, LcdKept, TimingKept,
         InvPartsPrimed
  <1>4. CASE phase = "timers" /\ phase' = "interrupts" /\ StepTimers
    <2>1. UNCHANGED <<last_op_cycles, interruptVars, lcdVars, hdmaVars, speedVars>>
      BY <1>4 DEF StepTimers
    <2>2. IsInDoubleSpeedMode' = IsInDoubleSpeedMode /\ SpeedTypes'
      BY <1>1, <2>1 DEF speedVars, SpeedTypes
    <2>3. Timing' /\ InterruptFlags' \subseteq Interrupts
      BY <1>1, <1>4, StepTimersKeepsTiming
    <2>4. StepTypes'
      BY <1>1, <1>4, <2>1, <2>3 DEF StepTypes, Phases
    <2>5. QED
      BY <1>1, <2>1, <2>2, <2>3, <2>4, InterruptsKept, LcdKept, HdmaKept,
         InvPartsPrimed
  <1>5. CASE UNCHANGED vars
    <2>1. /\ UNCHANGED <<phase, last_op_cycles, InterruptFlags>>
          /\ UNCHANGED <<interruptVars, lcdVars, hdmaVars, speedVars, timerVars>>
      BY <1>5 DEF vars
    <2>2. IsInDoubleSpeedMode' = IsInDoubleSpeedMode /\ SpeedTypes'
      BY <1>1, <2>1 DEF speedVars, SpeedTypes
    <2>3. StepTypes'
      BY <1>1, <2>1 DEF StepTypes
    <2>4. QED
      BY <1>1, <2>1, <2>2, <2>3, InterruptsKept, LcdKept, HdmaKept, TimingKept,
         InvPartsPrimed
  <1>6. QED
    BY <1>2, <1>3, <1>4, <1>5, HandleInterruptsKeeps, CpuStepKeeps, ResetKeeps
       DEF Next

(* IInv is inductive.                                                      *)
THEOREM Inductive == Spec => []IInv
  <1>1. Init => IInv
    BY InitHolds
  <1>2. IInv /\ [Next]_vars => IInv'
    BY NextKeeps
  <1>3. QED
    BY <1>1, <1>2, PTL DEF Spec

(* Every register of the clocked state stays in its range.                 *)
THEOREM TypeCorrect == Spec => []TypeOK
  <1>1. IInv => TypeOK
    BY DEF IInv
  <1>2. QED
    BY <1>1, Inductive, PTL

(* Whatever the durations of the modes and the speeds the game switches    *)
(* between, no LCD mode ever has clocks it should not have.                *)
THEOREM ModesInTime == Spec => []ModeInTime
  <1>1. IInv => ModeInTime
    BY DEF IInv
  <1>2. QED
    BY <1>1, Inductive, PTL

(* An H-Blank DMA of any length moves exactly its blocks.                  *)
THEOREM HdmaMovesWhatWasAsked == Spec => []HdmaExact
  <1>1. IInv => HdmaExact
    BY DEF IInv
  <1>2. QED
    BY <1>1, Inductive, PTL

(* The timer handler follows the speed of a GBC cartridge.                 *)
THEOREM HandlerFollowsSpeed == Spec => []HandlerOfSpeed
  <1>1. IInv => HandlerOfSpeed
    BY DEF IInv
  <1>2. QED
    BY <1>1, Inductive, PTL

(* No overflow of the timer is lost between its detection and the          *)
(* interrupt, whatever the game does in between.                           *)
THEOREM OverflowsKept == Spec => OverflowKept
  <1> DEFINE pending == TimersStep = "timersStepPendingInterrupt"
             Kept == pending => pending' \/ TIMER \in InterruptFlags' \/ Reset
  <1>1. CpuStep => Kept
    <2> SUFFICES ASSUME CpuStep, pending PROVE pending'
      OBVIOUS
    <2>1. CASE UNCHANGED timerVars
      BY <2>1 DEF timerVars
    <2>2. CASE Stop
      BY <2>2 DEF Stop, SpeedHandler
    <2>3. CASE \E c \in OpCycles : WriteTimer(c)
      BY <2>3 DEF WriteTimer, WriteDiv, WriteTimers
    <2>4. QED
      BY <2>1, <2>2, <2>3 DEF CpuStep, Execute, Idle, Halt, Op, SetMaster,
           WriteEnabled, ClearFlags, WriteLcd, WriteHdma, WriteSpeedSwitch
  <1>2. StepTimers => Kept
    BY DEF StepTimers, RunNormal, RunDouble, RunPendingInterrupt
  <1>3. UNCHANGED timerVars => Kept
    BY DEF timerVars
  <1>4. [Next]_vars =>
          [TimersStep = "timersStepPendingInterrupt" =>
             \/ TimersStep' = "timersStepPendingInterrupt"
             \/ TIMER \in InterruptFlags'
             \/ Reset]_vars
    BY <1>1, <1>2, <1>3 DEF Next, HandleInterrupts, LcdStep, MmuStep, vars
  <1>5. QED
    BY <1>4, PTL DEF Spec, OverflowKept

-----------------------------------------------------------------------------
(* What has been drawn, in terms of where the LCD is: in H-Blank the lines *)
(* down to this one, before that those above it, and none of them past the *)
(* screen once V-Blank has ended.                                          *)
DrawnTo ==
  IF LcdMode = VBLANK_MODE THEN Height
  ELSE IF CurrentLine >= Height THEN 0
  ELSE IF LcdMode = HBLANK_MODE THEN CurrentLine + 1 ELSE CurrentLine

FrameInv ==
  /\ LcdMode = VBLANK_MODE => CurrentLine = Height
  /\ firstFrame => /\ CurrentLine = 0 => LcdMode = HBLANK_MODE
                   /\ CurrentLine <= Height
                   /\ CurrentLine = Height => LcdMode = VBLANK_MODE
  /\ drawn = DrawnAbove(DrawnTo)

VBlankInv ==
  lcd_entered_vblank /\ phase \in {"mmu", "timers"} => LcdMode = VBLANK_MODE

Screen == <<LcdMode, CurrentLine, drawn, firstFrame>>

LEMMA FrameKept ==
  ASSUME FrameInv, UNCHANGED Screen
  PROVE  FrameInv'
  BY DEF FrameInv, Screen, DrawnAbove, DrawnTo

(* Nothing is drawn above line 1 in the first frame.                       *)
LEMMA NothingAboveFirst ==
  ASSUME firstFrame
  PROVE  NothingDrawn = DrawnAbove(1)
  BY LinesAssumption DEF NothingDrawn, DrawnAbove, VisibleLines

LEMMA DrawnOnce ==
  ASSUME NEW line \in VisibleLines, drawn = DrawnAbove(line),
         firstFrame => line # 0
  PROVE  Redrawn(line) = DrawnAbove(line + 1)
  <1>1. Height \in Nat /\ line \in Nat
    BY LinesAssumption DEF VisibleLines
  <1>2. /\ drawn = [l \in VisibleLines |->
                     IF l < line /\ ~(firstFrame /\ l = 0) THEN 1 ELSE 0]
        /\ drawn[line] = 0
    BY <1>1 DEF DrawnAbove
  <1>3. Redrawn(line) = [drawn EXCEPT ![line] = 1]
    BY <1>2 DEF Redrawn
  <1>4. Redrawn(line) = [l \in VisibleLines |-> IF l = line THEN 1 ELSE drawn[l]]
    BY <1>2, <1>3
  <1>5. ASSUME NEW l \in VisibleLines
        PROVE  (IF l = line THEN 1 ELSE drawn[l])
                 = IF l < line + 1 /\ ~(firstFrame /\ l = 0) THEN 1 ELSE 0
    <2>1. l \in Nat
      BY <1>1 DEF VisibleLines
    <2>2. QED
      BY <1>1, <1>2, <2>1
  <1>6. QED
    BY <1>4, <1>5 DEF DrawnAbove

LEMMA EndHBlankKeepsFrame ==
  ASSUME FrameInv, LcdTypes, EndHBlank
  PROVE  FrameInv'
  <1>1. /\ LcdMode = 0 /\ CurrentLine' = NextLine
        /\ UNCHANGED <<drawn, firstFrame>>
        /\ CurrentLine \in 0..LyMax
    BY DEF EndHBlank, HBLANK_MODE, LcdTypes
  <1>2. NextLine = IF CurrentLine = LyMax THEN 0 ELSE CurrentLine + 1
    BY NextLineInFrame
  <1>3. Height \in Nat \ {0} /\ LyMax \in Nat /\ Height <= LyMax
    BY LinesAssumption
  <1>4. firstFrame => CurrentLine < Height
    BY <1>1, <1>3 DEF FrameInv, VBLANK_MODE
  <1>5. DrawnTo = IF CurrentLine >= Height THEN 0 ELSE CurrentLine + 1
    BY <1>1 DEF DrawnTo, HBLANK_MODE, VBLANK_MODE
  <1>6. CASE LastVisibleLine
    <2>1. CurrentLine = Height - 1 /\ LcdMode' = 1
      BY <1>6 DEF LastVisibleLine, EndHBlank, OrComparison, VBLANK_MODE
    <2>2. CurrentLine' = Height
      BY <1>1, <1>2, <1>3, <2>1
    <2>3. DrawnTo' = Height /\ DrawnTo = Height
      BY <1>1, <1>3, <1>5, <2>1 DEF DrawnTo, VBLANK_MODE
    <2>4. (DrawnAbove(DrawnTo))' = DrawnAbove(DrawnTo)
      BY <1>1, <2>3 DEF DrawnAbove
    <2>5. QED
      BY <1>1, <1>3, <2>1, <2>2, <2>4 DEF FrameInv, VBLANK_MODE
  <1>7. CASE ~LastVisibleLine
    <2>1. CurrentLine # Height - 1 /\ LcdMode' \in {2, 3}
      BY <1>7 DEF LastVisibleLine, EndHBlank, OrComparison, OAM_MODE
    <2>2. DrawnTo' = DrawnTo
      BY <1>1, <1>2, <1>3, <1>5, <2>1 DEF DrawnTo, HBLANK_MODE, VBLANK_MODE
    <2>3. (DrawnAbove(DrawnTo))' = DrawnAbove(DrawnTo)
      BY <1>1, <2>2 DEF DrawnAbove
    <2>4. firstFrame' => CurrentLine' # 0 /\ CurrentLine' < Height
      BY <1>1, <1>2, <1>3, <1>4, <2>1
    <2>5. QED
      BY <1>1, <1>2, <1>3, <2>1, <2>3, <2>4 DEF FrameInv, VBLANK_MODE
  <1>8. QED
    BY <1>6, <1>7

LEMMA LcdStepKeepsFrame ==
  ASSUME FrameInv, LcdTypes, LcdStep
  PROVE  FrameInv'
  <1>0. Height \in Nat \ {0} /\ CurrentLine \in Nat
    BY LinesAssumption DEF LcdTypes
  <1>1. CASE EndHBlank
    BY <1>1, EndHBlankKeepsFrame
  <1>2. CASE EndVBlank
    <2>1. /\ LcdMode = 1 /\ LcdMode' = 2 /\ CurrentLine = Height
          /\ CurrentLine' = CurrentLine
          /\ drawn' = NothingDrawn /\ firstFrame' = FALSE
      BY <1>2 DEF EndVBlank, VBLANK_MODE, OAM_MODE, FrameInv
    <2>2. DrawnTo' = 0
      BY <1>0, <2>1 DEF DrawnTo, VBLANK_MODE
    <2>3. drawn' = (DrawnAbove(DrawnTo))'
      <3>1. \A l \in VisibleLines : ~(l < 0)
        BY LinesAssumption DEF VisibleLines
      <3>2. (DrawnAbove(DrawnTo))' = NothingDrawn
        BY <2>2, <3>1 DEF DrawnAbove, NothingDrawn
      <3>3. QED
        BY <2>1, <3>2
    <2>4. QED
      BY <2>1, <2>3 DEF FrameInv, VBLANK_MODE
  <1>3. CASE EndOam
    <2>1. /\ LcdMode = 2 /\ LcdMode' = 3
          /\ UNCHANGED <<CurrentLine, drawn, firstFrame>>
      BY <1>3 DEF EndOam, OAM_MODE, RENDER_MODE
    <2>2. DrawnTo' = DrawnTo
      BY <2>1 DEF DrawnTo, VBLANK_MODE, HBLANK_MODE
    <2>3. (DrawnAbove(DrawnTo))' = DrawnAbove(DrawnTo)
      BY <2>1, <2>2 DEF DrawnAbove
    <2>4. QED
      BY <2>1, <2>3 DEF FrameInv, VBLANK_MODE, HBLANK_MODE
  <1>4. CASE EndRender
    <2>1. /\ LcdMode = 3 /\ LcdMode' = 0
          /\ UNCHANGED <<CurrentLine, firstFrame>>
          /\ drawn' = IF CurrentLine < Height THEN Redrawn(CurrentLine)
                                              ELSE drawn
      BY <1>4 DEF EndRender, RENDER_MODE, HBLANK_MODE
    <2>2. /\ DrawnTo = IF CurrentLine >= Height THEN 0 ELSE CurrentLine
          /\ DrawnTo' = IF CurrentLine >= Height THEN 0 ELSE CurrentLine + 1
      BY <2>1 DEF DrawnTo, VBLANK_MODE, HBLANK_MODE
    <2>3. firstFrame => CurrentLine # 0 /\ CurrentLine < Height
      BY <1>0, <2>1 DEF FrameInv, VBLANK_MODE, HBLANK_MODE
    <2>4. drawn' = DrawnAbove(DrawnTo')
      <3>1. CASE CurrentLine >= Height
        BY <1>0, <2>1, <2>2, <3>1 DEF FrameInv
      <3>2. CASE CurrentLine < Height
        <4>1. CurrentLine \in VisibleLines /\ drawn = DrawnAbove(CurrentLine)
          BY <1>0, <2>2, <3>2 DEF FrameInv, VisibleLines
        <4>2. QED
          BY <1>0, <2>1, <2>2, <2>3, <3>2, <4>1, DrawnOnce
      <3>3. QED
        BY <1>0, <3>1, <3>2
    <2>5. drawn' = (DrawnAbove(DrawnTo))'
      BY <2>1, <2>4 DEF DrawnAbove
    <2>6. QED
      BY <1>0, <2>1, <2>3, <2>5 DEF FrameInv, VBLANK_MODE, HBLANK_MODE
  <1>5. CASE StayInMode
    BY <1>5, FrameKept DEF StayInMode, Screen
  <1>6. QED
    BY <1>1, <1>2, <1>3, <1>4, <1>5 DEF LcdStep

(* Without LY in the program only the LCD and a reset move the screen.     *)
LEMMA ScreenMoves ==
  ASSUME "LY" \notin Program, [Next]_vars
  PROVE  \/ phase = "lcd" /\ phase' = "mmu" /\ LcdStep
         \/ Reset
         \/ UNCHANGED <<Screen, phase, lcd_entered_vblank>>
         \/ /\ UNCHANGED <<Screen, lcd_entered_vblank>>
            /\ \/ phase = "interrupts" /\ phase' = "cpu"
               \/ phase = "cpu" /\ phase' = "lcd"
               \/ phase = "mmu" /\ phase' = "timers"
               \/ phase = "timers" /\ phase' = "interrupts"
  <1>1. CpuStep => UNCHANGED <<Screen, lcd_entered_vblank>>
    <2> SUFFICES ASSUME CpuStep
                 PROVE  UNCHANGED <<Screen, lcd_entered_vblank>>
      OBVIOUS
    <2>1. CASE UNCHANGED lcdVars
      BY <2>1 DEF lcdVars, Screen
    <2>2. CASE Stop
      BY <2>2 DEF Stop, Screen, lcdVars
    <2>3. CASE \E c \in OpCycles : WriteLcd(c)
      BY <2>3 DEF WriteLcd, WriteLcdStatus, WriteNextInterruptLine, Screen
    <2>4. QED
      BY <2>1, <2>2, <2>3 DEF CpuStep, Execute, Idle, Halt, Op, SetMaster,
           WriteEnabled, ClearFlags, WriteHdma, WriteSpeedSwitch, WriteTimer
  <1>2. HandleInterrupts \/ MmuStep \/ StepTimers =>
          UNCHANGED <<Screen, lcd_entered_vblank>>
    BY DEF HandleInterrupts, MmuStep, StepTimers, lcdVars, Screen
  <1>3. UNCHANGED vars => UNCHANGED <<Screen, phase, lcd_entered_vblank>>
    BY DEF vars, lcdVars, Screen
  <1>4. QED
    BY <1>1, <1>2, <1>3 DEF Next, HandleInterrupts, CpuStep

LEMMA FrameInductive ==
  ASSUME "LY" \notin Program, IInv, FrameInv, VBlankInv, [Next]_vars
  PROVE  FrameInv' /\ VBlankInv'
  <1>1. LcdTypes
    BY TypeParts DEF IInv
  <1>2. CASE phase = "lcd" /\ phase' = "mmu" /\ LcdStep
    <2>1. FrameInv'
      BY <1>1, <1>2, LcdStepKeepsFrame
    <2>2. CASE EndHBlank
      <3>1. lcd_entered_vblank' => LcdMode' = VBLANK_MODE
        BY <2>2 DEF EndHBlank, OrComparison, VBLANK_MODE
      <3>2. QED
        BY <1>2, <2>1, <3>1 DEF VBlankInv
    <2>3. CASE ~EndHBlank
      <3>1. ~lcd_entered_vblank'
        BY <1>2, <2>3 DEF LcdStep, EndVBlank, EndOam, EndRender, StayInMode
      <3>2. QED
        BY <2>1, <3>1 DEF VBlankInv
    <2>4. QED
      BY <2>1, <2>2, <2>3
  <1>3. CASE Reset
    <2>1. /\ LcdMode' = 0 /\ CurrentLine' = 0
          /\ drawn' = NothingDrawn /\ firstFrame' = TRUE
          /\ phase' = phase /\ phase = "interrupts"
      BY <1>3 DEF Reset, HBLANK_MODE
    <2>2. (DrawnAbove(DrawnTo))' = NothingDrawn
      <3>1. DrawnTo' = 1
        BY <2>1, LinesAssumption DEF DrawnTo, VBLANK_MODE, HBLANK_MODE
      <3>2. QED
        BY <2>1, <3>1, LinesAssumption DEF DrawnAbove, NothingDrawn, VisibleLines
    <2>3. FrameInv'
      BY <2>1, <2>2, LinesAssumption DEF FrameInv, VBLANK_MODE, HBLANK_MODE
    <2>4. QED
      BY <2>1, <2>3 DEF VBlankInv
  <1>4. CASE UNCHANGED <<Screen, lcd_entered_vblank>>
             /\ ~(phase = "lcd" /\ phase' = "mmu" /\ LcdStep)
    <2>1. FrameInv' /\ UNCHANGED <<LcdMode, lcd_entered_vblank>>
      BY <1>4, FrameKept DEF Screen
    <2>2. \/ phase' = phase
          \/ phase' \in {"cpu", "lcd"}
          \/ phase \in {"mmu", "timers"} /\ phase' \in {"timers", "interrupts"}
      BY <1>4, ScreenMoves DEF Reset
    <2>3. VBlankInv'
      BY <2>1, <2>2 DEF VBlankInv
    <2>4. QED
      BY <2>1, <2>3
  <1>5. QED
    BY <1>2, <1>3, <1>4, ScreenMoves

LEMMA FrameInit ==
  Init => FrameInv /\ VBlankInv
  <1> SUFFICES ASSUME Init PROVE FrameInv /\ VBlankInv
    OBVIOUS
  <1>1. /\ LcdMode = 0 /\ CurrentLine = 0 /\ phase = "interrupts"
        /\ drawn = NothingDrawn /\ firstFrame
    BY DEF Init, HBLANK_MODE
  <1>2. DrawnTo = 1
    BY <1>1, LinesAssumption DEF DrawnTo, VBLANK_MODE, HBLANK_MODE
  <1>3. QED
    BY <1>1, <1>2, NothingAboveFirst, LinesAssumption
       DEF FrameInv, VBlankInv, VBLANK_MODE, HBLANK_MODE

(* However long the modes last and whatever the game does short of writing *)
(* LY, a V-Blank shows a frame with every line drawn once, but for line 0  *)
(* of the first frame after the start or a reset...                        *)
THEOREM FramesWhole ==
  ASSUME "LY" \notin Program
  PROVE  Spec => []FrameDrawn
  <1>1. Init => IInv /\ FrameInv /\ VBlankInv
    BY InitHolds, FrameInit
  <1>2. IInv /\ FrameInv /\ VBlankInv /\ [Next]_vars
          => (IInv /\ FrameInv /\ VBlankInv)'
    BY NextKeeps, FrameInductive
  <1>3. IInv /\ FrameInv /\ VBlankInv => FrameDrawn
    BY DEF FrameInv, VBlankInv, FrameDrawn, DrawnTo
  <1>4. QED
    BY <1>1, <1>2, <1>3, PTL DEF Spec

(* ... from top to bottom, none of them a second time.                     *)
THEOREM LinesFollow ==
  ASSUME "LY" \notin Program
  PROVE  Spec => LinesInOrder
  <1> DEFINE Follows == \A line \in VisibleLines :
                          drawn'[line] > drawn[line] => drawn = DrawnAbove(line)
  <1>1. Init => IInv /\ FrameInv /\ VBlankInv
    BY InitHolds, FrameInit
  <1>2. IInv /\ FrameInv /\ VBlankInv /\ [Next]_vars
          => (IInv /\ FrameInv /\ VBlankInv)'
    BY NextKeeps, FrameInductive
  <1>3. IInv /\ FrameInv /\ VBlankInv /\ [Next]_vars => Follows
    <2> SUFFICES ASSUME IInv, FrameInv, VBlankInv, [Next]_vars,
                        NEW line \in VisibleLines, drawn'[line] > drawn[line]
                 PROVE  drawn = DrawnAbove(line)
      OBVIOUS
    <2>1. /\ LcdTypes /\ Height \in Nat \ {0}
          /\ CurrentLine \in Nat /\ drawn \in [VisibleLines -> 0..2]
      BY TypeParts, LinesAssumption DEF IInv, LcdTypes
    <2>2. drawn[line] \in Nat
      BY <2>1
    <2>3. drawn' # drawn
      BY <2>2
    <2>4. CASE EndRender
      <3>1. /\ LcdMode = 3 /\ CurrentLine < Height
            /\ drawn' = Redrawn(CurrentLine)
        BY <2>3, <2>4 DEF EndRender, RENDER_MODE
      <3>2. line = CurrentLine
        BY <2>1, <2>2, <3>1 DEF Redrawn
      <3>3. DrawnTo = CurrentLine
        BY <2>1, <3>1 DEF DrawnTo, HBLANK_MODE, VBLANK_MODE
      <3>4. QED
        BY <3>2, <3>3 DEF FrameInv
    <2>5. CASE drawn' = NothingDrawn
      BY <2>2, <2>5 DEF NothingDrawn
    <2>6. CASE LcdStep /\ ~EndRender
      BY <2>3, <2>5, <2>6 DEF LcdStep, EndHBlank, EndVBlank, EndOam, StayInMode
    <2>7. CASE Reset
      BY <2>5, <2>7 DEF Reset
    <2>8. QED
      BY <2>3, <2>4, <2>6, <2>7, ScreenMoves DEF Screen
  <1>4. QED
    BY <1>1, <1>2, <1>3, PTL DEF Spec, LinesInOrder
=============================================================================
