----------------------------- MODULE EmuStep -----------------------------
(***************************************************************************)
(* emu_step of emu.c: one instruction of the game at a time, between the   *)
(* dispatch of interrupts and the steps of the LCD, the DMA and the timers.*)
(* The game is any sequence of the instructions in Program: those that     *)
(* touch the state of EmuState, and "op" for all the others.               *)
(***************************************************************************)
EXTENDS Lcd, Timers

CONSTANTS
  Program,       (* the kinds of instructions the game uses *)
  OpCycles,      (* what instructions other than HALT and STOP cost *)
  IdleCycles,    (* what the instruction after a HALT may cost *)
  StatChoices,   (* what the game selects in FF41 *)
  Lines,         (* what it writes to FF45 *)
  HdmaBlocks,    (* lengths of its DMAs, in blocks *)
  EnableChoices, (* what it writes to FFFF *)
  TimerChoices   (* what it writes to FF05-FF07: <<TIMA, TMA, TAC>> *)

ProgramKinds == {"op", "halt", "stop", "ei", "di", "IE", "IF", "STAT", "LY",
                 "LYC", "HDMA", "KEY1", "DIV", "timers", "reset"}

ASSUME ProgramAssumption ==
  /\ Program \subseteq ProgramKinds
  /\ OpCycles \subseteq 1..6 /\ OpCycles # {}
  /\ IdleCycles \subseteq 0..6
  /\ StatChoices \subseteq SUBSET StatBits
  /\ Lines \subseteq 0..255
  /\ HdmaBlocks \subseteq 1..128
  /\ EnableChoices \subseteq SUBSET Interrupts
  /\ TimerChoices \subseteq (0..CounterMod - 1) \X (0..CounterMod - 1) \X (0..7)

-----------------------------------------------------------------------------
Pending == InterruptSwitch \cap InterruptFlags

(* The lowest bit has priority.                                            *)
First(S) == CHOOSE i \in S : \A j \in S : i <= j

TakeInterrupt ==
  /\ interrupts_master_enabled /\ Pending # {}
  /\ interrupts_master_enabled' = FALSE
  /\ InterruptFlags' = InterruptFlags \ {First(Pending)}
  /\ halt_for_interrupts' = FALSE /\ idleCycles' = 0
  /\ UNCHANGED InterruptSwitch

(* Mutant: only an interrupt that is taken ends a HALT.                    *)
WakeUpNever ==
  /\ ~interrupts_master_enabled /\ Pending # {}
  /\ UNCHANGED <<interruptVars, InterruptFlags>>

WakeUp ==
  /\ ~interrupts_master_enabled /\ Pending # {}
  /\ halt_for_interrupts' = FALSE /\ idleCycles' = 0
  /\ UNCHANGED <<interrupts_master_enabled, InterruptSwitch, InterruptFlags>>

NoInterrupt ==
  /\ Pending = {}
  /\ UNCHANGED <<interruptVars, InterruptFlags>>

HandleInterrupts ==
  /\ phase = "interrupts" /\ phase' = "cpu"
  /\ TakeInterrupt \/ WakeUp \/ NoInterrupt
  /\ UNCHANGED <<last_op_cycles, lcdVars, hdmaVars, speedVars, timerVars>>

-----------------------------------------------------------------------------
(* A halted CPU looks at the next instruction, and lets the time pass that *)
(* it would take.                                                          *)
Idle ==
  /\ halt_for_interrupts
  /\ last_op_cycles' = idleCycles
  /\ UNCHANGED <<InterruptFlags, interruptVars, lcdVars, hdmaVars, speedVars,
                 timerVars>>

Op(c) ==
  /\ last_op_cycles' = c
  /\ UNCHANGED <<InterruptFlags, interruptVars, lcdVars, hdmaVars, speedVars,
                 timerVars>>

(* The table gives HALT and STOP no cycles.                                *)
Halt(next) ==
  /\ last_op_cycles' = 0
  /\ halt_for_interrupts' = TRUE /\ idleCycles' = next
  /\ UNCHANGED <<interrupts_master_enabled, InterruptSwitch, InterruptFlags,
                 lcdVars, hdmaVars, speedVars, timerVars>>

(* stop: on a GBC cartridge with a switch pending, change speed in the     *)
(* middle of an LCD mode.                                                  *)
SwitchesSpeed == IsSpeedSwitchPending /\ IsGbcSupported

(* Mutants: a pending overflow is forgotten; the mode keeps its clocks.    *)
SpeedHandlerForgetful(double) ==
  IF double THEN "timersStepDouble" ELSE "timersStep"
RescaledClocksKept == io_lcd_mode_cycles_left

SpeedHandler(double) ==
  IF TimersStep = "timersStepPendingInterrupt" THEN TimersStep
  ELSE IF double THEN "timersStepDouble" ELSE "timersStep"

RescaledClocks ==
  IF IsInDoubleSpeedMode THEN io_lcd_mode_cycles_left \div 2
                         ELSE io_lcd_mode_cycles_left * 2

Stop ==
  /\ last_op_cycles' = 0
  /\ IF SwitchesSpeed
     THEN /\ IsInDoubleSpeedMode' = ~IsInDoubleSpeedMode
          /\ IsSpeedSwitchPending' = FALSE
          /\ TimersStep' = SpeedHandler(~IsInDoubleSpeedMode)
          /\ io_lcd_mode_cycles_left' = RescaledClocks
     ELSE UNCHANGED <<speedVars, TimersStep, io_lcd_mode_cycles_left>>
  /\ UNCHANGED <<InterruptFlags, interruptVars, LcdMode, StatSelect,
                 CurrentLine, NextInterruptLine, lcd_entered_hblank,
                 lcd_entered_vblank, drawn, firstFrame, hdmaVars,
                 InternalClock, TIMAClock, TimerClock, TimerCounter,
                 TimerResetValue, TimerControl>>

(* ei and reti, and di.                                                    *)
SetMaster(b, c) ==
  /\ last_op_cycles' = c
  /\ interrupts_master_enabled' = b
  /\ UNCHANGED <<InterruptSwitch, halt_for_interrupts, idleCycles,
                 InterruptFlags, lcdVars, hdmaVars, speedVars, timerVars>>

WriteEnabled(S, c) ==
  /\ last_op_cycles' = c
  /\ InterruptSwitch' = S
  /\ UNCHANGED <<interrupts_master_enabled, halt_for_interrupts, idleCycles,
                 InterruptFlags, lcdVars, hdmaVars, speedVars, timerVars>>

ClearFlags(c) ==
  /\ last_op_cycles' = c
  /\ InterruptFlags' = {}
  /\ UNCHANGED <<interruptVars, lcdVars, hdmaVars, speedVars, timerVars>>

WriteLcd(c) ==
  /\ last_op_cycles' = c
  /\ \/ "STAT" \in Program /\ \E bits \in StatChoices : WriteLcdStatus(bits)
     \/ "LY" \in Program /\ WriteCurrentLine
     \/ "LYC" \in Program /\ \E line \in Lines : WriteNextInterruptLine(line)
  /\ UNCHANGED <<InterruptFlags, interruptVars, hdmaVars, speedVars, timerVars>>

WriteHdma(c) ==
  /\ "HDMA" \in Program
  /\ \E blocks \in HdmaBlocks : WriteGeneralDma(blocks, c)
                                  \/ WriteHBlankDma(blocks, c)
  /\ UNCHANGED <<InterruptFlags, interruptVars, lcdVars, speedVars, timerVars>>

WriteSpeedSwitch(c) ==
  /\ "KEY1" \in Program
  /\ last_op_cycles' = c
  /\ IsSpeedSwitchPending' \in BOOLEAN
  /\ UNCHANGED <<IsInDoubleSpeedMode, InterruptFlags, interruptVars, lcdVars,
                 hdmaVars, timerVars>>

WriteTimer(c) ==
  /\ last_op_cycles' = c
  /\ \/ "DIV" \in Program /\ WriteDiv
     \/ "timers" \in Program /\ \E t \in TimerChoices :
                                  WriteTimers(t[1], t[2], t[3])
  /\ UNCHANGED <<InterruptFlags, interruptVars, lcdVars, hdmaVars, speedVars>>

Execute ==
  /\ ~halt_for_interrupts
  /\ \/ "halt" \in Program /\ \E next \in IdleCycles : Halt(next)
     \/ "stop" \in Program /\ Stop
     \/ \E c \in OpCycles :
          \/ "op" \in Program /\ Op(c)
          \/ "ei" \in Program /\ SetMaster(TRUE, c)
          \/ "di" \in Program /\ SetMaster(FALSE, c)
          \/ "IE" \in Program /\ \E S \in EnableChoices : WriteEnabled(S, c)
          \/ "IF" \in Program /\ ClearFlags(c)
          \/ WriteLcd(c) \/ WriteHdma(c) \/ WriteSpeedSwitch(c) \/ WriteTimer(c)

CpuStep ==
  /\ phase = "cpu" /\ phase' = "lcd"
  /\ Idle \/ Execute

-----------------------------------------------------------------------------
(* cpu_reset_state, from the menu, which opens at the end of a frame.      *)
(* What it does not mention stays.                                         *)
Reset ==
  /\ "reset" \in Program
  /\ phase = "interrupts" /\ lcd_entered_vblank
  /\ interrupts_master_enabled' = TRUE
  /\ InterruptSwitch' = {} /\ InterruptFlags' = {}
  /\ halt_for_interrupts' = FALSE /\ idleCycles' = 0
  /\ LcdMode' = HBLANK_MODE /\ StatSelect' = {}
  /\ CurrentLine' = 0 /\ NextInterruptLine' = 0
  /\ io_lcd_mode_cycles_left' = 0
  /\ drawn' = NothingDrawn /\ firstFrame' = TRUE
  /\ IsInDoubleSpeedMode' = ~IsGbcSupported
  /\ IsSpeedSwitchPending' = ~IsGbcSupported
  /\ TimersStep' = "timersStep"
  /\ InternalClock' = FirstClock /\ TIMAClock' = 0
  /\ TimerClock' = 0 /\ TimerCounter' = 0
  /\ TimerResetValue' = 0 /\ TimerControl' = 0
  /\ UNCHANGED <<phase, last_op_cycles, lcd_entered_hblank, lcd_entered_vblank,
                 hdmaVars>>

Init ==
  /\ phase = "interrupts" /\ last_op_cycles = 0
  /\ interrupts_master_enabled = TRUE
  /\ InterruptSwitch = {} /\ InterruptFlags = {}
  /\ halt_for_interrupts = FALSE /\ idleCycles = 0
  /\ LcdMode = HBLANK_MODE /\ StatSelect = {}
  /\ CurrentLine = 0 /\ NextInterruptLine = 0
  /\ io_lcd_mode_cycles_left = 0
  /\ drawn = NothingDrawn /\ firstFrame = TRUE
  /\ lcd_entered_hblank = FALSE /\ lcd_entered_vblank = FALSE
  /\ io_hdma_running = FALSE /\ GbcHdmaControl = 0
  /\ blocksAsked = 0 /\ blocksMoved = 0
  /\ IsInDoubleSpeedMode = ~IsGbcSupported
  /\ IsSpeedSwitchPending = ~IsGbcSupported
  /\ TimersStep = "timersStep"
  /\ InternalClock = FirstClock /\ TIMAClock = 0
  /\ TimerClock = 0 /\ TimerCounter = 0
  /\ TimerResetValue = 0 /\ TimerControl = 0

Next ==
  \/ HandleInterrupts
  \/ CpuStep
  \/ phase = "lcd" /\ phase' = "mmu" /\ LcdStep
  \/ phase = "mmu" /\ phase' = "timers" /\ MmuStep
  \/ phase = "timers" /\ phase' = "interrupts" /\ StepTimers
  \/ Reset

Spec == Init /\ [][Next]_vars

(* playLogic calls emu_step for ever, and no game consists of HALT and     *)
(* STOP alone: an instruction that takes time is executed again and again. *)
TimedInstruction == CpuStep /\ last_op_cycles' > 0

Fairness == WF_vars(Next) /\ SF_vars(TimedInstruction)

FairSpec == Spec /\ Fairness

-----------------------------------------------------------------------------
(***************************************************************************)
(* Properties.                                                             *)
(***************************************************************************)

(* Every variable of the clocked state stays in its range.                 *)
TypeOK ==
  /\ phase \in Phases /\ last_op_cycles \in Nat
  /\ interrupts_master_enabled \in BOOLEAN
  /\ InterruptSwitch \subseteq Interrupts /\ InterruptFlags \subseteq Interrupts
  /\ halt_for_interrupts \in BOOLEAN /\ idleCycles \in 0..6
  /\ LcdMode \in 0..3 /\ StatSelect \subseteq StatBits
  /\ CurrentLine \in 0..LyMax /\ NextInterruptLine \in 0..255
  /\ io_lcd_mode_cycles_left \in Int
  /\ lcd_entered_hblank \in BOOLEAN /\ lcd_entered_vblank \in BOOLEAN
  /\ drawn \in [VisibleLines -> 0..2] /\ firstFrame \in BOOLEAN
  /\ io_hdma_running \in BOOLEAN /\ GbcHdmaControl \in 0..255
  /\ blocksAsked \in 0..128 /\ blocksMoved \in 0..128
  /\ IsInDoubleSpeedMode \in BOOLEAN /\ IsSpeedSwitchPending \in BOOLEAN
  /\ TimersStep \in Handlers
  /\ InternalClock \in Nat /\ TIMAClock \in Nat
  /\ TimerClock \in 0..CounterMod - 1 /\ TimerCounter \in 0..CounterMod - 1
  /\ TimerResetValue \in 0..CounterMod - 1 /\ TimerControl \in 0..7

(* The clocks left in the present mode are never negative and never more   *)
(* than the mode has at the present speed, although STOP rescales them in  *)
(* the middle of a mode and a coincidence of LY and LYC turns an OAM mode  *)
(* into a rendering one.                                                   *)
ModeInTime ==
  /\ io_lcd_mode_cycles_left >= 0
  /\ io_lcd_mode_cycles_left <= ModeClks[LcdMode] * LcdSpeed

(* All lines above this one drawn once, this one and those below not yet.  *)
(* The first frame after the start or a reset has no line 0: both begin in *)
(* the H-Blank of line 0, with no clocks left of it.                       *)
DrawnAbove(line) ==
  [l \in VisibleLines |-> IF l < line /\ ~(firstFrame /\ l = 0) THEN 1 ELSE 0]

(* A line is given to the renderer when all those above it have been drawn *)
(* in this frame, each once, and neither it nor one below it has, unless   *)
(* the game writes LY.                                                     *)
LinesInOrder ==
  [][\A line \in VisibleLines :
       drawn'[line] > drawn[line] => drawn = DrawnAbove(line)]_vars

(* When V-Blank is entered, which is when the frame is shown, every line   *)
(* of it has been drawn once, unless the game writes LY; of the first      *)
(* frame after the start or a reset, every line but line 0.                *)
FrameDrawn ==
  lcd_entered_vblank /\ phase \in {"mmu", "timers"} =>
    drawn = DrawnAbove(Height)

(* An H-Blank DMA that was not cancelled moves exactly the blocks asked    *)
(* for: the counter in FF55 and the blocks moved always add up, and it     *)
(* stops when, and only when, none is left.                                *)
HdmaExact ==
  IF io_hdma_running THEN blocksMoved + GbcHdmaControl + 1 = blocksAsked
                     ELSE blocksMoved = blocksAsked

(* On a GBC cartridge the installed timer handler is the one of the        *)
(* present speed, through speed switches, overflows and resets.            *)
HandlerOfSpeed ==
  IsGbcSupported /\ TimersStep # "timersStepPendingInterrupt" =>
    TimersStep = IF IsInDoubleSpeedMode THEN "timersStepDouble"
                                        ELSE "timersStep"

(* A timer overflow is not lost: its handler stays installed until the     *)
(* interrupt is requested, even when the speed is switched in between.     *)
OverflowKept ==
  [][TimersStep = "timersStepPendingInterrupt" =>
       \/ TimersStep' = "timersStepPendingInterrupt"
       \/ TIMER \in InterruptFlags'
       \/ Reset]_vars

(* V-Blank, where playLogic reads the controller and saves, comes again    *)
(* and again, unless the game writes LY again and again.                   *)
VBlankRecurs ==
  <>[][phase = "cpu" => UNCHANGED CurrentLine]_vars => []<>lcd_entered_vblank

(* "Don't run instructions until interrupt": a CPU halted with the V-Blank *)
(* interrupt enabled runs again.                                           *)
HaltEnds ==
  halt_for_interrupts /\ VBLANK \in InterruptSwitch ~> ~halt_for_interrupts

(* An H-Blank DMA does not hang: some H-Blank moves a block of it, unless  *)
(* it is cancelled.                                                        *)
HdmaProgresses == io_hdma_running ~> (~io_hdma_running \/ blocksMoved > 0)
=============================================================================
