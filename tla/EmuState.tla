---------------------------- MODULE EmuState ----------------------------
(***************************************************************************)
(* The part of GbState that emu_step (emu.c) advances: interrupts, the LCD *)
(* mode machine, the GBC's H-Blank DMA and the timers.  The modules Lcd,   *)
(* Timers and EmuStep hold the actions; this one holds their common state. *)
(*                                                                         *)
(* Time is counted in units of four clocks, which every duration in the    *)
(* code is a multiple of.  The program's constants, in these units, are    *)
(* given beside each CONSTANT.                                             *)
(***************************************************************************)
EXTENDS Integers

CONSTANTS
  IsGbcSupported,  (* Cartridge.IsGbcSupported *)
  Height,          (* GB_LCD_HEIGHT: 144 visible lines *)
  LyMax,           (* GB_LCD_LY_MAX: 153 *)
  ModeClks,        (* GB_LCD_MODE_x_CLKS: 0 :> 51, 1 :> 1140, 2 :> 20, 3 :> 43 *)
  HdmaBlockClks,   (* GB_HDMA_BLOCK_CLKS: 2 *)
  DivTick,         (* GB_DIV_CYCLES_PER_TICK: 64 *)
  TimaTick,        (* GB_TIMA_CYCLES_PER_TICK: 0 :> 256, 1 :> 4, 2 :> 16, 3 :> 64 *)
  InternalMod,     (* InternalClock is a u16: 16384 *)
  TimaClockMod,    (* TIMAClock is a u8: 64 *)
  FirstClock,      (* InternalClock at reset, 0xABCC: 10995 *)
  CounterMod       (* TimerClock and TimerCounter are bytes: 256 *)

ASSUME LinesAssumption == Height \in Nat \ {0} /\ LyMax \in Nat /\ Height <= LyMax

(* Reading OAM is shorter than rendering: an OAM mode that turns into a    *)
(* rendering mode half-way still fits.                                     *)
ASSUME ClksAssumption ==
  /\ ModeClks \in [0..3 -> Nat \ {0}]
  /\ ModeClks[2] <= ModeClks[3]
  /\ HdmaBlockClks \in Nat

ASSUME TimersAssumption ==
  /\ DivTick \in Nat \ {0} /\ TimaTick \in [0..3 -> Nat \ {0}]
  /\ InternalMod \in Nat \ {0} /\ TimaClockMod \in Nat \ {0}
  /\ CounterMod \in Nat \ {0} /\ FirstClock \in 0..InternalMod - 1

ASSUME GbcAssumption == IsGbcSupported \in BOOLEAN

VARIABLES
  phase,                      (* which part of emu_step comes next *)
  last_op_cycles,
  interrupts_master_enabled,
  InterruptSwitch,            (* interrupt numbers enabled in IE *)
  InterruptFlags,             (* interrupt numbers requested in IF *)
  halt_for_interrupts,
  idleCycles,                 (* while halted: what the next instruction costs *)
  LcdMode,                    (* the two low bits of LcdStatus *)
  StatSelect,                 (* bits 3 to 6 of LcdStatus: STAT interrupts *)
  CurrentLine, NextInterruptLine,
  io_lcd_mode_cycles_left,
  lcd_entered_hblank, lcd_entered_vblank,
  drawn,                      (* how often each line was given to the renderer
                                 since the last V-Blank ended; 2: or more *)
  firstFrame,                 (* no V-Blank has ended since start or reset *)
  io_hdma_running, GbcHdmaControl,
  blocksAsked, blocksMoved,   (* of the last H-Blank DMA; 0 once cancelled *)
  IsInDoubleSpeedMode, IsSpeedSwitchPending,
  TimersStep,                 (* the installed timer handler *)
  InternalClock, TIMAClock,
  TimerClock, TimerCounter, TimerResetValue, TimerControl

interruptVars == <<interrupts_master_enabled, InterruptSwitch,
                   halt_for_interrupts, idleCycles>>
lcdVars == <<LcdMode, StatSelect, CurrentLine, NextInterruptLine,
             io_lcd_mode_cycles_left, lcd_entered_hblank, lcd_entered_vblank,
             drawn, firstFrame>>
hdmaVars == <<io_hdma_running, GbcHdmaControl, blocksAsked, blocksMoved>>
speedVars == <<IsInDoubleSpeedMode, IsSpeedSwitchPending>>
timerVars == <<TimersStep, InternalClock, TIMAClock, TimerClock, TimerCounter,
               TimerResetValue, TimerControl>>
vars == <<phase, last_op_cycles, InterruptFlags, interruptVars, lcdVars,
          hdmaVars, speedVars, timerVars>>

(* The interrupts, by the number of their bit.                             *)
VBLANK == 0
STAT == 1
TIMER == 2
Interrupts == 0..4

Phases == {"interrupts", "cpu", "lcd", "mmu", "timers"}
Handlers == {"timersStep", "timersStepDouble", "timersStepPendingInterrupt"}

VisibleLines == 0..Height - 1
NothingDrawn == [line \in VisibleLines |-> 0]

(* IsInDoubleSpeedMode is bit 7 of GBCSpeedSwitch, which a DMG cartridge   *)
(* starts with at 0xFF; only GBC cartridges have a second speed.           *)
Speed == IF IsInDoubleSpeedMode THEN 2 ELSE 1
LcdSpeed == IF IsInDoubleSpeedMode /\ IsGbcSupported THEN 2 ELSE 1
=============================================================================
