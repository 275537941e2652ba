------------------------------- MODULE Lcd -------------------------------
(***************************************************************************)
(* lcd.c: the mode machine of the LCD, the interrupts it requests and the  *)
(* lines it hands to the renderer; and the part of mmu.c it drives, the    *)
(* GBC's H-Blank DMA, with the registers of both.                          *)
(***************************************************************************)
EXTENDS EmuState

HBLANK_MODE == 0
VBLANK_MODE == 1
OAM_MODE == 2
RENDER_MODE == 3

(* Bits of LcdStatus that select a STAT interrupt.                         *)
StatHBlank == 3
StatVBlank == 4
StatOam == 5
StatLyc == 6
StatBits == StatHBlank..StatLyc

(* "We switched mode, trigger interrupt if requested."                     *)
StatInterrupt(mode) ==
  IF \/ mode = OAM_MODE /\ StatOam \in StatSelect
     \/ mode = VBLANK_MODE /\ StatVBlank \in StatSelect
     \/ mode = HBLANK_MODE /\ StatHBlank \in StatSelect
  THEN {STAT} ELSE {}

LycInterrupt(line) ==
  IF line = NextInterruptLine /\ StatLyc \in StatSelect THEN {STAT} ELSE {}

(* The comparison of LY and LYC is or-ed into LcdStatus without being      *)
(* shifted to its bit: it lands on the mode.                               *)
OrComparison(mode, line) ==
  IF line = NextInterruptLine /\ mode % 2 = 0 THEN mode + 1 ELSE mode

NextLine == (CurrentLine + 1) % (LyMax + 1)

(* Mutants: V-Blank comes a line early; it waits for a line past the last. *)
LastVisibleLineEarly == NextLine = Height - 1
LastVisibleLinePast == CurrentLine = LyMax + 1

LastVisibleLine == CurrentLine = Height - 1

(* A mode is entered with all its clocks, whatever the last one overran.   *)
Enter(mode) == io_lcd_mode_cycles_left' = ModeClks[mode] * LcdSpeed

(* H-Blank ends: V-Blank after the last visible line, else the next line.  *)
EndHBlank ==
  LET mode == IF LastVisibleLine THEN VBLANK_MODE ELSE OAM_MODE
  IN /\ LcdMode = HBLANK_MODE
     /\ Enter(mode)
     /\ LcdMode' = OrComparison(mode, NextLine)
     /\ CurrentLine' = NextLine
     /\ lcd_entered_vblank' = LastVisibleLine
     /\ lcd_entered_hblank' = FALSE
     /\ InterruptFlags' = InterruptFlags \cup LycInterrupt(NextLine)
                            \cup StatInterrupt(LcdMode')
                            \cup (IF LastVisibleLine THEN {VBLANK} ELSE {})
     /\ UNCHANGED <<drawn, firstFrame>>

EndVBlank ==
  /\ LcdMode = VBLANK_MODE
  /\ Enter(OAM_MODE)
  /\ LcdMode' = OAM_MODE
  /\ InterruptFlags' = InterruptFlags \cup StatInterrupt(OAM_MODE)
  /\ lcd_entered_hblank' = FALSE /\ lcd_entered_vblank' = FALSE
  /\ drawn' = NothingDrawn /\ firstFrame' = FALSE
  /\ UNCHANGED CurrentLine

EndOam ==
  /\ LcdMode = OAM_MODE
  /\ Enter(RENDER_MODE)
  /\ LcdMode' = RENDER_MODE
  /\ lcd_entered_hblank' = FALSE /\ lcd_entered_vblank' = FALSE
  /\ UNCHANGED <<InterruptFlags, CurrentLine, drawn, firstFrame>>

(* Mutant: the H-Blank is not announced to the DMA.                        *)
EndRenderUnannounced ==
  /\ LcdMode = RENDER_MODE
  /\ Enter(HBLANK_MODE)
  /\ LcdMode' = HBLANK_MODE
  /\ InterruptFlags' = InterruptFlags \cup StatInterrupt(HBLANK_MODE)
  /\ lcd_entered_hblank' = FALSE /\ lcd_entered_vblank' = FALSE
  /\ UNCHANGED <<CurrentLine, drawn, firstFrame>>

(* drawn after line was given to the renderer once more.                   *)
Redrawn(line) == [drawn EXCEPT ![line] = IF @ = 0 THEN 1 ELSE 2]

(* The line is drawn when its H-Blank begins: lcd_render_current_line on a *)
(* GBC cartridge, ppuStep on a DMG one; neither draws past the screen.     *)
EndRender ==
  /\ LcdMode = RENDER_MODE
  /\ Enter(HBLANK_MODE)
  /\ LcdMode' = HBLANK_MODE
  /\ InterruptFlags' = InterruptFlags \cup StatInterrupt(HBLANK_MODE)
  /\ lcd_entered_hblank' = TRUE /\ lcd_entered_vblank' = FALSE
  /\ drawn' = IF CurrentLine < Height THEN Redrawn(CurrentLine) ELSE drawn
  /\ UNCHANGED <<CurrentLine, firstFrame>>

StayInMode ==
  /\ io_lcd_mode_cycles_left' = io_lcd_mode_cycles_left - last_op_cycles
  /\ lcd_entered_hblank' = FALSE /\ lcd_entered_vblank' = FALSE
  /\ UNCHANGED <<LcdMode, CurrentLine, drawn, firstFrame, InterruptFlags>>

LcdStep ==
  /\ IF io_lcd_mode_cycles_left - last_op_cycles < 0
     THEN EndHBlank \/ EndVBlank \/ EndOam \/ EndRender
     ELSE StayInMode
  /\ UNCHANGED <<StatSelect, NextInterruptLine, last_op_cycles, interruptVars,
                 hdmaVars, speedVars, timerVars>>

(* FF41, FF44, FF45.                                                       *)
WriteLcdStatus(bits) ==
  /\ StatSelect' = bits
  /\ UNCHANGED <<LcdMode, CurrentLine, NextInterruptLine,
                 io_lcd_mode_cycles_left, lcd_entered_hblank,
                 lcd_entered_vblank, drawn, firstFrame>>

WriteCurrentLine ==
  /\ CurrentLine' = 0
  /\ UNCHANGED <<LcdMode, StatSelect, NextInterruptLine,
                 io_lcd_mode_cycles_left, lcd_entered_hblank,
                 lcd_entered_vblank, drawn, firstFrame>>

WriteNextInterruptLine(line) ==
  /\ NextInterruptLine' = line
  /\ UNCHANGED <<LcdMode, StatSelect, CurrentLine, io_lcd_mode_cycles_left,
                 lcd_entered_hblank, lcd_entered_vblank, drawn, firstFrame>>

-----------------------------------------------------------------------------
(* Mutant: the transfer ends when the counter reaches 0, one block early.  *)
HdmaDoEarly(control, moved) ==
  /\ GbcHdmaControl' = (control - 1) % 256
  /\ io_hdma_running' = (control > 1)
  /\ blocksMoved' = moved + 1

(* mmu_hdma_do: one block; an underflow of the counter ends the transfer.  *)
(* control and moved are the counters before the block.                    *)
HdmaDo(control, moved) ==
  /\ GbcHdmaControl' = (control - 1) % 256
  /\ io_hdma_running' = (control # 0)
  /\ blocksMoved' = moved + 1

HdmaDone == 255

(* FF55 with bit 7 clear: cancel a running transfer, else copy everything  *)
(* at once, for a price.                                                   *)
WriteGeneralDma(blocks, cost) ==
  /\ IF io_hdma_running
     THEN /\ last_op_cycles' = cost
          /\ io_hdma_running' = FALSE
          /\ blocksAsked' = 0 /\ blocksMoved' = 0
     ELSE /\ last_op_cycles' = cost + blocks * HdmaBlockClks * Speed
          /\ UNCHANGED <<io_hdma_running, blocksAsked, blocksMoved>>
  /\ GbcHdmaControl' = HdmaDone

(* FF55 with bit 7 set: one block for each H-Blank, beginning with the     *)
(* present one.                                                            *)
WriteHBlankDma(blocks, cost) ==
  /\ blocksAsked' = blocks
  /\ IF LcdMode = HBLANK_MODE
     THEN /\ HdmaDo(blocks - 1, 0)
          /\ last_op_cycles' = cost + HdmaBlockClks * Speed
     ELSE /\ io_hdma_running' = TRUE
          /\ GbcHdmaControl' = blocks - 1
          /\ blocksMoved' = 0
          /\ last_op_cycles' = cost

MmuStep ==
  /\ IF lcd_entered_hblank /\ io_hdma_running
     THEN /\ HdmaDo(GbcHdmaControl, blocksMoved)
          /\ last_op_cycles' = last_op_cycles + HdmaBlockClks * Speed
          /\ UNCHANGED blocksAsked
     ELSE UNCHANGED <<hdmaVars, last_op_cycles>>
  /\ UNCHANGED <<InterruptFlags, interruptVars, lcdVars, speedVars, timerVars>>
=============================================================================
