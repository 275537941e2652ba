---------------------------- MODULE MCEmuStep ----------------------------
(***************************************************************************)
(* Small screens and timers to check EmuStep with.  Every kind of line is  *)
(* there: visible or not, and the last of each.                            *)
(***************************************************************************)
EXTENDS EmuStep

Map4(a, b, c, d) == [i \in 0..3 |->
  IF i = 0 THEN a ELSE IF i = 1 THEN b ELSE IF i = 2 THEN c ELSE d]

TinyModeClks == Map4(1, 1, 1, 1)
SmallModeClks == Map4(2, 3, 1, 2)
SmallTimaTick == Map4(16, 1, 2, 4)
TrueTimaTick == Map4(256, 4, 16, 64)

(* All that touches the LCD and its DMA; all that touches the clocks and   *)
(* may stop them.                                                          *)
LcdProgram == {"op", "STAT", "LYC", "KEY1", "stop", "IF", "reset", "HDMA"}
ClockProgram == {"op", "halt", "ei", "di", "IE", "IF", "timers", "DIV",
                 "KEY1", "stop", "LY"}

OneOrTwo == {1, 2}
One == {1}

NoBits == {{}}
SomeBits == {{}, {StatOam, StatHBlank}, {StatVBlank, StatLyc}}
LycLines == {1, 5}
NoBlocks == {}
FewBlocks == {2}
SomeEnables == {{VBLANK}, {VBLANK, TIMER}}
NoTimers == {}
TwoTimers == {<<0, 1, 5>>, <<1, 0, 5>>}
=============================================================================
