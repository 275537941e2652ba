# TransferBoy in TLA+

TransferBoy is a Game Boy and Game Boy Color emulator for the Nintendo 64 that
plays the cartridge in the Transfer Pak and writes its save back. These modules
model its control: what a sequence of instructions, button releases, cartridge
changes and transfers can bring its state to. `tlc -config X.cfg M` checks
module `M`, `tlapm M.tla` its proofs; `PROJECT.json` lists the runs, what each
definition translates, and the hazards the properties are for.

## The system

One thread runs everything. `main` sets the hardware up and enters `mainLoop`
(transferboy.c), each turn of which reads the controllers if asked to, calls
the logic of the player's mode (Init, Play, Menu or Options) and paints if asked
to. In Play a turn is a single instruction of the game (`emu_step`). The other
actors are the player, the game (an arbitrary program), the cartridge, the RSP,
which draws DMG and SGB pictures, and the timer interrupt of the progress bar.
As built there is one player (`MAX_PLAYERS` is 1), no frame skipping, no double
buffering, no checksum validation, no SGB functions and no audio.

| Part | State | Operations | What makes it correct |
|---|---|---|---|
| Main loop (transferboy.c) | `RequiresRepaint`, `RequiresControllerRead`, `iterations`, `modes` | read, logic, paint | the screen shows the mode that is active; a release acts once |
| Loading (init.c) | `InitState`, messages | `initLogic` | loading ends in a game or an error; nothing of the old game is left |
| Play (play.c) | `FrameCount`, `isSRAMDirty` | `playLogic`, `resetPlayState`, `mapGbInputs` | a changed save is written, to its own cartridge |
| Menu (menu.c) | cursor, `MenuLayout` | `menuLogic`, `executeMenuItem` | the item executed is the one shown |
| Options (options.c, state.c) | buttons chosen, `ButtonMap` | `optionsLogic`, `confirmOptions` | each function on one button; what was chosen is used |
| Transfer Pak (tpakio.c) | none of its own; bank, power, MBC registers of the hardware | `importCartridge`, `exportCartridgeRam`, `toggleRumble` | each bank read or written is the bank meant |
| Memory bank controllers (mmu.c, gbc_state.c) | windows `ROM0`, `ROMX`, `SRAM`; bank registers; flags | one handler per area and controller | the windows show what the registers select, inside the memory allocated |
| CPU (cpu.c, gbz80ops.c) | registers, interrupts, HALT | `cpu_handle_interrupts`, `cpu_step`, instructions | a halted CPU wakes; interrupts have their priority |
| Timers (cpu.c) | `InternalClock`, `TIMAClock`, DIV, TIMA, installed handler | three handlers | no overflow is lost; the handler is that of the speed |
| LCD (lcd.c) | mode, line, clocks left | `lcd_step` | every line of a frame drawn once, in order, before it is shown |
| H-Blank DMA (mmu.c) | `io_hdma_running`, counter | `mmu_hdma_start`, `mmu_hdma_do` | exactly the blocks asked for are moved |
| Arithmetic (gbz80ops.c) | registers, flags, stack | one function per instruction | routines compute what they are written to, whenever interrupts come |
| SGB (superGameboy.c) | packet being received, palettes, attributes, turn of the controllers | `processSGBData`, `performSGBFunctions`, commands | a command is executed once, as it was sent, inside its memory |
| Picture units (ppu.c, rsp.c, rsp/) | memory shared with the RSP, its status flags | `ppuStep`, `ppuInit`, the RSP's main loop | each line announced is drawn, from data at least as new |
| Resources (resources.c, text.c) | sprite cache of limited size | `getFromCache`, `cacheSprite` | a sprite found is the one asked for |
| Progress bar (progressBar.c) | timer, last value | timer callback | it never waits for what it interrupts |
| Clock (rtc.c) | five registers in cartridge RAM, the times of the last latch and halt | `updateRealTimeClock`, `toggleRealTimeClock`, three handlers | time passed, and time stopped, is added once |
| EEPROM log, link cable, sound, frame counter | | | |

How they meet. `mainLoop` and the modes share `rootState`; a mode changes
another by assigning `ActiveMode`, which takes effect in the next turn, after a
last painting of the old one. The emulated memory calls handlers through tables
that `mmu_install_mbc` fills when a cartridge is loaded or reset; an instruction
may thereby start a DMA, change the speed, switch a bank, set the dirty flag or
run the rumble motor, which writes to the Transfer Pak. `emu_step` gives the
duration of the instruction to LCD, DMA and timers in this order.
`lcd_entered_hblank` drives DMA and renderer, `lcd_entered_vblank` drives
`playLogic`'s frame: read the buttons, open the menu, or else save.

What is hard is order rather than threads, of which there is only the RSP's: the
LCD, the DMA, the timers, the speed and the game's writes interleave at every
instruction; flags and buttons read in one turn are used in later ones; state
outlives resets, changes of cartridge and mode; loads and saves fail half-way
and nobody looks at the result. Numbers have the width of a byte where the
hardware's do not.

## Modules

| Module | Models | Extends |
|---|---|---|
| `Mbc` | the five memory bank controllers, their installation, reset, change of cartridge, save | |
| `MbcProofs` | proofs about it | `Mbc` |
| `EmuState` | the state `emu_step` advances | |
| `Lcd` | lcd.c's mode machine, its registers, and the H-Blank DMA | `EmuState` |
| `Timers` | cpu.c's three timer handlers and their registers | `EmuState` |
| `EmuStep` | `emu_step`: interrupts, instructions, LCD, DMA, timers; reset | `Lcd`, `Timers` |
| `EmuStepProofs` | proofs about it | `EmuStep` |
| `Session` | main loop, loading, frame level of play, menu, options, saves | |
| `SessionProofs` | proofs about it | `Session` |
| `Tpak` | the Transfer Pak's driver, access by access, and the hardware it talks to | |
| `TpakProofs` | proofs about it | `Tpak` |
| `Lru` | what a cache of the most recently used keys promises | |
| `SpriteCache` | resources.c's cache of transformed sprites, its memory | instance of `Lru` |
| `Alu` | the arithmetic of all instructions, as operators | |
| `Cpu` | fetch, execution and interrupts on a memory | `Alu` |
| `CpuProofs` | proofs about it and about the arithmetic | `Cpu` |
| `Sgb` | the receiver of SGB packets, the commands, the controllers' turns | |
| `SgbProofs` | proofs about it | `Sgb` |
| `Rtc` | the clock of an MBC3 cartridge and the handlers that reach it | |
| `RtcProofs` | proofs about it | `Rtc` |
| `Ppu` | the CPU and the RSP sharing the lines of a DMG game | |
| `DrawingProofs` | proofs about the sprites' cache, the refinement included, and about `Ppu` | `SpriteCache`, `Ppu` |
| `MCMbc`, `MCEmuStep`, `MCSession`, `MCTpak`, `MCCpu`, `MCSgb`, `MCRtc` | values of the constants for TLC | |

**Mbc.** A window pointer is the number of the bank it shows, or one of two
pages that belong to none (`disabledRAMPage`, the BIOS overlay). One action per
handler of mmu.c, enabled for the cartridges it is installed for; `Init` and
`InitialiseEmulator` are `loadCartridge`, `cpu_reset_state` and `loadBios`. The
content of cartridge RAM is `unsaved`, the set of banks the real cartridge has
no copy of. A game is any sequence of writes of the bytes its cartridge's record
lists. An MBC3's numbers are not wrapped by the code, and the model assumes an
MBC3 game names only banks it has (`Mbc3GamesAssumption`); ROM sizes that are
not powers of two, 2 kB RAMs and ROMs too large for the memory limit are outside.
`WriteBiosSwitch` is enabled while the BIOS overlay is shown: the handler has no
guard, the model assumes that only the BIOS writes FF50 (a game that does would
select ROM0 anew, which it has already).

**EmuState, Lcd, Timers, EmuStep.** `phase` says which call of `emu_step` comes
next, so that each is an action. Time is in units of four clocks, which every
duration in the code is a multiple of. The game is any sequence of the kinds of
instructions in `Program`; those that do not touch this state are `Op`, their
duration. `IsInDoubleSpeedMode` is bit 7 of a register that a DMG cartridge
starts with at FF: hence `Speed`, which all but the LCD use, and `LcdSpeed`.
`blocksAsked`, `blocksMoved`, `drawn` (how often each line was given to the
renderer in this frame) and `firstFrame` only observe. FF04 to FF07, IE and
IF have no handler or a trivial one; IF is only cleared, never set, by the game.
`Reset` comes where the menu opens, at the end of a frame.

**Session.** A turn of the loop is `ReadPhase`, `LogicPhase`, `DrawPhase`; the
player releases any set of `KeySets` between scans and swaps cartridges at any
time (`SwapCartridge`). Play is abstract: an instruction writes cartridge RAM
or does not, and the frame ends after at most `MaxIterations` turns (a frame has
fewer instructions than turns after which a scan is forced). `ram`, `unsaved`
and `foreign` stand for the contents of `Ram.Data` and of the cartridges.
`keysUsed`, `screen` and `pulled`, whether the cartridge of the game in memory was
taken out since it was loaded, observe. An import fails, whole, whenever the header
cannot be read; nothing else in it reports failure.

**Tpak.** A function of tpakio.c is a list of pieces (`ImportCartridge`,
`ExportCartridgeRam`), straight ones and loops over banks or over the clock's
counters, and a turn of a piece is the sequence of accesses it makes
(`SwitchBank`, `LatchClock`, ...), as the code orders them. `at`, `iteration` and
`step` are the program counter: the piece, the turn, the access. Each access is
a step. What the accesses do is the
hardware's part, taken from docs/TransferPakReference.md and from how the code
uses it: the pak's power, access and bank, and the registers of the controller in
the cartridge, which lose their values with the power. `tpak_init` turns the pak
on and may or may not select ROM0. A whole bank is read or written in one access.
`Lose` is an access that fails, which nobody looks at; `clean` says that none did
and the motor was not driven since the pak was last off. `romFaithful` sums up
`Rom.Data`. The cartridge is not swapped during a run of the model, and a rumble
pak in its place is left out. `Session` has import and export as whole steps.

**Lru, SpriteCache.** `Lru` is a queue of keys: asking for one moves it to the
end, or drops the first to make room. `SpriteCache` is the array with its
`Position`s, found and moved by the loops of `getFromCache` and `cacheSprite`. A
key is sheet, code and transformation together. Of the heap there is only
`intact`: whether everything freed was an allocation, which an eviction ends (see
below). What memory holds after that is not modelled; keys and positions are,
since they are in an array that is not allocated. The loop of `cacheSprite` ends only at a slot with
position 0: that there is one (`SlotToReplace`) is proved. `QueueOfKeys` is the
refinement mapping. `emptyResourceCache` leaves keys without sprites, and would
break it, but only runs behind main's endless loop and is left out.

**Alu, Cpu.** `Alu` has the value and the flags of every arithmetic instruction.
`Cpu` fetches instructions from a `Program`, executes them on registers, flags and
a flat memory, and dispatches interrupts between any two of them; STOP is in
`EmuStep`. `MCCpu` assembles eleven routines of the kind games consist of
(decimal and binary arithmetic, loops, arguments and second stacks, tables) and
states what each is to compute. `frames` observes the calls and interrupts that
have not returned. The cycles an instruction takes are not in it. `Decoded` is what
bytes can decode to by the tables of gbz80ops.h; `Disciplined` says of a program that
it keeps its stack in order, and `MCCpu` checks its routines for it
(`RoutinesRight`). Writing where there is no memory leaves it as it is.

**Sgb.** The game sends a command as pulses of the two output bits of its joypad
register, with any number of instructions in between, or reads its buttons;
`ProcessSgb` is what `playLogic` calls after each instruction. Palettes, the
palette of each tile, mask, priority and the controller whose turn it is are the
effect. `overrun` observes writes outside of the memory they are for. The code
follows a game's commands only if the game keeps to `OnePacketGame`: commands of
one packet (a stop bit is taken again as data while the register shows it), and
the buttons asked for after the directions (in the other order the chatter of
reading them makes a byte that announces no packets). The game that is checked
keeps to it. Three commands the code carries out past the memory they are for,
without looking: a line off the screen, a tile behind the last, a second block of
data. `Oversteps` says which, and the game sends all three; what the program does
afterwards depends on what lay there, and the model ends at the first such write.
Bytes behind a buffer too short for the command it holds are read as 0.

**Rtc.** `now` passes through `Moments`; registers are where
`updateRealTimeClock` reads them, and every store goes where the handler's window
points to. While RAM is disabled that is one of two pages, the one gbc_state.c
shows until the game first writes to 0000-1FFF and the one of mmu.c
(`disabledPages`, `shownPage`). `Reset` is the reset from the menu, which zeroes the
stop times. `game` observes the time an exact clock would show, the halts that
have ended and the one that goes on, and whether something happened after which
the code cannot be right (`astray`, `unseen`, see below).

**Ppu.** The number of a region is how often it changed, in the CPU's cache, in
memory and in the RSP; that of the registers also names the line. `ppuStep` is a
step for each write-back and one for the announcement; the RSP's loop a step for
each DMA and each write to its status. `Evict` is the cache writing back on its
own account, `ResetPlayState`, `PrepareMicrocode`, `RunUcode` the reset from the
menu; while `cpu` is "restart" the memory of the RSP is reloaded under the line it
may be drawing (`DmaIn`). `LOCK_CPU_TO_PPU` is off as built; the proofs cover both. Tiles are
read after their map; the first of these reads stands for all. Writes of the
game to LY are left out. GBC games do not use the RSP for their lines.

## Runs

Deadlock is checked in the runs of systems that cannot stop: not in `cpu`, whose
routines end, nor in `ppu`, whose bounds end it.

| Run | Checks | Bounds | States |
|---|---|---|---|
| `mbc` | `SramWindow`, `RomWindows`, `RamWindowAllocated`, `DirtyCoversUnsaved`, `DisabledRamKept` | ten cartridges, each size at which a handler branches; the bytes at the edges of each register | 33 000 |
| `lcd` | `ModeInTime`, `FrameDrawn`, `HdmaExact`, `HdmaProgresses` | 3 visible lines of 4, short modes, transfers of 2 blocks; STAT, LYC, KEY1, STOP, IF, reset | 510 000 |
| `clock` | `OverflowKept`, `VBlankRecurs`, `HaltEnds` | a counter of one bit, 1 visible line of 3, instructions of 1 or 2 units; HALT, EI, DI, IE, IF, TAC, DIV, KEY1, STOP, LY | 480 000 |
| `menus` | `CursorOnItem`, `ScreenCurrent`, `OneButtonEach`, `ReleasesActOnce` | one release at a time, three assignable buttons for three functions; a controller 2 that comes and goes; no save pending | 1 300 000 |
| `saves` | `DirtyWhenUnsaved`, `ExportsOwnRam`, `SaveHappens`, `LoadEnds` | two cartridges, swapped at any time, frames of at most two instructions | 420 000 |
| `tpak` | `LoadedWhole`, `SavedWhole`, `ClockOfOneMoment`, `OffBetweenTransfers` | seven cartridges, one lost access (`MaxLost`), one change of the save (`MaxAge`), three times of the clock (`MaxTime`) | 210 000 |
| `cache` | `HeapIntact`, `KeepsMostRecent` (the refinement) | three slots, five keys | 6 800 |
| `cpu` | `RoutinesRight`, `TicksCounted`, `ReturnsToCaller`, `HandlerUnnoticed` | eleven routines, operands at the edges of bytes and words, two interrupts (`MaxInterrupts`) of two kinds | 1 140 000 |
| `sgb` | `StaysInside`, `ExecutedAsSent`, `ControllersInTurn`, `TilesAsCommanded` | two commands of thirteen (`MaxCommands`), of one packet each, a reset pulse before each; three of them overstep | 160 000 |
| `rtc` | `KeepsTime`, `HaltsAddUp` | four moments that carry seconds and minutes, three latches (`MaxLatches`), one write to a clock that is not shown (`MaxBlindWrites`); a game neither property speaks of any more is not followed (`StillFollowed`) | 1 000 000 |
| `ppu` | `NoAnnouncementLost`, `NeverStale`, `LinesServed` | 2 visible lines of 3, four lines in all (`MaxLines`), two changes each of sprites and tiles (`MaxChanges`), one reset | 210 000 |

Small screens suffice because a line is special only as first, last visible,
first or last of V-Blank, or LYC; three visible lines are the fewest on which
leaving one out differs from drawing them in turn (`clock`, which is not about
lines, has one). The proofs cover the true screen. The handlers of `Mbc` branch
on sizes that the ten cartridges cover, and the proofs cover all others. A frame
of two instructions has one before and one after a write to RAM. One lost access
is enough to leave any register of pak or cartridge as it should not be when the
next transfer begins; times beyond three and saves beyond two only repeat. MBC1
is checked with its full 128 banks.

One more property, of what a comment says, does not hold: `SavesKeepTheirGame`, by
the run `internal`. The internal game is loaded with the dirty flag of the game
before it, and overwrites the save of the cartridge that is still inserted
(init.c:95; a finding in `PROJECT.json`).

Other places where the code does something else than it seems to mean are in the
models as they are in the code, without a property of their own:

- after a cartridge with a clock an MBC1 gets the clock's handler: flags are never cleared (gbc_state.c:11; `SetInfo` in `Mbc`);
- line 0 of the first frame after the start and after every reset is never drawn: the machine starts in its H-Blank with no clocks left (cpu.c:260, lcd.c:310; `firstFrame` in `EmuStep`, which `FrameDrawn` and `LinesInOrder` except);
- LY = LYC turns the OAM mode of a line into the rendering mode (lcd.c:321; `OrComparison` in `Lcd`);
- the first timer overflow makes a DMG game's timers half as fast (cpu.c:252; `ResumedHandler` in `Timers`);
- a button given to two functions ends on one; the options show both (options.c:65, state.c:37; `SetButtonToMap` in `Session`);
- a save writes the clock's registers to the latch: a time the game sets is lost (tpakio.c:440; `WriteClockRegister` in `Tpak`);
- writes while RAM is disabled change the page declared `const` (mmu.c:531; `disabledPage` in `Mbc`);
- a HALT before an opcode of duration 0 stops time (cpu.c:221; `IdleCycles` in `EmuStep`);
- lines 144 to 153 run through modes 2, 3 and 0 (lcd.c:311; `EndVBlank` in `Lcd`);
- DIV and TIMA may tick twice for one period: `&` where `%` or `-=` is meant (cpu.c:110; `Timers`);
- TIMA at 4096 Hz never counts: an 8-bit clock is compared with 1024 (types.h:619; `TimaClockMod`);
- an H-Blank DMA survives a reset (cpu.c:235; `Reset` in `EmuStep`);
- after Reset the menu closes with the release that opens it (menu.c:113; `Session`);
- after Reset, the menu's button released together with Left or Right opens the menu and paints nothing: moving sideways in one column returns early (menu.c:295; `MenuSideways` in `Session`);
- A executes another item than the one shown when controller 2 goes in the same scan (menu.c:254);
- RAM written in the menu's own frame is lost by Change cart, progress and dirty flag alike (play.c:221, menu.c:124; `DirtyWhenUnsaved` is about progress that is still in memory);
- a save is written to whatever cartridge is inserted: the player may have taken out the game's own (play.c:234), and the internal game has none (`ExportsOwnRam` excepts both); one that fails clears the dirty flag like one that succeeds (play.c:239);
- the upper bit of an MBC5's bank is written before the pak maps the register; only ROMs too large to load need it (tpakio.c:250; `SwitchUpperBits` in `Tpak`);
- a save made while the rumble motor runs finds the pak on and at ROMX: RAM is not enabled, unless `tpak_init` selects ROM0, which cannot be seen here (tpakio.c:508, 126); and a transfer after one that lost the access switching the pak off finds it as that one left it. `LoadedWhole` and `SavedWhole` speak of neither (`clean` in `Tpak`);
- a sprite that is replaced has its data freed before it, which is part of the sprite's own block (resources.c:73, 319): the heap is damaged from the first eviction on. `HeapIntact` says that it takes more different sprites than the cache has slots; the program's own texts need fewer than its 127;
- `emptyResourceCache` frees sprites and keeps their keys and positions (resources.c:360; not reached as built).

Clock (rtc.c and mmu.c's handlers, in `Rtc`):

- the time the clock was stopped is added to the time passed, not taken from it, and a latch moves a halted clock on (rtc.c:38);
- a halt that lasts over a latch is counted in full when it ends, with the part that latch counted as time passed; each latch drops what is left of a second (rtc.c:38);
- a reset forgets the halts since the last latch, and one that goes on, but not `LastRTCTicks` (gbc_state.c:77); a clock halted when it is loaded or reset, or by a byte that a latch stores over the flag, is resumed without a halt to count from: the time since the console was switched on is taken for one (rtc.c:22; `unseen` in `Rtc`);
- hours and days never carry: they are computed from registers already reduced (rtc.c:43), and the status goes over the days (rtc.c:62);
- registers are stored relative to the window: right only with bank 0 shown and RAM enabled; otherwise the time is lost, or other memory written, while `LastRTCTicks` moves on (rtc.c:62);
- a register the game sets does not restart the second that runs, and the halt bit written while RAM is disabled is compared with the page for disabled RAM (mmu.c:508).

Super Game Boy (superGameboy.c, in `Sgb`; not in the present build):

- a stop bit is pushed again as data if the register still shows it after the next instruction (superGameboy.c:482), and the reset pulse before each packet forgets the packets before: commands of several packets are never executed;
- a packet that counts 0 packets writes outside the buffer of no bytes (`OnePacketGame` excludes it), and a reset zeroes the pointer before it frees it;
- every pulse of 3 counts as a request for the next controller, those of packets too (superGameboy.c:577; `ControllersInTurn`);
- ATTR_DIV divides vertically only; ATTR_CHR ends six bytes early, and its last byte may go past the last tile; ATTR_BLK leaves out its last row's frame; ATTR_LIN writes lines outside the screen; DATA_SND compares every sixteenth block, and takes a block's size for a number of bytes and of blocks: a second block is written outside (`Oversteps`).

Picture (in `Ppu`):

- nothing makes the CPU wait: lines may be left out, sprites and tiles may be newer than the registers they are drawn with, and a line read late may be one below the screen;
- a reset clears video memory in the cache only (gbc_state.c:84): lines are drawn from what memory held until the game writes to it; the memory before it is not freed;
- a reset loads the RSP's memories without halting it (rsp.c:82): a line it is drawing loses its registers, sprites and pixels and is drawn from zeros; `NeverStale` and `NoAnnouncementLost` except it (`cpu = "restart"`);
- LCDC is tested as a whole, not its switch bit (ppuDMG.rsp:1292);
- with the lock compiled in, a reset between `BUSY_ON` and its end may leave the flag on: CPU and RSP then wait for each other; and it does not keep a line announced but not yet claimed from being replaced.

## Fairness

`EmuStep!FairSpec`: weak fairness of `Next`, since `playLogic` calls `emu_step`
for ever, and strong fairness of `TimedInstruction`, since no game consists of
HALT and STOP alone and `IdleCycles` leaves out opcodes of duration 0.
`VBlankRecurs` speaks of games that do not write LY for ever: each write starts
the frame again. `Session!FairSpec`: weak fairness of `MainLoop`, a
`while (true)`. The player is never obliged to anything; `LoadEnds` therefore
speaks of a player who stops asking for another try. `Ppu!FairSpec`: weak
fairness of the RSP's loop, which runs on a processor of its own whatever the CPU
does, and of `RunUcode`, which follows the reloading of the RSP in ppuInit with
nothing to wait for between them; the CPU is not obliged to anything else.

## Proofs

`MbcProofs`: the inductive invariant joins typing, the flags of the cartridge
and the two windows. `SramWindow` alone is not inductive: an MBC1's mode must be
ROM_SELECT on the others, whose handlers do not look at it, and the bank number
must be inside the RAM (`RamWindowAllocated`) for the size of the cartridge at
hand, which needs the assumptions on sizes. `RomWindow` rests on a lemma about
`GetMbc1RomBank` (the bank is below the size and no multiple of 32), from
`RomSizeAssumption` and the modulus. From the invariant follow `SramWindow`,
`RomWindows`, `RamWindowAllocated` and, with the dirty flag,
`DirtyCoversUnsaved`; `DisabledRamKept` is an action property.

`EmuStepProofs`: `TypeOK` is inductive only together with the HDMA's counters
(`blocksMoved` stays in a byte because it never passes `blocksAsked`), so
`HdmaExact` is part of the invariant. `ModeInTime` needs `ClksAssumption` (OAM is
not longer than rendering: a LYC coincidence turns one into the other) and the
case `LcdSpeed` changes in, `Stop`. `FrameDrawn` and `LinesInOrder` need which
lines have been drawn in each mode: those above the present one, and the present
one in H-Blank, each once (`DrawnTo`), but for line 0 of a first frame; they are
proved for programs that do not write LY (`"LY" \notin Program`), as they are false
for others. Everything holds for all
screen sizes, mode lengths, timer periods and programs the assumptions admit.

`SessionProofs`: `CursorOnItem` is inductive with the second column's row kept
below 2 (`RowInColumn`), whatever is released together. `OneButtonEach` is, since
each of the three moves of `confirmOptions` keeps it. `DirtyWhenUnsaved` and
`ExportsOwnRam` need `OwnRam`: unless its cartridge was pulled since, a game is
loaded only while that cartridge is inserted and its RAM in memory. `ScreenCurrent` needs to know who ran
before the active mode, that a mode left behind is painted over (`Cleared`), that
the columns are those of the controllers present, and what happens after Reset,
which alone leaves the menu with its cursor on an item (`CursorKept`): buttons are
not read between the game's opening the menu and the menu's closing again. It is
proved for players who release one button at a time (`OneRelease`), and is false
for others (see the list under Runs). `ReleasesActOnce` needs the controller to be read
before another mode's logic runs (`KeysFresh`).

`DrawingProofs`, of the cache: positions of the slots in use are the numbers from
`Size - InUse` on, each once; that is inductive with typing and the request being
answered. The refinement maps `getFromCache` and `cacheSprite` to steps of `Lru`,
for every size up to 127 (a position is a signed byte). `HeapIntact` follows
because the keys in the slots are among those asked for and all different
(`SeenCovers`): a slot with a sprite is replaced only when all are full, with a key
that is one more than they hold (`ReplacedWhenFull`).

`CpuProofs`, of `Alu`: DAA after ADC and SBC is right for all decimal bytes, by
the cases of its two corrections; CP leaves the flags of SUB; every operation
makes a byte or a word, and flags that are bits, of any operands. Of `Cpu`, for
every program, memory and set of interrupts the assumptions admit: `Ranges` is
inductive as long as there is an instruction to execute and memory where it reads
(`Mapped`), which a machine with both at every address always has
(`WholeMachine`: `TypeCorrect`, `PushedIsPopped`, the latter also where the stack
pointer wraps). `CallsReturn` proves `ReturnsToCaller` for programs that are
`Disciplined` in every state: they have room to push, keep the pointer below the
last return address, write over none, and return with the pointer where the call
left it. The invariant `StackHolds` says that memory holds the return address of
every frame and that frames do not overlap. The hypothesis leaves open which
instructions a routine executes, which stack it uses and when interrupts come;
without it the property is false (a routine may pop its return address), and the
routines of `MCCpu`, one with a second stack among them, satisfy it.

`RtcProofs`: typing needs the time of the last latch and halt to be among the
moments passed. `HaltsAddUp` is inductive by itself but for that: a halt is told of
when it begins, by a write the window shows, and grows with the time since
(`History`, `HaltsBegin`); `Reset`, latches and writes keep it unless they are among
those `unseen` names.
`KeepsTime` (`TimeKept`) is inductive once a latch is known to find the clock
running and the number of latches to be a number. Its step is arithmetic: what
`updateRealTimeClock` carries from seconds to minutes changes the time of the
hour by whole hours only (`CarryKeepsSeconds`), and the division by 1000 drops
less than a second for each latch.

`TpakProofs`: `CleanInv` says, for a transfer that has lost no access, what its
accesses have reached before each of them: power and access (`OpeningAt`), the
bank of the pak and the registers a bank is selected with (`RomAt`, `RamAt`,
`ReadClockAt`), the latch (`LatchAt`), and by loops the banks and counters that
are already in their places. It is inductive only because a transfer finds the
cartridge as at power on (`Fresh`): `switchBank` clears no mode and no upper bits
that a bank before it did not set. That in turn needs that a function which turns
the pak on turns it off again with its last access, that the one that does not (a
rumble that begins) is not clean, and that a header is turned down before any
bank was selected (`RejectsAtFirst`). That the registers then show the bank meant
(`RomXShown`, `Rom0Shown`, `RamShown`) is arithmetic for each controller, from
the assumption that a controller can select its cartridge's banks. The lists of
accesses are made with `\o` and `Append`; the lemmas `Joined11` to `Joined61` say
what they are. All hold for every set of cartridges and any number of lost
accesses.

`SgbProofs`: typing is inductive once a request in a mode for several players is
known to be resolved exactly while the register is 3 (`Resolving`), which is also
why a controller has one turn for each pulse (with `FirstAlone`, and only a MLT_REQ
changing the players, `OnlyMltReqSetsPlayers`), and once a bit still pending while
the register is 3 is known to be that of a stop bit (`Listening`). These, and the first colour shared by all
palettes, hold for every game. `ExecutedAsSent` is proved for `OnePacketGame`:
`PacketInv` follows the bits of the command pulse by pulse (`Following`: those
received are those sent, in buffer and byte), and what reading the buttons looks
like in between (`Chattering`: bits that are all 1 announce seven packets, and
the first never has its stop bit). `StaysInside` and `TilesAsCommanded` follow for
the same games by what each command's loops write (`CommandsOverstep`,
`LineOnScreen`); the last line through a tile exists because a set of numbers that
is not empty has a least element (`LeastNatural`).

`DrawingProofs`, of `Ppu`: the invariant follows the newest data: what `ppuStep` has written
back (`WrittenBack`), that everything announced is in memory (`InMemory`), and
what the RSP has copied of the line it claimed (`Copied`), except while its memory
is reloaded. `NoAnnouncementLost` needs that a claim made while the flag stays down
is the last announcement; `NeverStale` that clean video memory is as new as the
game wrote it.

Only model-checked: what the routines that `MCCpu` assembles compute
(`RoutinesRight`, `TicksCounted`) and that its handlers restore the registers
(`HandlerUnnoticed`), which are about those programs and bounded by
`MaxInterrupts`; `SavesKeepTheirGame`, which fails; and every liveness property
(`HdmaProgresses`, `VBlankRecurs`, `HaltEnds`, `SaveHappens`, `LoadEnds`,
`LinesServed`). Outside the prover's reach: liveness under fairness, `ENABLED`, and
what a recursive definition computes for all inputs.

## Not modelled

Pixels and layout (lcd_render_current_line, applySGBPalettes, text.c, screen.c,
the rest of the RSP's assembly), sound (stubs), the progress bar (whether its
timer can wait for the buffer it interrupts is libdragon's to say), the link
cable (compiled in for two players only), the EEPROM log, debug displays,
libdragon, set-up. Memory areas other than cartridge and the registers above.
How `Mbc`, `Session` and `Tpak` work together on one save: each has the part of
it that the others take for granted (the dirty flag, when it is written, how),
not their composition. Vendored and generated code (`transferboy.mips`).
