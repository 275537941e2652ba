------------------------------- MODULE Mbc -------------------------------
(***************************************************************************)
(* The Memory Bank Controllers of mmu.c: what a game's writes to the       *)
(* cartridge area (0000-7FFF) and to cartridge RAM (A000-BFFF) do to the   *)
(* three window pointers ROM0, ROMX and SRAM and to the registers behind   *)
(* them, from the moment a cartridge is loaded (gbc_state.c, cpu.c) and    *)
(* across resets and changes of cartridge.                                 *)
(*                                                                         *)
(* A pointer is modelled by the number of the bank it shows, or by one of  *)
(* two pages that belong to no bank.  The content of Ram.Data is reduced   *)
(* to the set of its banks that differ from the save held by the real      *)
(* cartridge.                                                              *)
(***************************************************************************)
EXTENDS Integers

CONSTANTS
  Carts,   (* The cartridges that may be loaded: records of CartType.      *)
  Bytes,   (* What games write to the enable, mode and latch registers.    *)
  HasBios  (* Whether /bios.bin is on the N64 cartridge's file system.     *)

(***************************************************************************)
(* sram, rtc and rumble are the flags of the header's cartridge type;      *)
(* romWrites and ramWrites are the bytes the game writes to its bank       *)
(* registers; RamCells is the number of 8 kB banks allocated at Ram.Data.  *)
(***************************************************************************)
MbcTypes == {"ROM_ONLY", "MBC1", "MBC2", "MBC3", "MBC5"}
Byte == 0..255

CartType ==
  [Type : MbcTypes, RomBankCount : Nat, RamBankCount : {0, 1, 4, 8, 16},
   RamCells : Nat, sram : BOOLEAN, rtc : BOOLEAN, rumble : BOOLEAN,
   romWrites : SUBSET Byte, ramWrites : SUBSET Byte]

ASSUME CartsAssumption ==
  /\ Carts \subseteq CartType
  /\ Bytes \subseteq Byte
  /\ HasBios \in BOOLEAN

(* Header codes 0 to 6.  Larger ROMs do not pass the memory limit of       *)
(* getCartridgeMetadata, which keeps three times their size free.          *)
RomSizes == {2, 4, 8, 16, 32, 64, 128}

ASSUME RomSizeAssumption == \A c \in Carts : c.RomBankCount \in RomSizes

(* importCartridgeRam allocates every bank the header names, at least one  *)
(* when there is RAM, and thirteen when there is a clock; an MBC1 has at   *)
(* most four banks and reports none or one or four; only MBC3s have clocks.*)
ASSUME RamSizeAssumption ==
  \A c \in Carts :
    /\ c.sram => c.RamBankCount >= 1
    /\ c.RamCells = IF c.rtc THEN 13 ELSE c.RamBankCount
    /\ c.Type = "MBC1" => c.RamBankCount <= 4
    /\ c.rtc => c.Type = "MBC3" /\ c.RamBankCount <= 8
    /\ c.Type \in {"MBC2", "ROM_ONLY"} => c.RamBankCount <= 1

(* mbc3writeRom23 and mbc3writeRom45 do not wrap a number around the size  *)
(* of the cartridge: an MBC3 game names only banks and clock registers     *)
(* that its cartridge has.                                                 *)
ASSUME Mbc3GamesAssumption ==
  \A c \in Carts : c.Type = "MBC3" =>
    /\ \A v \in c.romWrites : v % 128 < c.RomBankCount
    /\ \A v \in c.ramWrites : v < c.RamCells

VARIABLES
  cart,           (* s->Cartridge *)
  hasSRAM, hasRTC, hasRumble,
  inBios,         (* s->in_bios, ROM0 shows the BIOS overlay *)
  ROM0, ROMX,     (* ROM banks shown at 0000-3FFF and 4000-7FFF *)
  SRAM,           (* RAM bank shown at A000-BFFF *)
  isSRAMDisabled, SRAMBankNumber, RomBankLower, RomBankUpper,
  RomRamSelect,   (* MBC1 banking mode: ROM_SELECT 0 or SRAM_SELECT 1 *)
  isRTCLatched,   (* the last byte written to the clock latch, as a flag *)
  IsRumbling,
  isSRAMDirty,    (* "write battery-backed RAM periodically when dirty" *)
  unsaved,        (* banks of Ram.Data the real cartridge has no copy of *)
  disabledPage    (* what disabledRAMPage holds: its fill, or a game's byte *)

flags == <<cart, hasSRAM, hasRTC, hasRumble>>
romRegs == <<RomBankLower, RomBankUpper, ROMX>>
ramRegs == <<isSRAMDisabled, SRAMBankNumber, SRAM>>
clockVars == <<isRTCLatched, IsRumbling>>
saveVars == <<isSRAMDirty, unsaved, disabledPage>>
vars == <<flags, inBios, ROM0, romRegs, ramRegs, RomRamSelect, clockVars,
          saveVars>>

ROM_SELECT == 0
SRAM_SELECT == 1
DisabledPage == -1     \* disabledRAMPage
BiosPage == -2         \* the BIOS laid over a copy of bank 0

-----------------------------------------------------------------------------
(* setInfo only ever sets the flags: the flags of the previous cartridge   *)
(* stay.                                                                   *)
SetInfo(c) ==
  /\ hasSRAM' = (hasSRAM \/ c.sram)
  /\ hasRTC' = (hasRTC \/ c.rtc)
  /\ hasRumble' = (hasRumble \/ c.rumble)

(* initialiseEmulator: loadCartridge, cpu_reset_state and loadBios.        *)
InitialiseEmulator ==
  /\ inBios' = HasBios
  /\ ROM0' = IF HasBios THEN BiosPage ELSE 0
  /\ ROMX' = 1
  /\ SRAM' = DisabledPage
  /\ isSRAMDisabled' = TRUE
  /\ SRAMBankNumber' = 0
  /\ RomBankLower' = 1
  /\ RomBankUpper' = 0
  /\ RomRamSelect' = ROM_SELECT

Init ==
  /\ cart \in Carts
  /\ hasSRAM = cart.sram /\ hasRTC = cart.rtc /\ hasRumble = cart.rumble
  /\ inBios = HasBios
  /\ ROM0 = IF HasBios THEN BiosPage ELSE 0
  /\ ROMX = 1
  /\ SRAM = DisabledPage
  /\ isSRAMDisabled = TRUE
  /\ SRAMBankNumber = 0
  /\ RomBankLower = 1
  /\ RomBankUpper = 0
  /\ RomRamSelect = ROM_SELECT
  /\ isRTCLatched = FALSE
  /\ IsRumbling = FALSE
  /\ isSRAMDirty = FALSE
  /\ unsaved = {}
  /\ disabledPage = "fill"

(* Change cart in the menu, then importCartridge of another cartridge.     *)
(* Nothing but the cartridge record and its memory is replaced.            *)
LoadCartridge(c) ==
  /\ cart' = c
  /\ SetInfo(c)
  /\ InitialiseEmulator
  /\ unsaved' = {}
  /\ UNCHANGED <<clockVars, isSRAMDirty, disabledPage>>

(* Reset in the menu: the same cartridge again, its RAM kept.              *)
Reset ==
  /\ cart' = cart
  /\ SetInfo(cart)
  /\ InitialiseEmulator
  /\ UNCHANGED <<clockVars, saveVars>>

(* FF50, written by the BIOS when it hands over to the game.  The handler  *)
(* has no guard: inBios is the assumption that no game writes FF50 itself. *)
WriteBiosSwitch ==
  /\ inBios
  /\ inBios' = FALSE
  /\ ROM0' = 0
  /\ UNCHANGED <<flags, romRegs, ramRegs, RomRamSelect, clockVars, saveVars>>

-----------------------------------------------------------------------------
(* 0000-1FFF (on MBC2 the even pages up to 3FFF): enable or disable RAM.   *)
(* A nibble other than 0 and A does nothing.                               *)
SetSramEnable(v, shownBank) ==
  /\ \/ /\ v % 16 = 0
        /\ isSRAMDisabled' = TRUE
        /\ SRAM' = DisabledPage
     \/ /\ v % 16 = 10
        /\ isSRAMDisabled' = FALSE
        /\ SRAM' = shownBank
  /\ UNCHANGED <<flags, inBios, ROM0, romRegs, SRAMBankNumber, RomRamSelect,
                 clockVars, saveVars>>

WriteRom01(v) ==
  /\ cart.Type # "MBC1"
  /\ SetSramEnable(v, SRAMBankNumber)

(* Mutant: an MBC1 forgets its banking mode when RAM is enabled.           *)
Mbc1WriteRom01Modeless(v) ==
  /\ cart.Type = "MBC1"
  /\ SetSramEnable(v, SRAMBankNumber)

Mbc1WriteRom01(v) ==
  /\ cart.Type = "MBC1"
  /\ SetSramEnable(v, IF RomRamSelect = SRAM_SELECT THEN SRAMBankNumber ELSE 0)

(* Mutant: only bank 0 is translated, not 20, 40 and 60.                   *)
GetMbc1RomBankZeroOnly(lower, upper, bankCount) ==
  LET bank == upper * 32 + lower
  IN (IF bank = 0 THEN 1 ELSE bank) % bankCount

(* The MBC1 translation of its two registers: a bank that is a multiple of *)
(* 32 becomes the next one, then the number wraps around the ROM's size.   *)
GetMbc1RomBank(lower, upper, bankCount) ==
  LET bank == upper * 32 + lower
  IN (IF bank \in {0, 32, 64, 96} THEN bank + 1 ELSE bank) % bankCount

Mbc1WriteRom23(v) ==
  LET bank == GetMbc1RomBank(v % 32, RomBankUpper, cart.RomBankCount)
  IN /\ cart.Type = "MBC1"
     /\ RomBankLower' = bank % 32
     /\ ROMX' = bank
     /\ UNCHANGED <<flags, inBios, ROM0, RomBankUpper, ramRegs, RomRamSelect,
                    clockVars, saveVars>>

(* The low nibble, 0 meaning 1, wrapped around the ROM's size.             *)
Mbc2WriteRom0123(v) ==
  LET low == IF v % 16 = 0 THEN 1 ELSE v % 16
      bank == low % cart.RomBankCount
  IN /\ cart.Type = "MBC2"
     /\ RomBankLower' = bank
     /\ ROMX' = bank
     /\ UNCHANGED <<flags, inBios, ROM0, RomBankUpper, ramRegs, RomRamSelect,
                    clockVars, saveVars>>

Mbc3WriteRom23(v) ==
  /\ cart.Type = "MBC3"
  /\ RomBankLower' = v % 128
  /\ ROMX' = IF v % 128 = 0 THEN 1 ELSE v % 128
  /\ UNCHANGED <<flags, inBios, ROM0, RomBankUpper, ramRegs, RomRamSelect,
                 clockVars, saveVars>>

(* mbc5switchRomBank assembles nine bits in a byte: the upper one is lost. *)
Mbc5RomBank(lower, upper) == ((upper * 256 + lower) % 256) % cart.RomBankCount

Mbc5WriteRom2(v) ==
  /\ cart.Type = "MBC5"
  /\ RomBankLower' = v
  /\ ROMX' = Mbc5RomBank(v, RomBankUpper)
  /\ UNCHANGED <<flags, inBios, ROM0, RomBankUpper, ramRegs, RomRamSelect,
                 clockVars, saveVars>>

Mbc5WriteRom3(v) ==
  /\ cart.Type = "MBC5"
  /\ RomBankUpper' = v % 2
  /\ ROMX' = Mbc5RomBank(RomBankLower, v % 2)
  /\ UNCHANGED <<flags, inBios, ROM0, RomBankLower, ramRegs, RomRamSelect,
                 clockVars, saveVars>>

-----------------------------------------------------------------------------
(* 4000-5FFF on an MBC1: two bits that are at once the upper ROM bank (on  *)
(* cartridges large enough, in either mode), the RAM bank (with more than  *)
(* one), and in RAM mode the bank of ROM0 on the largest cartridges.       *)
Mbc1WriteRom45(v) ==
  LET bits == v % 4
      bank == GetMbc1RomBank(RomBankLower, bits, cart.RomBankCount)
      ramMode == RomRamSelect = SRAM_SELECT
  IN /\ cart.Type = "MBC1"
     /\ IF cart.RomBankCount > 31
        THEN RomBankUpper' = bank \div 32 /\ ROMX' = bank
        ELSE UNCHANGED <<RomBankUpper, ROMX>>
     /\ SRAMBankNumber' = IF cart.RamBankCount > 1 THEN bits
                                                   ELSE SRAMBankNumber
     /\ ROM0' = IF ~ramMode THEN 0
                ELSE IF cart.RomBankCount > 32
                     THEN (bits * 32) % cart.RomBankCount ELSE ROM0
     /\ SRAM' = IF ramMode /\ ~isSRAMDisabled THEN SRAMBankNumber' ELSE SRAM
     /\ UNCHANGED <<flags, inBios, RomBankLower, isSRAMDisabled, RomRamSelect,
                    clockVars, saveVars>>

(* Selecting a RAM bank on MBC3 and MBC5 moves the window only when RAM is *)
(* enabled.                                                                *)
SelectRamBank(bank) ==
  /\ SRAMBankNumber' = bank
  /\ SRAM' = IF isSRAMDisabled THEN SRAM ELSE bank
  /\ UNCHANGED <<flags, inBios, ROM0, romRegs, isSRAMDisabled, RomRamSelect,
                 isRTCLatched, saveVars>>

Mbc3WriteRom45(v) ==
  /\ cart.Type = "MBC3"
  /\ SelectRamBank(v)
  /\ UNCHANGED IsRumbling

(* Mutant: the RAM bank is not wrapped around the RAM's size.              *)
Mbc5RamBankUnwrapped(v) == v % 16

(* RamBankCount - 1 is used as a mask; it is all ones when there are none. *)
Mbc5RamBank(v) ==
  IF cart.RamBankCount = 0 THEN v % 16 ELSE (v % 16) % cart.RamBankCount

(* mbc5writeRom45, or mbc5rumbleWriteRom45 on a cartridge with a motor:    *)
(* bit 3 drives the motor and stays part of the bank number.               *)
Mbc5WriteRom45(v) ==
  /\ cart.Type = "MBC5"
  /\ SelectRamBank(Mbc5RamBank(v))
  /\ IsRumbling' = IF hasRumble THEN (v \div 8) % 2 = 1 ELSE IsRumbling

(* Mutant: the window moves while RAM is disabled.                         *)
Mbc1WriteRom67WhileDisabled(v) ==
  LET mode == v % 2
  IN /\ cart.Type = "MBC1" /\ ~hasRTC
     /\ RomRamSelect' = mode
     /\ SRAM' = IF mode = ROM_SELECT THEN 0 ELSE SRAMBankNumber
     /\ ROM0' = IF mode = ROM_SELECT THEN 0 ELSE ROM0
     /\ UNCHANGED <<flags, inBios, romRegs, isSRAMDisabled, SRAMBankNumber,
                    clockVars, saveVars>>

(* 6000-7FFF: the banking mode of an MBC1.  ROM0 returns to bank 0 when    *)
(* ROM mode is entered and is left where it is when RAM mode is.           *)
Mbc1WriteRom67(v) ==
  LET mode == v % 2
  IN /\ cart.Type = "MBC1" /\ ~hasRTC
     /\ RomRamSelect' = mode
     /\ SRAM' = IF isSRAMDisabled THEN SRAM
                ELSE IF mode = ROM_SELECT THEN 0 ELSE SRAMBankNumber
     /\ ROM0' = IF mode = ROM_SELECT THEN 0 ELSE ROM0
     /\ UNCHANGED <<flags, inBios, romRegs, isSRAMDisabled, SRAMBankNumber,
                    clockVars, saveVars>>

(* 6000-7FFF when there is a clock, whatever the controller.  A rise from  *)
(* unlatched to 1 runs updateRealTimeClock, which fails unless thirteen    *)
(* banks are allocated and else writes its registers relative to the       *)
(* window, not to Ram.Data (four of them: the status goes over the days).  *)
ClockRegisters == 8..11

HasRTCWriteRom67(v) ==
  /\ hasRTC
  /\ isRTCLatched' = (v # 0)
  /\ unsaved' =
       IF ~isRTCLatched /\ v = 1 /\ cart.RamCells >= 13 /\ ~isSRAMDisabled
       THEN unsaved \cup ({SRAM + r : r \in ClockRegisters}
                            \cap 0..cart.RamCells - 1)
       ELSE unsaved
  /\ UNCHANGED <<flags, inBios, ROM0, romRegs, ramRegs, RomRamSelect,
                 IsRumbling, isSRAMDirty, disabledPage>>

-----------------------------------------------------------------------------
(* A000-BFFF: writeSRAM, mbc2writeSRAM or hasRTCwriteSRAM, each of which   *)
(* writes where the window points, disabled page included, and marks the   *)
(* save dirty either way.                                                  *)
WriteSRAM ==
  /\ hasSRAM \/ hasRTC
  /\ isSRAMDirty' = TRUE
  /\ IF SRAM = DisabledPage
     THEN disabledPage' = "game" /\ UNCHANGED unsaved
     ELSE /\ unsaved' = unsaved \cup ({SRAM} \cap 0..cart.RamCells - 1)
          /\ UNCHANGED disabledPage
  /\ UNCHANGED <<flags, inBios, ROM0, romRegs, ramRegs, RomRamSelect, clockVars>>

(* Mutant: only the bank in the window is saved.                           *)
SaveShownBank ==
  /\ isSRAMDirty
  /\ isSRAMDirty' = FALSE
  /\ unsaved' = unsaved \ {SRAM}
  /\ UNCHANGED <<flags, inBios, ROM0, romRegs, ramRegs, RomRamSelect, clockVars,
                 disabledPage>>

(* playLogic, at the end of a frame: exportCartridgeRam writes the RAM     *)
(* banks of the header back to the real cartridge.  The clock's registers  *)
(* take another path and are not modelled here.                            *)
SaveToCartridge ==
  /\ isSRAMDirty
  /\ isSRAMDirty' = FALSE
  /\ unsaved' = unsaved \ (0..cart.RamBankCount - 1)
  /\ UNCHANGED <<flags, inBios, ROM0, romRegs, ramRegs, RomRamSelect, clockVars,
                 disabledPage>>

(* The game runs once the BIOS is gone.                                    *)
GameStep ==
  /\ ~inBios
  /\ \/ \E v \in Bytes : \/ WriteRom01(v)
                         \/ Mbc1WriteRom01(v)
                         \/ Mbc1WriteRom67(v)
                         \/ HasRTCWriteRom67(v)
     \/ \E v \in cart.romWrites : \/ Mbc1WriteRom23(v)
                                  \/ Mbc2WriteRom0123(v)
                                  \/ Mbc3WriteRom23(v)
                                  \/ Mbc5WriteRom2(v)
                                  \/ Mbc5WriteRom3(v)
     \/ \E v \in cart.ramWrites : \/ Mbc1WriteRom45(v)
                                  \/ Mbc3WriteRom45(v)
                                  \/ Mbc5WriteRom45(v)
     \/ WriteSRAM

Next ==
  \/ \E c \in Carts : LoadCartridge(c)
  \/ Reset
  \/ WriteBiosSwitch
  \/ GameStep
  \/ SaveToCartridge

Spec == Init /\ [][Next]_vars

-----------------------------------------------------------------------------
(***************************************************************************)
(* Properties.                                                             *)
(***************************************************************************)

(* Every variable of the memory controller stays in its range.             *)
TypeOK ==
  /\ cart \in Carts
  /\ hasSRAM \in BOOLEAN /\ hasRTC \in BOOLEAN /\ hasRumble \in BOOLEAN
  /\ inBios \in BOOLEAN
  /\ ROM0 \in Nat \cup {BiosPage}
  /\ ROMX \in Nat
  /\ SRAM \in Byte \cup {DisabledPage}
  /\ isSRAMDisabled \in BOOLEAN
  /\ SRAMBankNumber \in Byte
  /\ RomBankLower \in Byte
  /\ RomBankUpper \in Byte
  /\ RomRamSelect \in {ROM_SELECT, SRAM_SELECT}
  /\ isRTCLatched \in BOOLEAN /\ IsRumbling \in BOOLEAN
  /\ isSRAMDirty \in BOOLEAN
  /\ unsaved \subseteq Nat
  /\ disabledPage \in {"fill", "game"}

(* The RAM window always shows what the enable flag, the banking mode and  *)
(* the bank number together select, although no handler recomputes it from *)
(* all three: each one updates the pointer for its own register only.      *)
SramWindow ==
  SRAM = IF isSRAMDisabled THEN DisabledPage
         ELSE IF cart.Type = "MBC1" /\ RomRamSelect = ROM_SELECT THEN 0
              ELSE SRAMBankNumber

(* The switchable ROM window stays inside the ROM, and on an MBC1 of at    *)
(* least 32 banks it never shows banks 00, 20, 40 or 60 and agrees with    *)
(* the two registers the next write combines.                              *)
RomWindow ==
  /\ ROMX < cart.RomBankCount
  /\ cart.Type = "MBC1" => RomBankLower = ROMX % 32
  /\ cart.Type = "MBC1" /\ cart.RomBankCount >= 32 =>
       RomBankLower # 0 /\ RomBankUpper = ROMX \div 32

(* "Switches current ROMX bank of an mbc5 cartridge based on RomBankLower  *)
(* and RomBankUpper registers": although the number is assembled in a byte *)
(* that has no room for the upper register, the window shows the bank the  *)
(* two registers name.                                                     *)
Mbc5BankFromBothRegisters ==
  cart.Type = "MBC5" =>
    ROMX = (RomBankUpper * 256 + RomBankLower) % cart.RomBankCount

(* Once the BIOS is gone the fixed window stays inside the ROM, shows bank *)
(* 0 except on a large MBC1 in RAM mode, and even there only 20, 40 or 60. *)
Rom0Window ==
  IF inBios THEN ROM0 = BiosPage
  ELSE /\ ROM0 >= 0 /\ ROM0 < cart.RomBankCount /\ ROM0 % 32 = 0
       /\ ROM0 # 0 => /\ cart.Type = "MBC1" /\ cart.RomBankCount > 32
                      /\ RomRamSelect = SRAM_SELECT

(* Both ROM windows show what the registers select and nothing outside the *)
(* ROM, through every order of writes to the registers.                    *)
RomWindows == RomWindow /\ Rom0Window /\ Mbc5BankFromBothRegisters

(* Whenever the game can reach cartridge RAM through the window, the bank  *)
(* it shows was allocated, provided the installed flags are those of this  *)
(* cartridge.                                                              *)
RamWindowAllocated ==
  /\ ~isSRAMDisabled
  /\ hasSRAM = cart.sram /\ hasRTC = cart.rtc
  /\ hasSRAM \/ hasRTC
  => SRAM < cart.RamCells

(* A RAM bank the real cartridge has no copy of is always announced by the *)
(* dirty flag, so that the next frame saves it, provided no clock handler  *)
(* of an earlier cartridge is installed.                                   *)
DirtyCoversUnsaved ==
  hasRTC = cart.rtc /\ unsaved \cap 0..cart.RamBankCount - 1 # {} =>
    isSRAMDirty

(* While RAM is disabled no step of the game changes cartridge RAM.        *)
DisabledRamKept ==
  [][isSRAMDisabled => unsaved' \subseteq unsaved]_vars
=============================================================================
