-------------------------------- MODULE Tpak --------------------------------
(***************************************************************************)
(* tpakio.c: the driver of the Transfer Pak.  A function of the driver is  *)
(* straight pieces and loops over banks, each a list of accesses to the    *)
(* controller port; here they are carried out one by one, against the      *)
(* pak's registers and those of the memory bank controller in the          *)
(* cartridge.  Nobody looks at the result of an access, and any of them    *)
(* may be lost.                                                            *)
(***************************************************************************)
EXTENDS Integers, Sequences

CONSTANTS
  Cartridges,  \* records of Type, RomBankCount, RamBankCount, clock, rumble
  MaxLost,     \* bound on the accesses that are lost
  MaxTime,     \* bound on the time the cartridge's clock shows
  MaxAge       \* bound on how often the game changes its save

Types == {"ROM_ONLY", "MBC1", "MBC2", "MBC3", "MBC5"}

(* getNumberOfRomBanks and getNumberOfRamBanks; getCartridgeMetadata turns *)
(* down what does not fit three times into 8 MB.                           *)
ASSUME CartridgesAssumption ==
  \A c \in Cartridges :
    /\ c.Type \in Types
    /\ c.RomBankCount \in {2, 4, 8, 16, 32, 64, 72, 80, 96, 128}
    /\ c.RamBankCount \in {0, 1, 4, 8, 16}
    /\ c.clock \in BOOLEAN /\ c.rumble \in BOOLEAN

(* Only cartridge types with an MBC3 have a clock, with an MBC5 a motor,   *)
(* and none has more banks than its controller can select: external.       *)
ASSUME SelectableAssumption ==
  \A c \in Cartridges :
    /\ c.clock => c.Type = "MBC3"
    /\ c.rumble => c.Type = "MBC5" /\ c.RamBankCount <= 8
    /\ c.Type = "ROM_ONLY" => c.RomBankCount = 2 /\ c.RamBankCount <= 1
    /\ c.Type = "MBC1" => c.RamBankCount <= 4
    /\ c.Type = "MBC2" => c.RomBankCount <= 16 /\ c.RamBankCount = 1
    /\ c.Type = "MBC3" => c.RamBankCount <= 8

ASSUME BoundsAssumption ==
  MaxLost \in Nat /\ MaxTime \in Nat /\ MaxAge \in Nat

VARIABLES
  \* the pak and what is in it
  cartridge,
  power, access, tpakBank,  \* the pak's own three registers
  mbc,                      \* the last byte written to each register
  clock, latched,           \* the five counters, and their latched copy
  cartRam,                  \* what each bank of cartridge RAM holds
  \* the console
  Ram,                      \* Cartridge.Ram.Data, by banks and clock counters
  romFaithful,              \* Rom.Data holds bank b where bank b belongs
  loaded, IsRumbling,
  age,                      \* how often the game has changed its save
  \* the driver
  transfer, at,             \* the function being executed, its present piece
  iteration, step,          \* the turn of that piece's loop, its next access
  lost,
  clean,   \* no access lost, and no motor driven, since the pak was last off
  since    \* the time when the transfer began

pakVars == <<power, access, tpakBank, mbc>>
cartVars == <<clock, latched, cartRam>>
gameVars == <<Ram, romFaithful, loaded, IsRumbling, age>>
driverVars == <<transfer, at, iteration, step>>
vars == <<cartridge, pakVars, cartVars, gameVars, driverVars, lost, clean,
          since>>

-----------------------------------------------------------------------------
(* Addresses of the pak, and of the Game Boy.                              *)
CARTRIDGE_POWER_ADDRESS == 32768       \* 8000
TPAK_BANK_ADDRESS == 40960             \* A000
TPAK_STATUS_ADDRESS == 45056           \* B000
ROM_ADDRESS_OFFSET == 49152            \* C000
CARTRIDGE_POWER_ON == 132
CARTRIDGE_POWER_OFF == 254
TPAK_STATUS_ACCESS_ON == 1

ROM0 == 0
ROMX == 1
SRAM == 2

ENABLE_GB_RAM_ADDRESS == 0
ENABLE_GB_RAM == 10
GB_ROM_BANK_ADDRESS == 8448            \* 2100
GB_UPPER_ROM_BANK_ADDRESS == 12288     \* 3000
GB_RAM_BANK_ADDRESS == 16384           \* 4000
GB_BANK_MODE_ADDRESS == 24576          \* 6000
GB_RTC_LATCH_ADDRESS == 24576
SRAM_ADDRESS == 40960                  \* A000
GB_ROM_BANK_MODE == 0
GB_RAM_BANK_MODE == 1

RUMBLE_START == 8
RUMBLE_STOP == 0

ClockRegisters == 8..12

(* Where the pak shows an address of the Game Boy's first 48 kB, if the    *)
(* bank with that address is selected.                                     *)
MapAddress(address) == ROM_ADDRESS_OFFSET + (address % 16384)

(* The accesses: setting a value, reading a bank of ROM or RAM, writing a  *)
(* bank of RAM, and the two calls of libdragon.                            *)
SetTpakValue(address, value) ==
  [access |-> "set", address |-> address, value |-> value]
ReadRom(bank) ==
  [access |-> "readRom", address |-> ROM_ADDRESS_OFFSET, value |-> bank]
ReadRam(bank) ==
  [access |-> "readRam", address |-> MapAddress(SRAM_ADDRESS), value |-> bank]
WriteRam(bank) ==
  [access |-> "writeRam", address |-> MapAddress(SRAM_ADDRESS), value |-> bank]
Call(function) == [access |-> function, address |-> 0, value |-> 0]

Select(bank) == SetTpakValue(TPAK_BANK_ADDRESS, bank)
Poke(address, value) == SetTpakValue(MapAddress(address), value)
LightsOff == SetTpakValue(CARTRIDGE_POWER_ADDRESS, CARTRIDGE_POWER_OFF)
LightsOn == <<SetTpakValue(CARTRIDGE_POWER_ADDRESS, CARTRIDGE_POWER_ON),
              SetTpakValue(TPAK_STATUS_ADDRESS, TPAK_STATUS_ACCESS_ON)>>

OnlyIf(condition, accesses) == IF condition THEN accesses ELSE <<>>

-----------------------------------------------------------------------------
(* The functions of the driver.                                            *)

(* The value written to enable RAM reaches the cartridge only if the pak's *)
(* bank is ROM0 by then.                                                   *)
InitialiseTPak ==
  LightsOn \o <<Call("tpak_init"), Poke(ENABLE_GB_RAM_ADDRESS, ENABLE_GB_RAM)>>

(* Mutant: RAM mode is not set.                                            *)
SwitchROM0BankModeless(bank) ==
  <<Select(ROMX), Poke(GB_RAM_BANK_ADDRESS, bank \div 32), Select(ROM0)>>

(* Banks 20, 40 and 60 of an MBC1 show up in ROM0, in RAM mode.            *)
SwitchROM0Bank(bank) ==
  <<Select(ROMX), Poke(GB_BANK_MODE_ADDRESS, GB_RAM_BANK_MODE),
    Poke(GB_RAM_BANK_ADDRESS, bank \div 32), Select(ROM0)>>

LowBanks(type) ==  \* the mask of the lower bits, and 1
  CASE type = "MBC1" -> 32
    [] type = "MBC2" -> 16
    [] type = "MBC3" -> 128
    [] type = "MBC5" -> 256
    [] type = "ROM_ONLY" -> 1

SwitchUpperBits(bank, type) ==
  OnlyIf(type = "MBC1",
    <<Select(ROMX)>>
      \o OnlyIf(bank >= 32, <<Poke(GB_BANK_MODE_ADDRESS, GB_ROM_BANK_MODE)>>)
      \o <<Poke(GB_RAM_BANK_ADDRESS, (bank \div 32) % 4)>>)
  \o OnlyIf(type = "MBC5",
    <<Poke(GB_UPPER_ROM_BANK_ADDRESS, (bank \div 256) % 2)>>)

SwitchBank(bank, type) ==
  IF bank = 0 THEN <<Select(ROM0)>>
  ELSE IF type = "MBC1" /\ bank \in {32, 64, 96}
  THEN <<Select(ROMX)>> \o SwitchROM0Bank(bank)
  ELSE SwitchUpperBits(bank, type)
         \o <<Select(ROM0),
              Poke(GB_ROM_BANK_ADDRESS, bank % LowBanks(type)),
              Select(ROMX)>>

(* Mutant: the pak is not switched to where the register is.               *)
SwitchRamBankUnmapped(bank, type) ==
  OnlyIf(type = "MBC1" /\ bank > 0,
         <<Poke(GB_BANK_MODE_ADDRESS, GB_RAM_BANK_MODE)>>)
  \o <<Poke(GB_RAM_BANK_ADDRESS, bank), Select(SRAM)>>

SwitchRamBank(bank, type) ==
  <<Select(ROMX)>>
  \o OnlyIf(type = "MBC1" /\ bank > 0,
            <<Poke(GB_BANK_MODE_ADDRESS, GB_RAM_BANK_MODE)>>)
  \o <<Poke(GB_RAM_BANK_ADDRESS, bank), Select(SRAM)>>

ReadClockRegister(i) ==
  <<Select(ROMX), Poke(GB_RAM_BANK_ADDRESS, 8 + i), Select(SRAM),
    ReadRam(8 + i)>>

(* The pak's bank is ROMX when the register is written.                    *)
WriteClockRegister(i) ==
  <<Select(ROMX), Poke(GB_RAM_BANK_ADDRESS, 8 + i), WriteRam(8 + i)>>

EnableRam == <<Select(ROM0), Poke(ENABLE_GB_RAM_ADDRESS, ENABLE_GB_RAM)>>

(* Mutant: the clock is prepared for latching and never latched.           *)
NeverLatchClock == EnableRam \o <<Select(ROMX), Poke(GB_RTC_LATCH_ADDRESS, 0)>>

LatchClock ==
  EnableRam \o <<Select(ROMX), Poke(GB_RTC_LATCH_ADDRESS, 0),
                 Poke(GB_RTC_LATCH_ADDRESS, 1)>>

GetCartridgeMetadata ==
  InitialiseTPak \o <<Call("tpak_get_cartridge_header")>>

(* With a Transfer Pak in the slot, which a rumble cartridge is in.        *)
ToggleRumble(isRumbleStart) ==
  LightsOn \o <<Select(ROMX)>>
  \o IF isRumbleStart THEN <<Poke(GB_RAM_BANK_ADDRESS, RUMBLE_START)>>
                      ELSE <<Poke(GB_RAM_BANK_ADDRESS, RUMBLE_STOP), LightsOff>>

(* The functions that the console calls, by pieces: their accesses, and    *)
(* how often each is carried out.                                          *)
Loop(name, count) == [name |-> name, count |-> count]
Once(name) == Loop(name, 1)
IfClock(count) == IF cartridge.clock THEN count ELSE 0

ImportCartridge ==
  <<Once("getCartridgeMetadata"), Loop("importRom", cartridge.RomBankCount),
    Once("initialiseTPak"), Loop("importRam", cartridge.RamBankCount),
    Loop("latchClock", IfClock(1)), Loop("importRTCData", IfClock(5)),
    Once("lightsOff")>>

(* Mutant: the lights stay on.                                             *)
ExportCartridgeRamLit ==
  <<Once("initialiseTPak"), Loop("exportRam", cartridge.RamBankCount),
    Loop("enableRam", IfClock(1)), Loop("exportRTCData", IfClock(5))>>

ExportCartridgeRam ==
  <<Once("initialiseTPak"), Loop("exportRam", cartridge.RamBankCount),
    Loop("enableRam", IfClock(1)), Loop("exportRTCData", IfClock(5)),
    Once("lightsOff")>>

Program == CASE transfer = "import" -> ImportCartridge
             [] transfer = "export" -> ExportCartridgeRam
             [] transfer = "rumble" -> <<Once("toggleRumble")>>
Piece == Program[at]

AccessesOf(name, bank) ==
  CASE name = "getCartridgeMetadata" -> GetCartridgeMetadata
    [] name = "importRom" ->
         Append(SwitchBank(bank, cartridge.Type), ReadRom(bank))
    [] name = "initialiseTPak" -> InitialiseTPak
    [] name = "importRam" ->
         Append(SwitchRamBank(bank, cartridge.Type), ReadRam(bank))
    [] name = "exportRam" ->
         Append(SwitchRamBank(bank, cartridge.Type), WriteRam(bank))
    [] name = "latchClock" -> LatchClock
    [] name = "importRTCData" -> ReadClockRegister(bank)
    [] name = "enableRam" -> EnableRam
    [] name = "exportRTCData" -> WriteClockRegister(bank)
    [] name = "lightsOff" -> <<LightsOff>>
    [] name = "toggleRumble" -> ToggleRumble(IsRumbling)
Accesses == AccessesOf(Piece.name, iteration)
Access == Accesses[step]

-----------------------------------------------------------------------------
(* The cartridge: which register an address of the Game Boy's writes, and  *)
(* which banks the registers show.                                         *)
MbcRegisters == {"enable", "low", "high", "upper", "mode"}
PowerOnRegisters == [r \in MbcRegisters |-> 0]

RegisterAt(gb) ==
  IF cartridge.Type = "MBC2" /\ gb < 16384
  THEN IF (gb \div 256) % 2 = 0 THEN "enable" ELSE "low"
  ELSE IF gb < 8192 THEN "enable"
  ELSE IF gb < 16384 THEN IF cartridge.Type = "MBC5" /\ gb >= 12288
                          THEN "high" ELSE "low"
  ELSE IF gb < 24576 THEN "upper" ELSE "mode"

NotZero(n) == IF n = 0 THEN 1 ELSE n

Rom0Bank ==
  (IF cartridge.Type = "MBC1" /\ mbc["mode"] % 2 = 1
   THEN (mbc["upper"] % 4) * 32 ELSE 0) % cartridge.RomBankCount

RomXBank ==
  (CASE cartridge.Type = "ROM_ONLY" -> 1
     [] cartridge.Type = "MBC1" ->
          (mbc["upper"] % 4) * 32 + NotZero(mbc["low"] % 32)
     [] cartridge.Type = "MBC2" -> NotZero(mbc["low"] % 16)
     [] cartridge.Type = "MBC3" -> NotZero(mbc["low"] % 128)
     [] cartridge.Type = "MBC5" -> (mbc["high"] % 2) * 256 + mbc["low"])
  % cartridge.RomBankCount

RamBanks == 0..cartridge.RamBankCount - 1
Counters == IF cartridge.clock THEN ClockRegisters ELSE {}

(* The RAM bank or the clock's counter at A000, if any.                    *)
ShownAtSram ==
  IF mbc["enable"] % 16 # ENABLE_GB_RAM THEN {}
  ELSE IF mbc["upper"] \in Counters THEN {mbc["upper"]}
  ELSE IF RamBanks = {} THEN {}
  ELSE {(CASE cartridge.Type = "MBC1" ->
               IF mbc["mode"] % 2 = 1 THEN mbc["upper"] % 4 ELSE 0
           [] cartridge.Type = "MBC3" -> mbc["upper"]
           [] cartridge.Type = "MBC5" ->
               mbc["upper"] % (IF cartridge.rumble THEN 8 ELSE 16)
           [] OTHER -> 0) % cartridge.RamBankCount}

Connected == power /\ access
Motor == Connected /\ cartridge.rumble /\ (mbc["upper"] \div 8) % 2 = 1

(* Contents: of a bank of RAM, which bank's and how old; a time; or what   *)
(* is read where there is nothing to read.                                 *)
Save(bank, n) == <<"save", bank, n>>
Time(t) == <<"time", t>>
Nothing == <<"nothing">>

(* Writing what the console has of `bank'.  What is not a time and reaches *)
(* a counter sets it to anything.                                          *)
Store(bank) ==
  /\ cartRam' = [b \in RamBanks |->
                   IF b \in ShownAtSram THEN Ram[bank] ELSE cartRam[b]]
  /\ \E byte \in 0..MaxTime :
       clock' = [r \in Counters |->
                   IF r \notin ShownAtSram THEN clock[r]
                   ELSE IF Ram[bank][1] = "time" THEN Ram[bank][2] ELSE byte]

SetRegister(gb, value) ==
  /\ mbc' = [mbc EXCEPT ![RegisterAt(gb)] = value]
  /\ latched' = IF RegisterAt(gb) = "mode" /\ mbc["mode"] = 0 /\ value = 1
                THEN clock ELSE latched

GbAddress(address) == tpakBank * 16384 + (address - ROM_ADDRESS_OFFSET)

-----------------------------------------------------------------------------
Holds(bank) == IF bank \in RamBanks THEN Save(bank, 0) ELSE Nothing

Init ==
  /\ cartridge \in Cartridges
  /\ power = FALSE /\ access = FALSE /\ tpakBank = ROM0
  /\ mbc = PowerOnRegisters
  /\ clock = [r \in Counters |-> 0] /\ latched = [r \in Counters |-> 0]
  /\ cartRam = [b \in RamBanks |-> Save(b, 0)]
  /\ Ram = [b \in RamBanks \cup Counters |-> Nothing]
  /\ romFaithful = FALSE /\ loaded = FALSE /\ IsRumbling = FALSE /\ age = 0
  /\ transfer = "none" /\ at = 1 /\ iteration = 0 /\ step = 1
  /\ lost = 0 /\ clean = TRUE /\ since = 0

(* What comes after an access: the next of the piece, the next turn of its *)
(* loop, the next piece that is not empty, or the end of the function.     *)
Later == {j \in (at + 1)..Len(Program) : Program[j].count > 0}
LastAccess == step = Len(Accesses)
LastTurn == iteration + 1 >= Piece.count

NextAccess ==
  /\ ~LastAccess
  /\ step' = step + 1
  /\ UNCHANGED <<transfer, at, iteration, loaded>>

NextTurn ==
  /\ LastAccess /\ ~LastTurn
  /\ iteration' = iteration + 1 /\ step' = 1
  /\ UNCHANGED <<transfer, at, loaded>>

NextPiece ==
  /\ LastAccess /\ LastTurn
  /\ at' \in Later /\ \A j \in Later : at' <= j
  /\ iteration' = 0 /\ step' = 1
  /\ UNCHANGED <<transfer, loaded>>

Return ==
  /\ LastAccess /\ LastTurn /\ Later = {}
  /\ transfer' = "none" /\ at' = 1 /\ iteration' = 0 /\ step' = 1
  /\ loaded' = (loaded \/ transfer = "import")

Advance(kinds) ==
  /\ transfer # "none" /\ Access.access \in kinds
  /\ NextAccess \/ NextTurn \/ NextPiece \/ Return
  /\ UNCHANGED <<cartridge, IsRumbling, age, since>>

SwitchPower ==
  /\ Advance({"set"}) /\ Access.address = CARTRIDGE_POWER_ADDRESS
  /\ power' = (Access.value = CARTRIDGE_POWER_ON)
  /\ IF power' /\ power
     THEN UNCHANGED <<access, tpakBank, mbc, clean>>
     ELSE /\ access' = FALSE /\ tpakBank' = ROM0 /\ mbc' = PowerOnRegisters
          /\ clean' = (clean \/ ~power')
  /\ UNCHANGED <<cartVars, Ram, romFaithful, lost>>

SetStatus ==
  /\ Advance({"set"}) /\ Access.address = TPAK_STATUS_ADDRESS
  /\ access' = (power /\ Access.value = TPAK_STATUS_ACCESS_ON)
  /\ UNCHANGED <<power, tpakBank, mbc, cartVars, Ram, romFaithful, lost, clean>>

SelectTpakBank ==
  /\ Advance({"set"}) /\ Access.address = TPAK_BANK_ADDRESS
  /\ tpakBank' = IF power THEN Access.value ELSE tpakBank
  /\ UNCHANGED <<power, access, mbc, cartVars, Ram, romFaithful, lost, clean>>

(* A value for a register of the cartridge; none is at 8000 to 9FFF.       *)
PokeCartridge ==
  /\ Advance({"set"}) /\ Access.address >= ROM_ADDRESS_OFFSET
  /\ LET gb == GbAddress(Access.address)
     IN IF Connected /\ gb < 32768
        THEN SetRegister(gb, Access.value)
        ELSE UNCHANGED <<mbc, latched>>
  /\ UNCHANGED <<power, access, tpakBank, clock, cartRam, Ram, romFaithful,
                 lost, clean>>

ReadRomBank ==
  /\ Advance({"readRom"})
  /\ romFaithful' =
       /\ romFaithful /\ Connected
       /\ \/ tpakBank = ROM0 /\ Access.value = Rom0Bank
          \/ tpakBank = ROMX /\ Access.value = RomXBank
  /\ UNCHANGED <<pakVars, cartVars, Ram, lost, clean>>

ReadRamBank ==
  /\ Advance({"readRam"})
  /\ Ram' = [Ram EXCEPT ![Access.value] =
       IF Connected /\ tpakBank = SRAM /\ ShownAtSram # {}
       THEN LET b == CHOOSE b \in ShownAtSram : TRUE
            IN IF b \in RamBanks THEN cartRam[b] ELSE Time(latched[b])
       ELSE Nothing]
  /\ UNCHANGED <<pakVars, cartVars, romFaithful, lost, clean>>

WriteRamBank ==
  /\ Advance({"writeRam"})
  /\ LET gb == GbAddress(Access.address)
     IN IF ~Connected \/ tpakBank > SRAM
        THEN UNCHANGED <<mbc, cartVars>>
        ELSE IF tpakBank = SRAM
        THEN Store(Access.value) /\ UNCHANGED <<mbc, latched>>
        ELSE /\ \E byte \in {0, 1} : SetRegister(gb, byte)
             /\ UNCHANGED <<clock, cartRam>>
  /\ UNCHANGED <<power, access, tpakBank, Ram, romFaithful, lost, clean>>

(* libdragon turns the pak on; it may or may not select ROM0.              *)
TpakInit ==
  /\ Advance({"tpak_init"})
  /\ tpakBank' \in {tpakBank, ROM0}
  /\ UNCHANGED <<power, access, mbc, cartVars, Ram, romFaithful, lost, clean>>

(* The header is read from ROM0.  Then importRom and importCartridgeRam    *)
(* make room for what they will read.                                      *)
ReadHeader ==
  /\ Advance({"tpak_get_cartridge_header"}) /\ Connected
  /\ tpakBank' = ROM0
  /\ romFaithful' = TRUE
  /\ Ram' = [b \in RamBanks \cup Counters |-> Nothing]
  /\ UNCHANGED <<power, access, mbc, cartVars, lost, clean>>

(* No cartridge, or one that is not supported: nothing more is done, and   *)
(* the pak is left as it is.                                               *)
RejectHeader ==
  /\ transfer # "none" /\ Access.access = "tpak_get_cartridge_header"
  /\ transfer' = "none" /\ at' = 1 /\ iteration' = 0 /\ step' = 1
  /\ tpakBank' \in {tpakBank, ROM0}
  /\ UNCHANGED <<cartridge, power, access, mbc, cartVars, gameVars, lost,
                 clean, since>>

(* An access that fails is not repeated, and nobody hears of it.           *)
Lose ==
  /\ lost < MaxLost
  /\ Advance({"set", "readRom", "readRam", "writeRam"})
  /\ lost' = lost + 1
  /\ clean' = FALSE
  /\ romFaithful' = (romFaithful /\ Access.access # "readRom")
  /\ UNCHANGED <<pakVars, cartVars, Ram>>

DriverStep ==
  \/ SwitchPower \/ SetStatus \/ SelectTpakBank \/ PokeCartridge
  \/ ReadRomBank \/ ReadRamBank \/ WriteRamBank
  \/ TpakInit \/ ReadHeader \/ RejectHeader
  \/ Lose

-----------------------------------------------------------------------------
(* The console, which waits for the driver whenever it calls it.           *)
Begin(function) ==
  /\ transfer = "none"
  /\ transfer' = function /\ UNCHANGED <<at, iteration, step>>
  /\ since' = IF cartridge.clock THEN clock[8] ELSE 0
  /\ UNCHANGED <<cartridge, pakVars, cartVars, Ram, romFaithful, age, lost>>

(* init.c, when it starts, and after Change cart.                          *)
Import ==
  /\ Begin("import")
  /\ loaded' = FALSE
  /\ UNCHANGED <<IsRumbling, clean>>

(* play.c, at the end of a frame.                                          *)
Export ==
  /\ loaded
  /\ Begin("export")
  /\ UNCHANGED <<loaded, IsRumbling, clean>>

(* mbc5rumbleWriteRom45: the game writes bit 3 of its RAM bank register.   *)
Rumble ==
  /\ loaded /\ cartridge.rumble
  /\ Begin("rumble")
  /\ IsRumbling' = ~IsRumbling
  /\ clean' = FALSE
  /\ UNCHANGED loaded

Playing == transfer = "none" /\ loaded
unplayed == <<cartridge, pakVars, romFaithful, loaded, IsRumbling, driverVars,
              lost, clean, since>>

GameSaves ==
  /\ Playing /\ age < MaxAge
  /\ age' = age + 1
  /\ Ram' = [b \in DOMAIN Ram |-> IF b \in RamBanks THEN Save(b, age') ELSE Ram[b]]
  /\ UNCHANGED <<unplayed, cartVars>>

GameSetsClock ==
  /\ Playing /\ cartridge.clock
  /\ \E t \in 0..MaxTime :
       Ram' = [b \in DOMAIN Ram |-> IF b \in Counters THEN Time(t) ELSE Ram[b]]
  /\ UNCHANGED <<unplayed, cartVars, age>>

(* The clock runs while the driver works.                                  *)
Tick ==
  /\ cartridge.clock /\ \A r \in Counters : clock[r] < MaxTime
  /\ clock' = [r \in Counters |-> clock[r] + 1]
  /\ UNCHANGED <<unplayed, latched, cartRam, Ram, age>>

Next == DriverStep \/ Import \/ Export \/ Rumble \/ GameSaves \/ GameSetsClock
        \/ Tick

Spec == Init /\ [][Next]_vars

-----------------------------------------------------------------------------
(* The registers hold what they have room for.                             *)
TypeOK ==
  /\ cartridge \in Cartridges
  /\ power \in BOOLEAN /\ access \in BOOLEAN /\ tpakBank \in ROM0..SRAM
  /\ mbc \in [MbcRegisters -> 0..255] /\ mbc["upper"] \in 0..15
  /\ clock \in [Counters -> 0..MaxTime] /\ latched \in [Counters -> 0..MaxTime]
  /\ DOMAIN cartRam = RamBanks /\ DOMAIN Ram = RamBanks \cup Counters
  /\ romFaithful \in BOOLEAN /\ loaded \in BOOLEAN /\ IsRumbling \in BOOLEAN
  /\ age \in 0..MaxAge /\ lost \in 0..MaxLost /\ since \in 0..MaxTime
  /\ transfer \in {"none", "import", "export", "rumble"}
  /\ IF transfer = "none" THEN at = 1 /\ iteration = 0 /\ step = 1
     ELSE /\ at \in 1..Len(Program) /\ iteration \in 0..(Piece.count - 1)
          /\ step \in 1..Len(Accesses)
  /\ clean \in BOOLEAN

ImportDone == transfer = "import" /\ loaded'
ExportDone == transfer = "export" /\ transfer' = "none"

(* importCartridge reads every bank of ROM, and every bank of RAM, from    *)
(* the bank it is meant to come from, MBC1's banks 20, 40 and 60 included, *)
(* although the registers that select one bank are left over from the one  *)
(* before: if no access was lost, and no motor driven, since the pak was   *)
(* last off, whatever was lost before that.                                *)
LoadedWhole ==
  [][ImportDone /\ clean =>
       romFaithful /\ \A b \in RamBanks : Ram[b] = cartRam[b]]_vars

(* exportCartridgeRam leaves in every bank of the cartridge's RAM what the *)
(* console has of it, under the same condition.  A save of which a part    *)
(* was lost is made good by the next if the pak was switched off between   *)
(* them; nothing is said of a save after an access lost in switching it    *)
(* off, nor of one while the motor runs, which find it on as it was left.  *)
SavedWhole ==
  [][ExportDone /\ clean => \A b \in RamBanks : cartRam'[b] = Ram[b]]_vars

(* The clock's five counters, read one after the other while it runs, are  *)
(* what it showed at one moment of the import.                             *)
ClockOfOneMoment ==
  [][ImportDone /\ clean /\ cartridge.clock =>
       \E passed \in 0..(clock[8] - since) :
         \A r \in Counters : Ram[r] = Time(clock[r] - passed)]_vars

(* The pak and the cartridge's registers stay in their ranges.  Between    *)
(* transfers the motor runs only if the game wants it to, although the     *)
(* values that drive it are those that select banks and enable RAM; and if *)
(* it does not run the cartridge is without power, so that the next        *)
(* transfer finds its registers as they are at power on, which switchBank  *)
(* and switchRamBank rely on.                                              *)
OffBetweenTransfers ==
  /\ TypeOK
  /\ transfer = "none" /\ lost = 0 =>
       /\ Motor => IsRumbling
       /\ loaded /\ ~IsRumbling => ~power
=============================================================================
