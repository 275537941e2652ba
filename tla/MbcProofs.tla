---------------------------- MODULE MbcProofs ----------------------------
(***************************************************************************)
(* Proofs about Mbc, for every set of cartridges and every byte a game may *)
(* write.  The windows are pointers that each handler moves for its own    *)
(* register only, so none of the window invariants is inductive alone:     *)
(* RegistersInRange adds what the registers may hold on each controller.   *)
(***************************************************************************)
EXTENDS Mbc, TLAPS

(* What the registers hold, per controller; and the clock flag is raised   *)
(* at least when the cartridge has a clock.                                *)
RegistersInRange ==
  /\ cart.rtc => hasRTC
  /\ cart.Type = "MBC1" =>
       /\ RomBankLower \in 0..31 /\ RomBankUpper \in 0..3
       /\ cart.RomBankCount < 32 => RomBankUpper = 0
       /\ SRAMBankNumber \in 0..3
       /\ cart.RamBankCount <= 1 => SRAMBankNumber = 0
  /\ cart.Type \in {"MBC2", "ROM_ONLY"} => SRAMBankNumber = 0
  /\ cart.Type = "MBC3" => SRAMBankNumber = 0 \/ SRAMBankNumber < cart.RamCells
  /\ cart.Type = "MBC5" =>
       /\ RomBankUpper \in 0..1
       /\ cart.RamBankCount # 0 => SRAMBankNumber < cart.RamBankCount

IInv ==
  /\ TypeOK
  /\ SramWindow
  /\ RomWindow
  /\ Rom0Window
  /\ Mbc5BankFromBothRegisters
  /\ RegistersInRange

-----------------------------------------------------------------------------
(* A cartridge is a record with the fields of CartType, and its sizes are  *)
(* those the assumptions name.                                             *)
LEMMA CartFacts ==
  ASSUME NEW c \in Carts
  PROVE  /\ c.Type \in MbcTypes /\ c.RomBankCount \in RomSizes
         /\ c.RomBankCount \in Nat /\ c.RomBankCount >= 2
         /\ c.RamBankCount \in {0, 1, 4, 8, 16} /\ c.RamCells \in Nat
         /\ c.sram \in BOOLEAN /\ c.rtc \in BOOLEAN /\ c.rumble \in BOOLEAN
         /\ c.romWrites \subseteq Byte /\ c.ramWrites \subseteq Byte
  <1>1. c \in CartType
    BY CartsAssumption
  <1>2. c.RomBankCount \in RomSizes
    BY RomSizeAssumption
  <1>3. QED
    BY <1>1, <1>2 DEF CartType, RomSizes

(* getMbc1RomBank stays inside the ROM.  From 32 banks up it never names a *)
(* multiple of 32, and it keeps the lower register's bits unless they are  *)
(* all zero; below 32 banks with the upper register clear it fits in five  *)
(* bits.                                                                   *)
LEMMA Mbc1BankInRom ==
  ASSUME NEW lower \in 0..31, NEW upper \in 0..3, NEW n \in RomSizes
  PROVE  LET bank == GetMbc1RomBank(lower, upper, n)
         IN /\ bank \in 0..n - 1
            /\ n >= 32 => bank % 32 # 0 /\ bank \div 32 \in 0..3
            /\ n >= 32 /\ lower # 0 => bank % 32 = lower
            /\ n < 32 => bank % 32 = bank
  <1>1. CASE n = 2 BY <1>1 DEF GetMbc1RomBank
  <1>2. CASE n = 4 BY <1>2 DEF GetMbc1RomBank
  <1>3. CASE n = 8 BY <1>3 DEF GetMbc1RomBank
  <1>4. CASE n = 16 BY <1>4 DEF GetMbc1RomBank
  <1>5. CASE n = 32 BY <1>5 DEF GetMbc1RomBank
  <1>6. CASE n = 64 BY <1>6 DEF GetMbc1RomBank
  <1>7. CASE n = 128 BY <1>7 DEF GetMbc1RomBank
  <1>8. QED
    BY <1>1, <1>2, <1>3, <1>4, <1>5, <1>6, <1>7 DEF RomSizes

(* Writing the lower register does not disturb the upper one: the bank it  *)
(* selects lies in the 512 kB block the upper register names, when that    *)
(* block exists.                                                           *)
LEMMA Mbc1UpperKept ==
  ASSUME NEW lower \in 0..31, NEW upper \in 0..3, NEW n \in RomSizes,
         n >= 32, upper * 32 < n
  PROVE  GetMbc1RomBank(lower, upper, n) \div 32 = upper
  <1>1. CASE n = 32 BY <1>1 DEF GetMbc1RomBank
  <1>2. CASE n = 64 BY <1>2 DEF GetMbc1RomBank
  <1>3. CASE n = 128 BY <1>3 DEF GetMbc1RomBank
  <1>4. QED
    BY <1>1, <1>2, <1>3 DEF RomSizes

(* A byte is enough for the bank arithmetic of an MBC5 whose ROM passes    *)
(* the memory limit, and the result is a bank of the ROM.                  *)
LEMMA ByteIsEnough ==
  ASSUME NEW lower \in Byte, NEW upper \in 0..1, NEW n \in RomSizes
  PROVE  /\ ((upper * 256 + lower) % 256) % n = (upper * 256 + lower) % n
         /\ (upper * 256 + lower) % n \in 0..n - 1
  <1>1. CASE n = 2 BY <1>1 DEF Byte
  <1>2. CASE n = 4 BY <1>2 DEF Byte
  <1>3. CASE n = 8 BY <1>3 DEF Byte
  <1>4. CASE n = 16 BY <1>4 DEF Byte
  <1>5. CASE n = 32 BY <1>5 DEF Byte
  <1>6. CASE n = 64 BY <1>6 DEF Byte
  <1>7. CASE n = 128 BY <1>7 DEF Byte
  <1>8. QED
    BY <1>1, <1>2, <1>3, <1>4, <1>5, <1>6, <1>7 DEF RomSizes

(* Wrapping any number around the ROM's size gives a bank of the ROM; a    *)
(* multiple of 32 stays one.                                               *)
LEMMA WrapInRom ==
  ASSUME NEW b \in Nat, NEW n \in RomSizes
  PROVE  b % n \in 0..n - 1 /\ (n >= 32 /\ b % 32 = 0 => (b % n) % 32 = 0)
  <1>1. CASE n = 2 BY <1>1
  <1>2. CASE n = 4 BY <1>2
  <1>3. CASE n = 8 BY <1>3
  <1>4. CASE n = 16 BY <1>4
  <1>5. CASE n = 32 BY <1>5
  <1>6. CASE n = 64 BY <1>6
  <1>7. CASE n = 128 BY <1>7
  <1>8. QED
    BY <1>1, <1>2, <1>3, <1>4, <1>5, <1>6, <1>7 DEF RomSizes

(* The RAM bank an MBC5 selects is one of its banks when it has any.       *)
LEMMA Mbc5RamBankInRange ==
  ASSUME NEW v \in Byte, cart.RamBankCount \in {0, 1, 4, 8, 16}
  PROVE  /\ Mbc5RamBank(v) \in Byte
         /\ cart.RamBankCount # 0 => Mbc5RamBank(v) < cart.RamBankCount
  <1>1. CASE cart.RamBankCount = 0 BY <1>1 DEF Mbc5RamBank, Byte
  <1>2. CASE cart.RamBankCount = 1 BY <1>2 DEF Mbc5RamBank, Byte
  <1>3. CASE cart.RamBankCount = 4 BY <1>3 DEF Mbc5RamBank, Byte
  <1>4. CASE cart.RamBankCount = 8 BY <1>4 DEF Mbc5RamBank, Byte
  <1>5. CASE cart.RamBankCount = 16 BY <1>5 DEF Mbc5RamBank, Byte
  <1>6. QED
    BY <1>1, <1>2, <1>3, <1>4, <1>5

-----------------------------------------------------------------------------
(* Loading a cartridge, and starting or resetting it, puts every window    *)
(* and register in the position the cartridge powers up with.              *)
LEMMA InitIInv == Init => IInv
  <1> SUFFICES ASSUME Init PROVE IInv
    OBVIOUS
  <1>1. /\ cart.RomBankCount \in RomSizes /\ cart.RamBankCount \in Nat
        /\ cart.sram \in BOOLEAN /\ cart.rtc \in BOOLEAN
        /\ cart.rumble \in BOOLEAN
    BY CartFacts DEF Init
  <1>2. TypeOK
    <2>1. hasSRAM \in BOOLEAN /\ hasRTC \in BOOLEAN /\ hasRumble \in BOOLEAN
      BY <1>1, Zenon DEF Init
    <2>2. inBios \in BOOLEAN /\ isSRAMDisabled \in BOOLEAN
          /\ isRTCLatched \in BOOLEAN /\ IsRumbling \in BOOLEAN
          /\ isSRAMDirty \in BOOLEAN
      BY CartsAssumption, Zenon DEF Init
    <2>3. /\ cart \in Carts /\ ROM0 \in Nat \cup {BiosPage} /\ ROMX \in Nat
          /\ SRAM \in Byte \cup {DisabledPage} /\ SRAMBankNumber \in Byte
          /\ RomBankLower \in Byte /\ RomBankUpper \in Byte
          /\ RomRamSelect \in {ROM_SELECT, SRAM_SELECT}
          /\ unsaved \subseteq Nat /\ disabledPage \in {"fill", "game"}
      BY DEF Init, Byte
    <2>4. QED
      BY <2>1, <2>2, <2>3 DEF TypeOK
  <1>3. SramWindow /\ Rom0Window /\ RegistersInRange
    BY <1>1 DEF Init, SramWindow, Rom0Window, RegistersInRange, RomSizes
  <1>4. RomWindow /\ Mbc5BankFromBothRegisters
    BY <1>1 DEF Init, RomWindow, Mbc5BankFromBothRegisters, RomSizes
  <1>5. QED
    BY <1>2, <1>3, <1>4 DEF IInv

LEMMA PowerUpIInv ==
  ASSUME TypeOK, NEW c \in Carts, cart' = c, SetInfo(c), InitialiseEmulator,
         UNCHANGED clockVars, isSRAMDirty' = isSRAMDirty,
         disabledPage' = disabledPage, unsaved' \subseteq unsaved
  PROVE  IInv'
  <1>1. /\ c.RomBankCount \in RomSizes /\ c.RamBankCount \in Nat
        /\ c.sram \in BOOLEAN /\ c.rtc \in BOOLEAN /\ c.rumble \in BOOLEAN
    BY CartFacts
  <1>2. TypeOK'
    BY <1>1, CartsAssumption DEF TypeOK, SetInfo, InitialiseEmulator, clockVars,
       BiosPage, DisabledPage, Byte, ROM_SELECT, SRAM_SELECT
  <1>3. (SramWindow /\ Rom0Window /\ RegistersInRange)'
    <2>1. cart'.rtc => hasRTC'
      BY Zenon DEF SetInfo
    <2>2. QED
      BY <1>1, <2>1 DEF InitialiseEmulator, SramWindow, Rom0Window,
         RegistersInRange, RomSizes
  <1>4. (RomWindow /\ Mbc5BankFromBothRegisters)'
    BY <1>1 DEF InitialiseEmulator, RomWindow, Mbc5BankFromBothRegisters,
       RomSizes
  <1>5. QED
    BY <1>2, <1>3, <1>4 DEF IInv

(* Enabling and disabling RAM moves the RAM window only, to the bank the   *)
(* other registers select.                                                 *)
LEMMA SramEnableIInv ==
  ASSUME IInv, NEW v \in Bytes, WriteRom01(v) \/ Mbc1WriteRom01(v)
  PROVE  IInv'
  <1> USE DEF IInv
  <1>1. /\ UNCHANGED <<flags, inBios, ROM0, romRegs, SRAMBankNumber, RomRamSelect,
                       clockVars, saveVars>>
        /\ \/ isSRAMDisabled' = TRUE /\ SRAM' = DisabledPage
           \/ /\ isSRAMDisabled' = FALSE
              /\ SRAM' = IF cart.Type = "MBC1" /\ RomRamSelect = ROM_SELECT
                         THEN 0 ELSE SRAMBankNumber
    BY DEF WriteRom01, Mbc1WriteRom01, SetSramEnable, TypeOK, ROM_SELECT,
       SRAM_SELECT
  <1>2. TypeOK'
    <2>1. isSRAMDisabled' \in BOOLEAN
      BY <1>1, Zenon
    <2>2. SRAM' \in {DisabledPage, 0, SRAMBankNumber}
      BY <1>1, Zenon
    <2>3. SRAM' \in Byte \cup {DisabledPage}
      BY <2>2 DEF TypeOK, Byte
    <2>4. QED
      BY <1>1, <2>1, <2>3 DEF TypeOK, flags, romRegs, clockVars, saveVars
  <1>3. SramWindow'
    BY <1>1 DEF SramWindow, flags
  <1>4. (RomWindow /\ Rom0Window /\ Mbc5BankFromBothRegisters
           /\ RegistersInRange)'
    BY <1>1 DEF RomWindow, Rom0Window, Mbc5BankFromBothRegisters,
       RegistersInRange, flags, romRegs
  <1>5. QED
    BY <1>2, <1>3, <1>4

-----------------------------------------------------------------------------
(* Each write to the switchable ROM bank register.                         *)
LEMMA Mbc1Rom23IInv ==
  ASSUME IInv, NEW v \in cart.romWrites, Mbc1WriteRom23(v)
  PROVE  IInv'
  <1> DEFINE bank == GetMbc1RomBank(v % 32, RomBankUpper, cart.RomBankCount)
  <1>1. /\ cart.Type = "MBC1" /\ RomBankLower' = bank % 32 /\ ROMX' = bank
        /\ UNCHANGED <<flags, inBios, ROM0, RomBankUpper, ramRegs, RomRamSelect,
                       clockVars, saveVars>>
    BY DEF Mbc1WriteRom23
  <1>2. cart \in Carts /\ v % 32 \in 0..31 /\ RomBankUpper \in 0..3
    BY <1>1, CartFacts DEF IInv, TypeOK, RegistersInRange, Byte
  <1>3. cart.RomBankCount \in RomSizes /\ cart.RomBankCount \in Nat
    BY <1>2, CartFacts
  <1>4. /\ bank \in 0..cart.RomBankCount - 1
        /\ cart.RomBankCount >= 32 => bank % 32 # 0
    BY <1>2, <1>3, Mbc1BankInRom
  <1>5. cart.RomBankCount >= 32 => bank \div 32 = RomBankUpper
    <2> SUFFICES ASSUME cart.RomBankCount >= 32
                 PROVE  bank \div 32 = RomBankUpper
      OBVIOUS
    <2>1. RomBankUpper * 32 < cart.RomBankCount
      BY <1>1, <1>3 DEF IInv, RomWindow, TypeOK
    <2>2. QED
      BY <2>1, <1>2, <1>3, Mbc1UpperKept
  <1> HIDE DEF bank
  <1>6. TypeOK'
    BY <1>1, <1>3, <1>4 DEF IInv, TypeOK, flags, ramRegs, clockVars, saveVars,
       Byte
  <1>7. RomWindow'
    BY <1>1, <1>3, <1>4, <1>5 DEF RomWindow, flags
  <1>8. (SramWindow /\ Rom0Window /\ Mbc5BankFromBothRegisters
           /\ RegistersInRange)'
    BY <1>1, <1>3, <1>4 DEF IInv, SramWindow, Rom0Window,
       Mbc5BankFromBothRegisters, RegistersInRange, flags, ramRegs
  <1>9. QED
    BY <1>6, <1>7, <1>8 DEF IInv

(* MBC2, MBC3 and MBC5 share their shape: a new lower register, perhaps a  *)
(* new upper one, and a window inside the ROM.                             *)
LEMMA OtherRomBankIInv ==
  ASSUME IInv, cart.Type \in {"MBC2", "MBC3", "MBC5"},
         RomBankLower' \in Byte, RomBankUpper' \in Byte, ROMX' \in Nat,
         ROMX' < cart.RomBankCount,
         cart.Type = "MBC5" =>
           /\ RomBankUpper' \in 0..1
           /\ ROMX' = (RomBankUpper' * 256 + RomBankLower') % cart.RomBankCount,
         UNCHANGED <<flags, inBios, ROM0, ramRegs, RomRamSelect, clockVars,
                     saveVars>>
  PROVE  IInv'
  <1>1. TypeOK'
    BY DEF IInv, TypeOK, flags, ramRegs, clockVars, saveVars
  <1>2. (RomWindow /\ Mbc5BankFromBothRegisters)'
    BY DEF RomWindow, Mbc5BankFromBothRegisters, flags
  <1>3. (SramWindow /\ Rom0Window /\ RegistersInRange)'
    BY DEF IInv, SramWindow, Rom0Window, RegistersInRange, flags, ramRegs
  <1>4. QED
    BY <1>1, <1>2, <1>3 DEF IInv

LEMMA RomBankIInv ==
  ASSUME IInv, NEW v \in cart.romWrites,
         \/ Mbc2WriteRom0123(v) \/ Mbc3WriteRom23(v)
         \/ Mbc5WriteRom2(v) \/ Mbc5WriteRom3(v)
  PROVE  IInv'
  <1>1. /\ cart \in Carts /\ v \in Byte
        /\ cart.RomBankCount \in RomSizes /\ cart.RomBankCount \in Nat
        /\ cart.RomBankCount >= 2
        /\ RomBankLower \in Byte /\ RomBankUpper \in Byte
    BY CartFacts DEF IInv, TypeOK
  <1>2. CASE Mbc2WriteRom0123(v)
    <2> DEFINE low == IF v % 16 = 0 THEN 1 ELSE v % 16
    <2>1. low \in Nat /\ low < 16
      BY <1>1 DEF Byte
    <2>2. low % cart.RomBankCount \in 0..cart.RomBankCount - 1
      BY <2>1, <1>1, WrapInRom
    <2>3. cart.RomBankCount <= 128
      BY <1>1 DEF RomSizes
    <2>4. /\ cart.Type = "MBC2"
          /\ RomBankLower' = low % cart.RomBankCount
          /\ ROMX' = low % cart.RomBankCount
          /\ UNCHANGED <<flags, inBios, ROM0, RomBankUpper, ramRegs,
                         RomRamSelect, clockVars, saveVars>>
      BY <1>2 DEF Mbc2WriteRom0123
    <2> HIDE DEF low
    <2>5. RomBankLower' \in Byte /\ ROMX' \in Nat /\ ROMX' < cart.RomBankCount
      BY <2>2, <2>3, <2>4, <1>1 DEF Byte
    <2>6. QED
      BY <2>4, <2>5, <1>1, OtherRomBankIInv
  <1>3. CASE Mbc3WriteRom23(v)
    <2>1. cart.Type = "MBC3"
      BY <1>3 DEF Mbc3WriteRom23
    <2>2. v % 128 < cart.RomBankCount
      BY <2>1, <1>1, Mbc3GamesAssumption
    <2>3. v % 128 \in Byte
      BY <1>1 DEF Byte
    <2>4. /\ RomBankLower' \in Byte /\ ROMX' \in Nat
          /\ ROMX' < cart.RomBankCount
      BY <1>3, <2>2, <2>3, <1>1 DEF Mbc3WriteRom23, Byte
    <2>5. QED
      BY <2>1, <2>4, <1>1, <1>3, OtherRomBankIInv DEF Mbc3WriteRom23
  <1>4. CASE Mbc5WriteRom2(v) \/ Mbc5WriteRom3(v)
    <2>1. cart.Type = "MBC5" /\ RomBankUpper \in 0..1
      BY <1>4 DEF Mbc5WriteRom2, Mbc5WriteRom3, IInv, RegistersInRange
    <2>2. /\ RomBankLower' \in Byte /\ RomBankUpper' \in 0..1
          /\ ROMX' = Mbc5RomBank(RomBankLower', RomBankUpper')
          /\ UNCHANGED <<flags, inBios, ROM0, ramRegs, RomRamSelect, clockVars,
                         saveVars>>
      BY <1>1, <1>4, <2>1 DEF Mbc5WriteRom2, Mbc5WriteRom3, Byte
    <2>3. /\ ROMX' = (RomBankUpper' * 256 + RomBankLower') % cart.RomBankCount
          /\ ROMX' \in 0..cart.RomBankCount - 1
      BY <1>1, <2>2, ByteIsEnough DEF Mbc5RomBank
    <2>4. ROMX' \in Nat /\ ROMX' < cart.RomBankCount /\ RomBankUpper' \in Byte
      BY <2>2, <2>3, <1>1 DEF Byte
    <2>5. QED
      BY <2>1, <2>2, <2>3, <2>4, OtherRomBankIInv
  <1>5. QED
    BY <1>2, <1>3, <1>4

-----------------------------------------------------------------------------
(* The register an MBC1 shares between ROM and RAM: both windows follow.   *)
LEMMA Mbc1Rom45IInv ==
  ASSUME IInv, ~inBios, NEW v \in cart.ramWrites, Mbc1WriteRom45(v)
  PROVE  IInv'
  <1> DEFINE bits == v % 4
             bank == GetMbc1RomBank(RomBankLower, bits, cart.RomBankCount)
             ramMode == RomRamSelect = SRAM_SELECT
  <1>1. /\ cart.Type = "MBC1"
        /\ IF cart.RomBankCount > 31
           THEN RomBankUpper' = bank \div 32 /\ ROMX' = bank
           ELSE UNCHANGED <<RomBankUpper, ROMX>>
        /\ SRAMBankNumber' = IF cart.RamBankCount > 1 THEN bits
                                                      ELSE SRAMBankNumber
        /\ ROM0' = IF ~ramMode THEN 0
                   ELSE IF cart.RomBankCount > 32
                        THEN (bits * 32) % cart.RomBankCount ELSE ROM0
        /\ SRAM' = IF ramMode /\ ~isSRAMDisabled THEN SRAMBankNumber' ELSE SRAM
        /\ UNCHANGED <<flags, inBios, RomBankLower, isSRAMDisabled, RomRamSelect,
                       clockVars, saveVars>>
    BY DEF Mbc1WriteRom45
  <1>2. /\ cart \in Carts /\ bits \in 0..3 /\ bits * 32 \in Nat
        /\ (bits * 32) % 32 = 0
        /\ RomBankLower \in 0..31 /\ RomBankUpper \in 0..3
        /\ SRAMBankNumber \in 0..3
    BY <1>1, CartFacts DEF IInv, TypeOK, RegistersInRange, Byte
  <1>3. /\ cart.RomBankCount \in RomSizes /\ cart.RomBankCount \in Nat
        /\ cart.RamBankCount \in Nat /\ cart.RomBankCount <= 128
    BY <1>2, CartFacts DEF RomSizes
  <1>4. /\ bank \in 0..cart.RomBankCount - 1
        /\ cart.RomBankCount >= 32 => bank \div 32 \in 0..3
        /\ cart.RomBankCount >= 32 /\ RomBankLower # 0 =>
             bank % 32 = RomBankLower
    BY <1>2, <1>3, Mbc1BankInRom
  <1>5. /\ (bits * 32) % cart.RomBankCount \in 0..cart.RomBankCount - 1
        /\ cart.RomBankCount >= 32 => ((bits * 32) % cart.RomBankCount) % 32 = 0
    BY <1>2, <1>3, WrapInRom
  <1> HIDE DEF bits, bank
  <1>6. RomWindow'
    <2>1. CASE cart.RomBankCount > 31
      BY <2>1, <1>1, <1>3, <1>4 DEF IInv, RomWindow, flags
    <2>2. CASE ~(cart.RomBankCount > 31)
      BY <2>2, <1>1, <1>3 DEF IInv, RomWindow, flags
    <2>3. QED
      BY <2>1, <2>2
  <1>7. Rom0Window'
    BY <1>1, <1>3, <1>5 DEF IInv, TypeOK, Rom0Window, flags
  <1>8. SramWindow'
    BY <1>1 DEF IInv, TypeOK, SramWindow, flags, ROM_SELECT, SRAM_SELECT
  <1>9. RegistersInRange'
    BY <1>1, <1>2, <1>3, <1>4 DEF IInv, RegistersInRange, flags
  <1>10. Mbc5BankFromBothRegisters'
    BY <1>1 DEF Mbc5BankFromBothRegisters, flags
  <1>11. TypeOK'
    <2>1. /\ SRAMBankNumber' \in Byte /\ RomBankUpper' \in Byte /\ ROMX' \in Nat
          /\ RomBankLower' \in Byte
      BY <1>1, <1>2, <1>3, <1>4 DEF IInv, TypeOK, Byte
    <2>2. SRAM' \in Byte \cup {DisabledPage}
      BY <1>1, <2>1 DEF IInv, TypeOK
    <2>3. ROM0' \in Nat \cup {BiosPage}
      BY <1>1, <1>3, <1>5 DEF IInv, TypeOK
    <2>4. QED
      BY <1>1, <2>1, <2>2, <2>3 DEF IInv, TypeOK, flags, clockVars, saveVars
  <1>12. QED
    BY <1>6, <1>7, <1>8, <1>9, <1>10, <1>11 DEF IInv

(* Selecting a RAM bank on the other controllers.                          *)
LEMMA RamBankIInv ==
  ASSUME IInv, NEW v \in cart.ramWrites,
         Mbc3WriteRom45(v) \/ Mbc5WriteRom45(v)
  PROVE  IInv'
  <1>1. /\ cart \in Carts /\ v \in Byte /\ cart.RamCells \in Nat
        /\ cart.RamBankCount \in {0, 1, 4, 8, 16}
    BY CartFacts DEF IInv, TypeOK
  <1>2. PICK bank \in Byte :
          /\ SelectRamBank(bank)
          /\ cart.Type \in {"MBC3", "MBC5"}
          /\ cart.Type = "MBC3" => bank < cart.RamCells
          /\ cart.Type = "MBC5" /\ cart.RamBankCount # 0 =>
               bank < cart.RamBankCount
    <2>1. CASE Mbc3WriteRom45(v)
      <3>1. v < cart.RamCells
        BY <2>1, <1>1, Mbc3GamesAssumption DEF Mbc3WriteRom45
      <3>2. QED
        BY <2>1, <3>1, <1>1 DEF Mbc3WriteRom45
    <2>2. CASE Mbc5WriteRom45(v)
      BY <2>2, <1>1, Mbc5RamBankInRange DEF Mbc5WriteRom45
    <2>3. QED
      BY <2>1, <2>2
  <1>3. IsRumbling' \in BOOLEAN
    <2>1. CASE Mbc3WriteRom45(v)
      BY <2>1, Zenon DEF Mbc3WriteRom45, IInv, TypeOK
    <2>2. CASE Mbc5WriteRom45(v)
      BY <2>2, Zenon DEF Mbc5WriteRom45, IInv, TypeOK
    <2>3. QED
      BY <2>1, <2>2
  <1>4. /\ SRAMBankNumber' = bank
        /\ SRAM' = IF isSRAMDisabled THEN SRAM ELSE bank
        /\ UNCHANGED <<flags, inBios, ROM0, romRegs, isSRAMDisabled,
                       RomRamSelect, isRTCLatched, saveVars>>
    BY <1>2 DEF SelectRamBank
  <1>5. TypeOK'
    BY <1>3, <1>4 DEF IInv, TypeOK, flags, romRegs, saveVars
  <1>6. SramWindow' /\ RegistersInRange'
    BY <1>2, <1>4 DEF IInv, SramWindow, RegistersInRange, flags, romRegs
  <1>7. (RomWindow /\ Rom0Window /\ Mbc5BankFromBothRegisters)'
    BY <1>4 DEF IInv, RomWindow, Rom0Window, Mbc5BankFromBothRegisters, flags,
       romRegs
  <1>8. QED
    BY <1>5, <1>6, <1>7 DEF IInv

(* Changing the banking mode of an MBC1.                                   *)
LEMMA Mbc1Rom67IInv ==
  ASSUME IInv, ~inBios, NEW v \in Bytes, Mbc1WriteRom67(v)
  PROVE  IInv'
  <1> DEFINE mode == v % 2
  <1>1. /\ cart.Type = "MBC1" /\ RomRamSelect' = mode
        /\ SRAM' = IF isSRAMDisabled THEN SRAM
                   ELSE IF mode = ROM_SELECT THEN 0 ELSE SRAMBankNumber
        /\ ROM0' = IF mode = ROM_SELECT THEN 0 ELSE ROM0
        /\ UNCHANGED <<flags, inBios, romRegs, isSRAMDisabled, SRAMBankNumber,
                       clockVars, saveVars>>
    BY DEF Mbc1WriteRom67
  <1>2. mode \in {ROM_SELECT, SRAM_SELECT}
    BY CartsAssumption DEF Byte, ROM_SELECT, SRAM_SELECT
  <1> HIDE DEF mode
  <1>3. cart.RomBankCount \in Nat /\ cart.RomBankCount >= 2
    BY CartFacts DEF IInv, TypeOK
  <1>4. SRAM' \in Byte \cup {DisabledPage} /\ ROM0' \in Nat \cup {BiosPage}
    BY <1>1 DEF IInv, TypeOK, Byte
  <1>5. TypeOK'
    BY <1>1, <1>2, <1>4 DEF IInv, TypeOK, flags, romRegs, clockVars, saveVars
  <1>6. SramWindow' /\ RegistersInRange'
    BY <1>1 DEF IInv, SramWindow, RegistersInRange, flags, romRegs
  <1>7. Rom0Window'
    BY <1>1, <1>2, <1>3 DEF IInv, TypeOK, Rom0Window, flags, ROM_SELECT,
       SRAM_SELECT
  <1>8. RomWindow' /\ Mbc5BankFromBothRegisters'
    BY <1>1 DEF IInv, RomWindow, Mbc5BankFromBothRegisters, flags, romRegs
  <1>9. QED
    BY <1>5, <1>6, <1>7, <1>8 DEF IInv

-----------------------------------------------------------------------------
(* The remaining steps leave the banking registers and, but for the end of *)
(* the BIOS, every window alone.                                           *)
LEMMA OtherStepsIInv ==
  ASSUME IInv,
         \/ WriteBiosSwitch
         \/ \E v \in Bytes : HasRTCWriteRom67(v)
         \/ WriteSRAM
         \/ SaveToCartridge
  PROVE  IInv'
  <1>1. /\ cart \in Carts /\ cart.RamCells \in Nat
        /\ cart.RomBankCount \in Nat /\ cart.RomBankCount >= 2
    BY CartFacts DEF IInv, TypeOK
  <1>2. UNCHANGED <<flags, romRegs, ramRegs, RomRamSelect>>
    BY DEF WriteBiosSwitch, HasRTCWriteRom67, WriteSRAM, SaveToCartridge
  <1>3. \/ inBios' = FALSE /\ ROM0' = 0
        \/ UNCHANGED <<inBios, ROM0>>
    BY DEF WriteBiosSwitch, HasRTCWriteRom67, WriteSRAM, SaveToCartridge
  <1>4. /\ isRTCLatched' \in BOOLEAN /\ IsRumbling' \in BOOLEAN
        /\ isSRAMDirty' \in BOOLEAN /\ inBios' \in BOOLEAN
    BY Zenon DEF WriteBiosSwitch, HasRTCWriteRom67, WriteSRAM, SaveToCartridge,
       IInv, TypeOK, clockVars, saveVars
  <1>5. unsaved' \subseteq Nat
    <2>1. CASE WriteBiosSwitch
      BY <2>1 DEF WriteBiosSwitch, saveVars, IInv, TypeOK
    <2>2. CASE \E v \in Bytes : HasRTCWriteRom67(v)
      <3>1. 0..cart.RamCells - 1 \subseteq Nat
        BY <1>1
      <3>2. PICK v \in Bytes : HasRTCWriteRom67(v)
        BY <2>2
      <3>3. unsaved' \subseteq unsaved \cup 0..cart.RamCells - 1
        BY <3>2, Zenon DEF HasRTCWriteRom67
      <3>4. unsaved \subseteq Nat
        BY DEF IInv, TypeOK
      <3>5. QED
        BY <3>1, <3>3, <3>4
    <2>3. CASE WriteSRAM
      <3>1. 0..cart.RamCells - 1 \subseteq Nat /\ unsaved \subseteq Nat
        BY <1>1 DEF IInv, TypeOK
      <3>2. unsaved' \subseteq unsaved \cup 0..cart.RamCells - 1
        BY <2>3, Zenon DEF WriteSRAM
      <3>3. QED
        BY <3>1, <3>2
    <2>4. CASE SaveToCartridge
      BY <2>4 DEF SaveToCartridge, IInv, TypeOK
    <2>5. QED
      BY <2>1, <2>2, <2>3, <2>4
  <1>6. disabledPage' \in {"fill", "game"}
    BY DEF WriteBiosSwitch, HasRTCWriteRom67, WriteSRAM, SaveToCartridge,
       IInv, TypeOK, saveVars
  <1>7. TypeOK'
    BY <1>2, <1>3, <1>4, <1>5, <1>6 DEF IInv, TypeOK, flags, romRegs, ramRegs
  <1>8. Rom0Window'
    BY <1>1, <1>2, <1>3 DEF IInv, Rom0Window, flags
  <1>9. (SramWindow /\ RomWindow /\ Mbc5BankFromBothRegisters
           /\ RegistersInRange)'
    BY <1>2 DEF IInv, SramWindow, RomWindow, Mbc5BankFromBothRegisters,
       RegistersInRange, flags, romRegs, ramRegs
  <1>10. QED
    BY <1>7, <1>8, <1>9 DEF IInv

LEMMA NextIInv == IInv /\ [Next]_vars => IInv'
  <1> SUFFICES ASSUME IInv, [Next]_vars PROVE IInv'
    OBVIOUS
  <1>1. ASSUME NEW c \in Carts, LoadCartridge(c) PROVE IInv'
    <2>1. unsaved' \subseteq unsaved
      BY <1>1 DEF LoadCartridge
    <2>2. QED
      BY <1>1, <2>1, PowerUpIInv DEF LoadCartridge, IInv
  <1>2. CASE Reset
    <2>1. cart \in Carts /\ unsaved' \subseteq unsaved
      BY <1>2 DEF Reset, IInv, TypeOK, saveVars
    <2>2. QED
      BY <1>2, <2>1, PowerUpIInv DEF Reset, IInv, saveVars
  <1>3. CASE GameStep
    <2>1. ASSUME NEW v \in Bytes, WriteRom01(v) \/ Mbc1WriteRom01(v)
          PROVE  IInv'
      BY <2>1, SramEnableIInv
    <2>2. ASSUME NEW v \in Bytes, Mbc1WriteRom67(v) PROVE IInv'
      BY <2>2, <1>3, Mbc1Rom67IInv DEF GameStep
    <2>3. ASSUME NEW v \in cart.romWrites, Mbc1WriteRom23(v) PROVE IInv'
      BY <2>3, Mbc1Rom23IInv
    <2>4. ASSUME NEW v \in cart.romWrites,
                 \/ Mbc2WriteRom0123(v) \/ Mbc3WriteRom23(v)
                 \/ Mbc5WriteRom2(v) \/ Mbc5WriteRom3(v)
          PROVE  IInv'
      BY <2>4, RomBankIInv
    <2>5. ASSUME NEW v \in cart.ramWrites, Mbc1WriteRom45(v) PROVE IInv'
      BY <2>5, <1>3, Mbc1Rom45IInv DEF GameStep
    <2>6. ASSUME NEW v \in cart.ramWrites,
                 Mbc3WriteRom45(v) \/ Mbc5WriteRom45(v)
          PROVE  IInv'
      BY <2>6, RamBankIInv
    <2>7. CASE WriteSRAM \/ \E v \in Bytes : HasRTCWriteRom67(v)
      BY <2>7, OtherStepsIInv
    <2>8. QED
      BY <1>3, <2>1, <2>2, <2>3, <2>4, <2>5, <2>6, <2>7 DEF GameStep
  <1>4. CASE WriteBiosSwitch \/ SaveToCartridge
    BY <1>4, OtherStepsIInv
  <1>5. CASE UNCHANGED vars
    BY <1>5 DEF vars, flags, romRegs, ramRegs, clockVars, saveVars, IInv, TypeOK,
       SramWindow, RomWindow, Rom0Window, Mbc5BankFromBothRegisters,
       RegistersInRange
  <1>6. QED
    BY <1>1, <1>2, <1>3, <1>4, <1>5 DEF Next

-----------------------------------------------------------------------------
(* The inductive invariant holds of every behaviour.                       *)
THEOREM Inductive == Spec => []IInv
  BY InitIInv, NextIInv, PTL DEF Spec

(* Every variable of the memory controller keeps its type.                 *)
THEOREM TypeCorrect == Spec => []TypeOK
  <1>1. IInv => TypeOK
    BY DEF IInv
  <1>2. QED
    BY <1>1, Inductive, PTL

(* The RAM window follows enable flag, mode and bank number, whatever the  *)
(* order in which games write to them.                                     *)
THEOREM SramWindowFollowsRegisters == Spec => []SramWindow
  <1>1. IInv => SramWindow
    BY DEF IInv
  <1>2. QED
    BY <1>1, Inductive, PTL

(* The switchable ROM window stays inside the ROM and agrees with the MBC1 *)
(* registers; the fixed one shows bank 0 but for large MBC1s in RAM mode.  *)
(* MBC5 banks, assembled in a byte, lose nothing on any ROM that passes    *)
(* the memory limit.                                                       *)
THEOREM RomWindowsInRom == Spec => []RomWindows
  <1>1. IInv => RomWindows
    BY DEF IInv, RomWindows
  <1>2. QED
    BY <1>1, Inductive, PTL

(* The game never reaches cartridge RAM outside its allocation.            *)
THEOREM RamAccessAllocated == Spec => []RamWindowAllocated
  <1>1. IInv => RamWindowAllocated
    <2> SUFFICES ASSUME IInv, ~isSRAMDisabled, hasSRAM = cart.sram,
                        hasRTC = cart.rtc, hasSRAM \/ hasRTC
                 PROVE  SRAM < cart.RamCells
      BY DEF RamWindowAllocated
    <2>1. /\ cart \in Carts /\ cart.Type \in MbcTypes
          /\ cart.RamBankCount \in {0, 1, 4, 8, 16} /\ cart.RamCells \in Nat
          /\ SRAMBankNumber \in Byte
      BY CartFacts DEF IInv, TypeOK
    <2>2. /\ cart.sram => cart.RamBankCount >= 1
          /\ cart.RamCells = IF cart.rtc THEN 13 ELSE cart.RamBankCount
          /\ cart.rtc => cart.Type = "MBC3"
          /\ cart.sram \/ cart.rtc
      BY <2>1, RamSizeAssumption
    <2>3. cart.RamCells >= 1
      BY <2>1, <2>2
    <2>4. SRAM = IF cart.Type = "MBC1" /\ RomRamSelect = ROM_SELECT THEN 0
                 ELSE SRAMBankNumber
      BY DEF IInv, SramWindow
    <2>5. SRAMBankNumber < cart.RamCells
      BY <2>1, <2>2, <2>3, RamSizeAssumption
         DEF IInv, RegistersInRange, MbcTypes, Byte
    <2>6. QED
      BY <2>3, <2>4, <2>5, <2>1
  <1>2. QED
    BY <1>1, Inductive, PTL

-----------------------------------------------------------------------------
(* A step of the program other than a change of cartridge, a save and a    *)
(* write to RAM marks nothing unsaved among the banks of the header: the   *)
(* clock's registers lie above them, relative to any window.               *)
LEMMA OnlyWritesUnsave ==
  ASSUME IInv, hasRTC = cart.rtc, Next,
         ~SaveToCartridge, ~WriteSRAM, \A c \in Carts : ~LoadCartridge(c)
  PROVE  /\ UNCHANGED <<cart, isSRAMDirty>>
         /\ unsaved' \cap 0..cart.RamBankCount - 1
              \subseteq unsaved \cap 0..cart.RamBankCount - 1
  <1>1. CASE \E v \in Bytes : HasRTCWriteRom67(v)
    <2>1. PICK v \in Bytes : HasRTCWriteRom67(v)
      BY <1>1
    <2>2. UNCHANGED <<cart, isSRAMDirty>>
      BY <2>1 DEF HasRTCWriteRom67, flags
    <2>3. CASE unsaved' = unsaved
      BY <2>2, <2>3
    <2>4. CASE /\ ~isSRAMDisabled
               /\ unsaved' = unsaved \cup ({SRAM + r : r \in ClockRegisters}
                                            \cap 0..cart.RamCells - 1)
      <3>1. cart \in Carts /\ cart.RamBankCount \in Nat
        BY CartFacts DEF IInv, TypeOK
      <3>2. cart.RamBankCount <= 8
        BY <3>1, <2>1, RamSizeAssumption DEF HasRTCWriteRom67
      <3>3. SRAM \in Nat
        BY <2>4 DEF IInv, TypeOK, SramWindow, Byte
      <3>4. ASSUME NEW r \in ClockRegisters
            PROVE  SRAM + r \notin 0..cart.RamBankCount - 1
        BY <3>1, <3>2, <3>3 DEF ClockRegisters
      <3>5. QED
        BY <2>2, <2>4, <3>4
    <2>5. QED
      BY <2>1, <2>3, <2>4, Zenon DEF HasRTCWriteRom67
  <1>2. CASE ~\E v \in Bytes : HasRTCWriteRom67(v)
    <2>1. UNCHANGED <<isSRAMDirty, unsaved>> /\ cart' = cart
      BY <1>2 DEF Next, GameStep, Reset, WriteBiosSwitch, WriteRom01,
         Mbc1WriteRom01, SetSramEnable, Mbc1WriteRom67, Mbc1WriteRom23,
         Mbc2WriteRom0123, Mbc3WriteRom23, Mbc5WriteRom2, Mbc5WriteRom3,
         Mbc1WriteRom45, Mbc3WriteRom45, Mbc5WriteRom45, SelectRamBank,
         flags, saveVars
    <2>2. QED
      BY <2>1
  <1>3. QED
    BY <1>1, <1>2

(* The flags change at a load or a reset only, and a reset cannot make     *)
(* them describe the cartridge when they did not.                          *)
LEMMA FlagsSettled ==
  ASSUME IInv, Next, \A c \in Carts : ~LoadCartridge(c), hasRTC' = cart'.rtc
  PROVE  hasRTC = cart.rtc
  <1>1. /\ cart.rtc \in BOOLEAN /\ hasRTC \in BOOLEAN
        /\ cart.rtc => hasRTC
    BY CartFacts DEF IInv, TypeOK, RegistersInRange
  <1>2. CASE Reset
    BY <1>1, <1>2, Zenon DEF Reset, SetInfo
  <1>3. CASE ~Reset
    <2>1. hasRTC' = hasRTC /\ cart' = cart
      BY <1>3 DEF Next, GameStep, WriteBiosSwitch, WriteRom01, SaveToCartridge,
         Mbc1WriteRom01, SetSramEnable, Mbc1WriteRom67, Mbc1WriteRom23,
         Mbc2WriteRom0123, Mbc3WriteRom23, Mbc5WriteRom2, Mbc5WriteRom3,
         Mbc1WriteRom45, Mbc3WriteRom45, Mbc5WriteRom45, SelectRamBank,
         HasRTCWriteRom67, WriteSRAM, flags
    <2>2. QED
      BY <2>1
  <1>4. QED
    BY <1>2, <1>3

(* A change to a RAM bank of the header is announced by the dirty flag     *)
(* until it is saved, with no clock of an earlier cartridge in the way.    *)
THEOREM UnsavedIsDirty == Spec => []DirtyCoversUnsaved
  <1>1. Init => DirtyCoversUnsaved
    BY DEF Init, DirtyCoversUnsaved
  <1>2. IInv /\ DirtyCoversUnsaved /\ [Next]_vars => DirtyCoversUnsaved'
    <2> SUFFICES ASSUME IInv, DirtyCoversUnsaved, [Next]_vars, hasRTC' = cart'.rtc,
                        unsaved' \cap 0..cart'.RamBankCount - 1 # {}
                 PROVE  isSRAMDirty'
      BY DEF DirtyCoversUnsaved
    <2>1. ASSUME NEW c \in Carts, LoadCartridge(c) PROVE isSRAMDirty'
      BY <2>1 DEF LoadCartridge
    <2>2. CASE WriteSRAM
      BY <2>2 DEF WriteSRAM
    <2>3. CASE SaveToCartridge
      BY <2>3 DEF SaveToCartridge, flags
    <2>4. CASE UNCHANGED vars
      BY <2>4 DEF vars, flags, saveVars, DirtyCoversUnsaved
    <2>5. CASE /\ Next /\ ~SaveToCartridge /\ ~WriteSRAM
               /\ \A c \in Carts : ~LoadCartridge(c)
      <3>1. hasRTC = cart.rtc
        BY <2>5, FlagsSettled
      <3>2. /\ UNCHANGED <<cart, isSRAMDirty>>
            /\ unsaved' \cap 0..cart.RamBankCount - 1
                 \subseteq unsaved \cap 0..cart.RamBankCount - 1
        BY <2>5, <3>1, OnlyWritesUnsave
      <3>3. isSRAMDirty
        BY <3>1, <3>2 DEF DirtyCoversUnsaved
      <3>4. QED
        BY <3>2, <3>3
    <2>6. QED
      BY <2>1, <2>2, <2>3, <2>4, <2>5
  <1>3. QED
    BY <1>1, <1>2, Inductive, PTL DEF Spec

(* No step changes cartridge RAM while it is disabled.                     *)
THEOREM DisabledRamIsKept == Spec => DisabledRamKept
  <1>1. IInv /\ [Next]_vars => [isSRAMDisabled => unsaved' \subseteq unsaved]_vars
    <2> SUFFICES ASSUME IInv, Next, isSRAMDisabled
                 PROVE  unsaved' \subseteq unsaved
      OBVIOUS
    <2>1. SRAM = DisabledPage
      BY DEF IInv, SramWindow
    <2>2. ASSUME NEW c \in Carts, LoadCartridge(c)
          PROVE  unsaved' \subseteq unsaved
      BY <2>2 DEF LoadCartridge
    <2>3. CASE WriteSRAM
      BY <2>1, <2>3, Zenon DEF WriteSRAM
    <2>4. CASE SaveToCartridge
      BY <2>4 DEF SaveToCartridge
    <2>5. ASSUME NEW v \in Bytes, HasRTCWriteRom67(v)
          PROVE  unsaved' \subseteq unsaved
      BY <2>5, Zenon DEF HasRTCWriteRom67
    <2>6. CASE /\ ~SaveToCartridge /\ ~WriteSRAM
               /\ \A c \in Carts : ~LoadCartridge(c)
               /\ \A v \in Bytes : ~HasRTCWriteRom67(v)
      BY <2>6 DEF Next, GameStep, Reset, WriteBiosSwitch, WriteRom01,
         Mbc1WriteRom01, SetSramEnable, Mbc1WriteRom67, Mbc1WriteRom23,
         Mbc2WriteRom0123, Mbc3WriteRom23, Mbc5WriteRom2, Mbc5WriteRom3,
         Mbc1WriteRom45, Mbc3WriteRom45, Mbc5WriteRom45, SelectRamBank,
         saveVars
    <2>7. QED
      BY <2>2, <2>3, <2>4, <2>5, <2>6
  <1>2. QED
    BY <1>1, Inductive, PTL DEF Spec, DisabledRamKept
=============================================================================
