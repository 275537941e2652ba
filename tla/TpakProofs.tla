------------------------------ MODULE TpakProofs ------------------------------
(***************************************************************************)
(* What the driver of the Transfer Pak does with every cartridge, whatever *)
(* its controller and the number of its banks, and however many accesses   *)
(* are lost.                                                               *)
(***************************************************************************)
EXTENDS Tpak, SequenceTheorems, TLAPS

-----------------------------------------------------------------------------
(* A short list put after another, written out.                            *)
LEMMA Joins ==
  ASSUME NEW S, NEW s \in Seq(S), NEW t \in Seq(S), NEW u \in Seq(S),
         Len(u) = Len(s) + Len(t),
         \A i \in 1..Len(u) : u[i] = IF i <= Len(s) THEN s[i] ELSE t[i - Len(s)]
  PROVE  s \o t = u
  BY ConcatProperties, SeqEqual

LEMMA Joined11 ==
  ASSUME NEW a, NEW b
  PROVE  /\ <<a>> \o <<b>> = <<a, b>>
         /\ Append(<<a>>, b) = <<a, b>>
<1> DEFINE S == {a, b}
           s == <<a>>
           t == <<b>>
           u == <<a, b>>
<1>1. /\ s \in Seq(S) /\ t \in Seq(S) /\ u \in Seq(S)
      /\ Len(s) = 1 /\ Len(t) = 1 /\ Len(u) = 2 /\ Len(u) = Len(s) + Len(t)
  OBVIOUS
<1>2. /\ u[1] = s[1] /\ u[2] = t[1]
  OBVIOUS
<1>3. b \in S
  OBVIOUS
<1> HIDE DEF S, s, t, u
<1>4. \A i \in 1..Len(u) : u[i] = IF i <= Len(s) THEN s[i] ELSE t[i - Len(s)]
  BY <1>1, <1>2
<1>5. s \o t = u
  BY <1>1, <1>4, Joins, Zenon
<1>6. Append(s, b) = u
  BY <1>1, <1>3, <1>5, AppendIsConcat DEF t
<1> QED
  BY <1>5, <1>6 DEF s, t, u

LEMMA Joined12 ==
  ASSUME NEW a, NEW b, NEW c
  PROVE  <<a>> \o <<b, c>> = <<a, b, c>>
<1> DEFINE S == {a, b, c}
           s == <<a>>
           t == <<b, c>>
           u == <<a, b, c>>
<1>1. /\ s \in Seq(S) /\ t \in Seq(S) /\ u \in Seq(S)
      /\ Len(s) = 1 /\ Len(t) = 2 /\ Len(u) = 3 /\ Len(u) = Len(s) + Len(t)
  OBVIOUS
<1>2. /\ u[1] = s[1] /\ u[2] = t[1] /\ u[3] = t[2]
  OBVIOUS
<1> HIDE DEF S, s, t, u
<1>3. \A i \in 1..Len(u) : u[i] = IF i <= Len(s) THEN s[i] ELSE t[i - Len(s)]
  BY <1>1, <1>2
<1>4. s \o t = u
  BY <1>1, <1>3, Joins, Zenon
<1> QED
  BY <1>4 DEF s, t, u

LEMMA Joined13 ==
  ASSUME NEW a, NEW b, NEW c, NEW d
  PROVE  <<a>> \o <<b, c, d>> = <<a, b, c, d>>
<1> DEFINE S == {a, b, c, d}
           s == <<a>>
           t == <<b, c, d>>
           u == <<a, b, c, d>>
<1>1. /\ s \in Seq(S) /\ t \in Seq(S) /\ u \in Seq(S)
      /\ Len(s) = 1 /\ Len(t) = 3 /\ Len(u) = 4 /\ Len(u) = Len(s) + Len(t)
  OBVIOUS
<1>2. /\ u[1] = s[1] /\ u[2] = t[1] /\ u[3] = t[2] /\ u[4] = t[3]
  OBVIOUS
<1> HIDE DEF S, s, t, u
<1>3. \A i \in 1..Len(u) : u[i] = IF i <= Len(s) THEN s[i] ELSE t[i - Len(s)]
  BY <1>1, <1>2
<1>4. s \o t = u
  BY <1>1, <1>3, Joins, Zenon
<1> QED
  BY <1>4 DEF s, t, u

LEMMA Joined14 ==
  ASSUME NEW a, NEW b, NEW c, NEW d, NEW e
  PROVE  <<a>> \o <<b, c, d, e>> = <<a, b, c, d, e>>
<1> DEFINE S == {a, b, c, d, e}
           s == <<a>>
           t == <<b, c, d, e>>
           u == <<a, b, c, d, e>>
<1>1. /\ s \in Seq(S) /\ t \in Seq(S) /\ u \in Seq(S)
      /\ Len(s) = 1 /\ Len(t) = 4 /\ Len(u) = 5 /\ Len(u) = Len(s) + Len(t)
  OBVIOUS
<1>2. /\ u[1] = s[1] /\ u[2] = t[1] /\ u[3] = t[2] /\ u[4] = t[3]
      /\ u[5] = t[4]
  OBVIOUS
<1> HIDE DEF S, s, t, u
<1>3. \A i \in 1..Len(u) : u[i] = IF i <= Len(s) THEN s[i] ELSE t[i - Len(s)]
  BY <1>1, <1>2
<1>4. s \o t = u
  BY <1>1, <1>3, Joins, Zenon
<1> QED
  BY <1>4 DEF s, t, u

LEMMA Joined21 ==
  ASSUME NEW a, NEW b, NEW c
  PROVE  /\ <<a, b>> \o <<c>> = <<a, b, c>>
         /\ Append(<<a, b>>, c) = <<a, b, c>>
<1> DEFINE S == {a, b, c}
           s == <<a, b>>
           t == <<c>>
           u == <<a, b, c>>
<1>1. /\ s \in Seq(S) /\ t \in Seq(S) /\ u \in Seq(S)
      /\ Len(s) = 2 /\ Len(t) = 1 /\ Len(u) = 3 /\ Len(u) = Len(s) + Len(t)
  OBVIOUS
<1>2. /\ u[1] = s[1] /\ u[2] = s[2] /\ u[3] = t[1]
  OBVIOUS
<1>3. c \in S
  OBVIOUS
<1> HIDE DEF S, s, t, u
<1>4. \A i \in 1..Len(u) : u[i] = IF i <= Len(s) THEN s[i] ELSE t[i - Len(s)]
  BY <1>1, <1>2
<1>5. s \o t = u
  BY <1>1, <1>4, Joins, Zenon
<1>6. Append(s, c) = u
  BY <1>1, <1>3, <1>5, AppendIsConcat DEF t
<1> QED
  BY <1>5, <1>6 DEF s, t, u

LEMMA Joined22 ==
  ASSUME NEW a, NEW b, NEW c, NEW d
  PROVE  <<a, b>> \o <<c, d>> = <<a, b, c, d>>
<1> DEFINE S == {a, b, c, d}
           s == <<a, b>>
           t == <<c, d>>
           u == <<a, b, c, d>>
<1>1. /\ s \in Seq(S) /\ t \in Seq(S) /\ u \in Seq(S)
      /\ Len(s) = 2 /\ Len(t) = 2 /\ Len(u) = 4 /\ Len(u) = Len(s) + Len(t)
  OBVIOUS
<1>2. /\ u[1] = s[1] /\ u[2] = s[2] /\ u[3] = t[1] /\ u[4] = t[2]
  OBVIOUS
<1> HIDE DEF S, s, t, u
<1>3. \A i \in 1..Len(u) : u[i] = IF i <= Len(s) THEN s[i] ELSE t[i - Len(s)]
  BY <1>1, <1>2
<1>4. s \o t = u
  BY <1>1, <1>3, Joins, Zenon
<1> QED
  BY <1>4 DEF s, t, u

LEMMA Joined23 ==
  ASSUME NEW a, NEW b, NEW c, NEW d, NEW e
  PROVE  <<a, b>> \o <<c, d, e>> = <<a, b, c, d, e>>
<1> DEFINE S == {a, b, c, d, e}
           s == <<a, b>>
           t == <<c, d, e>>
           u == <<a, b, c, d, e>>
<1>1. /\ s \in Seq(S) /\ t \in Seq(S) /\ u \in Seq(S)
      /\ Len(s) = 2 /\ Len(t) = 3 /\ Len(u) = 5 /\ Len(u) = Len(s) + Len(t)
  OBVIOUS
<1>2. /\ u[1] = s[1] /\ u[2] = s[2] /\ u[3] = t[1] /\ u[4] = t[2]
      /\ u[5] = t[3]
  OBVIOUS
<1> HIDE DEF S, s, t, u
<1>3. \A i \in 1..Len(u) : u[i] = IF i <= Len(s) THEN s[i] ELSE t[i - Len(s)]
  BY <1>1, <1>2
<1>4. s \o t = u
  BY <1>1, <1>3, Joins, Zenon
<1> QED
  BY <1>4 DEF s, t, u

LEMMA Joined31 ==
  ASSUME NEW a, NEW b, NEW c, NEW d
  PROVE  /\ <<a, b, c>> \o <<d>> = <<a, b, c, d>>
         /\ Append(<<a, b, c>>, d) = <<a, b, c, d>>
<1> DEFINE S == {a, b, c, d}
           s == <<a, b, c>>
           t == <<d>>
           u == <<a, b, c, d>>
<1>1. /\ s \in Seq(S) /\ t \in Seq(S) /\ u \in Seq(S)
      /\ Len(s) = 3 /\ Len(t) = 1 /\ Len(u) = 4 /\ Len(u) = Len(s) + Len(t)
  OBVIOUS
<1>2. /\ u[1] = s[1] /\ u[2] = s[2] /\ u[3] = s[3] /\ u[4] = t[1]
  OBVIOUS
<1>3. d \in S
  OBVIOUS
<1> HIDE DEF S, s, t, u
<1>4. \A i \in 1..Len(u) : u[i] = IF i <= Len(s) THEN s[i] ELSE t[i - Len(s)]
  BY <1>1, <1>2
<1>5. s \o t = u
  BY <1>1, <1>4, Joins, Zenon
<1>6. Append(s, d) = u
  BY <1>1, <1>3, <1>5, AppendIsConcat DEF t
<1> QED
  BY <1>5, <1>6 DEF s, t, u

LEMMA Joined32 ==
  ASSUME NEW a, NEW b, NEW c, NEW d, NEW e
  PROVE  <<a, b, c>> \o <<d, e>> = <<a, b, c, d, e>>
<1> DEFINE S == {a, b, c, d, e}
           s == <<a, b, c>>
           t == <<d, e>>
           u == <<a, b, c, d, e>>
<1>1. /\ s \in Seq(S) /\ t \in Seq(S) /\ u \in Seq(S)
      /\ Len(s) = 3 /\ Len(t) = 2 /\ Len(u) = 5 /\ Len(u) = Len(s) + Len(t)
  OBVIOUS
<1>2. /\ u[1] = s[1] /\ u[2] = s[2] /\ u[3] = s[3] /\ u[4] = t[1]
      /\ u[5] = t[2]
  OBVIOUS
<1> HIDE DEF S, s, t, u
<1>3. \A i \in 1..Len(u) : u[i] = IF i <= Len(s) THEN s[i] ELSE t[i - Len(s)]
  BY <1>1, <1>2
<1>4. s \o t = u
  BY <1>1, <1>3, Joins, Zenon
<1> QED
  BY <1>4 DEF s, t, u

LEMMA Joined33 ==
  ASSUME NEW a, NEW b, NEW c, NEW d, NEW e, NEW f
  PROVE  <<a, b, c>> \o <<d, e, f>> = <<a, b, c, d, e, f>>
<1> DEFINE S == {a, b, c, d, e, f}
           s == <<a, b, c>>
           t == <<d, e, f>>
           u == <<a, b, c, d, e, f>>
<1>1. /\ s \in Seq(S) /\ t \in Seq(S) /\ u \in Seq(S)
      /\ Len(s) = 3 /\ Len(t) = 3 /\ Len(u) = 6 /\ Len(u) = Len(s) + Len(t)
  OBVIOUS
<1>2. /\ u[1] = s[1] /\ u[2] = s[2] /\ u[3] = s[3] /\ u[4] = t[1]
      /\ u[5] = t[2] /\ u[6] = t[3]
  OBVIOUS
<1> HIDE DEF S, s, t, u
<1>3. \A i \in 1..Len(u) : u[i] = IF i <= Len(s) THEN s[i] ELSE t[i - Len(s)]
  BY <1>1, <1>2
<1>4. s \o t = u
  BY <1>1, <1>3, Joins, Zenon
<1> QED
  BY <1>4 DEF s, t, u

LEMMA Joined41 ==
  ASSUME NEW a, NEW b, NEW c, NEW d, NEW e
  PROVE  /\ <<a, b, c, d>> \o <<e>> = <<a, b, c, d, e>>
         /\ Append(<<a, b, c, d>>, e) = <<a, b, c, d, e>>
<1> DEFINE S == {a, b, c, d, e}
           s == <<a, b, c, d>>
           t == <<e>>
           u == <<a, b, c, d, e>>
<1>1. /\ s \in Seq(S) /\ t \in Seq(S) /\ u \in Seq(S)
      /\ Len(s) = 4 /\ Len(t) = 1 /\ Len(u) = 5 /\ Len(u) = Len(s) + Len(t)
  OBVIOUS
<1>2. /\ u[1] = s[1] /\ u[2] = s[2] /\ u[3] = s[3] /\ u[4] = s[4]
      /\ u[5] = t[1]
  OBVIOUS
<1>3. e \in S
  OBVIOUS
<1> HIDE DEF S, s, t, u
<1>4. \A i \in 1..Len(u) : u[i] = IF i <= Len(s) THEN s[i] ELSE t[i - Len(s)]
  BY <1>1, <1>2
<1>5. s \o t = u
  BY <1>1, <1>4, Joins, Zenon
<1>6. Append(s, e) = u
  BY <1>1, <1>3, <1>5, AppendIsConcat DEF t
<1> QED
  BY <1>5, <1>6 DEF s, t, u

LEMMA Joined51 ==
  ASSUME NEW a, NEW b, NEW c, NEW d, NEW e, NEW f
  PROVE  /\ <<a, b, c, d, e>> \o <<f>> = <<a, b, c, d, e, f>>
         /\ Append(<<a, b, c, d, e>>, f) = <<a, b, c, d, e, f>>
<1> DEFINE S == {a, b, c, d, e, f}
           s == <<a, b, c, d, e>>
           t == <<f>>
           u == <<a, b, c, d, e, f>>
<1>1. /\ s \in Seq(S) /\ t \in Seq(S) /\ u \in Seq(S)
      /\ Len(s) = 5 /\ Len(t) = 1 /\ Len(u) = 6 /\ Len(u) = Len(s) + Len(t)
  OBVIOUS
<1>2. /\ u[1] = s[1] /\ u[2] = s[2] /\ u[3] = s[3] /\ u[4] = s[4]
      /\ u[5] = s[5] /\ u[6] = t[1]
  OBVIOUS
<1>3. f \in S
  OBVIOUS
<1> HIDE DEF S, s, t, u
<1>4. \A i \in 1..Len(u) : u[i] = IF i <= Len(s) THEN s[i] ELSE t[i - Len(s)]
  BY <1>1, <1>2
<1>5. s \o t = u
  BY <1>1, <1>4, Joins, Zenon
<1>6. Append(s, f) = u
  BY <1>1, <1>3, <1>5, AppendIsConcat DEF t
<1> QED
  BY <1>5, <1>6 DEF s, t, u

LEMMA Joined61 ==
  ASSUME NEW a, NEW b, NEW c, NEW d, NEW e, NEW f, NEW g
  PROVE  /\ <<a, b, c, d, e, f>> \o <<g>> = <<a, b, c, d, e, f, g>>
         /\ Append(<<a, b, c, d, e, f>>, g) = <<a, b, c, d, e, f, g>>
<1> DEFINE S == {a, b, c, d, e, f, g}
           s == <<a, b, c, d, e, f>>
           t == <<g>>
           u == <<a, b, c, d, e, f, g>>
<1>1. /\ s \in Seq(S) /\ t \in Seq(S) /\ u \in Seq(S)
      /\ Len(s) = 6 /\ Len(t) = 1 /\ Len(u) = 7 /\ Len(u) = Len(s) + Len(t)
  OBVIOUS
<1>2. /\ u[1] = s[1] /\ u[2] = s[2] /\ u[3] = s[3] /\ u[4] = s[4]
      /\ u[5] = s[5] /\ u[6] = s[6] /\ u[7] = t[1]
  OBVIOUS
<1>3. g \in S
  OBVIOUS
<1> HIDE DEF S, s, t, u
<1>4. \A i \in 1..Len(u) : u[i] = IF i <= Len(s) THEN s[i] ELSE t[i - Len(s)]
  BY <1>1, <1>2
<1>5. s \o t = u
  BY <1>1, <1>4, Joins, Zenon
<1>6. Append(s, g) = u
  BY <1>1, <1>3, <1>5, AppendIsConcat, SMTT(30) DEF t
<1> QED
  BY <1>5, <1>6 DEF s, t, u

-----------------------------------------------------------------------------
(* The accesses, and the values that may reach the registers.              *)
AccessSet ==
  {a \in [access : {"set", "readRom", "readRam", "writeRam", "tpak_init",
                    "tpak_get_cartridge_header"},
          address : Nat, value : 0..255] :
     /\ a.access = "set" =>
          \/ a.address = CARTRIDGE_POWER_ADDRESS
               /\ a.value \in {CARTRIDGE_POWER_ON, CARTRIDGE_POWER_OFF}
          \/ a.address = TPAK_STATUS_ADDRESS
          \/ a.address = TPAK_BANK_ADDRESS /\ a.value \in ROM0..SRAM
          \/ a.address = ROM_ADDRESS_OFFSET /\ a.value <= 15
          \/ a.address \in {57344, 57600}
          \/ a.address = 61440 /\ a.value = 0
     /\ a.access \in {"readRam", "writeRam"} => a.value \in RamBanks \cup Counters
     /\ a.access = "writeRam" => a.address = 57344
     /\ a.access = "tpak_get_cartridge_header" => a = Call(a.access)}

(* All that neither turn the pak off nor read a header.                    *)
Header == Call("tpak_get_cartridge_header")
Lit == AccessSet \ {LightsOff, Header}

LEMMA Addresses ==
  /\ MapAddress(ENABLE_GB_RAM_ADDRESS) = 49152
  /\ MapAddress(GB_RAM_BANK_ADDRESS) = 49152
  /\ MapAddress(GB_ROM_BANK_ADDRESS) = 57600
  /\ MapAddress(GB_UPPER_ROM_BANK_ADDRESS) = 61440
  /\ MapAddress(GB_BANK_MODE_ADDRESS) = 57344
  /\ MapAddress(GB_RTC_LATCH_ADDRESS) = 57344
  /\ MapAddress(SRAM_ADDRESS) = 57344
  BY DEF MapAddress, ENABLE_GB_RAM_ADDRESS, GB_RAM_BANK_ADDRESS,
         GB_ROM_BANK_ADDRESS, GB_UPPER_ROM_BANK_ADDRESS, GB_BANK_MODE_ADDRESS,
         GB_RTC_LATCH_ADDRESS, SRAM_ADDRESS, ROM_ADDRESS_OFFSET

PowerOn == SetTpakValue(CARTRIDGE_POWER_ADDRESS, CARTRIDGE_POWER_ON)
AccessOn == SetTpakValue(TPAK_STATUS_ADDRESS, TPAK_STATUS_ACCESS_ON)
Enable == Poke(ENABLE_GB_RAM_ADDRESS, ENABLE_GB_RAM)
Upper(v) == Poke(GB_RAM_BANK_ADDRESS, v)
Low(v) == Poke(GB_ROM_BANK_ADDRESS, v)
Mode(v) == Poke(GB_BANK_MODE_ADDRESS, v)

LEMMA ClockCounters ==
  Counters = IF cartridge.clock THEN 8..12 ELSE {}
  BY DEF Counters, ClockRegisters

(* A cartridge with a clock has no bank with the number of a counter.      *)
LEMMA BanksOrCounters ==
  ASSUME cartridge \in Cartridges
  PROVE  /\ cartridge.RamBankCount \in 0..16
         /\ RamBanks \cup Counters \subseteq 0..15
         /\ RamBanks \cap Counters = {}
         /\ cartridge.clock => cartridge.Type = "MBC3" /\ cartridge.RamBankCount <= 8
<1>1. cartridge.RamBankCount \in {0, 1, 4, 8, 16}
  BY CartridgesAssumption
<1>2. cartridge.clock => cartridge.Type = "MBC3" /\ cartridge.RamBankCount <= 8
  BY SelectableAssumption
<1> QED
  BY <1>1, <1>2, ClockCounters DEF RamBanks

LEMMA SingleAccesses ==
  ASSUME cartridge \in Cartridges
  PROVE
  /\ Select(ROM0) \in Lit /\ Select(ROMX) \in Lit
  /\ Select(SRAM) \in Lit
  /\ Enable \in Lit
  /\ \A v \in 0..15 : Upper(v) \in Lit
  /\ \A v \in 0..255 : /\ Low(v) \in Lit /\ Mode(v) \in Lit
                       /\ Poke(GB_RTC_LATCH_ADDRESS, v) \in Lit
                       /\ ReadRom(v) \in Lit
  /\ Poke(GB_UPPER_ROM_BANK_ADDRESS, 0) \in Lit
  /\ \A v \in RamBanks \cup Counters :
       ReadRam(v) \in Lit /\ WriteRam(v) \in Lit
  /\ LightsOff \in AccessSet /\ PowerOn \in Lit /\ AccessOn \in Lit
  /\ Call("tpak_init") \in Lit /\ Header \in AccessSet
<1> USE DEF Lit, Header, Call, LightsOff, SetTpakValue,
            CARTRIDGE_POWER_ADDRESS, CARTRIDGE_POWER_OFF
<1>1. /\ Select(ROM0) \in Lit /\ Select(ROMX) \in Lit
      /\ Select(SRAM) \in Lit
      /\ LightsOff \in AccessSet /\ PowerOn \in Lit /\ AccessOn \in Lit
      /\ Call("tpak_init") \in Lit /\ Header \in AccessSet
  BY DEF Select, LightsOff, Call, SetTpakValue, AccessSet, TPAK_BANK_ADDRESS,
         CARTRIDGE_POWER_ADDRESS, TPAK_STATUS_ADDRESS, ROM_ADDRESS_OFFSET,
         CARTRIDGE_POWER_OFF, ROM0, ROMX, SRAM, PowerOn, AccessOn,
         CARTRIDGE_POWER_ON, TPAK_STATUS_ACCESS_ON
<1>2. Enable \in Lit /\ \A v \in 0..15 : Upper(v) \in Lit
  BY Addresses DEF Poke, SetTpakValue, AccessSet, ROM_ADDRESS_OFFSET, Enable,
                   Upper, ENABLE_GB_RAM
<1>3. \A v \in 0..255 : Low(v) \in Lit
  BY Addresses DEF Poke, SetTpakValue, AccessSet, Low
<1>7. \A v \in 0..255 : Mode(v) \in Lit
  BY Addresses DEF Poke, SetTpakValue, AccessSet, Mode
<1>8. Poke(GB_UPPER_ROM_BANK_ADDRESS, 0) \in Lit
  BY Addresses DEF Poke, SetTpakValue, AccessSet
<1>6. \A v \in 0..255 : Poke(GB_RTC_LATCH_ADDRESS, v) \in Lit
  BY Addresses DEF Poke, SetTpakValue, AccessSet
<1>4. \A v \in 0..255 : ReadRom(v) \in Lit
  BY DEF ReadRom, AccessSet, ROM_ADDRESS_OFFSET
<1>5. \A v \in RamBanks \cup Counters :
        ReadRam(v) \in Lit /\ WriteRam(v) \in Lit
  <2> TAKE v \in RamBanks \cup Counters
  <2>1. v \in 0..255
    BY BanksOrCounters
  <2> QED
    BY <2>1, Addresses DEF ReadRam, WriteRam, AccessSet
<1> QED
  BY <1>1, <1>2, <1>3, <1>4, <1>5, <1>6, <1>7, <1>8

(* The pieces of the functions, written out.                               *)
LEMMA OpeningAccesses ==
  ASSUME cartridge \in Cartridges
  PROVE  /\ InitialiseTPak = <<PowerOn, AccessOn, Call("tpak_init"), Enable>>
         /\ GetCartridgeMetadata = <<PowerOn, AccessOn, Call("tpak_init"), Enable,
                                     Call("tpak_get_cartridge_header")>>
<1>2. InitialiseTPak = <<PowerOn, AccessOn>> \o <<Call("tpak_init"), Enable>>
  BY DEF InitialiseTPak, LightsOn, PowerOn, AccessOn, Enable
<1>3. InitialiseTPak = <<PowerOn, AccessOn, Call("tpak_init"), Enable>>
  BY <1>2, Joined22, Zenon
<1>4. GetCartridgeMetadata =
        <<PowerOn, AccessOn, Call("tpak_init"), Enable>>
          \o <<Call("tpak_get_cartridge_header")>>
  BY <1>3, Zenon DEF GetCartridgeMetadata
<1>5. <<PowerOn, AccessOn, Call("tpak_init"), Enable>>
        \o <<Call("tpak_get_cartridge_header")>> =
          <<PowerOn, AccessOn, Call("tpak_init"), Enable,
            Call("tpak_get_cartridge_header")>>
  BY Joined41, Zenon
<1> QED
  BY <1>3, <1>4, <1>5, Zenon

LEMMA RomXAccesses ==
  ASSUME cartridge \in Cartridges, NEW bank \in 1..127
  PROVE  LET type == cartridge.Type
             low == Low(bank % LowBanks(type))
             up == Upper((bank \div 32) % 4)
         IN  ~(type = "MBC1" /\ bank \in {32, 64, 96}) =>
             AccessesOf("importRom", bank) =
               IF type = "MBC1" /\ bank >= 32
               THEN <<Select(ROMX), Mode(0), up, Select(ROM0), low, Select(ROMX),
                      ReadRom(bank)>>
               ELSE IF type = "MBC1"
               THEN <<Select(ROMX), up, Select(ROM0), low, Select(ROMX),
                      ReadRom(bank)>>
               ELSE IF type = "MBC5"
               THEN <<Poke(GB_UPPER_ROM_BANK_ADDRESS, 0), Select(ROM0), low,
                      Select(ROMX), ReadRom(bank)>>
               ELSE <<Select(ROM0), low, Select(ROMX), ReadRom(bank)>>
<1> DEFINE S == Lit
           type == cartridge.Type
           l == Low(bank % LowBanks(type))
           u == Upper((bank \div 32) % 4)
           h == Poke(GB_UPPER_ROM_BANK_ADDRESS, 0)
           x == Select(ROMX)
           o == Select(ROM0)
           m == Mode(0)
           r == ReadRom(bank)
<1>1. type \in Types
  BY CartridgesAssumption
<1>2. l \in S
  <2>1. LowBanks(type) \in {1, 16, 32, 128, 256}
    BY <1>1 DEF LowBanks, Types
  <2>2. bank % LowBanks(type) \in 0..255
    BY <2>1
  <2> QED
    BY <2>2, SingleAccesses
<1>3. u \in S /\ h \in S /\ x \in S /\ o \in S /\ m \in S /\ r \in S
  <2>1. (bank \div 32) % 4 \in 0..15 /\ 0 \in 0..255 /\ bank \in 0..255
    OBVIOUS
  <2> QED
    BY <2>1, SingleAccesses, Zenon
<1> SUFFICES ASSUME ~(type = "MBC1" /\ bank \in {32, 64, 96})
             PROVE  AccessesOf("importRom", bank) =
                      IF type = "MBC1" /\ bank >= 32
                      THEN <<x, m, u, o, l, x, r>>
                      ELSE IF type = "MBC1" THEN <<x, u, o, l, x, r>>
                      ELSE IF type = "MBC5" THEN <<h, o, l, x, r>>
                      ELSE <<o, l, x, r>>
  OBVIOUS
<1>4. AccessesOf("importRom", bank) =
        Append(SwitchUpperBits(bank, type) \o <<o, l, x>>, r)
  <2>1. bank # 0
    OBVIOUS
  <2> QED
    BY <2>1 DEF AccessesOf, SwitchBank, Low
<1>5. (bank \div 256) % 2 = 0
  OBVIOUS
<1>6. SwitchUpperBits(bank, type) =
        OnlyIf(type = "MBC1", <<x>> \o OnlyIf(bank >= 32, <<m>>) \o <<u>>)
          \o OnlyIf(type = "MBC5", <<h>>)
  BY <1>5 DEF SwitchUpperBits, Mode, Upper, GB_ROM_BANK_MODE
<1> HIDE DEF l, u, h, x, o, m, r, type, S
<1>7. /\ <<x, u>> \in Seq(S) /\ <<x, m, u>> \in Seq(S) /\ <<h>> \in Seq(S)
      /\ <<x>> \in Seq(S)
      /\ <<o, l, x>> \in Seq(S)
  BY <1>2, <1>3
<1>8. CASE type = "MBC1" /\ bank >= 32
  <2>1. SwitchUpperBits(bank, type) = ((<<x>> \o <<m>>) \o <<u>>) \o <<>>
    BY <1>6, <1>8 DEF OnlyIf
  <2>2. ((<<x>> \o <<m>>) \o <<u>>) \o <<>> = <<x, m, u>>
    <3>1. <<x>> \o <<m>> = <<x, m>>
      BY Joined11, Zenon
    <3>2. <<x, m>> \o <<u>> = <<x, m, u>>
      BY Joined21, Zenon
    <3>3. <<x, m, u>> \o <<>> = <<x, m, u>>
      BY <1>7, ConcatEmptySeq, Zenon
    <3> QED
      BY <3>1, <3>2, <3>3, Zenon
  <2>3. <<x, m, u>> \o <<o, l, x>> = <<x, m, u, o, l, x>>
    BY Joined33
  <2>4. Append(<<x, m, u, o, l, x>>, r) = <<x, m, u, o, l, x, r>>
    BY Joined61, ZenonT(60)
  <2> QED
    BY <1>4, <1>8, <2>1, <2>2, <2>3, <2>4, Zenon
<1>9. CASE type = "MBC1" /\ ~(bank >= 32)
  <2>1. SwitchUpperBits(bank, type) = ((<<x>> \o <<>>) \o <<u>>) \o <<>>
    BY <1>6, <1>9 DEF OnlyIf
  <2>2. ((<<x>> \o <<>>) \o <<u>>) \o <<>> = <<x, u>>
    <3>1. <<x>> \o <<>> = <<x>>
      BY <1>7, ConcatEmptySeq, Zenon
    <3>2. <<x>> \o <<u>> = <<x, u>>
      BY Joined11, Zenon
    <3>3. <<x, u>> \o <<>> = <<x, u>>
      BY <1>7, ConcatEmptySeq, Zenon
    <3> QED
      BY <3>1, <3>2, <3>3, Zenon
  <2>3. <<x, u>> \o <<o, l, x>> = <<x, u, o, l, x>>
    BY Joined23, Zenon
  <2>4. Append(<<x, u, o, l, x>>, r) = <<x, u, o, l, x, r>>
    BY Joined51, Zenon
  <2> QED
    BY <1>4, <1>9, <2>1, <2>2, <2>3, <2>4, Zenon
<1>10. CASE type = "MBC5"
  <2>1. SwitchUpperBits(bank, type) = <<>> \o <<h>>
    BY <1>6, <1>10 DEF OnlyIf
  <2>2. <<>> \o <<h>> = <<h>>
    BY <1>7, ConcatEmptySeq, Zenon
  <2>3. <<h>> \o <<o, l, x>> = <<h, o, l, x>>
    BY Joined13, Zenon
  <2>4. Append(<<h, o, l, x>>, r) = <<h, o, l, x, r>>
    BY Joined41, Zenon
  <2>5. type # "MBC1"
    BY <1>10
  <2> QED
    BY <1>4, <1>10, <2>1, <2>2, <2>3, <2>4, <2>5, Zenon
<1>11. CASE type # "MBC1" /\ type # "MBC5"
  <2>1. SwitchUpperBits(bank, type) = <<>> \o <<>>
    BY <1>6, <1>11 DEF OnlyIf
  <2>2. (<<>> \o <<>>) \o <<o, l, x>> = <<o, l, x>>
    <3>1. <<>> \in Seq(S)
      BY EmptySeq
    <3> QED
      BY <1>7, <3>1, ConcatEmptySeq, Zenon
  <2>3. Append(<<o, l, x>>, r) = <<o, l, x, r>>
    BY Joined31, Zenon
  <2> QED
    BY <1>4, <1>11, <2>1, <2>2, <2>3, Zenon
<1> QED
  BY <1>8, <1>9, <1>10, <1>11, Zenon

LEMMA Rom0Accesses ==
  ASSUME cartridge \in Cartridges, NEW bank \in 0..127,
         bank = 0 \/ (cartridge.Type = "MBC1" /\ bank \in {32, 64, 96})
  PROVE  AccessesOf("importRom", bank) =
           IF bank = 0 THEN <<Select(ROM0), ReadRom(bank)>>
           ELSE <<Select(ROMX), Select(ROMX), Mode(1), Upper(bank \div 32),
                  Select(ROM0), ReadRom(bank)>>
<1> DEFINE x == Select(ROMX)
           o == Select(ROM0)
           m == Mode(1)
           u == Upper(bank \div 32)
           r == ReadRom(bank)
<1>1. CASE bank = 0
  <2>1. AccessesOf("importRom", bank) = Append(<<o>>, r)
    BY <1>1 DEF AccessesOf, SwitchBank
  <2>2. Append(<<o>>, r) = <<o, r>>
    BY Joined11, Zenon
  <2> QED
    BY <1>1, <2>1, <2>2
<1>2. CASE bank # 0
  <2>1. AccessesOf("importRom", bank) = Append(<<x>> \o <<x, m, u, o>>, r)
    BY <1>2 DEF AccessesOf, SwitchBank, SwitchROM0Bank, Mode, Upper,
                GB_RAM_BANK_MODE
  <2> HIDE DEF x, o, m, u, r
  <2>2. <<x>> \o <<x, m, u, o>> = <<x, x, m, u, o>>
    BY Joined14, Zenon
  <2>3. Append(<<x, x, m, u, o>>, r) = <<x, x, m, u, o, r>>
    BY Joined51, ZenonT(60)
  <2>4. AccessesOf("importRom", bank) = <<x, x, m, u, o, r>>
    BY <2>1, <2>2, <2>3, Zenon
  <2> QED
    BY <1>2, <2>4 DEF x, o, m, u, r
<1> QED
  BY <1>1, <1>2

LEMMA RamAccesses ==
  ASSUME NEW bank, NEW name \in {"importRam", "exportRam"}
  PROVE  LET last == IF name = "importRam" THEN ReadRam(bank) ELSE WriteRam(bank)
         IN  AccessesOf(name, bank) =
               IF cartridge.Type = "MBC1" /\ bank > 0
               THEN <<Select(ROMX), Mode(1), Upper(bank), Select(SRAM), last>>
               ELSE <<Select(ROMX), Upper(bank), Select(SRAM), last>>
<1> DEFINE last == IF name = "importRam" THEN ReadRam(bank) ELSE WriteRam(bank)
           type == cartridge.Type
           x == Select(ROMX)
           m == Mode(1)
           u == Upper(bank)
           s == Select(SRAM)
           rest == OnlyIf(type = "MBC1" /\ bank > 0, <<m>>)
<1>1. AccessesOf(name, bank) = Append((<<x>> \o rest) \o <<u, s>>, last)
  BY DEF AccessesOf, SwitchRamBank, Mode, Upper, GB_RAM_BANK_MODE
<1>2. rest = IF type = "MBC1" /\ bank > 0 THEN <<m>> ELSE <<>>
  BY DEF OnlyIf
<1> HIDE DEF last, x, m, u, s, rest
<1>3. CASE type = "MBC1" /\ bank > 0
  <2>1. <<x>> \o <<m>> = <<x, m>>
    BY Joined11, Zenon
  <2>2. <<x, m>> \o <<u, s>> = <<x, m, u, s>>
    BY Joined22, Zenon
  <2>3. Append(<<x, m, u, s>>, last) = <<x, m, u, s, last>>
    BY Joined41, Zenon
  <2>4. AccessesOf(name, bank) = <<x, m, u, s, last>>
    BY <1>1, <1>2, <1>3, <2>1, <2>2, <2>3, Zenon
  <2> QED
    BY <1>3, <2>4 DEF last, x, m, u, s
<1>4. CASE ~(type = "MBC1" /\ bank > 0)
  <2>1. <<x>> \o <<>> = <<x>>
    <3>1. <<x>> \in Seq({x})
      OBVIOUS
    <3> QED
      BY <3>1, ConcatEmptySeq, Zenon
  <2>2. <<x>> \o <<u, s>> = <<x, u, s>>
    BY Joined12, Zenon
  <2>3. Append(<<x, u, s>>, last) = <<x, u, s, last>>
    BY Joined31, Zenon
  <2>4. AccessesOf(name, bank) = <<x, u, s, last>>
    BY <1>1, <1>2, <1>4, <2>1, <2>2, <2>3, Zenon
  <2> QED
    BY <1>4, <2>4 DEF last, x, u, s
<1> QED
  BY <1>3, <1>4

LEMMA LatchAccesses ==
  LatchClock = <<Select(ROM0), Enable, Select(ROMX),
                 Poke(GB_RTC_LATCH_ADDRESS, 0), Poke(GB_RTC_LATCH_ADDRESS, 1)>>
<1> DEFINE a == Poke(GB_RTC_LATCH_ADDRESS, 0)
           b == Poke(GB_RTC_LATCH_ADDRESS, 1)
<1>1. LatchClock = <<Select(ROM0), Enable>> \o <<Select(ROMX), a, b>>
  BY DEF LatchClock, EnableRam, Enable
<1>2. <<Select(ROM0), Enable>> \o <<Select(ROMX), a, b>> =
        <<Select(ROM0), Enable, Select(ROMX), a, b>>
  BY Joined23, Zenon
<1> QED
  BY <1>1, <1>2, Zenon

LEMMA RumbleAccesses ==
  ToggleRumble(IsRumbling) =
    IF IsRumbling THEN <<PowerOn, AccessOn, Select(ROMX), Upper(8)>>
    ELSE <<PowerOn, AccessOn, Select(ROMX), Upper(0), LightsOff>>
<1> DEFINE s == <<PowerOn, AccessOn, Select(ROMX)>>
<1>1. LightsOn \o <<Select(ROMX)>> = s
  <2>1. LightsOn = <<PowerOn, AccessOn>>
    BY DEF LightsOn, PowerOn, AccessOn
  <2> QED
    BY <2>1, Joined21, Zenon
<1>2. ToggleRumble(IsRumbling) =
        (LightsOn \o <<Select(ROMX)>>)
          \o (IF IsRumbling THEN <<Upper(8)>> ELSE <<Upper(0), LightsOff>>)
  BY DEF ToggleRumble, Upper, RUMBLE_START, RUMBLE_STOP
<1>3. s \o <<Upper(8)>> = <<PowerOn, AccessOn, Select(ROMX), Upper(8)>>
  BY Joined31, Zenon
<1>4. s \o <<Upper(0), LightsOff>> =
        <<PowerOn, AccessOn, Select(ROMX), Upper(0), LightsOff>>
  BY Joined32, Zenon
<1> QED
  BY <1>1, <1>2, <1>3, <1>4, Zenon

Names == {"getCartridgeMetadata", "importRom", "initialiseTPak", "importRam",
          "latchClock", "importRTCData", "exportRam", "enableRam",
          "exportRTCData", "lightsOff", "toggleRumble"}

Allowed(name) ==
  Lit \cup (IF name \in {"lightsOff", "toggleRumble"} THEN {LightsOff}
            ELSE IF name = "getCartridgeMetadata" THEN {Header} ELSE {})

(* Each piece of a function is a list of at least one access.              *)
LEMMA PiecesOfAccesses ==
  ASSUME NEW name \in Names, NEW bank \in Nat, cartridge \in Cartridges,
         name = "importRom" => bank \in 0..127,
         name \in {"importRam", "exportRam"} => bank \in RamBanks,
         name \in {"importRTCData", "exportRTCData"} =>
           cartridge.clock /\ bank \in 0..4
  PROVE  /\ AccessesOf(name, bank) \in Seq(Allowed(name))
         /\ Len(AccessesOf(name, bank)) >= 1
<1> DEFINE Listed(s) == s \in Seq(Allowed(name)) /\ Len(s) >= 1
<1> SUFFICES Listed(AccessesOf(name, bank))
  OBVIOUS
<1> DEFINE S == Allowed(name)
           type == cartridge.Type
<1>0. Lit \subseteq S
  BY DEF Lit, Allowed
<1>1. /\ Select(ROM0) \in S /\ Select(ROMX) \in S /\ Select(SRAM) \in S
      /\ PowerOn \in S /\ AccessOn \in S /\ Enable \in S
      /\ Call("tpak_init") \in S
  BY <1>0, SingleAccesses
<1>2. type \in Types
  BY CartridgesAssumption
<1>3. CASE name = "importRom"
  <2>1. bank \in 0..127 /\ ReadRom(bank) \in S
    <3>1. bank \in 0..127 /\ bank \in 0..255
      BY <1>3
    <3> QED
      BY <1>0, <3>1, SingleAccesses
  <2>2. CASE bank = 0 \/ (type = "MBC1" /\ bank \in {32, 64, 96})
    <3>1. /\ bank \div 32 \in 0..15 /\ 1 \in 0..255
      BY <2>1
    <3>2. Mode(1) \in S /\ Upper(bank \div 32) \in S
      BY <1>0, <3>1, SingleAccesses
    <3>3. /\ Listed(<<Select(ROM0), ReadRom(bank)>>)
          /\ Listed(<<Select(ROMX), Select(ROMX), Mode(1), Upper(bank \div 32),
                      Select(ROM0), ReadRom(bank)>>)
      BY <1>1, <2>1, <3>2
    <3>4. AccessesOf(name, bank) \in
            {<<Select(ROM0), ReadRom(bank)>>,
             <<Select(ROMX), Select(ROMX), Mode(1), Upper(bank \div 32),
               Select(ROM0), ReadRom(bank)>>}
      BY <1>3, <2>1, <2>2, Rom0Accesses
    <3> HIDE DEF Listed
    <3> QED
      BY <3>3, <3>4, Zenon
  <2>3. CASE ~(bank = 0 \/ (type = "MBC1" /\ bank \in {32, 64, 96}))
    <3> DEFINE low == Low(bank % LowBanks(type))
               up == Upper((bank \div 32) % 4)
               high == Poke(GB_UPPER_ROM_BANK_ADDRESS, 0)
               x == Select(ROMX)
               o == Select(ROM0)
               m == Mode(0)
               r == ReadRom(bank)
    <3>1. bank \in 1..127
      BY <2>1, <2>3
    <3>2. LowBanks(type) \in {1, 16, 32, 128, 256}
      BY <1>2 DEF LowBanks, Types
    <3>3. /\ (bank \div 32) % 4 \in 0..15 /\ 0 \in 0..255
          /\ bank % LowBanks(type) \in 0..255
      BY <3>1, <3>2
    <3>4. low \in S /\ up \in S /\ high \in S /\ m \in S /\ x \in S /\ o \in S
          /\ r \in S
      BY <1>0, <1>1, <2>1, <3>3, SingleAccesses
    <3>5. AccessesOf(name, bank) \in
            {<<x, m, up, o, low, x, r>>, <<x, up, o, low, x, r>>,
             <<high, o, low, x, r>>, <<o, low, x, r>>}
      BY <1>3, <2>3, <3>1, RomXAccesses
    <3> HIDE DEF low, up, high, m, x, o, r
    <3>6. /\ Listed(<<x, m, up, o, low, x, r>>)
          /\ Listed(<<x, up, o, low, x, r>>)
          /\ Listed(<<high, o, low, x, r>>) /\ Listed(<<o, low, x, r>>)
      BY <3>4
    <3> HIDE DEF Listed
    <3> QED
      BY <3>5, <3>6, Zenon
  <2> QED
    BY <2>2, <2>3
<1>4. CASE name \in {"importRam", "exportRam"}
  <2>1. bank \in 0..15 /\ bank \in RamBanks /\ 1 \in 0..255
    BY <1>4, BanksOrCounters
  <2>2. /\ ReadRam(bank) \in S /\ WriteRam(bank) \in S /\ Upper(bank) \in S
        /\ Mode(1) \in S
    BY <1>0, <2>1, SingleAccesses
  <2> DEFINE last == IF name = "importRam" THEN ReadRam(bank) ELSE WriteRam(bank)
  <2>3. last \in S
    BY <2>2
  <2>4. AccessesOf(name, bank) \in
          {<<Select(ROMX), Mode(1), Upper(bank), Select(SRAM), last>>,
           <<Select(ROMX), Upper(bank), Select(SRAM), last>>}
    BY <1>4, RamAccesses
  <2> HIDE DEF last
  <2>5. /\ Listed(<<Select(ROMX), Mode(1), Upper(bank), Select(SRAM), last>>)
        /\ Listed(<<Select(ROMX), Upper(bank), Select(SRAM), last>>)
    BY <1>1, <2>2, <2>3
  <2> HIDE DEF Listed
  <2> QED
    BY <2>4, <2>5, Zenon
<1>5. CASE name \in {"importRTCData", "exportRTCData"}
  <2>1. 8 + bank \in 0..15 /\ 8 + bank \in Counters
    BY <1>5, ClockCounters
  <2>2. /\ Upper(8 + bank) \in S
        /\ ReadRam(8 + bank) \in S /\ WriteRam(8 + bank) \in S
    BY <1>0, <2>1, SingleAccesses
  <2>3. /\ Listed(<<Select(ROMX), Upper(8 + bank), Select(SRAM), ReadRam(8 + bank)>>)
        /\ Listed(<<Select(ROMX), Upper(8 + bank), WriteRam(8 + bank)>>)
    BY <1>1, <2>2
  <2>4. AccessesOf(name, bank) =
          IF name = "importRTCData" THEN ReadClockRegister(bank)
          ELSE WriteClockRegister(bank)
    BY <1>5 DEF AccessesOf
  <2> QED
    BY <2>3, <2>4, Zenon DEF ReadClockRegister, WriteClockRegister, Upper
<1>6. CASE name = "initialiseTPak"
  <2>1. Listed(<<PowerOn, AccessOn, Call("tpak_init"), Enable>>)
    BY <1>1
  <2>2. AccessesOf(name, bank) = InitialiseTPak
    BY <1>6 DEF AccessesOf
  <2> QED
    BY <2>1, <2>2, OpeningAccesses, Zenon
<1>11. CASE name = "getCartridgeMetadata"
  <2>1. Header \in S
    BY <1>11 DEF Allowed
  <2>2. Listed(<<PowerOn, AccessOn, Call("tpak_init"), Enable, Header>>)
    BY <1>1, <2>1
  <2>3. AccessesOf(name, bank) = GetCartridgeMetadata
    BY <1>11 DEF AccessesOf
  <2> QED
    BY <2>2, <2>3, OpeningAccesses, Zenon DEF Header
<1>7. CASE name = "enableRam"
  <2>1. Listed(<<Select(ROM0), Enable>>)
    BY <1>1
  <2> QED
    BY <1>7, <2>1 DEF AccessesOf, EnableRam, Enable
<1>8. CASE name = "latchClock"
  <2>1. 0 \in 0..255 /\ 1 \in 0..255
    OBVIOUS
  <2>2. /\ Poke(GB_RTC_LATCH_ADDRESS, 0) \in S
        /\ Poke(GB_RTC_LATCH_ADDRESS, 1) \in S
    BY <1>0, <2>1, SingleAccesses, Zenon
  <2>3. Listed(<<Select(ROM0), Enable, Select(ROMX),
                 Poke(GB_RTC_LATCH_ADDRESS, 0), Poke(GB_RTC_LATCH_ADDRESS, 1)>>)
    BY <1>1, <2>2
  <2>4. AccessesOf(name, bank) = LatchClock
    BY <1>8 DEF AccessesOf
  <2> QED
    BY <2>3, <2>4, LatchAccesses, Zenon
<1>12. name \in {"lightsOff", "toggleRumble"} => LightsOff \in S
  BY SingleAccesses DEF Allowed
<1>9. CASE name = "lightsOff"
  BY <1>9, <1>12 DEF AccessesOf
<1>10. CASE name = "toggleRumble"
  <2>1. Upper(8) \in S /\ Upper(0) \in S
    <3>1. 8 \in 0..15 /\ 0 \in 0..15
      OBVIOUS
    <3> QED
      BY <1>0, <3>1, SingleAccesses
  <2>2. AccessesOf(name, bank) \in
          {<<PowerOn, AccessOn, Select(ROMX), Upper(8)>>,
           <<PowerOn, AccessOn, Select(ROMX), Upper(0), LightsOff>>}
    BY <1>10, RumbleAccesses DEF AccessesOf
  <2>3. /\ Listed(<<PowerOn, AccessOn, Select(ROMX), Upper(8)>>)
        /\ Listed(<<PowerOn, AccessOn, Select(ROMX), Upper(0), LightsOff>>)
    BY <1>1, <1>10, <1>12, <2>1
  <2> HIDE DEF Listed
  <2> QED
    BY <2>2, <2>3, Zenon
<1> QED
  BY <1>3, <1>4, <1>5, <1>6, <1>7, <1>8, <1>9, <1>10, <1>11
     DEF Names

-----------------------------------------------------------------------------
(* The functions, and where the driver is in one.                          *)
Functions3 == {"import", "export", "rumble"}

(* The name of a piece, and how often it is carried out.                   *)
LEMMA ProgramPieces ==
  ASSUME transfer \in Functions3, cartridge \in Cartridges
  PROVE  /\ Len(Program) \in 1..7 /\ Program[1].count = 1
         /\ \A j \in 1..Len(Program) :
              /\ Program[j].name \in Names /\ Program[j].count \in Nat
              /\ Program[j].name = "importRom" =>
                   Program[j].count = cartridge.RomBankCount
              /\ Program[j].name \in {"importRam", "exportRam"} =>
                   Program[j].count = cartridge.RamBankCount
              /\ Program[j].name \in {"importRTCData", "exportRTCData"} =>
                   Program[j].count = IfClock(5)
<1>1. /\ cartridge.RomBankCount \in 0..128 /\ cartridge.RamBankCount \in 0..16
      /\ IfClock(1) \in 0..1 /\ IfClock(5) \in 0..5
  BY CartridgesAssumption DEF IfClock
<1>2. CASE transfer = "import"
  BY <1>1, <1>2 DEF Program, ImportCartridge, Once, Loop, Names
<1>3. CASE transfer = "export"
  BY <1>1, <1>3 DEF Program, ExportCartridgeRam, Once, Loop, Names
<1>4. CASE transfer = "rumble"
  BY <1>1, <1>4 DEF Program, Once, Loop, Names
<1> QED
  BY <1>2, <1>3, <1>4 DEF Functions3

Positioned ==
  IF transfer = "none" THEN at = 1 /\ iteration = 0 /\ step = 1
  ELSE /\ at \in 1..Len(Program) /\ iteration \in 0..(Piece.count - 1)
       /\ step \in 1..Len(Accesses)

LEMMA PresentAccesses ==
  ASSUME transfer \in Functions3, cartridge \in Cartridges,
         at \in 1..Len(Program), iteration \in 0..(Piece.count - 1)
  PROVE  /\ Accesses \in Seq(Allowed(Piece.name))
         /\ Len(Accesses) \in Nat /\ Len(Accesses) >= 1
<1>1. /\ Piece.name \in Names /\ Piece.count \in Nat
      /\ Piece.name = "importRom" => Piece.count = cartridge.RomBankCount
      /\ Piece.name \in {"importRam", "exportRam"} =>
           Piece.count = cartridge.RamBankCount
      /\ Piece.name \in {"importRTCData", "exportRTCData"} =>
           Piece.count = IfClock(5)
  BY ProgramPieces DEF Piece
<1> DEFINE name == Piece.name
           count == Piece.count
<1>2. cartridge.RomBankCount \in 0..128
  BY CartridgesAssumption
<1>3. /\ name \in Names /\ count \in Nat /\ iteration \in 0..(count - 1)
      /\ name = "importRom" => count = cartridge.RomBankCount
      /\ name \in {"importRam", "exportRam"} => count = cartridge.RamBankCount
      /\ name \in {"importRTCData", "exportRTCData"} => count = IfClock(5)
  BY <1>1, Zenon
<1> HIDE DEF name, count
<1>4. /\ iteration \in Nat
      /\ name = "importRom" => iteration \in 0..127
      /\ name \in {"importRam", "exportRam"} => iteration \in RamBanks
      /\ name \in {"importRTCData", "exportRTCData"} =>
           cartridge.clock /\ iteration \in 0..4
  <2>1. RamBanks = 0..(cartridge.RamBankCount - 1) /\ cartridge.RamBankCount \in 0..16
    BY BanksOrCounters DEF RamBanks
  <2>2. IfClock(5) = IF cartridge.clock THEN 5 ELSE 0
    BY DEF IfClock
  <2>3. iteration \in Nat
    <3>1. count \in Nat /\ iteration \in 0..(count - 1)
      BY <1>3, Zenon
    <3> QED
      BY <3>1
  <2>6. ASSUME name = "importRom" PROVE iteration \in 0..127
    <3>1. iteration \in 0..(cartridge.RomBankCount - 1)
      BY <1>3, <2>6, Zenon
    <3> DEFINE n == cartridge.RomBankCount
    <3>2. n \in 0..128 /\ iteration \in 0..(n - 1)
      BY <1>2, <3>1
    <3> HIDE DEF n
    <3> QED
      BY <3>2
  <2>4. name \in {"importRam", "exportRam"} => iteration \in RamBanks
    BY <1>3, <2>1
  <2>5. ASSUME name \in {"importRTCData", "exportRTCData"}
        PROVE  cartridge.clock /\ iteration \in 0..4
    <3>1. iteration \in 0..((IF cartridge.clock THEN 5 ELSE 0) - 1)
      BY <1>3, <2>2, <2>5, Zenon
    <3>2. CASE cartridge.clock
      BY <3>1, <3>2
    <3>3. CASE ~cartridge.clock
      BY <3>1, <3>3
    <3> QED
      BY <3>2, <3>3
  <2> QED
    BY <2>3, <2>4, <2>5, <2>6, Zenon
<1>5. /\ AccessesOf(name, iteration) \in Seq(Allowed(name))
      /\ Len(AccessesOf(name, iteration)) >= 1
  BY <1>3, <1>4, PiecesOfAccesses
<1> QED
  BY <1>5 DEF Accesses, name

(* The access that comes next.                                             *)
LEMMA PresentAccess ==
  ASSUME transfer \in Functions3, cartridge \in Cartridges, Positioned
  PROVE  Access \in AccessSet /\ Access \in Allowed(Piece.name)
<1>1. transfer # "none"
  BY DEF Functions3
<1>2. Accesses \in Seq(Allowed(Piece.name)) /\ step \in 1..Len(Accesses)
  BY <1>1, PresentAccesses DEF Positioned
<1>3. Access \in Allowed(Piece.name)
  BY <1>2 DEF Access
<1> QED
  BY <1>3, SingleAccesses DEF Allowed, Lit

LEMMA SameProgram ==
  ASSUME transfer' = transfer, cartridge' = cartridge
  PROVE  Program' = Program
  BY DEF Program, ImportCartridge, ExportCartridgeRam, IfClock

LEMMA SamePlace ==
  ASSUME UNCHANGED <<transfer, cartridge, at, iteration, step, IsRumbling>>
  PROVE  /\ Positioned' <=> Positioned
         /\ Piece' = Piece /\ Accesses' = Accesses /\ Access' = Access
<1>1. Program' = Program
  BY SameProgram
<1>2. Piece' = Piece
  BY <1>1 DEF Piece
<1>3. Accesses' = Accesses
  BY <1>2 DEF Accesses, AccessesOf
<1> QED
  BY <1>1, <1>2, <1>3 DEF Positioned, Access

(* After an access the driver is at the next place, or back.               *)
LEMMA AdvancesToAPlace ==
  ASSUME transfer \in Functions3, cartridge \in Cartridges, Positioned,
         NEW kinds, Advance(kinds)
  PROVE  Positioned' /\ transfer' \in {transfer, "none"}
<1>1. /\ transfer # "none" /\ at \in 1..Len(Program)
      /\ iteration \in 0..(Piece.count - 1) /\ step \in 1..Len(Accesses)
  BY DEF Positioned, Functions3
<1>2. /\ Len(Accesses) \in Nat /\ Len(Program) \in 1..7 /\ Piece.count \in Nat
      /\ cartridge' = cartridge /\ IsRumbling' = IsRumbling
  BY <1>1, PresentAccesses, ProgramPieces DEF Piece, Advance
<1>3. CASE NextAccess
  <2>1. /\ step' = step + 1 /\ step # Len(Accesses)
        /\ UNCHANGED <<transfer, at, iteration, loaded>>
    BY <1>3 DEF NextAccess, LastAccess
  <2>2. Program' = Program
    BY <1>2, <2>1, SameProgram
  <2>3. Piece' = Piece
    BY <2>1, <2>2 DEF Piece
  <2>4. Accesses' = Accesses
    BY <1>2, <2>1, <2>3 DEF Accesses, AccessesOf
  <2>5. step' \in 1..Len(Accesses)
    BY <1>1, <1>2, <2>1
  <2> QED
    BY <1>1, <2>1, <2>2, <2>3, <2>4, <2>5 DEF Positioned
<1>4. ASSUME UNCHANGED transfer, at' \in 1..Len(Program), step' = 1,
             iteration' \in 0..(Program[at'].count - 1)
      PROVE  Positioned'
  <2>1. Program' = Program /\ Piece' = Program[at']
    BY <1>2, <1>4, SameProgram DEF Piece
  <2>2. (Len(Accesses) \in Nat /\ Len(Accesses) >= 1)'
    <3>1. (transfer \in Functions3 /\ cartridge \in Cartridges
           /\ at \in 1..Len(Program) /\ iteration \in 0..(Piece.count - 1))'
      BY <1>2, <1>4, <2>1
    <3> QED
      BY <3>1, PresentAccesses, PTL
  <2> QED
    BY <1>1, <1>4, <2>1, <2>2 DEF Positioned
<1>5. CASE NextTurn
  <2>1. /\ iteration' = iteration + 1 /\ step' = 1 /\ ~(iteration + 1 >= Piece.count)
        /\ UNCHANGED <<transfer, at>>
    BY <1>5 DEF NextTurn, LastTurn
  <2>2. iteration' \in 0..(Piece.count - 1)
    BY <1>1, <1>2, <2>1
  <2> QED
    BY <1>1, <1>4, <2>1, <2>2 DEF Piece
<1>6. CASE NextPiece
  <2>1. /\ at' \in Later /\ iteration' = 0 /\ step' = 1 /\ UNCHANGED transfer
    BY <1>6 DEF NextPiece
  <2>2. at' \in 1..Len(Program) /\ Program[at'].count > 0
    BY <1>1, <1>2, <2>1 DEF Later
  <2>3. Program[at'].count \in Nat
    BY <2>2, ProgramPieces
  <2> QED
    BY <1>4, <2>1, <2>2, <2>3
<1>7. CASE Return
  BY <1>7 DEF Return, Positioned
<1> QED
  BY <1>3, <1>5, <1>6, <1>7
     DEF Advance, NextAccess, NextTurn, NextPiece, Return

-----------------------------------------------------------------------------
(* Which register an access to the cartridge writes.                       *)
LEMMA Registers ==
  ASSUME tpakBank \in ROM0..SRAM
  PROVE  /\ tpakBank = ROM0 =>
              /\ RegisterAt(GbAddress(49152)) = "enable"
              /\ RegisterAt(GbAddress(57344)) \in {"enable", "low"}
              /\ RegisterAt(GbAddress(57600)) = "low"
              /\ RegisterAt(GbAddress(61440)) \in {"enable", "low", "high"}
         /\ tpakBank = ROMX =>
              /\ RegisterAt(GbAddress(49152)) = "upper"
              /\ RegisterAt(GbAddress(57344)) = "mode"
              /\ RegisterAt(GbAddress(57600)) = "mode"
              /\ RegisterAt(GbAddress(61440)) = "mode"
         /\ tpakBank = SRAM =>
              \A a \in {49152, 57344, 57600, 61440} : ~(GbAddress(a) < 32768)
<1>1. CASE tpakBank = ROM0
  <2>1. /\ GbAddress(49152) = 0 /\ GbAddress(57344) = 8192
        /\ GbAddress(57600) = 8448 /\ GbAddress(61440) = 12288
    BY <1>1 DEF GbAddress, ROM0, ROM_ADDRESS_OFFSET
  <2> QED
    BY <1>1, <2>1 DEF RegisterAt, ROM0, ROMX, SRAM
<1>2. CASE tpakBank = ROMX
  <2>1. /\ GbAddress(49152) = 16384 /\ GbAddress(57344) = 24576
        /\ GbAddress(57600) = 24832 /\ GbAddress(61440) = 28672
    BY <1>2 DEF GbAddress, ROMX, ROM_ADDRESS_OFFSET
  <2> QED
    BY <1>2, <2>1 DEF RegisterAt, ROM0, ROMX, SRAM
<1>3. CASE tpakBank = SRAM
  BY <1>3 DEF GbAddress, ROM_ADDRESS_OFFSET, ROM0, ROMX, SRAM
<1> QED
  BY <1>1, <1>2, <1>3 DEF ROM0, ROMX, SRAM

(* What the variables hold.  A motor could only be driven, and a counter   *)
(* selected, by the lower half of the register of upper bits; the register *)
(* for the ninth bit of a bank's number is never set.                      *)
Timely(c) == c[1] = "time" => c[2] \in 0..MaxTime

PakOK ==
  /\ power \in BOOLEAN /\ access \in BOOLEAN /\ tpakBank \in ROM0..SRAM
  /\ mbc \in [MbcRegisters -> 0..255] /\ mbc["upper"] \in 0..15
  /\ mbc["high"] = 0

CartOK ==
  /\ clock \in [Counters -> 0..MaxTime] /\ latched \in [Counters -> 0..MaxTime]
  /\ DOMAIN cartRam = RamBanks
  /\ \A b \in RamBanks : Timely(cartRam[b])

GameOK ==
  /\ DOMAIN Ram = RamBanks \cup Counters
  /\ \A b \in RamBanks \cup Counters : Timely(Ram[b])
  /\ romFaithful \in BOOLEAN /\ loaded \in BOOLEAN /\ IsRumbling \in BOOLEAN
  /\ age \in 0..MaxAge

PlaceOK ==
  /\ transfer \in {"none"} \cup Functions3 /\ Positioned
  /\ lost \in 0..MaxLost /\ clean \in BOOLEAN /\ since \in 0..MaxTime

TypeInv ==
  cartridge \in Cartridges /\ PakOK /\ CartOK /\ GameOK /\ PlaceOK

LEMMA PowerOnSelected ==
  /\ PowerOnRegisters \in [MbcRegisters -> 0..255]
  /\ \A r \in MbcRegisters : PowerOnRegisters[r] = 0
  /\ PowerOnRegisters["upper"] = 0 /\ PowerOnRegisters["high"] = 0
  /\ PowerOnRegisters["low"] = 0 /\ PowerOnRegisters["mode"] = 0
  BY DEF PowerOnRegisters, MbcRegisters

LEMMA TypeInvMeans == TypeInv => TypeOK
  BY DEF TypeInv, TypeOK, PakOK, CartOK, GameOK, PlaceOK, Positioned, Functions3

LEMMA SameCartridge ==
  ASSUME UNCHANGED cartridge
  PROVE  /\ RamBanks' = RamBanks /\ Counters' = Counters
  BY DEF RamBanks, Counters

LEMMA InitTypeInv == Init => TypeInv
<1> SUFFICES ASSUME Init PROVE TypeInv
  OBVIOUS
<1> USE BoundsAssumption
<1>1. cartridge \in Cartridges
  BY DEF Init
<1>2. PakOK
  <2>1. /\ mbc \in [MbcRegisters -> 0..255]
        /\ mbc["upper"] \in 0..15 /\ mbc["high"] = 0
    BY PowerOnSelected DEF Init
  <2>2. ROM0 \in ROM0..SRAM
    BY DEF ROM0, SRAM
  <2> QED
    BY <2>1, <2>2, Zenon DEF Init, PakOK
<1>3. CartOK
  <2>1. \A b \in RamBanks : cartRam[b] = Save(b, 0)
    BY DEF Init
  <2> QED
    BY <2>1 DEF Init, CartOK, Timely, Save
<1>4. GameOK
  <2>1. \A b \in RamBanks \cup Counters : Timely(Ram[b])
    BY DEF Init, Timely, Nothing
  <2>2. age \in 0..MaxAge
    BY DEF Init
  <2> QED
    BY <2>1, <2>2, Zenon DEF Init, GameOK
<1>5. PlaceOK
  BY DEF Init, PlaceOK, Positioned
<1> QED
  BY <1>1, <1>2, <1>3, <1>4, <1>5 DEF TypeInv

-----------------------------------------------------------------------------
(* The steps of the driver.                                                *)
LEMMA Kinds ==
  /\ SwitchPower => Advance({"set"}) /\ Access.address = CARTRIDGE_POWER_ADDRESS
  /\ SetStatus => Advance({"set"}) /\ Access.address = TPAK_STATUS_ADDRESS
  /\ SelectTpakBank => Advance({"set"}) /\ Access.address = TPAK_BANK_ADDRESS
  /\ PokeCartridge => Advance({"set"}) /\ Access.address >= ROM_ADDRESS_OFFSET
  /\ ReadRomBank => Advance({"readRom"})
  /\ ReadRamBank => Advance({"readRam"})
  /\ WriteRamBank => Advance({"writeRam"})
  /\ TpakInit => Advance({"tpak_init"})
  /\ ReadHeader => Advance({"tpak_get_cartridge_header"})
  /\ RejectHeader => Access.access = "tpak_get_cartridge_header"
  /\ Lose => Advance({"set", "readRom", "readRam", "writeRam"})
<1>1. SwitchPower => Advance({"set"}) /\ Access.address = CARTRIDGE_POWER_ADDRESS
  BY Zenon DEF SwitchPower
<1>2. SetStatus => Advance({"set"}) /\ Access.address = TPAK_STATUS_ADDRESS
  BY Zenon DEF SetStatus
<1>3. SelectTpakBank => Advance({"set"}) /\ Access.address = TPAK_BANK_ADDRESS
  BY Zenon DEF SelectTpakBank
<1>4. PokeCartridge => Advance({"set"}) /\ Access.address >= ROM_ADDRESS_OFFSET
  BY SMT DEF PokeCartridge
<1>5. (ReadRomBank => Advance({"readRom"})) /\ (ReadRamBank => Advance({"readRam"}))
  BY Zenon DEF ReadRomBank, ReadRamBank
<1>6. (WriteRamBank => Advance({"writeRam"})) /\ (TpakInit => Advance({"tpak_init"}))
  BY Zenon DEF WriteRamBank, TpakInit
<1>7. /\ ReadHeader => Advance({"tpak_get_cartridge_header"})
      /\ RejectHeader => Access.access = "tpak_get_cartridge_header"
  BY Zenon DEF ReadHeader, RejectHeader
<1>8. Lose => Advance({"set", "readRom", "readRam", "writeRam"})
  BY Zenon DEF Lose
<1> QED
  BY <1>1, <1>2, <1>3, <1>4, <1>5, <1>6, <1>7, <1>8, Zenon

LEMMA Driving ==
  ASSUME TypeInv, DriverStep
  PROVE  /\ transfer \in Functions3 /\ transfer # "none" /\ Access \in AccessSet
         /\ Positioned' /\ transfer' \in {transfer, "none"}
         /\ UNCHANGED <<cartridge, IsRumbling, age, since>>
         /\ loaded' \in {loaded, TRUE}
         /\ Advance({Access.access}) \/ RejectHeader
<1>1. /\ cartridge \in Cartridges /\ Positioned
      /\ transfer \in {"none"} \cup Functions3
  BY DEF TypeInv, PlaceOK
<1>2. Advance({Access.access}) \/ RejectHeader
  <2>1. ASSUME NEW kinds, Advance(kinds) PROVE Advance({Access.access})
    BY <2>1 DEF Advance
  <2> QED
    BY <2>1, Kinds, Zenon DEF DriverStep
<1>3. transfer # "none"
  BY <1>2, Zenon DEF Advance, RejectHeader
<1>4. transfer \in Functions3 /\ Access \in AccessSet
  BY <1>1, <1>3, PresentAccess
<1>5. CASE RejectHeader
  BY <1>3, <1>4, <1>5 DEF RejectHeader, Positioned, gameVars
<1>6. CASE Advance({Access.access})
  <2>1. Positioned' /\ transfer' \in {transfer, "none"}
    BY <1>1, <1>4, <1>6, AdvancesToAPlace
  <2>2. loaded' \in {loaded, TRUE}
    <3>1. loaded \in BOOLEAN
      BY DEF TypeInv, GameOK
    <3>2. UNCHANGED loaded \/ loaded' = (loaded \/ transfer = "import")
      BY <1>6 DEF Advance, NextAccess, NextTurn, NextPiece, Return
    <3> QED
      BY <3>1, <3>2
  <2>3. UNCHANGED <<cartridge, IsRumbling, age, since>>
    BY <1>6, Zenon DEF Advance
  <2> QED
    BY <1>3, <1>4, <1>6, <2>1, <2>2, <2>3
<1> QED
  BY <1>2, <1>5, <1>6

LEMMA PokeTyped ==
  ASSUME PakOK, Access \in AccessSet, Access.access = "set",
         Access.address >= ROM_ADDRESS_OFFSET,
         GbAddress(Access.address) < 32768,
         SetRegister(GbAddress(Access.address), Access.value)
  PROVE  (mbc \in [MbcRegisters -> 0..255])'
         /\ mbc'["upper"] \in 0..15 /\ mbc'["high"] = 0
<1> DEFINE a == Access.address
           v == Access.value
           r == RegisterAt(GbAddress(a))
<1>1. /\ v \in 0..255
      /\ \/ a = 49152 /\ v <= 15
         \/ a \in {57344, 57600}
         \/ a = 61440 /\ v = 0
  BY DEF AccessSet, ROM_ADDRESS_OFFSET, CARTRIDGE_POWER_ADDRESS,
         TPAK_STATUS_ADDRESS, TPAK_BANK_ADDRESS
<1>2. mbc' = [mbc EXCEPT ![r] = v]
  BY DEF SetRegister
<1>3. /\ tpakBank \in ROM0..SRAM /\ GbAddress(a) < 32768
      /\ mbc \in [MbcRegisters -> 0..255] /\ mbc["upper"] \in 0..15
      /\ mbc["high"] = 0
  BY DEF PakOK
<1>4. /\ r \in MbcRegisters /\ (r = "upper" => v <= 15) /\ (r = "high" => v = 0)
  <2> HIDE DEF v
  <2>1. a \in {49152, 57344, 57600, 61440} /\ tpakBank \in {ROM0, ROMX, SRAM}
    BY <1>1, <1>3 DEF ROM0, ROMX, SRAM
  <2>2. tpakBank # SRAM
    BY <1>3, <2>1, Registers
  <2>3. \/ r \in {"enable", "low", "mode"}
        \/ r = "upper" /\ a = 49152
        \/ r = "high" /\ a = 61440
    BY <1>3, <2>1, <2>2, Registers
  <2> QED
    BY <1>1, <2>3 DEF MbcRegisters
<1> HIDE DEF r, v
<1>5. v \in 0..255
  BY <1>1
<1> QED
  BY <1>2, <1>3, <1>4, <1>5 DEF MbcRegisters

LEMMA WriteTyped ==
  ASSUME PakOK, tpakBank # SRAM, NEW byte \in {0, 1},
         SetRegister(GbAddress(57344), byte)
  PROVE  (mbc \in [MbcRegisters -> 0..255])'
         /\ mbc'["upper"] \in 0..15 /\ mbc'["high"] = 0
<1> DEFINE r == RegisterAt(GbAddress(57344))
<1>1. r \in {"enable", "low", "mode"}
  BY Registers DEF PakOK, ROM0, ROMX, SRAM
<1>2. mbc' = [mbc EXCEPT ![r] = byte]
  BY DEF SetRegister
<1> HIDE DEF r
<1>3. r \in MbcRegisters /\ r # "upper" /\ r # "high"
  BY <1>1 DEF MbcRegisters
<1>4. /\ byte \in 0..255 /\ (r = "upper" => byte <= 15)
      /\ (r = "high" => byte = 0)
  BY <1>3
<1>5. /\ mbc \in [MbcRegisters -> 0..255] /\ mbc["upper"] \in 0..15
      /\ mbc["high"] = 0
  BY DEF PakOK
<1> QED
  BY <1>2, <1>3, <1>4, <1>5 DEF MbcRegisters

LEMMA DriverKeepsPak == TypeInv /\ DriverStep => PakOK'
<1> SUFFICES ASSUME TypeInv, DriverStep PROVE PakOK'
  OBVIOUS
<1>1. PakOK /\ Access \in AccessSet
  BY Driving DEF TypeInv
<1>2. ASSUME mbc' = PowerOnRegisters
      PROVE  /\ (mbc \in [MbcRegisters -> 0..255])'
             /\ mbc'["upper"] \in 0..15 /\ mbc'["high"] = 0
  BY <1>2, PowerOnSelected
<1>3. ROM0 \in ROM0..SRAM
  BY DEF ROM0, SRAM
<1>4. CASE SwitchPower
  <2>1. (UNCHANGED <<access, tpakBank, mbc>>)
        \/ (access' = FALSE /\ tpakBank' = ROM0 /\ mbc' = PowerOnRegisters)
    BY <1>4, Zenon DEF SwitchPower
  <2>2. power' \in BOOLEAN
    BY <1>4, Zenon DEF SwitchPower
  <2>3. CASE UNCHANGED <<access, tpakBank, mbc>>
    BY <1>1, <2>2, <2>3, Zenon DEF PakOK
  <2>4. CASE access' = FALSE /\ tpakBank' = ROM0 /\ mbc' = PowerOnRegisters
    BY <1>2, <1>3, <2>2, <2>4, Zenon DEF PakOK
  <2> QED
    BY <2>1, <2>3, <2>4
<1>5. CASE SetStatus
  <2>1. /\ access' = (power /\ Access.value = TPAK_STATUS_ACCESS_ON)
        /\ UNCHANGED <<power, tpakBank, mbc>>
    BY <1>5, Zenon DEF SetStatus
  <2>2. access' \in BOOLEAN
    BY <2>1, Zenon
  <2> QED
    BY <1>1, <2>1, <2>2, Zenon DEF PakOK
<1>6. CASE SelectTpakBank
  <2>1. /\ Access.access = "set" /\ Access.address = TPAK_BANK_ADDRESS
        /\ tpakBank' = IF power THEN Access.value ELSE tpakBank
        /\ UNCHANGED <<power, access, mbc>>
    BY <1>6 DEF SelectTpakBank, Advance
  <2>2. Access.value \in ROM0..SRAM
    BY <1>1, <2>1 DEF AccessSet, TPAK_BANK_ADDRESS, CARTRIDGE_POWER_ADDRESS,
                      TPAK_STATUS_ADDRESS, ROM_ADDRESS_OFFSET
  <2> QED
    BY <1>1, <2>1, <2>2, Zenon DEF PakOK
<1>7. CASE PokeCartridge
  <2>1. /\ Access.access = "set" /\ Access.address >= ROM_ADDRESS_OFFSET
        /\ \/ GbAddress(Access.address) < 32768
              /\ SetRegister(GbAddress(Access.address), Access.value)
           \/ UNCHANGED mbc
    BY <1>7, SMT DEF PokeCartridge, Advance
  <2>4. UNCHANGED <<power, access, tpakBank>>
    BY <1>7, SMT DEF PokeCartridge
  <2>2. CASE UNCHANGED mbc
    BY <1>1, <2>2, <2>4, Zenon DEF PakOK
  <2>3. CASE GbAddress(Access.address) < 32768
              /\ SetRegister(GbAddress(Access.address), Access.value)
    <3>1. /\ (mbc \in [MbcRegisters -> 0..255])'
          /\ mbc'["upper"] \in 0..15 /\ mbc'["high"] = 0
      BY <1>1, <2>1, <2>3, PokeTyped
    <3> QED
      BY <1>1, <2>4, <3>1, Zenon DEF PakOK
  <2> QED
    BY <2>1, <2>2, <2>3
<1>8. CASE WriteRamBank
  <2>1. /\ Access.access = "writeRam"
        /\ \/ UNCHANGED mbc
           \/ /\ tpakBank # SRAM
              /\ \E byte \in {0, 1} : SetRegister(GbAddress(Access.address), byte)
        /\ UNCHANGED <<power, access, tpakBank>>
    BY <1>8, SMT DEF WriteRamBank, Advance
  <2>2. CASE UNCHANGED mbc
    BY <1>1, <2>1, <2>2, Zenon DEF PakOK
  <2>3. CASE /\ tpakBank # SRAM
             /\ \E byte \in {0, 1} : SetRegister(GbAddress(Access.address), byte)
    <3>1. Access.address = 57344
      BY <1>1, <2>1 DEF AccessSet
    <3>2. PICK byte \in {0, 1} : SetRegister(GbAddress(57344), byte)
      BY <2>3, <3>1
    <3>3. /\ (mbc \in [MbcRegisters -> 0..255])'
          /\ mbc'["upper"] \in 0..15 /\ mbc'["high"] = 0
      BY <1>1, <2>3, <3>2, WriteTyped
    <3> QED
      BY <1>1, <2>1, <3>3, Zenon DEF PakOK
  <2> QED
    BY <2>1, <2>2, <2>3
<1>9. CASE ReadRomBank \/ ReadRamBank \/ Lose
  <2>1. UNCHANGED <<power, access, tpakBank, mbc>>
    BY <1>9, Zenon DEF ReadRomBank, ReadRamBank, Lose, pakVars
  <2> QED
    BY <1>1, <2>1, Zenon DEF PakOK
<1>10. CASE TpakInit \/ ReadHeader \/ RejectHeader
  <2>1. tpakBank' \in {tpakBank, ROM0} /\ UNCHANGED <<power, access, mbc>>
    BY <1>10, Zenon DEF TpakInit, ReadHeader, RejectHeader
  <2> QED
    BY <1>1, <1>3, <2>1, Zenon DEF PakOK
<1> QED
  BY <1>4, <1>5, <1>6, <1>7, <1>8, <1>9, <1>10, Zenon DEF DriverStep

LEMMA DriverKeepsCart == TypeInv /\ DriverStep => CartOK'
<1> SUFFICES ASSUME TypeInv, DriverStep PROVE CartOK'
  OBVIOUS
<1>1. CartOK /\ GameOK /\ Access \in AccessSet /\ UNCHANGED <<RamBanks, Counters>>
  BY Driving, SameCartridge DEF TypeInv
<1>2. ASSUME UNCHANGED cartVars PROVE CartOK'
  BY <1>1, <1>2, Zenon DEF CartOK, cartVars
<1>3. ASSUME UNCHANGED <<clock, cartRam>>, latched' \in {clock, latched}
      PROVE  CartOK'
  BY <1>1, <1>3, Zenon DEF CartOK
<1>4. CASE PokeCartridge
  <2>1. UNCHANGED <<clock, cartRam>> /\ latched' \in {clock, latched}
    BY <1>4, SMT DEF PokeCartridge, SetRegister
  <2> QED
    BY <1>3, <2>1
<1>5. CASE WriteRamBank
  <2>1. \/ UNCHANGED cartVars
        \/ Store(Access.value) /\ UNCHANGED latched
        \/ UNCHANGED <<clock, cartRam>> /\ latched' \in {clock, latched}
    BY <1>5, SMT DEF WriteRamBank, SetRegister, cartVars
  <2>2. CASE Store(Access.value) /\ UNCHANGED latched
    <3>1. Access.value \in RamBanks \cup Counters
      <4>1. Access.access = "writeRam"
        BY <1>5 DEF WriteRamBank, Advance
      <4> QED
        BY <1>1, <4>1 DEF AccessSet
    <3>2. Timely(Ram[Access.value])
      BY <1>1, <3>1, Zenon DEF GameOK
    <3>3. /\ DOMAIN cartRam' = RamBanks
          /\ \A b \in RamBanks : cartRam'[b] \in {Ram[Access.value], cartRam[b]}
      BY <2>2, Zenon DEF Store
    <3>4. \A b \in RamBanks : Timely(cartRam'[b])
      <4> TAKE b \in RamBanks
      <4>1. Timely(cartRam[b])
        BY <1>1, Zenon DEF CartOK
      <4> QED
        BY <3>2, <3>3, <4>1, Zenon
    <3>5. clock' \in [Counters -> 0..MaxTime]
      <4>1. PICK byte \in 0..MaxTime :
              clock' = [r \in Counters |->
                         IF r \notin ShownAtSram THEN clock[r]
                         ELSE IF Ram[Access.value][1] = "time"
                         THEN Ram[Access.value][2] ELSE byte]
        BY <2>2, Zenon DEF Store
      <4>2. clock \in [Counters -> 0..MaxTime]
        BY <1>1, Zenon DEF CartOK
      <4>3. ASSUME NEW r \in Counters
            PROVE  (IF r \notin ShownAtSram THEN clock[r]
                    ELSE IF Ram[Access.value][1] = "time"
                    THEN Ram[Access.value][2] ELSE byte) \in 0..MaxTime
        <5>1. clock[r] \in 0..MaxTime
          BY <4>2, Zenon
        <5> QED
          BY <3>2, <5>1, Zenon DEF Timely
      <4> QED
        BY <4>1, <4>3, Zenon
    <3>6. latched' \in [Counters -> 0..MaxTime]
      BY <1>1, <2>2, Zenon DEF CartOK
    <3> QED
      BY <1>1, <3>3, <3>4, <3>5, <3>6, Zenon DEF CartOK, Timely
  <2> QED
    BY <1>2, <1>3, <2>1, <2>2
<1>6. CASE ~PokeCartridge /\ ~WriteRamBank
  <2>1. SwitchPower => UNCHANGED cartVars
    BY Zenon DEF SwitchPower
  <2>2. SetStatus \/ SelectTpakBank => UNCHANGED cartVars
    BY Zenon DEF SetStatus, SelectTpakBank
  <2>3. ReadRomBank \/ ReadRamBank => UNCHANGED cartVars
    BY Zenon DEF ReadRomBank, ReadRamBank
  <2>4. TpakInit \/ ReadHeader \/ RejectHeader \/ Lose => UNCHANGED cartVars
    BY Zenon DEF TpakInit, ReadHeader, RejectHeader, Lose
  <2> QED
    BY <1>2, <1>6, <2>1, <2>2, <2>3, <2>4, Zenon DEF DriverStep
<1> QED
  BY <1>4, <1>5, <1>6

(* At A000 the cartridge shows one of its banks or counters, or nothing.   *)
LEMMA ShownBanks ==
  ASSUME cartridge \in Cartridges, PakOK
  PROVE  /\ ShownAtSram \subseteq RamBanks \cup Counters
         /\ ShownAtSram = {} \/ \E b \in RamBanks \cup Counters : ShownAtSram = {b}
<1> DEFINE up == mbc["upper"]
           n == cartridge.RamBankCount
           bank == CASE cartridge.Type = "MBC1" ->
                          IF mbc["mode"] % 2 = 1 THEN up % 4 ELSE 0
                     [] cartridge.Type = "MBC3" -> up
                     [] cartridge.Type = "MBC5" ->
                          up % (IF cartridge.rumble THEN 8 ELSE 16)
                     [] OTHER -> 0
<1>1. up \in 0..15
  BY DEF PakOK
<1>2. n \in 0..16
  BY BanksOrCounters
<1>3. ShownAtSram = {} \/ (up \in Counters /\ ShownAtSram = {up})
      \/ (RamBanks # {} /\ ShownAtSram = {bank % n})
  BY Zenon DEF ShownAtSram
<1>4. bank \in Nat
  <2> HIDE DEF up
  <2>1. (IF mbc["mode"] % 2 = 1 THEN up % 4 ELSE 0) \in Nat
    BY <1>1
  <2>2. up % (IF cartridge.rumble THEN 8 ELSE 16) \in Nat
    BY <1>1
  <2> QED
    BY <1>1, <2>1, <2>2
<1> HIDE DEF bank, up
<1>5. RamBanks # {} => bank % n \in RamBanks
  BY <1>2, <1>4 DEF RamBanks
<1> QED
  BY <1>3, <1>5

LEMMA DriverKeepsGame == TypeInv /\ DriverStep => GameOK'
<1> SUFFICES ASSUME TypeInv, DriverStep PROVE GameOK'
  OBVIOUS
<1>1. /\ CartOK /\ GameOK /\ PakOK /\ Access \in AccessSet /\ cartridge \in Cartridges
      /\ UNCHANGED <<RamBanks, Counters, IsRumbling, age>>
      /\ loaded' \in {loaded, TRUE}
  BY Driving, SameCartridge DEF TypeInv
<1>2. loaded' \in BOOLEAN /\ IsRumbling' \in BOOLEAN /\ age' \in 0..MaxAge
  BY <1>1, Zenon DEF GameOK
<1>3. romFaithful' \in BOOLEAN
  <2>1. romFaithful \in BOOLEAN
    BY <1>1, Zenon DEF GameOK
  <2>2. (SwitchPower => UNCHANGED romFaithful) /\ (SetStatus => UNCHANGED romFaithful)
    BY Zenon DEF SwitchPower, SetStatus
  <2>3. SelectTpakBank \/ TpakInit => UNCHANGED romFaithful
    BY Zenon DEF SelectTpakBank, TpakInit
  <2>4. PokeCartridge \/ WriteRamBank => UNCHANGED romFaithful
    BY SMT DEF PokeCartridge, WriteRamBank
  <2>5. ReadRamBank \/ ReadHeader \/ RejectHeader => romFaithful' \in {romFaithful, TRUE}
    BY Zenon DEF ReadRamBank, ReadHeader, RejectHeader, gameVars
  <2>6. ReadRomBank \/ Lose => romFaithful' \in BOOLEAN
    BY Zenon DEF ReadRomBank, Lose
  <2> QED
    BY <2>1, <2>2, <2>3, <2>4, <2>5, <2>6, Zenon DEF DriverStep
<1>4. ASSUME DOMAIN Ram' = RamBanks \cup Counters,
             \A b \in RamBanks \cup Counters : Timely(Ram'[b])
      PROVE  GameOK'
  BY <1>1, <1>2, <1>3, <1>4, Zenon DEF GameOK, Timely
<1>5. CASE UNCHANGED Ram
  BY <1>1, <1>4, <1>5, Zenon DEF GameOK
<1>6. CASE ReadHeader
  <2>1. Ram' = [b \in RamBanks \cup Counters |-> Nothing]
    BY <1>6, Zenon DEF ReadHeader
  <2>2. \A b \in RamBanks \cup Counters : Timely(Ram'[b])
    BY <2>1 DEF Timely, Nothing
  <2> QED
    BY <1>4, <2>1, <2>2, Zenon
<1>7. CASE ReadRamBank
  <2> DEFINE c == IF Connected /\ tpakBank = SRAM /\ ShownAtSram # {}
                  THEN LET b == CHOOSE b \in ShownAtSram : TRUE
                       IN IF b \in RamBanks THEN cartRam[b] ELSE Time(latched[b])
                  ELSE Nothing
  <2>1. Ram' = [Ram EXCEPT ![Access.value] = c]
    BY <1>7, Zenon DEF ReadRamBank
  <2>2. Timely(c)
    <3>1. Timely(Nothing)
      BY DEF Timely, Nothing
    <3>2. ASSUME ShownAtSram # {}, NEW b, b = CHOOSE x \in ShownAtSram : TRUE
          PROVE  Timely(IF b \in RamBanks THEN cartRam[b] ELSE Time(latched[b]))
      <4>1. b \in RamBanks \cup Counters
        BY <1>1, <3>2, ShownBanks
      <4>2. CASE b \in RamBanks
        BY <1>1, <4>2, Zenon DEF CartOK
      <4>3. CASE b \notin RamBanks
        <5>1. latched[b] \in 0..MaxTime
          BY <1>1, <4>1, <4>3 DEF CartOK
        <5>2. Timely(Time(latched[b]))
          BY <5>1 DEF Timely, Time
        <5> QED
          BY <4>3, <5>2, Zenon
      <4> QED
        BY <4>2, <4>3
    <3> QED
      BY <3>1, <3>2, Zenon
  <2> HIDE DEF c
  <2>3. DOMAIN Ram' = RamBanks \cup Counters
    BY <1>1, <2>1, Zenon DEF GameOK
  <2>4. \A b \in RamBanks \cup Counters : Ram'[b] \in {c, Ram[b]}
    BY <1>1, <2>1 DEF GameOK
  <2>5. \A b \in RamBanks \cup Counters : Timely(Ram'[b])
    <3> TAKE b \in RamBanks \cup Counters
    <3>1. Timely(Ram[b])
      BY <1>1, Zenon DEF GameOK
    <3> QED
      BY <2>2, <2>4, <3>1, Zenon
  <2> QED
    BY <1>4, <2>3, <2>5
<1>8. CASE ~ReadHeader /\ ~ReadRamBank
  <2>1. (SwitchPower => UNCHANGED Ram) /\ (SetStatus => UNCHANGED Ram)
    BY Zenon DEF SwitchPower, SetStatus
  <2>2. SelectTpakBank \/ TpakInit => UNCHANGED Ram
    BY Zenon DEF SelectTpakBank, TpakInit
  <2>3. PokeCartridge \/ WriteRamBank => UNCHANGED Ram
    BY SMT DEF PokeCartridge, WriteRamBank
  <2>4. ReadRomBank \/ RejectHeader \/ Lose => UNCHANGED Ram
    BY Zenon DEF ReadRomBank, RejectHeader, Lose, gameVars
  <2> QED
    BY <1>5, <1>8, <2>1, <2>2, <2>3, <2>4, Zenon DEF DriverStep
<1> QED
  BY <1>6, <1>7, <1>8

LEMMA DriverKeepsPlace == TypeInv /\ DriverStep => PlaceOK'
<1> SUFFICES ASSUME TypeInv, DriverStep PROVE PlaceOK'
  OBVIOUS
<1>1. /\ transfer \in Functions3 /\ Positioned' /\ transfer' \in {transfer, "none"}
      /\ UNCHANGED since /\ PlaceOK
  BY Driving DEF TypeInv
<1>2. lost' \in 0..MaxLost
  <2>1. lost \in 0..MaxLost /\ MaxLost \in Nat
    BY <1>1, BoundsAssumption, Zenon DEF PlaceOK
  <2>2. Lose => lost < MaxLost /\ lost' = lost + 1
    BY Zenon DEF Lose
  <2>3. (SwitchPower => UNCHANGED lost) /\ (SetStatus => UNCHANGED lost)
    BY Zenon DEF SwitchPower, SetStatus
  <2>4. SelectTpakBank \/ TpakInit => UNCHANGED lost
    BY Zenon DEF SelectTpakBank, TpakInit
  <2>5. PokeCartridge \/ WriteRamBank => UNCHANGED lost
    BY SMT DEF PokeCartridge, WriteRamBank
  <2>6. ReadRamBank \/ ReadRomBank \/ ReadHeader \/ RejectHeader => UNCHANGED lost
    BY Zenon DEF ReadRamBank, ReadRomBank, ReadHeader, RejectHeader
  <2>7. UNCHANGED lost \/ (lost < MaxLost /\ lost' = lost + 1)
    BY <2>2, <2>3, <2>4, <2>5, <2>6, Zenon DEF DriverStep
  <2> QED
    BY <2>1, <2>7
<1>3. clean' \in BOOLEAN
  <2>1. clean \in BOOLEAN
    BY <1>1, Zenon DEF PlaceOK
  <2>2. SwitchPower => UNCHANGED clean \/ clean' = (clean \/ ~power')
    BY Zenon DEF SwitchPower
  <2>3. Lose => clean' = FALSE
    BY Zenon DEF Lose
  <2>4. SelectTpakBank \/ TpakInit \/ SetStatus => UNCHANGED clean
    BY Zenon DEF SelectTpakBank, TpakInit, SetStatus
  <2>5. PokeCartridge \/ WriteRamBank => UNCHANGED clean
    BY SMT DEF PokeCartridge, WriteRamBank
  <2>6. ReadRamBank \/ ReadRomBank \/ ReadHeader \/ RejectHeader => UNCHANGED clean
    BY Zenon DEF ReadRamBank, ReadRomBank, ReadHeader, RejectHeader
  <2>7. UNCHANGED clean \/ clean' = FALSE \/ clean' = (clean \/ ~power')
    BY <2>2, <2>3, <2>4, <2>5, <2>6, Zenon DEF DriverStep
  <2> QED
    BY <2>1, <2>7, Zenon
<1> QED
  BY <1>1, <1>2, <1>3, Zenon DEF PlaceOK

(* The steps of the console, and of the clock.                             *)
ConsoleStep == Import \/ Export \/ Rumble \/ GameSaves \/ GameSetsClock \/ Tick

LEMMA Beginning ==
  ASSUME TypeInv, NEW function \in Functions3, Begin(function)
  PROVE  /\ transfer = "none" /\ transfer' = function
         /\ at' = 1 /\ iteration' = 0 /\ step' = 1 /\ Positioned'
         /\ since' \in 0..MaxTime
         /\ UNCHANGED <<cartridge, pakVars, cartVars, Ram, romFaithful, age, lost>>
<1>1. /\ transfer = "none" /\ transfer' = function
      /\ UNCHANGED <<at, iteration, step>>
      /\ UNCHANGED <<cartridge, pakVars, cartVars, Ram, romFaithful, age, lost>>
  BY Zenon DEF Begin
<1>2. at' = 1 /\ iteration' = 0 /\ step' = 1
  BY <1>1 DEF TypeInv, PlaceOK, Positioned
<1>3. since' \in 0..MaxTime
  <2>1. since' = IF cartridge.clock THEN clock[8] ELSE 0
    BY Zenon DEF Begin
  <2>2. cartridge.clock => clock[8] \in 0..MaxTime
    BY ClockCounters DEF TypeInv, CartOK
  <2>3. 0 \in 0..MaxTime
    BY BoundsAssumption
  <2> QED
    BY <2>1, <2>2, <2>3, Zenon
<1>4. Positioned'
  <2>1. (cartridge \in Cartridges /\ transfer \in Functions3)'
    BY <1>1 DEF TypeInv
  <2>2. (Len(Program) \in 1..7 /\ Program[1].count = 1)'
    BY <2>1, ProgramPieces, PTL
  <2>3. (Piece.count = 1)' /\ 1 \in 1..Len(Program') /\ 0 \in 0..(1 - 1)
    BY <1>2, <2>2 DEF Piece
  <2>4. (transfer \in Functions3 /\ cartridge \in Cartridges
         /\ at \in 1..Len(Program) /\ iteration \in 0..(Piece.count - 1))'
    BY <1>2, <2>1, <2>3, Zenon
  <2>5. (Len(Accesses) \in Nat /\ Len(Accesses) >= 1)'
    BY <2>4, PresentAccesses, PTL
  <2>6. 1 \in 1..Len(Accesses')
    BY <2>5
  <2>7. transfer' # "none"
    BY <2>1 DEF Functions3
  <2> QED
    BY <1>2, <2>4, <2>6, <2>7, Zenon DEF Positioned
<1> QED
  BY <1>1, <1>2, <1>3, <1>4, Zenon

(* Nothing moves while the game plays or the clock runs.                   *)
LEMMA Unplayed ==
  ASSUME UNCHANGED unplayed
  PROVE  /\ UNCHANGED <<cartridge, power, access, tpakBank, mbc, romFaithful>>
         /\ UNCHANGED <<loaded, IsRumbling, transfer, at, iteration, step>>
         /\ UNCHANGED <<lost, clean, since>>
         /\ RamBanks' = RamBanks /\ Counters' = Counters
         /\ Positioned' <=> Positioned
         /\ Program' = Program /\ Piece' = Piece /\ Accesses' = Accesses
         /\ Access' = Access
<1>1. /\ UNCHANGED <<cartridge, power, access, tpakBank, mbc, romFaithful>>
      /\ UNCHANGED <<loaded, IsRumbling, transfer, at, iteration, step>>
      /\ UNCHANGED <<lost, clean, since>>
  BY Zenon DEF unplayed, pakVars, driverVars
<1>2. RamBanks' = RamBanks /\ Counters' = Counters
  BY <1>1, SameCartridge
<1> QED
  BY <1>1, <1>2, SamePlace, SameProgram

LEMMA ConsoleKeepsTypes == TypeInv /\ ConsoleStep => TypeInv'
<1> SUFFICES ASSUME TypeInv, ConsoleStep PROVE TypeInv'
  OBVIOUS
<1>1. /\ cartridge \in Cartridges /\ PakOK /\ CartOK /\ GameOK /\ PlaceOK
  BY DEF TypeInv
<1>2. CASE Import \/ Export \/ Rumble
  <2>1. PICK function \in Functions3 : Begin(function)
    BY <1>2, Zenon DEF Import, Export, Rumble, Functions3
  <2>2. loaded' \in BOOLEAN /\ IsRumbling' \in BOOLEAN /\ clean' \in BOOLEAN
    <3>1. loaded \in BOOLEAN /\ IsRumbling \in BOOLEAN /\ clean \in BOOLEAN
      BY <1>1, Zenon DEF GameOK, PlaceOK
    <3> QED
      BY <1>2, <3>1, Zenon DEF Import, Export, Rumble
  <2>3. /\ transfer' \in Functions3 /\ Positioned' /\ since' \in 0..MaxTime
        /\ UNCHANGED <<cartridge, pakVars, cartVars, Ram, romFaithful, age, lost>>
    BY <2>1, Beginning
  <2>4. RamBanks' = RamBanks /\ Counters' = Counters
    BY <2>3, SameCartridge, Zenon
  <2>5. PakOK'
    BY <1>1, <2>3, Zenon DEF PakOK, pakVars
  <2>6. CartOK'
    BY <1>1, <2>3, <2>4, Zenon DEF CartOK, cartVars
  <2>7. GameOK'
    BY <1>1, <2>2, <2>3, <2>4, Zenon DEF GameOK
  <2>8. PlaceOK'
    BY <1>1, <2>2, <2>3, Zenon DEF PlaceOK
  <2> QED
    BY <1>1, <2>3, <2>5, <2>6, <2>7, <2>8, Zenon DEF TypeInv
<1>3. CASE GameSaves \/ GameSetsClock \/ Tick
  <2>1. UNCHANGED unplayed
    BY <1>3, Zenon DEF GameSaves, GameSetsClock, Tick
  <2>2. PakOK' /\ PlaceOK' /\ cartridge' \in Cartridges
        /\ RamBanks' = RamBanks /\ Counters' = Counters
    <3>1. PakOK'
      BY <1>1, <2>1, Unplayed, ZenonT(60) DEF PakOK
    <3>2. PlaceOK'
      BY <1>1, <2>1, Unplayed, Zenon DEF PlaceOK
    <3> QED
      BY <1>1, <2>1, <3>1, <3>2, Unplayed, Zenon
  <2>3. romFaithful' \in BOOLEAN /\ loaded' \in BOOLEAN /\ IsRumbling' \in BOOLEAN
    BY <1>1, <2>1, Unplayed, Zenon DEF GameOK
  <2>4. CASE GameSaves \/ GameSetsClock
    <3>1. CartOK'
      <4>1. UNCHANGED cartVars
        BY <2>4, Zenon DEF GameSaves, GameSetsClock
      <4> QED
        BY <1>1, <2>2, <4>1, Zenon DEF CartOK, cartVars
    <3>2. DOMAIN Ram' = RamBanks \cup Counters
      BY <1>1, <2>4, Zenon DEF GameSaves, GameSetsClock, GameOK
    <3>3. \A b \in RamBanks \cup Counters : Timely(Ram'[b])
      <4> TAKE b \in RamBanks \cup Counters
      <4>1. Timely(Ram[b]) /\ b \in DOMAIN Ram
        BY <1>1, Zenon DEF GameOK
      <4>2. CASE GameSaves
        <5>1. Ram'[b] \in {Save(b, age'), Ram[b]}
          BY <4>1, <4>2, Zenon DEF GameSaves
        <5>2. Timely(Save(b, age'))
          BY DEF Timely, Save
        <5> QED
          BY <4>1, <5>1, <5>2, Zenon
      <4>3. CASE GameSetsClock
        <5>1. PICK t \in 0..MaxTime : Ram'[b] \in {Time(t), Ram[b]}
          BY <4>1, <4>3, Zenon DEF GameSetsClock
        <5>2. Timely(Time(t))
          BY DEF Timely, Time
        <5> QED
          BY <4>1, <5>1, <5>2, Zenon
      <4> QED
        BY <2>4, <4>2, <4>3
    <3>4. age' \in 0..MaxAge
      <4>1. age \in 0..MaxAge /\ MaxAge \in Nat
        BY <1>1, BoundsAssumption DEF GameOK
      <4>2. UNCHANGED age \/ (age < MaxAge /\ age' = age + 1)
        BY <2>4, Zenon DEF GameSaves, GameSetsClock
      <4> QED
        BY <4>1, <4>2
    <3> QED
      BY <2>2, <2>3, <3>1, <3>2, <3>3, <3>4, Zenon DEF TypeInv, GameOK, Timely
  <2>5. CASE Tick
    <3>1. /\ UNCHANGED <<latched, cartRam, Ram, age>>
          /\ clock' = [r \in Counters |-> clock[r] + 1]
          /\ \A r \in Counters : clock[r] < MaxTime
      BY <2>5, Zenon DEF Tick
    <3>2. clock' \in [Counters -> 0..MaxTime]
      <4>1. clock \in [Counters -> 0..MaxTime] /\ MaxTime \in Nat
        BY <1>1, BoundsAssumption DEF CartOK
      <4>2. \A r \in Counters : clock[r] + 1 \in 0..MaxTime
        BY <3>1, <4>1
      <4> QED
        BY <3>1, <4>2, Zenon
    <3>3. CartOK'
      BY <1>1, <2>2, <3>1, <3>2, Zenon DEF CartOK
    <3>4. GameOK'
      BY <1>1, <2>2, <2>3, <3>1, Zenon DEF GameOK
    <3> QED
      BY <2>2, <3>3, <3>4, Zenon DEF TypeInv
  <2> QED
    BY <1>3, <2>4, <2>5
<1> QED
  BY <1>2, <1>3 DEF ConsoleStep

LEMMA NextTypeInv == TypeInv /\ [Next]_vars => TypeInv'
<1> SUFFICES ASSUME TypeInv, [Next]_vars PROVE TypeInv'
  OBVIOUS
<1>1. CASE DriverStep
  <2>1. cartridge' \in Cartridges
    BY <1>1, Driving DEF TypeInv
  <2> QED
    BY <1>1, <2>1, DriverKeepsPak, DriverKeepsCart, DriverKeepsGame,
       DriverKeepsPlace, Zenon DEF TypeInv
<1>2. CASE ConsoleStep
  BY <1>2, ConsoleKeepsTypes
<1>3. CASE UNCHANGED vars
  <2>1. UNCHANGED unplayed /\ UNCHANGED cartVars /\ UNCHANGED <<Ram, age>>
    BY <1>3, Zenon DEF vars, unplayed, gameVars
  <2>2. PakOK' /\ PlaceOK' /\ cartridge' \in Cartridges
        /\ RamBanks' = RamBanks /\ Counters' = Counters
    <3>1. cartridge \in Cartridges /\ PakOK /\ PlaceOK
      BY DEF TypeInv
    <3>2. PakOK'
      BY <2>1, <3>1, Unplayed, ZenonT(60) DEF PakOK
    <3>3. PlaceOK'
      BY <2>1, <3>1, Unplayed, Zenon DEF PlaceOK
    <3>4. cartridge' \in Cartridges /\ RamBanks' = RamBanks /\ Counters' = Counters
      BY <2>1, <3>1, Unplayed, Zenon
    <3> QED
      BY <3>2, <3>3, <3>4
  <2>3. CartOK'
    BY <2>1, <2>2, Zenon DEF CartOK, cartVars, TypeInv
  <2>4. GameOK'
    BY <2>1, <2>2, Unplayed, Zenon DEF GameOK, TypeInv
  <2> QED
    BY <2>2, <2>3, <2>4, Zenon DEF TypeInv
<1> QED
  BY <1>1, <1>2, <1>3 DEF Next, ConsoleStep

(* The pak's and the cartridge's registers stay in their ranges, no access *)
(* is for a bank or a counter that is not there, and the driver is always  *)
(* at an access of the function it carries out.                            *)
THEOREM TypeCorrect == Spec => []TypeOK
<1>1. Init => TypeInv
  BY InitTypeInv
<1>2. TypeInv /\ [Next]_vars => TypeInv'
  BY NextTypeInv
<1>3. TypeInv => TypeOK
  BY TypeInvMeans
<1> QED
  BY <1>1, <1>2, <1>3, PTL DEF Spec

-----------------------------------------------------------------------------
(* What an access does that is not lost.                                   *)
LEMMA Matching ==
  ASSUME DriverStep, clean' = TRUE
  PROVE  /\ Access.access = "set" =>
              /\ Access.address = CARTRIDGE_POWER_ADDRESS => SwitchPower
              /\ Access.address = TPAK_STATUS_ADDRESS => SetStatus
              /\ Access.address = TPAK_BANK_ADDRESS => SelectTpakBank
              /\ Access.address >= ROM_ADDRESS_OFFSET => PokeCartridge
         /\ Access.access = "readRom" => ReadRomBank
         /\ Access.access = "readRam" => ReadRamBank
         /\ Access.access = "writeRam" => WriteRamBank
         /\ Access.access = "tpak_init" => TpakInit
         /\ Access.access = "tpak_get_cartridge_header" => ReadHeader \/ RejectHeader
         /\ Access.access = "tpak_get_cartridge_header" \/ ~RejectHeader
<1> DEFINE k == Access.access
           a == Access.address
<1>1. ASSUME NEW kind, Advance({kind}) PROVE k = kind
  BY <1>1 DEF Advance
<1>2. (SwitchPower => k = "set") /\ (SetStatus => k = "set")
  BY <1>1, Kinds, Zenon
<1>3. (SelectTpakBank => k = "set") /\ (PokeCartridge => k = "set")
  BY <1>1, Kinds, Zenon
<1>4. /\ SwitchPower => a = 32768
      /\ SetStatus => a = 45056
      /\ SelectTpakBank => a = 40960
      /\ PokeCartridge => a >= 49152
  <2>1. /\ SwitchPower => a = CARTRIDGE_POWER_ADDRESS
        /\ SetStatus => a = TPAK_STATUS_ADDRESS
        /\ SelectTpakBank => a = TPAK_BANK_ADDRESS
        /\ PokeCartridge => a >= ROM_ADDRESS_OFFSET
    BY Kinds, Zenon
  <2> QED
    BY <2>1 DEF CARTRIDGE_POWER_ADDRESS, TPAK_STATUS_ADDRESS,
                TPAK_BANK_ADDRESS, ROM_ADDRESS_OFFSET
<1>5. (ReadRomBank => k = "readRom") /\ (ReadRamBank => k = "readRam")
  BY <1>1, Kinds, Zenon
<1>6. (WriteRamBank => k = "writeRam") /\ (TpakInit => k = "tpak_init")
  BY <1>1, Kinds, Zenon
<1>7. ReadHeader \/ RejectHeader => k = "tpak_get_cartridge_header"
  BY <1>1, Kinds, Zenon
<1>9. ~Lose
  BY Zenon DEF Lose
<1> HIDE DEF k, a
<1>10. /\ k = "set" => /\ a = 32768 => SwitchPower
                       /\ a = 45056 => SetStatus
                       /\ a = 40960 => SelectTpakBank
                       /\ a >= 49152 => PokeCartridge
       /\ k = "readRom" => ReadRomBank
       /\ k = "readRam" => ReadRamBank
       /\ k = "writeRam" => WriteRamBank
       /\ k = "tpak_init" => TpakInit
       /\ k = "tpak_get_cartridge_header" => ReadHeader \/ RejectHeader
       /\ k = "tpak_get_cartridge_header" \/ ~RejectHeader
  BY <1>2, <1>3, <1>4, <1>5, <1>6, <1>7, <1>9 DEF DriverStep
<1> QED
  BY <1>10 DEF k, a, CARTRIDGE_POWER_ADDRESS, TPAK_STATUS_ADDRESS,
               TPAK_BANK_ADDRESS, ROM_ADDRESS_OFFSET

LEMMA Selecting ==
  ASSUME DriverStep, clean' = TRUE, power = TRUE, NEW b, Access = Select(b)
  PROVE  /\ tpakBank' = b /\ UNCHANGED <<power, access, mbc, clean>>
         /\ UNCHANGED <<clock, latched, cartRam, Ram, romFaithful>>
<1>1. /\ Access.access = "set" /\ Access.address = TPAK_BANK_ADDRESS
      /\ Access.value = b
  BY DEF Select, SetTpakValue
<1>2. SelectTpakBank
  BY <1>1, Matching
<1> QED
  BY <1>1, <1>2, Zenon DEF SelectTpakBank, cartVars

LEMMA PoweringOn ==
  ASSUME DriverStep, clean' = TRUE, Access = PowerOn
  PROVE  /\ power' = TRUE
         /\ IF power THEN UNCHANGED <<access, tpakBank, mbc>>
            ELSE access' = FALSE /\ tpakBank' = ROM0 /\ mbc' = PowerOnRegisters
         /\ UNCHANGED <<clock, latched, cartRam, Ram, romFaithful, clean>>
<1>1. /\ Access.access = "set" /\ Access.address = CARTRIDGE_POWER_ADDRESS
      /\ Access.value = CARTRIDGE_POWER_ON
  BY DEF PowerOn, SetTpakValue
<1>2. SwitchPower
  BY <1>1, Matching
<1>3. /\ power' = TRUE
      /\ IF power' /\ power THEN UNCHANGED <<access, tpakBank, mbc, clean>>
         ELSE /\ access' = FALSE /\ tpakBank' = ROM0 /\ mbc' = PowerOnRegisters
              /\ clean' = (clean \/ ~power')
      /\ UNCHANGED <<cartVars, Ram, romFaithful, lost>>
  BY <1>1, <1>2, Zenon DEF SwitchPower
<1> QED
  BY <1>3 DEF cartVars

LEMMA PoweringOff ==
  ASSUME DriverStep, clean' = TRUE, Access = LightsOff
  PROVE  power' = FALSE
<1>1. /\ Access.access = "set" /\ Access.address = CARTRIDGE_POWER_ADDRESS
      /\ Access.value # CARTRIDGE_POWER_ON
  BY DEF LightsOff, SetTpakValue, CARTRIDGE_POWER_ON, CARTRIDGE_POWER_OFF
<1>2. SwitchPower
  BY <1>1, Matching
<1> QED
  BY <1>1, <1>2, Zenon DEF SwitchPower

LEMMA Accessing ==
  ASSUME DriverStep, clean' = TRUE, power = TRUE, Access = AccessOn
  PROVE  /\ access' = TRUE /\ UNCHANGED <<power, tpakBank, mbc, clean>>
         /\ UNCHANGED <<clock, latched, cartRam, Ram, romFaithful>>
<1>1. /\ Access.access = "set" /\ Access.address = TPAK_STATUS_ADDRESS
      /\ Access.value = TPAK_STATUS_ACCESS_ON
  BY DEF AccessOn, SetTpakValue
<1>2. SetStatus
  BY <1>1, Matching
<1> QED
  BY <1>1, <1>2, Zenon DEF SetStatus, cartVars

LEMMA Initialising ==
  ASSUME DriverStep, clean' = TRUE, Access = Call("tpak_init")
  PROVE  /\ tpakBank' \in {tpakBank, ROM0} /\ UNCHANGED <<power, access, mbc, clean>>
         /\ UNCHANGED <<clock, latched, cartRam, Ram, romFaithful>>
<1>1. Access.access = "tpak_init"
  BY DEF Call
<1>2. TpakInit
  BY <1>1, Matching
<1> QED
  BY <1>2, Zenon DEF TpakInit, cartVars

(* A value for a register: whether it reaches one, and which.              *)
Reaches == GbAddress(Access.address) < 32768
Target == RegisterAt(GbAddress(Access.address))

LEMMA Poking ==
  ASSUME DriverStep, clean' = TRUE, power = TRUE, access = TRUE,
         Access.access = "set", Access.address >= ROM_ADDRESS_OFFSET
  PROVE  /\ \A r, v : Reaches /\ Target = r /\ Access.value = v =>
                /\ mbc' = [mbc EXCEPT ![r] = v]
                /\ r # "mode" \/ v # 1 => latched' = latched
                /\ r = "mode" =>
                     latched' = IF mbc["mode"] = 0 /\ v = 1 THEN clock ELSE latched
         /\ ~Reaches => UNCHANGED <<mbc, latched>>
         /\ UNCHANGED <<power, access, tpakBank, clean>>
         /\ UNCHANGED <<clock, cartRam, Ram, romFaithful>>
<1>1. PokeCartridge
  BY Matching
<1>2. /\ UNCHANGED <<power, access, tpakBank, clean>>
      /\ UNCHANGED <<clock, cartRam, Ram, romFaithful>>
  BY <1>1, SMT DEF PokeCartridge
<1>3. Connected
  BY DEF Connected
<1>4. ~Reaches => UNCHANGED <<mbc, latched>>
  BY <1>1, <1>3, SMT DEF PokeCartridge, Reaches
<1>5. ASSUME NEW r, NEW v, Reaches, Target = r, Access.value = v
      PROVE  /\ mbc' = [mbc EXCEPT ![r] = v]
             /\ r # "mode" \/ v # 1 => latched' = latched
             /\ r = "mode" =>
                  latched' = IF mbc["mode"] = 0 /\ v = 1 THEN clock ELSE latched
  <2>1. SetRegister(GbAddress(Access.address), Access.value)
    BY <1>1, <1>3, <1>5, SMT DEF PokeCartridge, Reaches
  <2> DEFINE w == Access.value
  <2>2. /\ mbc' = [mbc EXCEPT ![Target] = w]
        /\ latched' = IF Target = "mode" /\ mbc["mode"] = 0 /\ w = 1
                      THEN clock ELSE latched
    BY <2>1, SMT DEF SetRegister, Target
  <2>3. w = v
    BY <1>5
  <2> HIDE DEF w
  <2> QED
    BY <1>5, <2>2, <2>3, SMT
<1> QED
  BY <1>2, <1>4, <1>5

LEMMA PokingUpper ==
  ASSUME DriverStep, clean' = TRUE, power = TRUE, access = TRUE,
         tpakBank = ROMX, NEW v, Access = Upper(v)
  PROVE  /\ mbc' = [mbc EXCEPT !["upper"] = v]
         /\ UNCHANGED latched
         /\ UNCHANGED <<power, access, tpakBank, clean>>
         /\ UNCHANGED <<clock, cartRam, Ram, romFaithful>>
<1>1. /\ Access.access = "set" /\ Access.value = v
      /\ Access.address = MapAddress(GB_RAM_BANK_ADDRESS)
  BY DEF Upper, Poke, SetTpakValue
<1>2. Access.address >= ROM_ADDRESS_OFFSET /\ Reaches /\ Target = "upper"
  BY <1>1, Addresses, Registers
     DEF Reaches, Target, GbAddress, ROM0, ROMX, SRAM, ROM_ADDRESS_OFFSET
<1> QED
  BY <1>1, <1>2, Poking, Zenon

LEMMA PokingMode ==
  ASSUME DriverStep, clean' = TRUE, power = TRUE, access = TRUE,
         tpakBank = ROMX, NEW v, Access = Mode(v)
  PROVE  /\ mbc' = [mbc EXCEPT !["mode"] = v]
         /\ latched' = IF mbc["mode"] = 0 /\ v = 1 THEN clock ELSE latched
         /\ UNCHANGED <<power, access, tpakBank, clean>>
         /\ UNCHANGED <<clock, cartRam, Ram, romFaithful>>
<1>1. /\ Access.access = "set" /\ Access.value = v
      /\ Access.address = MapAddress(GB_BANK_MODE_ADDRESS)
  BY DEF Mode, Poke, SetTpakValue
<1>2. Access.address >= ROM_ADDRESS_OFFSET /\ Reaches /\ Target = "mode"
  BY <1>1, Addresses, Registers
     DEF Reaches, Target, GbAddress, ROM0, ROMX, SRAM, ROM_ADDRESS_OFFSET
<1> QED
  BY <1>1, <1>2, Poking, Zenon

LEMMA PokingLow ==
  ASSUME DriverStep, clean' = TRUE, power = TRUE, access = TRUE,
         tpakBank = ROM0, NEW v, Access = Low(v)
  PROVE  /\ mbc' = [mbc EXCEPT !["low"] = v]
         /\ UNCHANGED latched
         /\ UNCHANGED <<power, access, tpakBank, clean>>
         /\ UNCHANGED <<clock, cartRam, Ram, romFaithful>>
<1>1. /\ Access.access = "set" /\ Access.value = v
      /\ Access.address = MapAddress(GB_ROM_BANK_ADDRESS)
  BY DEF Low, Poke, SetTpakValue
<1>2. Access.address >= ROM_ADDRESS_OFFSET /\ Reaches /\ Target = "low"
  BY <1>1, Addresses, Registers
     DEF Reaches, Target, GbAddress, ROM0, ROMX, SRAM, ROM_ADDRESS_OFFSET
<1> QED
  BY <1>1, <1>2, Poking, Zenon

(* Wherever the pak's bank is: at SRAM the value reaches no register.      *)
LEMMA PokingEnable ==
  ASSUME DriverStep, clean' = TRUE, power = TRUE, access = TRUE,
         tpakBank \in ROM0..SRAM, Access = Enable
  PROVE  /\ mbc' \in {mbc, [mbc EXCEPT !["enable"] = ENABLE_GB_RAM],
                      [mbc EXCEPT !["upper"] = ENABLE_GB_RAM]}
         /\ tpakBank = ROM0 => mbc' = [mbc EXCEPT !["enable"] = ENABLE_GB_RAM]
         /\ UNCHANGED latched
         /\ UNCHANGED <<power, access, tpakBank, clean>>
         /\ UNCHANGED <<clock, cartRam, Ram, romFaithful>>
<1>1. /\ Access.access = "set" /\ Access.value = ENABLE_GB_RAM
      /\ Access.address = MapAddress(ENABLE_GB_RAM_ADDRESS)
  BY DEF Enable, Poke, SetTpakValue
<1>2. /\ Access.address >= ROM_ADDRESS_OFFSET
      /\ tpakBank = ROM0 => Reaches /\ Target = "enable"
      /\ tpakBank = ROMX => Reaches /\ Target = "upper"
      /\ tpakBank = SRAM => ~Reaches
  BY <1>1, Addresses, Registers
     DEF Reaches, Target, GbAddress, ROM0, ROMX, SRAM, ROM_ADDRESS_OFFSET
<1>3. tpakBank \in {ROM0, ROMX, SRAM} /\ ROM0 # ROMX /\ ROM0 # SRAM
  BY DEF ROM0, ROMX, SRAM
<1>4. /\ UNCHANGED <<power, access, tpakBank, clean>>
      /\ UNCHANGED <<clock, cartRam, Ram, romFaithful>>
  BY <1>1, <1>2, Poking, Zenon
<1>5. CASE tpakBank = ROM0
  BY <1>1, <1>2, <1>4, <1>5, Poking, Zenon
<1>6. CASE tpakBank = ROMX
  BY <1>1, <1>2, <1>3, <1>4, <1>6, Poking, Zenon
<1>7. CASE tpakBank = SRAM
  BY <1>1, <1>2, <1>3, <1>4, <1>7, Poking, Zenon
<1> QED
  BY <1>3, <1>5, <1>6, <1>7, Zenon

(* The upper bit of an MBC5 goes to ROM0, or, behind a bank that has been  *)
(* read, to a register that this controller has no use for.                *)
LEMMA PokingHigh ==
  ASSUME DriverStep, clean' = TRUE, power = TRUE, access = TRUE,
         tpakBank \in ROM0..SRAM, cartridge.Type = "MBC5",
         NEW v, v # 1, Access = Poke(GB_UPPER_ROM_BANK_ADDRESS, v)
  PROVE  /\ mbc' \in {mbc, [mbc EXCEPT !["high"] = v], [mbc EXCEPT !["mode"] = v]}
         /\ UNCHANGED latched
         /\ UNCHANGED <<power, access, tpakBank, clean>>
         /\ UNCHANGED <<clock, cartRam, Ram, romFaithful>>
<1>1. /\ Access.access = "set" /\ Access.value = v
      /\ Access.address = MapAddress(GB_UPPER_ROM_BANK_ADDRESS)
  BY DEF Poke, SetTpakValue
<1>2. /\ Access.address >= ROM_ADDRESS_OFFSET
      /\ tpakBank = ROM0 => Reaches /\ Target = "high"
      /\ tpakBank = ROMX => Reaches /\ Target = "mode"
      /\ tpakBank = SRAM => ~Reaches
  BY <1>1, Addresses DEF Reaches, Target, RegisterAt, GbAddress, ROM0, ROMX,
                         SRAM, ROM_ADDRESS_OFFSET
<1>3. tpakBank \in {ROM0, ROMX, SRAM}
  BY DEF ROM0, ROMX, SRAM
<1>4. /\ UNCHANGED <<power, access, tpakBank, clean>>
      /\ UNCHANGED <<clock, cartRam, Ram, romFaithful>>
  BY <1>1, <1>2, Poking, Zenon
<1>5. CASE tpakBank = ROM0
  BY <1>1, <1>2, <1>4, <1>5, Poking, ZenonT(60)
<1>6. CASE tpakBank = ROMX
  BY <1>1, <1>2, <1>4, <1>6, Poking, ZenonT(60)
<1>7. CASE tpakBank = SRAM
  BY <1>1, <1>2, <1>4, <1>7, Poking, Zenon
<1> QED
  BY <1>3, <1>5, <1>6, <1>7, Zenon

-----------------------------------------------------------------------------
(* What holds of a transfer whose accesses are not lost.                   *)

(* The cartridge answers, and its RAM is enabled.                          *)
Ready == power /\ access /\ mbc["enable"] = ENABLE_GB_RAM

(* As at power on, but for the enabling of RAM.                            *)
Fresh == /\ tpakBank = ROM0
         /\ mbc["low"] = 0 /\ mbc["upper"] = 0 /\ mbc["mode"] = 0

(* What the accesses of a piece have reached before the next one.          *)
OpeningAt ==
  /\ step >= 2 => power
  /\ step >= 3 => access
  /\ step >= 5 => mbc["enable"] = ENABLE_GB_RAM

Special(bank) == cartridge.Type = "MBC1" /\ bank \in {32, 64, 96}

(* The accesses before the one that selects ROM0.                          *)
Front(bank) == IF cartridge.Type = "MBC1" THEN IF bank >= 32 THEN 3 ELSE 2
               ELSE IF cartridge.Type = "MBC5" THEN 1 ELSE 0

SpecialAt(bank) ==
  /\ step \in 2..4 => tpakBank = ROMX
  /\ step >= 4 => mbc["mode"] = 1
  /\ step >= 5 => mbc["upper"] = bank \div 32
  /\ step = 6 => tpakBank = ROM0

RomXAt(bank) ==
  /\ cartridge.Type = "MBC1" =>
       /\ step \in 2..Front(bank) => tpakBank = ROMX
       /\ step > Front(bank) => mbc["upper"] = bank \div 32
  /\ step = Front(bank) + 2 => tpakBank = ROM0
  /\ step >= Front(bank) + 3 => mbc["low"] = bank % LowBanks(cartridge.Type)
  /\ step = Front(bank) + 4 => tpakBank = ROMX

RomAt(bank) ==
  IF bank = 0 THEN mbc["mode"] = 0 /\ (step = 2 => tpakBank = ROM0)
  ELSE IF Special(bank) THEN SpecialAt(bank) ELSE RomXAt(bank)

Moded(bank) == cartridge.Type = "MBC1" /\ bank > 0

RamAt(bank) ==
  LET front == IF Moded(bank) THEN 2 ELSE 1
  IN  /\ step \in 2..(front + 1) => tpakBank = ROMX
      /\ step > front /\ Moded(bank) => mbc["mode"] = 1
      /\ step >= front + 2 => mbc["upper"] = bank
      /\ step = front + 3 => tpakBank = SRAM

LatchAt == /\ step \in 4..5 => tpakBank = ROMX
           /\ step = 5 => mbc["mode"] = 0

ReadClockAt(i) ==
  /\ step = 2 => tpakBank = ROMX
  /\ step >= 3 => mbc["upper"] = 8 + i
  /\ step = 4 => tpakBank = SRAM

WriteClockAt == step >= 2 => tpakBank = ROMX

(* The latched counters are what the clock showed during the import.       *)
Latched == \E passed \in 0..(clock[8] - since) :
             \A r \in Counters : latched[r] = clock[r] - passed

(* What an import, and an export, have reached.                            *)
ImportAt ==
  /\ at = 1 => OpeningAt
  /\ at > 1 => Ready /\ romFaithful
  /\ at = 2 => RomAt(iteration)
  /\ at = 4 => RamAt(iteration)
  /\ at = 5 => LatchAt
  /\ at = 6 => ReadClockAt(iteration)
  /\ cartridge.clock => since <= clock[8] /\ (at > 5 => Latched)
  /\ \A b \in RamBanks :
       at > 4 \/ (at = 4 /\ b < iteration) => Ram[b] = cartRam[b]
  /\ \A r \in Counters :
       at > 6 \/ (at = 6 /\ r < 8 + iteration) => Ram[r] = Time(latched[r])

ExportAt ==
  /\ at = 1 => OpeningAt
  /\ at > 1 => Ready
  /\ at = 2 => RamAt(iteration)
  /\ at = 4 => WriteClockAt
  /\ \A b \in RamBanks :
       at > 2 \/ (at = 2 /\ b < iteration) => cartRam[b] = Ram[b]

(* A transfer without a lost access begins with the cartridge as at power  *)
(* on, and does what its accesses say.                                     *)
CleanInv ==
  /\ transfer = "import" => ~loaded
  /\ transfer \in {"export", "rumble"} => loaded
  /\ transfer = "rumble" => ~clean
  /\ lost = 0 /\ ~IsRumbling /\ transfer # "rumble" => clean
  /\ clean /\ transfer = "none" /\ loaded => ~power
  /\ clean /\ at = 1 /\ power => Fresh
  /\ clean /\ transfer = "import" => ImportAt
  /\ clean /\ transfer = "export" => ExportAt

-----------------------------------------------------------------------------
(* How a function advances.                                                *)
LEMMA ImportPieces ==
  ASSUME transfer = "import"
  PROVE  /\ Len(Program) = 7
         /\ Program[1].name = "getCartridgeMetadata" /\ Program[1].count = 1
         /\ Program[2].name = "importRom"
         /\ Program[2].count = cartridge.RomBankCount
         /\ Program[3].name = "initialiseTPak" /\ Program[3].count = 1
         /\ Program[4].name = "importRam"
         /\ Program[4].count = cartridge.RamBankCount
         /\ Program[5].name = "latchClock" /\ Program[5].count = IfClock(1)
         /\ Program[6].name = "importRTCData" /\ Program[6].count = IfClock(5)
         /\ Program[7].name = "lightsOff" /\ Program[7].count = 1
  BY DEF Program, ImportCartridge, Once, Loop

LEMMA ExportPieces ==
  ASSUME transfer = "export"
  PROVE  /\ Len(Program) = 5
         /\ Program[1].name = "initialiseTPak" /\ Program[1].count = 1
         /\ Program[2].name = "exportRam"
         /\ Program[2].count = cartridge.RamBankCount
         /\ Program[3].name = "enableRam" /\ Program[3].count = IfClock(1)
         /\ Program[4].name = "exportRTCData" /\ Program[4].count = IfClock(5)
         /\ Program[5].name = "lightsOff" /\ Program[5].count = 1
  BY DEF Program, ExportCartridgeRam, Once, Loop

LEMMA Clocked ==
  /\ IfClock(1) = IF cartridge.clock THEN 1 ELSE 0
  /\ IfClock(5) = IF cartridge.clock THEN 5 ELSE 0
  BY DEF IfClock

LEMMA ImportPlaces ==
  ASSUME TypeInv, transfer = "import"
  PROVE  /\ at \in 1..7 /\ iteration \in Nat /\ step \in 1..Len(Accesses)
         /\ at \in {1, 3, 7} => iteration = 0
         /\ at = 2 => iteration \in 0..(cartridge.RomBankCount - 1)
         /\ at = 4 => iteration \in RamBanks
         /\ at = 5 => cartridge.clock /\ iteration = 0
         /\ at = 6 => cartridge.clock /\ iteration \in 0..4
<1>1. /\ at \in 1..Len(Program) /\ iteration \in 0..(Program[at].count - 1)
      /\ step \in 1..Len(Accesses)
  BY DEF TypeInv, PlaceOK, Positioned, Piece
<1>2. /\ cartridge.RomBankCount \in Nat /\ cartridge.RamBankCount \in Nat
  BY CartridgesAssumption, BanksOrCounters DEF TypeInv
<1>3. /\ at \in 1..7
      /\ at \in {1, 3, 7} => iteration \in 0..(1 - 1)
      /\ at = 2 => iteration \in 0..(cartridge.RomBankCount - 1)
      /\ at = 4 => iteration \in 0..(cartridge.RamBankCount - 1)
      /\ at = 5 => iteration \in 0..(IfClock(1) - 1)
      /\ at = 6 => iteration \in 0..(IfClock(5) - 1)
  BY <1>1, ImportPieces
<1> QED
  BY <1>1, <1>2, <1>3, Clocked DEF RamBanks

LEMMA ExportPlaces ==
  ASSUME TypeInv, transfer = "export"
  PROVE  /\ at \in 1..5 /\ iteration \in Nat /\ step \in 1..Len(Accesses)
         /\ at \in {1, 5} => iteration = 0
         /\ at = 2 => iteration \in RamBanks
         /\ at = 3 => cartridge.clock /\ iteration = 0
         /\ at = 4 => cartridge.clock /\ iteration \in 0..4
<1>1. /\ at \in 1..Len(Program) /\ iteration \in 0..(Program[at].count - 1)
      /\ step \in 1..Len(Accesses)
  BY DEF TypeInv, PlaceOK, Positioned, Piece
<1>2. cartridge.RamBankCount \in Nat
  BY BanksOrCounters DEF TypeInv
<1>3. /\ at \in 1..5
      /\ at \in {1, 5} => iteration \in 0..(1 - 1)
      /\ at = 2 => iteration \in 0..(cartridge.RamBankCount - 1)
      /\ at = 3 => iteration \in 0..(IfClock(1) - 1)
      /\ at = 4 => iteration \in 0..(IfClock(5) - 1)
  BY <1>1, ExportPieces
<1> QED
  BY <1>1, <1>2, <1>3, Clocked DEF RamBanks

(* The pieces that may come next.                                          *)
LEMMA LaterPieces ==
  ASSUME NEW n \in Nat, Len(Program) = n, at \in 1..n
  PROVE  \A j : j \in Later <=> j \in 1..n /\ j > at /\ Program[j].count > 0
<1>1. \A j : j \in Later <=> j \in (at + 1)..n /\ Program[j].count > 0
  BY Zenon DEF Later
<1>2. \A j : j \in (at + 1)..n <=> j \in 1..n /\ j > at
  OBVIOUS
<1> QED
  BY <1>1, <1>2, Zenon

(* The next access, the next turn, the next piece, or the end.             *)
LEMMA ImportMoves ==
  ASSUME TypeInv, transfer = "import", NEW kinds, Advance(kinds)
  PROVE
  \/ /\ step < Len(Accesses) /\ step' = step + 1
     /\ UNCHANGED <<transfer, at, iteration, loaded>>
  \/ /\ step = Len(Accesses) /\ step' = 1 /\ iteration' = iteration + 1
     /\ UNCHANGED <<transfer, at, loaded>> /\ at \in {2, 4, 6}
  \/ /\ step = Len(Accesses) /\ step' = 1 /\ iteration' = 0
     /\ UNCHANGED <<transfer, loaded>>
     /\ at' \in (at + 1)..7 /\ at \in 1..6
     /\ at = 1 => at' = 2
     /\ at = 2 => at' = 3 /\ iteration + 1 = cartridge.RomBankCount
     /\ at = 3 => at' = 4 \/ RamBanks = {}
     /\ at \in 3..5 /\ cartridge.clock => at' \in {4, 5, 6}
     /\ at = 4 => at' # 6 /\ iteration + 1 = cartridge.RamBankCount
     /\ at = 3 => at' # 6
     /\ at = 6 => iteration = 4
     /\ at' \in {5, 6} => cartridge.clock
  \/ /\ step = Len(Accesses) /\ at = 7
     /\ transfer' = "none" /\ loaded' = TRUE
     /\ at' = 1 /\ iteration' = 0 /\ step' = 1
<1>1. /\ at \in 1..7 /\ iteration \in Nat /\ step \in 1..Len(Accesses)
      /\ at \in {1, 3, 7} => iteration = 0
      /\ at = 2 => iteration \in 0..(cartridge.RomBankCount - 1)
      /\ at = 4 => iteration \in RamBanks
      /\ at = 5 => cartridge.clock /\ iteration = 0
      /\ at = 6 => cartridge.clock /\ iteration \in 0..4
  BY ImportPlaces
<1>2. /\ cartridge.RomBankCount \in Nat /\ cartridge.RomBankCount >= 2
      /\ cartridge.RamBankCount \in Nat
  BY CartridgesAssumption, BanksOrCounters DEF TypeInv
<1>3. /\ NextAccess \/ NextTurn \/ NextPiece \/ Return
      /\ Len(Accesses) \in Nat
  <2>1. Len(Accesses) \in Nat
    BY PresentAccesses DEF TypeInv, PlaceOK, Positioned, Functions3
  <2> QED
    BY <2>1 DEF Advance
<1>4. \A j : j \in Later <=> j \in 1..7 /\ j > at /\ Program[j].count > 0
  BY <1>1, ImportPieces, LaterPieces
<1>6. CASE NextAccess
  BY <1>1, <1>3, <1>6 DEF NextAccess, LastAccess
<1>7. CASE NextTurn
  <2>1. /\ step = Len(Accesses) /\ step' = 1 /\ iteration' = iteration + 1
        /\ UNCHANGED <<transfer, at, loaded>>
        /\ ~(iteration + 1 >= Program[at].count)
    BY <1>7 DEF NextTurn, LastAccess, LastTurn, Piece
  <2>2. at \in {2, 4, 6}
    BY <1>1, <2>1, ImportPieces, Clocked
  <2> QED
    BY <2>1, <2>2
<1>8. CASE NextPiece
  <2>1. /\ step = Len(Accesses) /\ step' = 1 /\ iteration' = 0
        /\ UNCHANGED <<transfer, loaded>> /\ iteration + 1 >= Program[at].count
        /\ at' \in Later /\ \A j \in Later : at' <= j
    BY <1>8 DEF NextPiece, LastAccess, LastTurn, Piece
  <2>2. /\ at' \in (at + 1)..7 /\ at \in 1..6 /\ Program[at'].count > 0
        /\ \A j \in 1..7 : j > at /\ Program[j].count > 0 => at' <= j
    <3>1. at' \in 1..7 /\ at' > at /\ Program[at'].count > 0
      BY <1>4, <2>1, Zenon
    <3>2. \A j \in 1..7 : j > at /\ Program[j].count > 0 => at' <= j
      BY <1>4, <2>1, Zenon
    <3> QED
      BY <1>1, <3>1, <3>2
  <2>3. at = 1 => at' = 2
    BY <1>2, <2>2, ImportPieces
  <2>4. at = 2 => at' = 3 /\ iteration + 1 = cartridge.RomBankCount
    BY <1>1, <1>2, <2>1, <2>2, ImportPieces
  <2>5. at = 3 => at' = 4 \/ RamBanks = {}
    <3>1. at = 3 /\ at' # 4 => ~(cartridge.RamBankCount > 0)
      BY <2>2, ImportPieces
    <3> QED
      BY <1>2, <3>1 DEF RamBanks
  <2>6. cartridge.clock => /\ at \in 3..4 => at' \in {4, 5}
                           /\ at = 5 => at' = 6
    BY <1>4, <2>2, ImportPieces, Clocked
  <2>7. at \in 3..4 => at' # 6
    BY <1>4, <2>2, ImportPieces, Clocked
  <2>8. /\ at = 4 => iteration + 1 = cartridge.RamBankCount
        /\ at = 6 => iteration = 4
    BY <1>1, <1>2, <2>1, ImportPieces, Clocked DEF RamBanks
  <2>9. at' \in {5, 6} => cartridge.clock
    BY <2>2, ImportPieces, Clocked
  <2> QED
    BY <2>1, <2>2, <2>3, <2>4, <2>5, <2>6, <2>7, <2>8, <2>9
<1>9. CASE Return
  <2>1. /\ step = Len(Accesses) /\ Later = {} /\ transfer' = "none"
        /\ at' = 1 /\ iteration' = 0 /\ step' = 1 /\ loaded' = TRUE
    BY <1>9 DEF Return, LastAccess
  <2>2. at = 7
    BY <1>1, <1>4, <2>1, ImportPieces
  <2> QED
    BY <2>1, <2>2
<1> QED
  BY <1>3, <1>6, <1>7, <1>8, <1>9

LEMMA ExportMoves ==
  ASSUME TypeInv, transfer = "export", NEW kinds, Advance(kinds)
  PROVE
  \/ /\ step < Len(Accesses) /\ step' = step + 1
     /\ UNCHANGED <<transfer, at, iteration, loaded>>
  \/ /\ step = Len(Accesses) /\ step' = 1 /\ iteration' = iteration + 1
     /\ UNCHANGED <<transfer, at, loaded>> /\ at \in {2, 4}
  \/ /\ step = Len(Accesses) /\ step' = 1 /\ iteration' = 0
     /\ UNCHANGED <<transfer, loaded>>
     /\ at' \in (at + 1)..5 /\ at \in 1..4
     /\ at = 1 => at' = 2 \/ RamBanks = {}
     /\ at = 2 => iteration + 1 = cartridge.RamBankCount
  \/ /\ step = Len(Accesses) /\ at = 5
     /\ transfer' = "none" /\ loaded' = loaded
     /\ at' = 1 /\ iteration' = 0 /\ step' = 1
<1>1. /\ at \in 1..5 /\ iteration \in Nat /\ step \in 1..Len(Accesses)
      /\ at \in {1, 5} => iteration = 0
      /\ at = 2 => iteration \in RamBanks
      /\ at = 3 => cartridge.clock /\ iteration = 0
      /\ at = 4 => cartridge.clock /\ iteration \in 0..4
  BY ExportPlaces
<1>2. cartridge.RamBankCount \in Nat /\ loaded \in BOOLEAN
  BY BanksOrCounters DEF TypeInv, GameOK
<1>3. /\ NextAccess \/ NextTurn \/ NextPiece \/ Return
      /\ Len(Accesses) \in Nat
  <2>1. Len(Accesses) \in Nat
    BY PresentAccesses DEF TypeInv, PlaceOK, Positioned, Functions3
  <2> QED
    BY <2>1 DEF Advance
<1>4. \A j : j \in Later <=> j \in 1..5 /\ j > at /\ Program[j].count > 0
  BY <1>1, ExportPieces, LaterPieces
<1>6. CASE NextAccess
  BY <1>1, <1>3, <1>6 DEF NextAccess, LastAccess
<1>7. CASE NextTurn
  <2>1. /\ step = Len(Accesses) /\ step' = 1 /\ iteration' = iteration + 1
        /\ UNCHANGED <<transfer, at, loaded>>
        /\ ~(iteration + 1 >= Program[at].count)
    BY <1>7 DEF NextTurn, LastAccess, LastTurn, Piece
  <2>2. at \in {2, 4}
    BY <1>1, <2>1, ExportPieces, Clocked
  <2> QED
    BY <2>1, <2>2
<1>8. CASE NextPiece
  <2>1. /\ step = Len(Accesses) /\ step' = 1 /\ iteration' = 0
        /\ UNCHANGED <<transfer, loaded>> /\ iteration + 1 >= Program[at].count
        /\ at' \in Later /\ \A j \in Later : at' <= j
    BY <1>8 DEF NextPiece, LastAccess, LastTurn, Piece
  <2>2. /\ at' \in (at + 1)..5 /\ at \in 1..4 /\ Program[at'].count > 0
        /\ \A j \in 1..5 : j > at /\ Program[j].count > 0 => at' <= j
    <3>1. at' \in 1..5 /\ at' > at /\ Program[at'].count > 0
      BY <1>4, <2>1, Zenon
    <3>2. \A j \in 1..5 : j > at /\ Program[j].count > 0 => at' <= j
      BY <1>4, <2>1, Zenon
    <3> QED
      BY <1>1, <3>1, <3>2
  <2>3. at = 1 => at' = 2 \/ RamBanks = {}
    <3>1. at = 1 /\ at' # 2 => ~(cartridge.RamBankCount > 0)
      BY <2>2, ExportPieces
    <3> QED
      BY <1>2, <3>1 DEF RamBanks
  <2>4. at = 2 => iteration + 1 = cartridge.RamBankCount
    BY <1>1, <1>2, <2>1, ExportPieces DEF RamBanks
  <2> QED
    BY <2>1, <2>2, <2>3, <2>4
<1>9. CASE Return
  <2>1. /\ step = Len(Accesses) /\ Later = {} /\ transfer' = "none"
        /\ at' = 1 /\ iteration' = 0 /\ step' = 1 /\ loaded' = loaded
    BY <1>2, <1>9 DEF Return, LastAccess
  <2>2. at = 5
    BY <1>1, <1>4, <2>1, ExportPieces
  <2> QED
    BY <2>1, <2>2
<1> QED
  BY <1>3, <1>6, <1>7, <1>8, <1>9

-----------------------------------------------------------------------------
(* What an access does to a cartridge that answers.                        *)
LEMMA Written ==
  ASSUME mbc \in [MbcRegisters -> 0..255], NEW r \in MbcRegisters, NEW v,
         mbc' = [mbc EXCEPT ![r] = v]
  PROVE  mbc'[r] = v /\ \A q \in MbcRegisters : q # r => mbc'[q] = mbc[q]
  OBVIOUS

LEMMA Names5 ==
  MbcRegisters = {"enable", "low", "high", "upper", "mode"}
  BY DEF MbcRegisters

LEMMA Answering ==
  ASSUME TypeInv
  PROVE  /\ power \in BOOLEAN /\ access \in BOOLEAN
         /\ tpakBank \in ROM0..SRAM
         /\ mbc \in [MbcRegisters -> 0..255]
         /\ mbc["upper"] \in 0..15 /\ mbc["high"] = 0
         /\ Ready => power = TRUE /\ access = TRUE
  BY DEF TypeInv, PakOK, Ready

LEMMA ReadySelect ==
  ASSUME TypeInv, DriverStep, clean' = TRUE, Ready, NEW b, Access = Select(b)
  PROVE  /\ Ready' /\ tpakBank' = b /\ UNCHANGED mbc
         /\ UNCHANGED <<clock, latched, cartRam, Ram, romFaithful>>
<1>1. power = TRUE /\ access = TRUE
  BY Answering
<1>2. /\ tpakBank' = b /\ UNCHANGED <<power, access, mbc, clean>>
      /\ UNCHANGED <<clock, latched, cartRam, Ram, romFaithful>>
  BY <1>1, Selecting
<1> QED
  BY <1>2, Zenon DEF Ready

LEMMA ReadyUpper ==
  ASSUME TypeInv, DriverStep, clean' = TRUE, Ready, tpakBank = ROMX,
         NEW v, Access = Upper(v)
  PROVE  /\ Ready' /\ UNCHANGED tpakBank /\ mbc'["upper"] = v
         /\ mbc'["low"] = mbc["low"] /\ mbc'["mode"] = mbc["mode"]
         /\ UNCHANGED <<clock, latched, cartRam, Ram, romFaithful>>
<1>1. power = TRUE /\ access = TRUE /\ mbc \in [MbcRegisters -> 0..255]
  BY Answering
<1>2. /\ mbc' = [mbc EXCEPT !["upper"] = v]
      /\ UNCHANGED <<power, access, tpakBank, clean>>
      /\ UNCHANGED <<clock, latched, cartRam, Ram, romFaithful>>
  BY <1>1, PokingUpper, Zenon
<1>3. /\ mbc'["upper"] = v /\ mbc'["enable"] = mbc["enable"]
      /\ mbc'["low"] = mbc["low"] /\ mbc'["mode"] = mbc["mode"]
  BY <1>1, <1>2, Names5, SMT
<1> QED
  BY <1>1, <1>2, <1>3, Zenon DEF Ready

LEMMA ReadyMode ==
  ASSUME TypeInv, DriverStep, clean' = TRUE, Ready, tpakBank = ROMX,
         NEW v, Access = Mode(v)
  PROVE  /\ Ready' /\ UNCHANGED tpakBank /\ mbc'["mode"] = v
         /\ mbc'["low"] = mbc["low"] /\ mbc'["upper"] = mbc["upper"]
         /\ latched' = IF mbc["mode"] = 0 /\ v = 1 THEN clock ELSE latched
         /\ UNCHANGED <<clock, cartRam, Ram, romFaithful>>
<1>1. power = TRUE /\ access = TRUE /\ mbc \in [MbcRegisters -> 0..255]
  BY Answering
<1>2. /\ mbc' = [mbc EXCEPT !["mode"] = v]
      /\ UNCHANGED <<power, access, tpakBank, clean>>
      /\ latched' = IF mbc["mode"] = 0 /\ v = 1 THEN clock ELSE latched
      /\ UNCHANGED <<clock, cartRam, Ram, romFaithful>>
  BY <1>1, PokingMode, Zenon
<1>3. /\ mbc'["mode"] = v /\ mbc'["enable"] = mbc["enable"]
      /\ mbc'["low"] = mbc["low"] /\ mbc'["upper"] = mbc["upper"]
  BY <1>1, <1>2, Names5, SMT
<1> QED
  BY <1>1, <1>2, <1>3, Zenon DEF Ready

LEMMA ReadyLow ==
  ASSUME TypeInv, DriverStep, clean' = TRUE, Ready, tpakBank = ROM0,
         NEW v, Access = Low(v)
  PROVE  /\ Ready' /\ UNCHANGED tpakBank /\ mbc'["low"] = v
         /\ mbc'["upper"] = mbc["upper"] /\ mbc'["mode"] = mbc["mode"]
         /\ UNCHANGED <<clock, latched, cartRam, Ram, romFaithful>>
<1>1. power = TRUE /\ access = TRUE /\ mbc \in [MbcRegisters -> 0..255]
  BY Answering
<1>2. /\ mbc' = [mbc EXCEPT !["low"] = v]
      /\ UNCHANGED <<power, access, tpakBank, clean>>
      /\ UNCHANGED <<clock, latched, cartRam, Ram, romFaithful>>
  BY <1>1, PokingLow, Zenon
<1>3. /\ mbc'["low"] = v /\ mbc'["enable"] = mbc["enable"]
      /\ mbc'["upper"] = mbc["upper"] /\ mbc'["mode"] = mbc["mode"]
  BY <1>1, <1>2, Names5, SMT
<1> QED
  BY <1>1, <1>2, <1>3, Zenon DEF Ready

LEMMA ReadyEnable ==
  ASSUME TypeInv, DriverStep, clean' = TRUE, Ready, Access = Enable
  PROVE  /\ Ready' /\ UNCHANGED tpakBank
         /\ mbc'["low"] = mbc["low"] /\ mbc'["mode"] = mbc["mode"]
         /\ UNCHANGED <<clock, latched, cartRam, Ram, romFaithful>>
<1>1. /\ power = TRUE /\ access = TRUE /\ mbc \in [MbcRegisters -> 0..255]
      /\ tpakBank \in ROM0..SRAM
  BY Answering
<1>2. /\ mbc' \in {mbc, [mbc EXCEPT !["enable"] = ENABLE_GB_RAM],
                   [mbc EXCEPT !["upper"] = ENABLE_GB_RAM]}
      /\ UNCHANGED <<power, access, tpakBank, clean>>
      /\ UNCHANGED <<clock, latched, cartRam, Ram, romFaithful>>
  BY <1>1, PokingEnable, Zenon
<1>3. /\ mbc'["enable"] \in {mbc["enable"], ENABLE_GB_RAM}
      /\ mbc'["low"] = mbc["low"] /\ mbc'["mode"] = mbc["mode"]
  BY <1>1, <1>2, Names5, SMT
<1> QED
  BY <1>1, <1>2, <1>3, Zenon DEF Ready

LEMMA ReadyHigh ==
  ASSUME TypeInv, DriverStep, clean' = TRUE, Ready, cartridge.Type = "MBC5",
         NEW v, v # 1, Access = Poke(GB_UPPER_ROM_BANK_ADDRESS, v)
  PROVE  /\ Ready' /\ UNCHANGED tpakBank
         /\ mbc'["low"] = mbc["low"] /\ mbc'["upper"] = mbc["upper"]
         /\ UNCHANGED <<clock, latched, cartRam, Ram, romFaithful>>
<1>1. /\ power = TRUE /\ access = TRUE /\ mbc \in [MbcRegisters -> 0..255]
      /\ tpakBank \in ROM0..SRAM
  BY Answering
<1>2. /\ mbc' \in {mbc, [mbc EXCEPT !["high"] = v], [mbc EXCEPT !["mode"] = v]}
      /\ UNCHANGED <<power, access, tpakBank, clean>>
      /\ UNCHANGED <<clock, latched, cartRam, Ram, romFaithful>>
  BY <1>1, PokingHigh, Zenon
<1>3. /\ mbc'["enable"] = mbc["enable"]
      /\ mbc'["low"] = mbc["low"] /\ mbc'["upper"] = mbc["upper"]
  BY <1>1, <1>2, Names5, SMT
<1> QED
  BY <1>1, <1>2, <1>3, Zenon DEF Ready

(* A bank of ROM is read as it should be if it is the one that is shown.   *)
LEMMA ReadyReadRom ==
  ASSUME TypeInv, DriverStep, clean' = TRUE, Ready, NEW bank,
         Access = ReadRom(bank)
  PROVE  /\ Ready' /\ UNCHANGED <<tpakBank, mbc>>
         /\ romFaithful /\ tpakBank = ROM0 /\ Rom0Bank = bank => romFaithful'
         /\ romFaithful /\ tpakBank = ROMX /\ RomXBank = bank => romFaithful'
         /\ UNCHANGED <<clock, latched, cartRam, Ram>>
<1>1. Access.access = "readRom" /\ Access.value = bank
  BY DEF ReadRom
<1>2. ReadRomBank
  BY <1>1, Matching
<1>3. /\ UNCHANGED <<power, access, tpakBank, mbc>>
      /\ UNCHANGED <<clock, latched, cartRam, Ram>>
  BY <1>2, Zenon DEF ReadRomBank, pakVars, cartVars
<1>4. Connected
  BY DEF Connected, Ready
<1>5. romFaithful' = (/\ romFaithful /\ Connected
                      /\ \/ tpakBank = ROM0 /\ Access.value = Rom0Bank
                         \/ tpakBank = ROMX /\ Access.value = RomXBank)
  BY <1>2, Zenon DEF ReadRomBank
<1>6. /\ romFaithful /\ tpakBank = ROM0 /\ Rom0Bank = bank => romFaithful'
      /\ romFaithful /\ tpakBank = ROMX /\ RomXBank = bank => romFaithful'
  BY <1>1, <1>4, <1>5, Zenon
<1>7. Ready'
  BY <1>3, Zenon DEF Ready
<1> QED
  BY <1>3, <1>6, <1>7, Zenon

LEMMA ReadyReadRam ==
  ASSUME TypeInv, DriverStep, clean' = TRUE, Ready, tpakBank = SRAM,
         NEW bank, ShownAtSram = {bank}, Access = ReadRam(bank)
  PROVE  /\ Ready' /\ UNCHANGED <<tpakBank, mbc>>
         /\ Ram' = [Ram EXCEPT ![bank] =
                      IF bank \in RamBanks THEN cartRam[bank]
                      ELSE Time(latched[bank])]
         /\ UNCHANGED <<clock, latched, cartRam, romFaithful>>
<1>1. Access.access = "readRam" /\ Access.value = bank
  BY DEF ReadRam
<1>2. ReadRamBank
  BY <1>1, Matching
<1>3. /\ UNCHANGED <<power, access, tpakBank, mbc>>
      /\ UNCHANGED <<clock, latched, cartRam, romFaithful>>
  BY <1>2, Zenon DEF ReadRamBank, pakVars, cartVars
<1>4. Connected
  BY DEF Connected, Ready
<1> DEFINE shown == CHOOSE b \in ShownAtSram : TRUE
           w == Access.value
           content(b) == IF b \in RamBanks THEN cartRam[b] ELSE Time(latched[b])
<1>5. shown = bank
  BY Zenon
<1>6. Ram' = [Ram EXCEPT ![w] = content(shown)]
  BY <1>2, <1>4, SMT DEF ReadRamBank
<1>7. w = bank
  BY <1>1
<1>8. content(shown) = content(bank)
  BY <1>5
<1>9. Ram' = [Ram EXCEPT ![bank] = content(bank)]
  <2> HIDE DEF shown, w, content
  <2> QED
    BY <1>6, <1>7, <1>8
<1> QED
  BY <1>3, <1>9, Zenon DEF Ready

(* A bank is written to the bank that is shown, and to no counter.         *)
LEMMA ReadyWriteRam ==
  ASSUME TypeInv, DriverStep, clean' = TRUE, Ready, tpakBank = SRAM,
         NEW bank \in RamBanks, ShownAtSram = {bank}, Access = WriteRam(bank)
  PROVE  /\ Ready' /\ UNCHANGED <<tpakBank, mbc>>
         /\ \A b \in RamBanks :
              cartRam'[b] = IF b = bank THEN Ram[bank] ELSE cartRam[b]
         /\ UNCHANGED <<clock, latched, Ram, romFaithful>>
<1>1. Access.access = "writeRam" /\ Access.value = bank
  BY DEF WriteRam
<1>2. WriteRamBank
  BY <1>1, Matching
<1>3. UNCHANGED <<power, access, tpakBank, Ram, romFaithful>>
  BY <1>2, Zenon DEF WriteRamBank
<1>4. Connected /\ ~(tpakBank > SRAM)
  BY DEF Connected, Ready, SRAM
<1>5. Store(bank) /\ UNCHANGED <<mbc, latched>>
  <2>1. Store(Access.value) /\ UNCHANGED <<mbc, latched>>
    BY <1>2, <1>4, SMT DEF WriteRamBank
  <2> QED
    BY <1>1, <2>1
<1>6. /\ cartridge \in Cartridges
      /\ clock \in [Counters -> 0..MaxTime]
  BY DEF TypeInv, CartOK
<1>7. \A b \in RamBanks :
        cartRam'[b] = IF b = bank THEN Ram[bank] ELSE cartRam[b]
  <2>1. cartRam' = [b \in RamBanks |-> IF b \in {bank} THEN Ram[bank] ELSE cartRam[b]]
    BY <1>5, Zenon DEF Store
  <2> QED
    BY <2>1
<1>8. clock' = clock
  <2>1. bank \notin Counters
    BY <1>6, BanksOrCounters
  <2>2. PICK byte \in 0..MaxTime :
          clock' = [r \in Counters |->
                      IF r \notin {bank} THEN clock[r]
                      ELSE IF Ram[bank][1] = "time" THEN Ram[bank][2] ELSE byte]
    BY <1>5, Zenon DEF Store
  <2> QED
    BY <1>6, <2>1, <2>2
<1> QED
  BY <1>3, <1>5, <1>7, <1>8, Zenon DEF Ready

-----------------------------------------------------------------------------
(* The banks that the registers show.                                      *)
LEMMA RomXShown ==
  ASSUME TypeInv, NEW bank \in 1..(cartridge.RomBankCount - 1), ~Special(bank),
         mbc["low"] = bank % LowBanks(cartridge.Type),
         cartridge.Type = "MBC1" => mbc["upper"] = bank \div 32
  PROVE  RomXBank = bank
<1>1. /\ cartridge \in Cartridges /\ mbc["high"] = 0
  BY Answering DEF TypeInv
<1>2. /\ cartridge.Type \in Types
      /\ cartridge.RomBankCount \in {2, 4, 8, 16, 32, 64, 72, 80, 96, 128}
      /\ cartridge.Type = "ROM_ONLY" => cartridge.RomBankCount = 2
      /\ cartridge.Type = "MBC2" => cartridge.RomBankCount <= 16
  BY <1>1, CartridgesAssumption, SelectableAssumption
<1> DEFINE n == cartridge.RomBankCount
           u == mbc["upper"]
           w == mbc["low"]
<1>3. n \in 2..128 /\ bank \in 1..(n - 1)
  BY <1>2
<1>4. CASE cartridge.Type = "ROM_ONLY"
  <2>1. bank = 1 /\ n = 2
    BY <1>2, <1>3, <1>4
  <2>2. RomXBank = 1 % n
    BY <1>4 DEF RomXBank
  <2> QED
    BY <2>1, <2>2
<1>5. CASE cartridge.Type = "MBC1"
  <2>1. RomXBank = ((u % 4) * 32 + NotZero(w % 32)) % n
    BY <1>5 DEF RomXBank
  <2>2. w = bank % 32 /\ u = bank \div 32 /\ bank \notin {32, 64, 96}
    BY <1>5 DEF LowBanks, Special
  <2> HIDE DEF n, u, w
  <2>3. w \in 1..31 /\ u \in 0..3 /\ bank = u * 32 + w
    BY <1>3, <2>2
  <2>4. w % 32 = w /\ u % 4 = u /\ NotZero(w) = w
    BY <2>3 DEF NotZero
  <2>5. bank % n = bank
    BY <1>3
  <2> QED
    BY <2>1, <2>3, <2>4, <2>5
<1>6. CASE cartridge.Type = "MBC2"
  <2>1. RomXBank = NotZero(w % 16) % n /\ w = bank % 16 /\ n <= 16
    BY <1>2, <1>6 DEF RomXBank, LowBanks
  <2> HIDE DEF n, w
  <2>2. w = bank /\ w % 16 = w /\ NotZero(w) = w /\ bank % n = bank
    BY <1>3, <2>1 DEF NotZero
  <2> QED
    BY <2>1, <2>2
<1>7. CASE cartridge.Type = "MBC3"
  <2>1. RomXBank = NotZero(w % 128) % n /\ w = bank % 128
    BY <1>7 DEF RomXBank, LowBanks
  <2> HIDE DEF n, w
  <2>2. w = bank /\ w % 128 = w /\ NotZero(w) = w /\ bank % n = bank
    BY <1>3, <2>1 DEF NotZero
  <2> QED
    BY <2>1, <2>2
<1>8. CASE cartridge.Type = "MBC5"
  <2>1. RomXBank = ((mbc["high"] % 2) * 256 + w) % n /\ w = bank % 256
    BY <1>8 DEF RomXBank, LowBanks
  <2>2. (mbc["high"] % 2) * 256 = 0
    BY <1>1
  <2> HIDE DEF n, w
  <2>3. w = bank /\ bank % n = bank
    BY <1>3, <2>1
  <2> QED
    BY <1>3, <2>1, <2>2, <2>3
<1> QED
  BY <1>2, <1>4, <1>5, <1>6, <1>7, <1>8 DEF Types

LEMMA Rom0Shown ==
  ASSUME TypeInv, NEW bank \in 0..(cartridge.RomBankCount - 1),
         IF bank = 0 THEN mbc["mode"] = 0
         ELSE Special(bank) /\ mbc["mode"] = 1 /\ mbc["upper"] = bank \div 32
  PROVE  Rom0Bank = bank
<1>1. cartridge \in Cartridges
  BY DEF TypeInv
<1>2. cartridge.RomBankCount \in {2, 4, 8, 16, 32, 64, 72, 80, 96, 128}
  BY <1>1, CartridgesAssumption
<1> DEFINE n == cartridge.RomBankCount
           u == mbc["upper"]
<1>3. n \in 2..128 /\ bank \in 0..(n - 1)
  BY <1>2
<1>4. CASE bank = 0
  <2>1. Rom0Bank = 0 % n
    BY <1>4 DEF Rom0Bank
  <2> HIDE DEF n
  <2> QED
    BY <1>3, <1>4, <2>1
<1>5. CASE bank # 0
  <2>1. Rom0Bank = ((u % 4) * 32) % n
    BY <1>5 DEF Rom0Bank, Special
  <2>2. u = bank \div 32 /\ bank \in {32, 64, 96}
    BY <1>5 DEF Special
  <2> HIDE DEF n, u
  <2>3. u \in 1..3 /\ u % 4 = u /\ u * 32 = bank
    BY <2>2
  <2>4. bank % n = bank
    BY <1>3
  <2> QED
    BY <2>1, <2>3, <2>4
<1> QED
  BY <1>4, <1>5

LEMMA RamShown ==
  ASSUME TypeInv, Ready, NEW bank \in RamBanks, mbc["upper"] = bank,
         Moded(bank) => mbc["mode"] = 1
  PROVE  ShownAtSram = {bank}
<1>1. /\ cartridge \in Cartridges /\ mbc["enable"] = 10
  BY DEF TypeInv, Ready, ENABLE_GB_RAM
<1>2. /\ RamBanks \cap Counters = {} /\ cartridge.Type \in Types
      /\ cartridge.RamBankCount \in {0, 1, 4, 8, 16}
      /\ cartridge.rumble => cartridge.RamBankCount <= 8
      /\ cartridge.Type = "ROM_ONLY" => cartridge.RamBankCount <= 1
      /\ cartridge.Type = "MBC1" => cartridge.RamBankCount <= 4
      /\ cartridge.Type = "MBC2" => cartridge.RamBankCount = 1
  BY <1>1, BanksOrCounters, CartridgesAssumption, SelectableAssumption
<1> DEFINE n == cartridge.RamBankCount
           selected == CASE cartridge.Type = "MBC1" ->
                              IF mbc["mode"] % 2 = 1 THEN mbc["upper"] % 4 ELSE 0
                         [] cartridge.Type = "MBC3" -> mbc["upper"]
                         [] cartridge.Type = "MBC5" ->
                              mbc["upper"] % (IF cartridge.rumble THEN 8 ELSE 16)
                         [] OTHER -> 0
<1>3. n \in 1..16 /\ bank \in 0..(n - 1) /\ RamBanks # {} /\ bank \notin Counters
  BY <1>2 DEF RamBanks
<1>4. ShownAtSram = {selected % n}
  BY <1>1, <1>3 DEF ShownAtSram, ENABLE_GB_RAM
<1>5. selected = bank
  <2>1. CASE cartridge.Type = "MBC1"
    <3>1. selected = IF mbc["mode"] % 2 = 1 THEN bank % 4 ELSE 0
      BY <2>1
    <3>2. bank \in 0..3 /\ (bank > 0 => mbc["mode"] = 1)
      BY <1>2, <1>3, <2>1 DEF Moded
    <3> HIDE DEF selected
    <3>3. CASE bank = 0
      BY <3>1, <3>3
    <3>4. CASE bank > 0
      BY <3>1, <3>2, <3>4
    <3> QED
      BY <3>2, <3>3, <3>4
  <2>2. CASE cartridge.Type = "MBC3"
    BY <2>2
  <2>3. CASE cartridge.Type = "MBC5"
    <3>1. selected = bank % (IF cartridge.rumble THEN 8 ELSE 16)
      BY <2>3
    <3> HIDE DEF selected
    <3>2. CASE cartridge.rumble
      BY <1>2, <1>3, <3>1, <3>2
    <3>3. CASE ~cartridge.rumble
      BY <1>2, <1>3, <3>1, <3>3
    <3> QED
      BY <3>2, <3>3
  <2>4. CASE cartridge.Type \in {"MBC2", "ROM_ONLY"}
    BY <1>2, <1>3, <2>4
  <2> QED
    BY <1>2, <2>1, <2>2, <2>3, <2>4 DEF Types
<1>6. bank % n = bank
  <2> HIDE DEF n
  <2> QED
    BY <1>3
<1> QED
  BY <1>4, <1>5, <1>6, Zenon

LEMMA CounterShown ==
  ASSUME Ready, NEW r \in Counters, mbc["upper"] = r
  PROVE  ShownAtSram = {r}
<1>1. mbc["enable"] % 16 = 10
  BY DEF Ready, ENABLE_GB_RAM
<1> QED
  BY <1>1 DEF ShownAtSram, ENABLE_GB_RAM

-----------------------------------------------------------------------------
(* The steps of the pieces.                                                *)
Opening == <<PowerOn, AccessOn, Call("tpak_init"), Enable>>

LEMMA OpeningStep ==
  ASSUME TypeInv, DriverStep, clean' = TRUE, step \in 1..4,
         Access = Opening[step], OpeningAt, power => Fresh
  PROVE  /\ power' = TRUE /\ Fresh'
         /\ step >= 2 => access' = TRUE
         /\ step >= 4 => mbc'["enable"] = ENABLE_GB_RAM
         /\ UNCHANGED <<clock, latched, cartRam, Ram, romFaithful>>
<1>1. /\ power \in BOOLEAN /\ access \in BOOLEAN /\ tpakBank \in ROM0..SRAM
      /\ mbc \in [MbcRegisters -> 0..255]
  BY Answering
<1>2. CASE step = 1
  <2>1. Access = PowerOn
    BY <1>2 DEF Opening
  <2>2. /\ power' = TRUE
        /\ IF power THEN UNCHANGED <<access, tpakBank, mbc>>
           ELSE access' = FALSE /\ tpakBank' = ROM0 /\ mbc' = PowerOnRegisters
        /\ UNCHANGED <<clock, latched, cartRam, Ram, romFaithful, clean>>
    BY <2>1, PoweringOn, Zenon
  <2>3. Fresh'
    BY <2>2, PowerOnSelected, Zenon DEF Fresh
  <2> QED
    BY <1>2, <2>2, <2>3
<1>3. CASE step = 2
  <2>1. Access = AccessOn /\ power = TRUE /\ Fresh
    BY <1>1, <1>3 DEF Opening, OpeningAt
  <2>2. /\ access' = TRUE /\ UNCHANGED <<power, tpakBank, mbc, clean>>
        /\ UNCHANGED <<clock, latched, cartRam, Ram, romFaithful>>
    BY <2>1, Accessing, Zenon
  <2>3. Fresh' /\ power' = TRUE
    BY <2>1, <2>2, Zenon DEF Fresh
  <2> QED
    BY <1>3, <2>2, <2>3
<1>4. CASE step = 3
  <2>1. Access = Call("tpak_init") /\ power = TRUE /\ access = TRUE /\ Fresh
    BY <1>1, <1>4 DEF Opening, OpeningAt
  <2>2. /\ tpakBank' \in {tpakBank, ROM0} /\ UNCHANGED <<power, access, mbc, clean>>
        /\ UNCHANGED <<clock, latched, cartRam, Ram, romFaithful>>
    BY <2>1, Initialising, Zenon
  <2>3. Fresh' /\ power' = TRUE /\ access' = TRUE
    BY <2>1, <2>2, Zenon DEF Fresh
  <2> QED
    BY <1>4, <2>2, <2>3
<1>5. CASE step = 4
  <2>1. Access = Enable /\ power = TRUE /\ access = TRUE /\ Fresh
    BY <1>1, <1>5 DEF Opening, OpeningAt
  <2>2. tpakBank = ROM0
    BY <2>1 DEF Fresh
  <2>3. /\ mbc' = [mbc EXCEPT !["enable"] = ENABLE_GB_RAM]
        /\ UNCHANGED <<power, access, tpakBank, clean>>
        /\ UNCHANGED <<clock, latched, cartRam, Ram, romFaithful>>
    BY <1>1, <2>1, <2>2, PokingEnable, Zenon
  <2>4. /\ mbc'["enable"] = ENABLE_GB_RAM /\ mbc'["low"] = mbc["low"]
        /\ mbc'["upper"] = mbc["upper"] /\ mbc'["mode"] = mbc["mode"]
    BY <1>1, <2>3, Names5, SMT
  <2>5. Fresh' /\ power' = TRUE /\ access' = TRUE
    BY <2>1, <2>3, <2>4, Zenon DEF Fresh
  <2> QED
    BY <1>5, <2>3, <2>4, <2>5
<1>6. step = 1 \/ step = 2 \/ step = 3 \/ step = 4
  OBVIOUS
<1> QED
  BY <1>2, <1>3, <1>4, <1>5, <1>6, Zenon

LEMMA HeaderStep ==
  ASSUME TypeInv, DriverStep, ~RejectHeader, clean' = TRUE, Ready,
         Access = Call("tpak_get_cartridge_header")
  PROVE  /\ Ready' /\ tpakBank' = ROM0 /\ romFaithful' = TRUE
         /\ UNCHANGED mbc /\ UNCHANGED <<clock, latched, cartRam>>
<1>1. Access.access = "tpak_get_cartridge_header"
  BY DEF Call
<1>2. ReadHeader
  BY <1>1, Matching
<1> QED
  BY <1>2, Zenon DEF ReadHeader, Ready, cartVars

(* The driver turns the pak on a second time, with the bank that the last  *)
(* access has left it with.                                                *)
LEMMA ReopeningStep ==
  ASSUME TypeInv, DriverStep, clean' = TRUE, Ready, step \in 1..4,
         Access = Opening[step]
  PROVE  Ready' /\ UNCHANGED <<clock, latched, cartRam, Ram, romFaithful>>
<1>1. power = TRUE /\ access = TRUE
  BY Answering
<1>2. CASE step = 1
  <2>1. Access = PowerOn
    BY <1>2 DEF Opening
  <2>2. /\ power' = TRUE
        /\ IF power THEN UNCHANGED <<access, tpakBank, mbc>>
           ELSE access' = FALSE /\ tpakBank' = ROM0 /\ mbc' = PowerOnRegisters
        /\ UNCHANGED <<clock, latched, cartRam, Ram, romFaithful, clean>>
    BY <2>1, PoweringOn, Zenon
  <2> QED
    BY <1>1, <2>2, Zenon DEF Ready
<1>3. CASE step = 2
  <2>1. Access = AccessOn
    BY <1>3 DEF Opening
  <2> QED
    BY <1>1, <2>1, Accessing, Zenon DEF Ready
<1>4. CASE step = 3
  <2>1. Access = Call("tpak_init")
    BY <1>4 DEF Opening
  <2> QED
    BY <1>1, <2>1, Initialising, Zenon DEF Ready
<1>5. CASE step = 4
  <2>1. Access = Enable
    BY <1>5 DEF Opening
  <2> QED
    BY <2>1, ReadyEnable, Zenon
<1>6. step = 1 \/ step = 2 \/ step = 3 \/ step = 4
  OBVIOUS
<1> QED
  BY <1>2, <1>3, <1>4, <1>5, <1>6, Zenon

(* The steps of importRom: a bank that ROM0 shows in RAM mode.             *)
LEMMA SpecialStep ==
  ASSUME TypeInv, DriverStep, clean' = TRUE, Ready, romFaithful,
         Special(iteration), iteration \in 0..(cartridge.RomBankCount - 1),
         step \in 1..6, SpecialAt(iteration),
         Access = <<Select(ROMX), Select(ROMX), Mode(1), Upper(iteration \div 32),
                    Select(ROM0), ReadRom(iteration)>>[step]
  PROVE  /\ Ready' /\ romFaithful' /\ UNCHANGED <<clock, cartRam, Ram>>
         /\ step' = step + 1 /\ step # 6 /\ UNCHANGED iteration =>
              SpecialAt(iteration)'
<1>1. CASE step \in 1..2
  <2>1. Access = Select(ROMX)
    BY <1>1
  <2>2. /\ Ready' /\ tpakBank' = ROMX
        /\ UNCHANGED <<clock, latched, cartRam, Ram, romFaithful>>
    BY <2>1, ReadySelect, Zenon
  <2>3. step' = step + 1 /\ UNCHANGED iteration => SpecialAt(iteration)'
    BY <1>1, <2>2 DEF SpecialAt
  <2> QED
    BY <2>2, <2>3, Zenon
<1>2. CASE step = 3
  <2>1. Access = Mode(1) /\ tpakBank = ROMX
    BY <1>2 DEF SpecialAt
  <2>2. /\ Ready' /\ tpakBank' = tpakBank /\ mbc'["mode"] = 1
        /\ UNCHANGED <<clock, cartRam, Ram, romFaithful>>
    BY <2>1, ReadyMode, Zenon
  <2>3. step' = step + 1 /\ UNCHANGED iteration => SpecialAt(iteration)'
    BY <1>2, <2>1, <2>2 DEF SpecialAt
  <2> QED
    BY <2>2, <2>3, Zenon
<1>3. CASE step = 4
  <2>1. /\ Access = Upper(iteration \div 32)
        /\ tpakBank = ROMX /\ mbc["mode"] = 1
    BY <1>3 DEF SpecialAt
  <2>2. /\ Ready' /\ tpakBank' = tpakBank /\ mbc'["mode"] = mbc["mode"]
        /\ mbc'["upper"] = iteration \div 32
        /\ UNCHANGED <<clock, cartRam, Ram, romFaithful>>
    BY <2>1, ReadyUpper, Zenon
  <2>3. step' = step + 1 /\ UNCHANGED iteration => SpecialAt(iteration)'
    BY <1>3, <2>1, <2>2 DEF SpecialAt
  <2> QED
    BY <2>2, <2>3, Zenon
<1>4. CASE step = 5
  <2>1. /\ Access = Select(ROM0)
        /\ mbc["mode"] = 1 /\ mbc["upper"] = iteration \div 32
    BY <1>4 DEF SpecialAt
  <2>2. /\ Ready' /\ tpakBank' = ROM0 /\ mbc' = mbc
        /\ UNCHANGED <<clock, latched, cartRam, Ram, romFaithful>>
    BY <2>1, ReadySelect, Zenon
  <2>3. step' = step + 1 /\ UNCHANGED iteration => SpecialAt(iteration)'
    BY <1>4, <2>1, <2>2 DEF SpecialAt
  <2> QED
    BY <2>2, <2>3, Zenon
<1>5. CASE step = 6
  <2>1. /\ Access = ReadRom(iteration) /\ tpakBank = ROM0
        /\ mbc["mode"] = 1 /\ mbc["upper"] = iteration \div 32 /\ iteration # 0
    BY <1>5 DEF SpecialAt, Special
  <2>2. Rom0Bank = iteration
    BY <2>1, Rom0Shown
  <2>3. Ready' /\ romFaithful' /\ UNCHANGED <<clock, latched, cartRam, Ram>>
    BY <2>1, <2>2, ReadyReadRom, Zenon
  <2> QED
    BY <1>5, <2>3, Zenon
<1>6. step \in 1..2 \/ step = 3 \/ step = 4 \/ step = 5 \/ step = 6
  OBVIOUS
<1> QED
  BY <1>1, <1>2, <1>3, <1>4, <1>5, <1>6, Zenon

(* The last four steps of any other bank but the first.                    *)
LEMMA RomXTail ==
  ASSUME TypeInv, DriverStep, clean' = TRUE, Ready, romFaithful,
         ~Special(iteration), iteration \in 1..(cartridge.RomBankCount - 1),
         NEW f \in 0..3, Front(iteration) = f, step \in (f + 1)..(f + 4),
         RomXAt(iteration),
         Access = <<Select(ROM0), Low(iteration % LowBanks(cartridge.Type)),
                    Select(ROMX), ReadRom(iteration)>>[step - f]
  PROVE  /\ Ready' /\ romFaithful' /\ UNCHANGED <<clock, cartRam, Ram>>
         /\ step' = step + 1 /\ step # f + 4 /\ UNCHANGED <<iteration, cartridge>> =>
              RomXAt(iteration)'
<1> DEFINE low == iteration % LowBanks(cartridge.Type)
           type == cartridge.Type
           up == iteration \div 32
           Front1 == UNCHANGED <<iteration, cartridge>> => Front(iteration)' = f
           Same == UNCHANGED <<iteration, cartridge>> =>
                     low' = low /\ type' = type /\ up' = up
<1>1. Front1
  BY DEF Front
<1>2. Same
  BY DEF LowBanks
<1>3. /\ type = "MBC1" => /\ step \in 2..f => tpakBank = ROMX
                          /\ step > f => mbc["upper"] = up
      /\ step = f + 2 => tpakBank = ROM0
      /\ step >= f + 3 => mbc["low"] = low
      /\ step = f + 4 => tpakBank = ROMX
  BY DEF RomXAt
<1>4. ASSUME UNCHANGED <<iteration, cartridge>>, step' = step + 1,
             type = "MBC1" => mbc'["upper"] = up,
             step = f + 1 => tpakBank' = ROM0,
             step >= f + 2 => mbc'["low"] = low,
             step = f + 3 => tpakBank' = ROMX
      PROVE  RomXAt(iteration)'
  <2>1. /\ Front(iteration)' = f /\ low' = low /\ type' = type /\ up' = up
    BY <1>1, <1>2, <1>4
  <2>2. /\ (iteration % LowBanks(cartridge.Type))' = low
        /\ (cartridge.Type)' = type /\ (iteration \div 32)' = up
    BY <2>1
  <2> HIDE DEF low, type, up
  <2> QED
    BY <1>4, <2>1, <2>2 DEF RomXAt
<1> HIDE DEF low, type, up, Front1, Same
<1>5. CASE step = f + 1
  <2>1. Access = Select(ROM0)
    BY <1>5
  <2>2. /\ Ready' /\ tpakBank' = ROM0 /\ mbc' = mbc
        /\ UNCHANGED <<clock, latched, cartRam, Ram, romFaithful>>
    BY <2>1, ReadySelect, Zenon
  <2>3. step' = step + 1 /\ UNCHANGED <<iteration, cartridge>> => RomXAt(iteration)'
    BY <1>3, <1>4, <1>5, <2>2
  <2> QED
    BY <2>2, <2>3, Zenon
<1>6. CASE step = f + 2
  <2>1. Access = Low(low) /\ tpakBank = ROM0
    BY <1>3, <1>6 DEF low
  <2>2. /\ Ready' /\ tpakBank' = tpakBank /\ mbc'["low"] = low
        /\ mbc'["upper"] = mbc["upper"]
        /\ UNCHANGED <<clock, latched, cartRam, Ram, romFaithful>>
    BY <2>1, ReadyLow, Zenon
  <2>3. step' = step + 1 /\ UNCHANGED <<iteration, cartridge>> => RomXAt(iteration)'
    BY <1>3, <1>4, <1>6, <2>2
  <2> QED
    BY <2>2, <2>3, Zenon
<1>7. CASE step = f + 3
  <2>1. Access = Select(ROMX)
    BY <1>7
  <2>2. /\ Ready' /\ tpakBank' = ROMX /\ mbc' = mbc
        /\ UNCHANGED <<clock, latched, cartRam, Ram, romFaithful>>
    BY <2>1, ReadySelect, Zenon
  <2>3. step' = step + 1 /\ UNCHANGED <<iteration, cartridge>> => RomXAt(iteration)'
    BY <1>3, <1>4, <1>7, <2>2
  <2> QED
    BY <2>2, <2>3, Zenon
<1>8. CASE step = f + 4
  <2>1. /\ Access = ReadRom(iteration) /\ tpakBank = ROMX
        /\ mbc["low"] = low /\ (type = "MBC1" => mbc["upper"] = up)
    BY <1>3, <1>8
  <2>2. RomXBank = iteration
    BY <2>1, RomXShown DEF low, type, up
  <2>3. Ready' /\ romFaithful' /\ UNCHANGED <<clock, latched, cartRam, Ram>>
    BY <2>1, <2>2, ReadyReadRom, Zenon
  <2> QED
    BY <1>8, <2>3, Zenon
<1>9. step = f + 1 \/ step = f + 2 \/ step = f + 3 \/ step = f + 4
  OBVIOUS
<1> QED
  BY <1>5, <1>6, <1>7, <1>8, <1>9, Zenon

(* The steps before: the upper bits, for an MBC1 or an MBC5.               *)
LEMMA RomXFront ==
  ASSUME TypeInv, DriverStep, clean' = TRUE, Ready, romFaithful,
         iteration \in 1..127,
         NEW f \in 1..3, Front(iteration) = f, step \in 1..f, RomXAt(iteration),
         IF f = 1
         THEN /\ cartridge.Type = "MBC5"
              /\ Access = Poke(GB_UPPER_ROM_BANK_ADDRESS, 0)
         ELSE /\ cartridge.Type = "MBC1"
              /\ step = 1 => Access = Select(ROMX)
              /\ step = 2 /\ f = 3 => Access = Mode(0)
              /\ step = f => Access = Upper((iteration \div 32) % 4)
  PROVE  /\ Ready' /\ romFaithful' /\ UNCHANGED <<clock, cartRam, Ram>>
         /\ step' = step + 1 /\ UNCHANGED <<iteration, cartridge>> =>
              RomXAt(iteration)'
<1> DEFINE type == cartridge.Type
           up == iteration \div 32
<1>1. /\ type = "MBC1" => (step \in 2..f => tpakBank = ROMX)
      /\ up % 4 = up
  <2>1. type = "MBC1" => (step \in 2..f => tpakBank = ROMX)
    BY DEF RomXAt
  <2>2. up % 4 = up
    OBVIOUS
  <2> QED
    BY <2>1, <2>2
<1>2. ASSUME UNCHANGED <<iteration, cartridge>>, step' = step + 1,
             type = "MBC1" => IF step = f THEN mbc'["upper"] = up
                              ELSE tpakBank' = ROMX
      PROVE  RomXAt(iteration)'
  <2>1. Front(iteration)' = f /\ type' = type /\ up' = up
    BY <1>2 DEF Front
  <2>2. /\ (cartridge.Type)' = type /\ (iteration \div 32)' = up
    BY <2>1
  <2> HIDE DEF type, up
  <2> QED
    BY <1>2, <2>1, <2>2 DEF RomXAt
<1>3. CASE f = 1
  <2>1. type = "MBC5" /\ Access = Poke(GB_UPPER_ROM_BANK_ADDRESS, 0)
    BY <1>3
  <2>2. PICK v : v = 0 /\ v # 1
    OBVIOUS
  <2>3. Access = Poke(GB_UPPER_ROM_BANK_ADDRESS, v)
    BY <2>1, <2>2
  <2>4. /\ Ready' /\ UNCHANGED <<clock, latched, cartRam, Ram, romFaithful>>
    BY <2>1, <2>2, <2>3, ReadyHigh, Zenon
  <2>5. step' = step + 1 /\ UNCHANGED <<iteration, cartridge>> => RomXAt(iteration)'
    BY <1>2, <2>1
  <2> QED
    BY <2>4, <2>5, Zenon
<1>4. CASE f # 1 /\ step = 1
  <2>1. type = "MBC1" /\ Access = Select(ROMX) /\ step # f
    BY <1>4
  <2>2. /\ Ready' /\ tpakBank' = ROMX
        /\ UNCHANGED <<clock, latched, cartRam, Ram, romFaithful>>
    BY <2>1, ReadySelect, Zenon
  <2>3. step' = step + 1 /\ UNCHANGED <<iteration, cartridge>> => RomXAt(iteration)'
    BY <1>2, <2>1, <2>2, Zenon
  <2> QED
    BY <2>2, <2>3, Zenon
<1>5. CASE f = 3 /\ step = 2
  <2>1. type = "MBC1" /\ Access = Mode(0) /\ step # f /\ tpakBank = ROMX
    BY <1>1, <1>5
  <2>2. /\ Ready' /\ tpakBank' = tpakBank
        /\ UNCHANGED <<clock, cartRam, Ram, romFaithful>>
    BY <2>1, ReadyMode, Zenon
  <2>3. step' = step + 1 /\ UNCHANGED <<iteration, cartridge>> => RomXAt(iteration)'
    BY <1>2, <2>1, <2>2, Zenon
  <2> QED
    BY <2>2, <2>3, Zenon
<1>6. CASE f # 1 /\ step = f
  <2>1. type = "MBC1" /\ Access = Upper(up) /\ tpakBank = ROMX
    BY <1>1, <1>6
  <2>2. /\ Ready' /\ mbc'["upper"] = up
        /\ UNCHANGED <<clock, latched, cartRam, Ram, romFaithful>>
    <3> HIDE DEF up, type
    <3> QED
      BY <2>1, ReadyUpper, Zenon
  <2>3. step' = step + 1 /\ UNCHANGED <<iteration, cartridge>> => RomXAt(iteration)'
    BY <1>2, <1>6, <2>1, <2>2, Zenon
  <2> QED
    BY <2>2, <2>3, Zenon
<1>7. f = 1 \/ (f # 1 /\ step = 1) \/ (f = 3 /\ step = 2) \/ (f # 1 /\ step = f)
  OBVIOUS
<1> QED
  BY <1>3, <1>4, <1>5, <1>6, <1>7, Zenon

(* A step of importRom.                                                    *)
LEMMA RomStep ==
  ASSUME TypeInv, DriverStep, clean' = TRUE, Ready, romFaithful,
         Piece.name = "importRom", iteration \in 0..(cartridge.RomBankCount - 1),
         step \in 1..Len(Accesses), RomAt(iteration)
  PROVE  /\ Ready' /\ romFaithful' /\ UNCHANGED <<clock, cartRam, Ram>>
         /\ step # Len(Accesses) /\ step' = step + 1
              /\ UNCHANGED <<iteration, cartridge>> => RomAt(iteration)'
<1>1. /\ cartridge \in Cartridges /\ cartridge.Type \in Types
      /\ cartridge.RomBankCount \in 2..128 /\ iteration \in 0..127
      /\ Accesses = AccessesOf("importRom", iteration)
      /\ Access = Accesses[step]
  <2>1. cartridge \in Cartridges /\ cartridge.Type \in Types
    BY CartridgesAssumption DEF TypeInv
  <2>2. cartridge.RomBankCount \in 2..128
    BY <2>1, CartridgesAssumption
  <2>3. iteration \in 0..127
    <3> DEFINE n == cartridge.RomBankCount
    <3>1. n \in 2..128 /\ iteration \in 0..(n - 1)
      BY <2>2
    <3> HIDE DEF n
    <3> QED
      BY <3>1
  <2>4. Accesses = AccessesOf("importRom", iteration) /\ Access = Accesses[step]
    BY Zenon DEF Accesses, Access
  <2> QED
    BY <2>1, <2>2, <2>3, <2>4
<1>2. CASE iteration = 0
  <2>1. Accesses = <<Select(ROM0), ReadRom(iteration)>>
    BY <1>1, <1>2, Rom0Accesses
  <2>2. step \in 1..2 /\ Len(Accesses) = 2 /\ mbc["mode"] = 0
    BY <1>2, <2>1 DEF RomAt
  <2>3. CASE step = 1
    <3>1. Access = Select(ROM0)
      BY <1>1, <2>1, <2>3
    <3>2. /\ Ready' /\ tpakBank' = ROM0 /\ mbc' = mbc
          /\ UNCHANGED <<clock, latched, cartRam, Ram, romFaithful>>
      BY <3>1, ReadySelect, Zenon
    <3>3. UNCHANGED iteration => RomAt(iteration)'
      BY <1>2, <2>2, <3>2 DEF RomAt
    <3> QED
      BY <3>2, <3>3, Zenon
  <2>4. CASE step = 2
    <3>1. Access = ReadRom(iteration) /\ tpakBank = ROM0 /\ Rom0Bank = iteration
      BY <1>1, <1>2, <2>1, <2>2, <2>4, Rom0Shown DEF RomAt
    <3>2. Ready' /\ romFaithful' /\ UNCHANGED <<clock, latched, cartRam, Ram>>
      BY <3>1, ReadyReadRom, Zenon
    <3> QED
      BY <2>2, <2>4, <3>2, Zenon
  <2>5. step = 1 \/ step = 2
    BY <2>2
  <2> QED
    BY <2>3, <2>4, <2>5, Zenon
<1>3. CASE Special(iteration)
  <2>1. Accesses = <<Select(ROMX), Select(ROMX), Mode(1), Upper(iteration \div 32),
                     Select(ROM0), ReadRom(iteration)>>
    <3>1. cartridge.Type = "MBC1" /\ iteration \in {32, 64, 96} /\ iteration # 0
      BY <1>3 DEF Special
    <3> QED
      BY <1>1, <3>1, Rom0Accesses
  <2>2. step \in 1..6 /\ Len(Accesses) = 6 /\ SpecialAt(iteration)
    BY <1>3, <2>1 DEF RomAt, Special
  <2>3. Access = <<Select(ROMX), Select(ROMX), Mode(1), Upper(iteration \div 32),
                   Select(ROM0), ReadRom(iteration)>>[step]
    BY <1>1, <2>1, Zenon
  <2>4. /\ Ready' /\ romFaithful' /\ UNCHANGED <<clock, cartRam, Ram>>
        /\ step' = step + 1 /\ step # 6 /\ UNCHANGED iteration =>
             SpecialAt(iteration)'
    BY <1>3, <2>2, <2>3, SpecialStep, Zenon
  <2>5. UNCHANGED <<iteration, cartridge>> /\ SpecialAt(iteration)' =>
          RomAt(iteration)'
    BY <1>3 DEF RomAt, Special
  <2> QED
    BY <2>2, <2>4, <2>5, Zenon
<1>4. CASE iteration # 0 /\ ~Special(iteration)
  <2>1. PICK f : f = Front(iteration)
    OBVIOUS
  <2> DEFINE low == Low(iteration % LowBanks(cartridge.Type))
             up == Upper((iteration \div 32) % 4)
             tail == <<Select(ROM0), low, Select(ROMX), ReadRom(iteration)>>
  <2>2. /\ f \in 0..3 /\ iteration \in 1..(cartridge.RomBankCount - 1)
        /\ iteration \in 1..127 /\ RomXAt(iteration)
    BY <1>1, <1>4, <2>1 DEF Front, RomAt
  <2>3. Accesses =
          IF cartridge.Type = "MBC1" /\ iteration >= 32
          THEN <<Select(ROMX), Mode(0), up, Select(ROM0), low, Select(ROMX),
                 ReadRom(iteration)>>
          ELSE IF cartridge.Type = "MBC1"
          THEN <<Select(ROMX), up, Select(ROM0), low, Select(ROMX),
                 ReadRom(iteration)>>
          ELSE IF cartridge.Type = "MBC5"
          THEN <<Poke(GB_UPPER_ROM_BANK_ADDRESS, 0), Select(ROM0), low,
                 Select(ROMX), ReadRom(iteration)>>
          ELSE <<Select(ROM0), low, Select(ROMX), ReadRom(iteration)>>
    <3>1. ~(cartridge.Type = "MBC1" /\ iteration \in {32, 64, 96})
      BY <1>4 DEF Special
    <3> QED
      BY <1>1, <2>2, <3>1, RomXAccesses, Zenon
  <2> HIDE DEF low, up
  <2>4. /\ step \in 1..(f + 4) /\ Len(Accesses) = f + 4
        /\ f # 0 => cartridge.Type \in {"MBC1", "MBC5"}
        /\ step > f => Access = tail[step - f]
        /\ step <= f =>
             IF f = 1
             THEN /\ cartridge.Type = "MBC5"
                  /\ Access = Poke(GB_UPPER_ROM_BANK_ADDRESS, 0)
             ELSE /\ cartridge.Type = "MBC1"
                  /\ step = 1 => Access = Select(ROMX)
                  /\ step = 2 /\ f = 3 => Access = Mode(0)
                  /\ step = f => Access = up
    <3>1. CASE cartridge.Type = "MBC1" /\ iteration >= 32
      <4>1. f = 3
        BY <2>1, <3>1 DEF Front
      <4>2. Accesses = <<Select(ROMX), Mode(0), up, Select(ROM0), low,
                         Select(ROMX), ReadRom(iteration)>>
        BY <2>3, <3>1
      <4>3. /\ Len(Accesses) = 7 /\ step \in 1..7
            /\ Accesses[1] = Select(ROMX) /\ Accesses[2] = Mode(0)
            /\ Accesses[3] = up /\ Accesses[4] = tail[1]
            /\ Accesses[5] = tail[2] /\ Accesses[6] = tail[3]
            /\ Accesses[7] = tail[4]
        BY <4>2
      <4>4. step > 3 => Access = tail[step - 3]
        <5> HIDE DEF tail
        <5> QED
          BY <1>1, <4>3
      <4>5. /\ step = 1 => Access = Select(ROMX)
            /\ step = 2 => Access = Mode(0)
            /\ step = 3 => Access = up
        BY <1>1, <4>3, Zenon
      <4> QED
        BY <3>1, <4>1, <4>3, <4>4, <4>5
    <3>2. CASE cartridge.Type = "MBC1" /\ ~(iteration >= 32)
      <4>1. f = 2
        BY <2>1, <3>2 DEF Front
      <4>2. Accesses = <<Select(ROMX), up, Select(ROM0), low,
                         Select(ROMX), ReadRom(iteration)>>
        BY <2>3, <3>2
      <4> QED
        BY <1>1, <3>2, <4>1, <4>2
    <3>3. CASE cartridge.Type = "MBC5"
      <4>1. f = 1
        BY <2>1, <3>3 DEF Front
      <4>2. Accesses = <<Poke(GB_UPPER_ROM_BANK_ADDRESS, 0), Select(ROM0), low,
                         Select(ROMX), ReadRom(iteration)>>
        BY <2>3, <3>3
      <4> QED
        BY <1>1, <3>3, <4>1, <4>2
    <3>4. CASE cartridge.Type # "MBC1" /\ cartridge.Type # "MBC5"
      <4>1. f = 0
        BY <2>1, <3>4 DEF Front
      <4>2. Accesses = <<Select(ROM0), low, Select(ROMX), ReadRom(iteration)>>
        BY <2>3, <3>4
      <4> QED
        BY <1>1, <3>4, <4>1, <4>2
    <3> QED
      BY <3>1, <3>2, <3>3, <3>4
  <2>5. CASE step > f
    <3>1. step \in (f + 1)..(f + 4)
      BY <2>2, <2>4, <2>5
    <3>2. Access = <<Select(ROM0), Low(iteration % LowBanks(cartridge.Type)),
                     Select(ROMX), ReadRom(iteration)>>[step - f]
      BY <2>4, <2>5, Zenon DEF low
    <3>3. /\ Ready' /\ romFaithful' /\ UNCHANGED <<clock, cartRam, Ram>>
          /\ step' = step + 1 /\ step # f + 4 /\ UNCHANGED <<iteration, cartridge>> =>
               RomXAt(iteration)'
      BY <1>4, <2>1, <2>2, <3>1, <3>2, RomXTail, Zenon
    <3>4. UNCHANGED <<iteration, cartridge>> /\ RomXAt(iteration)' => RomAt(iteration)'
      BY <1>4 DEF RomAt, Special
    <3> QED
      BY <2>4, <3>3, <3>4, Zenon
  <2>6. CASE step <= f
    <3>1. step \in 1..f /\ f \in 1..3
      BY <2>2, <2>4, <2>6
    <3>2. /\ Ready' /\ romFaithful' /\ UNCHANGED <<clock, cartRam, Ram>>
          /\ step' = step + 1 /\ UNCHANGED <<iteration, cartridge>> =>
               RomXAt(iteration)'
      BY <2>1, <2>2, <2>4, <2>6, <3>1, RomXFront, Zenon DEF up
    <3>4. UNCHANGED <<iteration, cartridge>> /\ RomXAt(iteration)' => RomAt(iteration)'
      BY <1>4 DEF RomAt, Special
    <3> QED
      BY <3>2, <3>4, Zenon
  <2>7. step > f \/ step <= f
    BY <2>2, <2>4
  <2> QED
    BY <2>5, <2>6, <2>7, Zenon
<1> QED
  BY <1>2, <1>3, <1>4, Zenon

(* The steps of importRam and of exportRam.                                *)
LEMMA RamStep ==
  ASSUME TypeInv, DriverStep, clean' = TRUE, Ready,
         Piece.name \in {"importRam", "exportRam"}, iteration \in RamBanks,
         step \in 1..Len(Accesses), RamAt(iteration)
  PROVE  /\ Ready' /\ UNCHANGED <<clock, romFaithful>>
         /\ step # Len(Accesses) => UNCHANGED <<cartRam, Ram>>
         /\ step # Len(Accesses) /\ step' = step + 1
              /\ UNCHANGED <<iteration, cartridge>> => RamAt(iteration)'
         /\ step = Len(Accesses) /\ Piece.name = "importRam" =>
              /\ Ram' = [Ram EXCEPT ![iteration] = cartRam[iteration]]
              /\ UNCHANGED cartRam
         /\ step = Len(Accesses) /\ Piece.name = "exportRam" =>
              /\ \A b \in RamBanks :
                   cartRam'[b] = IF b = iteration THEN Ram[iteration] ELSE cartRam[b]
              /\ UNCHANGED Ram
<1> DEFINE last == IF Piece.name = "importRam" THEN ReadRam(iteration)
                   ELSE WriteRam(iteration)
           moded == Moded(iteration)
           front == IF moded THEN 2 ELSE 1
<1>1. /\ Access = Accesses[step]
      /\ Accesses = AccessesOf(Piece.name, iteration)
  BY Zenon DEF Accesses, Access
<1>2. Accesses = IF cartridge.Type = "MBC1" /\ iteration > 0
                 THEN <<Select(ROMX), Mode(1), Upper(iteration), Select(SRAM), last>>
                 ELSE <<Select(ROMX), Upper(iteration), Select(SRAM), last>>
  <2>1. PICK name \in {"importRam", "exportRam"} : name = Piece.name
    OBVIOUS
  <2>2. PICK bank : bank = iteration
    OBVIOUS
  <2>3. AccessesOf(name, bank) =
          IF cartridge.Type = "MBC1" /\ bank > 0
          THEN <<Select(ROMX), Mode(1), Upper(bank), Select(SRAM),
                 IF name = "importRam" THEN ReadRam(bank) ELSE WriteRam(bank)>>
          ELSE <<Select(ROMX), Upper(bank), Select(SRAM),
                 IF name = "importRam" THEN ReadRam(bank) ELSE WriteRam(bank)>>
    BY RamAccesses
  <2> QED
    BY <1>1, <2>1, <2>2, <2>3
<1> HIDE DEF last
<1>3. /\ Len(Accesses) = front + 3 /\ front \in 1..2 /\ step \in 1..(front + 3)
      /\ step = 1 => Access = Select(ROMX)
      /\ step = 2 /\ front = 2 => Access = Mode(1)
      /\ step = front + 1 => Access = Upper(iteration)
      /\ step = front + 2 => Access = Select(SRAM)
      /\ step = front + 3 => Access = last
  <2>1. CASE moded
    <3>1. Accesses = <<Select(ROMX), Mode(1), Upper(iteration), Select(SRAM), last>>
      BY <1>2, <2>1 DEF Moded
    <3> QED
      BY <1>1, <2>1, <3>1
  <2>2. CASE ~moded
    <3>1. Accesses = <<Select(ROMX), Upper(iteration), Select(SRAM), last>>
      BY <1>2, <2>2 DEF Moded
    <3> QED
      BY <1>1, <2>2, <3>1
  <2> QED
    BY <2>1, <2>2
<1>4. /\ step \in 2..(front + 1) => tpakBank = ROMX
      /\ step > front /\ moded => mbc["mode"] = 1
      /\ step >= front + 2 => mbc["upper"] = iteration
      /\ step = front + 3 => tpakBank = SRAM
      /\ moded <=> front = 2
  BY DEF RamAt
<1>5. ASSUME UNCHANGED <<iteration, cartridge>>, step' = step + 1,
             step \in 1..front => tpakBank' = ROMX,
             step >= front /\ moded => mbc'["mode"] = 1,
             step >= front + 1 => mbc'["upper"] = iteration,
             step = front + 2 => tpakBank' = SRAM
      PROVE  RamAt(iteration)'
  <2>1. Moded(iteration)' <=> moded
    BY <1>5 DEF Moded
  <2>2. (IF Moded(iteration) THEN 2 ELSE 1)' = front
    BY <2>1
  <2> HIDE DEF moded, front
  <2>3. /\ step' \in 2..(front + 1) => tpakBank' = ROMX
        /\ step' > front /\ moded => mbc'["mode"] = 1
        /\ step' >= front + 2 => mbc'["upper"] = iteration'
        /\ step' = front + 3 => tpakBank' = SRAM
    BY <1>3, <1>5
  <2> QED
    BY <2>1, <2>2, <2>3 DEF RamAt
<1>6. (iteration \in RamBanks)
  OBVIOUS
<1> HIDE DEF moded, front
<1>7. CASE step = 1
  <2>1. Access = Select(ROMX)
    BY <1>3, <1>7
  <2>2. /\ Ready' /\ tpakBank' = ROMX /\ mbc' = mbc
        /\ UNCHANGED <<clock, latched, cartRam, Ram, romFaithful>>
    BY <2>1, ReadySelect, Zenon
  <2>3. step' = step + 1 /\ UNCHANGED <<iteration, cartridge>> => RamAt(iteration)'
    <3>1. ~(step >= front + 1) /\ step # front + 2 /\ (step >= front => front # 2)
      BY <1>3, <1>7
    <3> QED
      BY <1>4, <1>5, <2>2, <3>1, Zenon
  <2>4. step # Len(Accesses)
    BY <1>3, <1>7
  <2> QED
    BY <2>2, <2>3, <2>4, Zenon
<1>8. CASE step = 2 /\ front = 2
  <2>1. Access = Mode(1) /\ tpakBank = ROMX
    BY <1>3, <1>4, <1>8
  <2>2. /\ Ready' /\ tpakBank' = tpakBank /\ mbc'["mode"] = 1
        /\ UNCHANGED <<clock, cartRam, Ram, romFaithful>>
    BY <2>1, ReadyMode, Zenon
  <2>3. step' = step + 1 /\ UNCHANGED <<iteration, cartridge>> => RamAt(iteration)'
    <3>1. ~(step >= front + 1) /\ step # front + 2
      BY <1>3, <1>8
    <3> QED
      BY <1>5, <2>1, <2>2, <3>1, Zenon
  <2>4. step # Len(Accesses)
    BY <1>3, <1>8
  <2> QED
    BY <2>2, <2>3, <2>4, Zenon
<1>9. CASE step = front + 1
  <2>1. Access = Upper(iteration) /\ tpakBank = ROMX /\ (moded => mbc["mode"] = 1)
    BY <1>3, <1>4, <1>9
  <2>2. /\ Ready' /\ tpakBank' = tpakBank /\ mbc'["mode"] = mbc["mode"]
        /\ mbc'["upper"] = iteration
        /\ UNCHANGED <<clock, latched, cartRam, Ram, romFaithful>>
    BY <2>1, ReadyUpper, Zenon
  <2>3. step' = step + 1 /\ UNCHANGED <<iteration, cartridge>> => RamAt(iteration)'
    <3>1. step # front + 2 /\ ~(step \in 1..front)
      BY <1>3, <1>9
    <3> QED
      BY <1>5, <2>1, <2>2, <3>1, Zenon
  <2>4. step # Len(Accesses)
    BY <1>3, <1>9
  <2> QED
    BY <2>2, <2>3, <2>4, Zenon
<1>10. CASE step = front + 2
  <2>1. /\ Access = Select(SRAM) /\ mbc["upper"] = iteration
        /\ moded => mbc["mode"] = 1
    BY <1>3, <1>4, <1>10
  <2>2. /\ Ready' /\ tpakBank' = SRAM /\ mbc' = mbc
        /\ UNCHANGED <<clock, latched, cartRam, Ram, romFaithful>>
    BY <2>1, ReadySelect, Zenon
  <2>3. step' = step + 1 /\ UNCHANGED <<iteration, cartridge>> => RamAt(iteration)'
    <3>1. ~(step \in 1..front)
      BY <1>3, <1>10
    <3> QED
      BY <1>5, <2>1, <2>2, <3>1, Zenon
  <2>4. step # Len(Accesses)
    BY <1>3, <1>10
  <2> QED
    BY <2>2, <2>3, <2>4, Zenon
<1>11. CASE step = front + 3
  <2>1. /\ Access = last /\ mbc["upper"] = iteration /\ tpakBank = SRAM
        /\ moded => mbc["mode"] = 1
    BY <1>3, <1>4, <1>11
  <2>2. ShownAtSram = {iteration}
    BY <2>1, RamShown DEF moded
  <2>3. step = Len(Accesses)
    BY <1>3, <1>11
  <2>4. CASE Piece.name = "importRam"
    <3>1. Access = ReadRam(iteration)
      BY <2>1, <2>4 DEF last
    <3>2. /\ Ready'
          /\ Ram' = [Ram EXCEPT ![iteration] =
                       IF iteration \in RamBanks THEN cartRam[iteration]
                       ELSE Time(latched[iteration])]
          /\ UNCHANGED <<clock, latched, cartRam, romFaithful>>
      BY <2>1, <2>2, <3>1, ReadyReadRam, Zenon
    <3>3. Ram' = [Ram EXCEPT ![iteration] = cartRam[iteration]]
      BY <3>2
    <3>4. Piece.name # "exportRam"
      BY <2>4
    <3> QED
      BY <2>3, <3>2, <3>3, <3>4, Zenon
  <2>5. CASE Piece.name = "exportRam"
    <3>1. Access = WriteRam(iteration) /\ Piece.name # "importRam"
      BY <2>1, <2>5 DEF last
    <3>2. /\ Ready'
          /\ \A b \in RamBanks :
               cartRam'[b] = IF b = iteration THEN Ram[iteration] ELSE cartRam[b]
          /\ UNCHANGED <<clock, latched, Ram, romFaithful>>
      BY <2>1, <2>2, <3>1, ReadyWriteRam, Zenon
    <3> QED
      BY <2>3, <3>1, <3>2, Zenon
  <2> QED
    BY <2>4, <2>5
<1>12. \/ step = 1 \/ (step = 2 /\ front = 2) \/ step = front + 1
       \/ step = front + 2 \/ step = front + 3
  BY <1>3
<1> QED
  BY <1>7, <1>8, <1>9, <1>10, <1>11, <1>12, Zenon

(* The steps that latch the clock, and those that read a counter.          *)
LEMMA LatchStep ==
  ASSUME TypeInv, DriverStep, clean' = TRUE, Ready,
         Piece.name = "latchClock", step \in 1..Len(Accesses), LatchAt
  PROVE  /\ Ready' /\ UNCHANGED <<clock, cartRam, Ram, romFaithful>>
         /\ step # Len(Accesses) /\ step' = step + 1 => LatchAt'
         /\ step = Len(Accesses) => latched' = clock
<1>1. Access = Accesses[step] /\ Accesses = LatchClock
  BY Zenon DEF Accesses, AccessesOf, Access
<1>2. GB_RTC_LATCH_ADDRESS = GB_BANK_MODE_ADDRESS
  BY DEF GB_RTC_LATCH_ADDRESS, GB_BANK_MODE_ADDRESS
<1>3. Accesses = <<Select(ROM0), Enable, Select(ROMX), Mode(0), Mode(1)>>
  BY <1>1, <1>2, LatchAccesses DEF Mode
<1>4. step \in 1..5 /\ Len(Accesses) = 5
  BY <1>3
<1>5. CASE step \in {1, 3}
  <2>1. PICK b : Access = Select(b) /\ (step = 3 => b = ROMX)
    BY <1>1, <1>3, <1>5
  <2>2. /\ Ready' /\ tpakBank' = b
        /\ UNCHANGED <<clock, latched, cartRam, Ram, romFaithful>>
    BY <2>1, ReadySelect, Zenon
  <2>3. step' = step + 1 => LatchAt'
    BY <1>5, <2>1, <2>2 DEF LatchAt
  <2>4. step # Len(Accesses)
    BY <1>4, <1>5
  <2> QED
    BY <2>2, <2>3, <2>4, Zenon
<1>6. CASE step = 2
  <2>1. Access = Enable
    BY <1>1, <1>3, <1>6
  <2>2. Ready' /\ UNCHANGED <<clock, latched, cartRam, Ram, romFaithful>>
    BY <2>1, ReadyEnable, Zenon
  <2>3. (step' = step + 1 => LatchAt') /\ step # Len(Accesses)
    BY <1>4, <1>6 DEF LatchAt
  <2> QED
    BY <2>2, <2>3, Zenon
<1>7. CASE step = 4
  <2>1. Access = Mode(0) /\ tpakBank = ROMX
    BY <1>1, <1>3, <1>7 DEF LatchAt
  <2>2. /\ Ready' /\ tpakBank' = tpakBank /\ mbc'["mode"] = 0
        /\ UNCHANGED <<clock, cartRam, Ram, romFaithful>>
    BY <2>1, ReadyMode, Zenon
  <2>3. (step' = step + 1 => LatchAt') /\ step # Len(Accesses)
    BY <1>4, <1>7, <2>1, <2>2 DEF LatchAt
  <2> QED
    BY <2>2, <2>3, Zenon
<1>8. CASE step = 5
  <2>1. /\ Access = Mode(1) /\ tpakBank = ROMX /\ mbc["mode"] = 0
    BY <1>1, <1>3, <1>8 DEF LatchAt
  <2>2. PICK v : v = 1
    OBVIOUS
  <2>3. Access = Mode(v)
    BY <2>1, <2>2
  <2>4. /\ Ready'
        /\ latched' = IF mbc["mode"] = 0 /\ v = 1 THEN clock ELSE latched
        /\ UNCHANGED <<clock, cartRam, Ram, romFaithful>>
    BY <2>1, <2>3, ReadyMode, Zenon
  <2>5. latched' = clock
    BY <2>1, <2>2, <2>4
  <2>6. step = Len(Accesses)
    BY <1>4, <1>8
  <2> QED
    BY <2>4, <2>5, <2>6, Zenon
<1>9. step \in {1, 3} \/ step = 2 \/ step = 4 \/ step = 5
  BY <1>4
<1> QED
  BY <1>5, <1>6, <1>7, <1>8, <1>9, Zenon

LEMMA ReadClockStep ==
  ASSUME TypeInv, DriverStep, clean' = TRUE, Ready,
         Piece.name = "importRTCData", cartridge.clock, iteration \in 0..4,
         step \in 1..Len(Accesses), ReadClockAt(iteration)
  PROVE  /\ Ready' /\ UNCHANGED <<clock, latched, cartRam, romFaithful>>
         /\ step # Len(Accesses) => UNCHANGED Ram
         /\ step # Len(Accesses) /\ step' = step + 1 /\ UNCHANGED iteration =>
              ReadClockAt(iteration)'
         /\ step = Len(Accesses) =>
              Ram' = [Ram EXCEPT ![8 + iteration] = Time(latched[8 + iteration])]
<1> DEFINE r == 8 + iteration
<1>1. Access = Accesses[step] /\ Accesses = ReadClockRegister(iteration)
  BY Zenon DEF Accesses, AccessesOf, Access
<1>2. /\ Accesses = <<Select(ROMX), Upper(r), Select(SRAM), ReadRam(r)>>
      /\ Len(Accesses) = 4 /\ step \in 1..4
  BY <1>1 DEF ReadClockRegister, Upper
<1>3. r \in Counters /\ r \notin RamBanks
  <2>1. cartridge \in Cartridges
    BY DEF TypeInv
  <2>2. r \in Counters
    BY ClockCounters
  <2> QED
    BY <2>1, <2>2, BanksOrCounters
<1>4. UNCHANGED iteration => r' = r
  OBVIOUS
<1>5. /\ step = 2 => tpakBank = ROMX
      /\ step >= 3 => mbc["upper"] = r
      /\ step = 4 => tpakBank = SRAM
  BY DEF ReadClockAt
<1>6. ASSUME UNCHANGED iteration, step' = step + 1,
             step = 1 => tpakBank' = ROMX,
             step >= 2 => mbc'["upper"] = r,
             step = 3 => tpakBank' = SRAM
      PROVE  ReadClockAt(iteration)'
  BY <1>2, <1>6 DEF ReadClockAt
<1> HIDE DEF r
<1>7. CASE step = 1
  <2>1. Access = Select(ROMX) /\ ~(step >= 2) /\ step # Len(Accesses)
    BY <1>1, <1>2, <1>7
  <2>2. /\ Ready' /\ tpakBank' = ROMX
        /\ UNCHANGED <<clock, latched, cartRam, Ram, romFaithful>>
    BY <2>1, ReadySelect, Zenon
  <2>3. step' = step + 1 /\ UNCHANGED iteration => ReadClockAt(iteration)'
    BY <1>6, <1>7, <2>1, <2>2
  <2> QED
    BY <2>1, <2>2, <2>3, Zenon
<1>8. CASE step = 2
  <2>1. Access = Upper(r) /\ tpakBank = ROMX /\ step # Len(Accesses)
    BY <1>1, <1>2, <1>5, <1>8
  <2>2. /\ Ready' /\ mbc'["upper"] = r
        /\ UNCHANGED <<clock, latched, cartRam, Ram, romFaithful>>
    BY <2>1, ReadyUpper, Zenon
  <2>3. step' = step + 1 /\ UNCHANGED iteration => ReadClockAt(iteration)'
    BY <1>6, <1>8, <2>2
  <2> QED
    BY <2>1, <2>2, <2>3, Zenon
<1>9. CASE step = 3
  <2>1. Access = Select(SRAM) /\ mbc["upper"] = r /\ step # Len(Accesses)
    BY <1>1, <1>2, <1>5, <1>9
  <2>2. /\ Ready' /\ tpakBank' = SRAM /\ mbc' = mbc
        /\ UNCHANGED <<clock, latched, cartRam, Ram, romFaithful>>
    BY <2>1, ReadySelect, Zenon
  <2>3. step' = step + 1 /\ UNCHANGED iteration => ReadClockAt(iteration)'
    BY <1>6, <1>9, <2>1, <2>2
  <2> QED
    BY <2>1, <2>2, <2>3, Zenon
<1>10. CASE step = 4
  <2>1. /\ Access = ReadRam(r) /\ mbc["upper"] = r /\ tpakBank = SRAM
        /\ step = Len(Accesses)
    BY <1>1, <1>2, <1>5, <1>10
  <2>2. ShownAtSram = {r}
    BY <1>3, <2>1, CounterShown
  <2>3. /\ Ready'
        /\ Ram' = [Ram EXCEPT ![r] = IF r \in RamBanks THEN cartRam[r]
                                     ELSE Time(latched[r])]
        /\ UNCHANGED <<clock, latched, cartRam, romFaithful>>
    BY <2>1, <2>2, ReadyReadRam, Zenon
  <2>4. Ram' = [Ram EXCEPT ![r] = Time(latched[r])]
    BY <1>3, <2>3
  <2> QED
    BY <2>1, <2>3, <2>4, Zenon DEF r
<1>11. step = 1 \/ step = 2 \/ step = 3 \/ step = 4
  BY <1>2
<1> QED
  BY <1>7, <1>8, <1>9, <1>10, <1>11, Zenon

(* The steps of exportRTCData reach no bank of RAM.                        *)
LEMMA EnableStep ==
  ASSUME TypeInv, DriverStep, clean' = TRUE, Ready,
         Piece.name = "enableRam", step \in 1..Len(Accesses)
  PROVE  Ready' /\ UNCHANGED <<cartRam, Ram>>
<1>1. Access = Accesses[step] /\ Accesses = <<Select(ROM0), Enable>>
  BY DEF Accesses, AccessesOf, Access, EnableRam, Enable
<1>2. step = 1 \/ step = 2
  BY <1>1
<1>3. CASE step = 1
  <2>1. Access = Select(ROM0)
    BY <1>1, <1>3
  <2> QED
    BY <2>1, ReadySelect, Zenon
<1>4. CASE step = 2
  <2>1. Access = Enable
    BY <1>1, <1>4
  <2> QED
    BY <2>1, ReadyEnable, Zenon
<1> QED
  BY <1>2, <1>3, <1>4

LEMMA WriteClockStep ==
  ASSUME TypeInv, DriverStep, clean' = TRUE, Ready,
         Piece.name = "exportRTCData", step \in 1..Len(Accesses), WriteClockAt
  PROVE  /\ Ready' /\ UNCHANGED <<cartRam, Ram>>
         /\ step # Len(Accesses) /\ step' = step + 1 => WriteClockAt'
<1> DEFINE r == 8 + iteration
<1>1. Access = Accesses[step] /\ Accesses = WriteClockRegister(iteration)
  BY Zenon DEF Accesses, AccessesOf, Access
<1>2. /\ Accesses = <<Select(ROMX), Upper(r), WriteRam(r)>>
      /\ Len(Accesses) = 3 /\ step \in 1..3
  BY <1>1 DEF WriteClockRegister, Upper
<1> HIDE DEF r
<1>3. CASE step = 1
  <2>1. Access = Select(ROMX)
    BY <1>1, <1>2, <1>3
  <2>2. /\ Ready' /\ tpakBank' = ROMX
        /\ UNCHANGED <<clock, latched, cartRam, Ram, romFaithful>>
    BY <2>1, ReadySelect, Zenon
  <2> QED
    BY <2>2, Zenon DEF WriteClockAt
<1>4. CASE step = 2
  <2>1. Access = Upper(r) /\ tpakBank = ROMX
    BY <1>1, <1>2, <1>4 DEF WriteClockAt
  <2>2. /\ Ready' /\ tpakBank' = tpakBank
        /\ UNCHANGED <<clock, latched, cartRam, Ram, romFaithful>>
    BY <2>1, ReadyUpper, Zenon
  <2> QED
    BY <2>1, <2>2, Zenon DEF WriteClockAt
<1>5. CASE step = 3
  <2>1. Access = WriteRam(r) /\ tpakBank = ROMX /\ step = Len(Accesses)
    BY <1>1, <1>2, <1>5 DEF WriteClockAt
  <2>2. Access.access = "writeRam" /\ Access.address = MapAddress(SRAM_ADDRESS)
    BY <2>1 DEF WriteRam
  <2>3. WriteRamBank
    BY <2>2, Matching
  <2>4. UNCHANGED <<power, access, tpakBank, Ram, romFaithful>>
    BY <2>3, Zenon DEF WriteRamBank
  <2>5. Connected /\ ~(tpakBank > SRAM) /\ tpakBank # SRAM
    BY <2>1 DEF Connected, Ready, SRAM, ROMX
  <2>6. Target = "mode"
    BY <2>1, <2>2, Addresses, Registers DEF Target, ROM0, ROMX, SRAM
  <2>7. /\ \E byte \in {0, 1} : SetRegister(GbAddress(Access.address), byte)
        /\ UNCHANGED <<clock, cartRam>>
    BY <2>3, <2>5, SMT DEF WriteRamBank
  <2>8. PICK byte \in {0, 1} : SetRegister(GbAddress(Access.address), byte)
    BY <2>7
  <2>9. mbc' = [mbc EXCEPT ![Target] = byte]
    BY <2>8, SMT DEF SetRegister, Target
  <2>10. mbc'["enable"] = mbc["enable"]
    <3>1. mbc \in [MbcRegisters -> 0..255]
      BY Answering
    <3> QED
      BY <2>6, <2>9, <3>1, Names5, SMT
  <2>11. Ready'
    BY <2>4, <2>10, Zenon DEF Ready
  <2> QED
    BY <2>1, <2>4, <2>7, <2>11, Zenon
<1>6. step = 1 \/ step = 2 \/ step = 3
  BY <1>2
<1> QED
  BY <1>3, <1>4, <1>5, <1>6, Zenon

-----------------------------------------------------------------------------
(* How a function ends.                                                    *)
LEMMA StaysClean ==
  ASSUME TypeInv, DriverStep, clean' = TRUE, Access # LightsOff
  PROVE  clean = TRUE
<1>1. clean \in BOOLEAN /\ Access \in AccessSet
  BY Driving DEF TypeInv, PlaceOK
<1>2. CASE SwitchPower
  <2>1. Access.access = "set" /\ Access.address = CARTRIDGE_POWER_ADDRESS
    BY <1>2, Zenon DEF SwitchPower, Advance
  <2>2. Access.value \in {CARTRIDGE_POWER_ON, CARTRIDGE_POWER_OFF}
    BY <1>1, <2>1 DEF AccessSet, CARTRIDGE_POWER_ADDRESS, TPAK_STATUS_ADDRESS,
                      TPAK_BANK_ADDRESS, ROM_ADDRESS_OFFSET
  <2>3. Access.value # CARTRIDGE_POWER_OFF
    BY <1>1, <2>1 DEF AccessSet, LightsOff, SetTpakValue
  <2>4. power' = TRUE
    BY <1>2, <2>2, <2>3, Zenon DEF SwitchPower
  <2>5. clean' = clean \/ clean' = (clean \/ ~power')
    BY <1>2, Zenon DEF SwitchPower
  <2> QED
    BY <1>1, <2>4, <2>5
<1>3. CASE Lose
  BY <1>3, Zenon DEF Lose
<1>4. CASE SetStatus \/ SelectTpakBank \/ PokeCartridge
  <2>1. (SetStatus => UNCHANGED clean) /\ (SelectTpakBank => UNCHANGED clean)
    BY Zenon DEF SetStatus, SelectTpakBank
  <2>2. PokeCartridge => UNCHANGED clean
    BY SMT DEF PokeCartridge
  <2> QED
    BY <1>4, <2>1, <2>2
<1>5. CASE ReadRomBank \/ ReadRamBank \/ WriteRamBank
  <2>1. (ReadRomBank => UNCHANGED clean) /\ (ReadRamBank => UNCHANGED clean)
    BY Zenon DEF ReadRomBank, ReadRamBank
  <2>2. WriteRamBank => UNCHANGED clean
    BY SMT DEF WriteRamBank
  <2> QED
    BY <1>5, <2>1, <2>2
<1>6. CASE TpakInit \/ ReadHeader \/ RejectHeader
  <2>1. UNCHANGED clean
    BY <1>6, Zenon DEF TpakInit, ReadHeader, RejectHeader
  <2> QED
    BY <2>1
<1> QED
  BY <1>2, <1>3, <1>4, <1>5, <1>6 DEF DriverStep

LEMMA Distinct ==
  /\ LightsOff \notin Lit /\ Header \notin Lit /\ LightsOff # Header
  /\ LightsOff.access = "set" /\ Header.access = "tpak_get_cartridge_header"
  BY DEF Lit, LightsOff, Header, SetTpakValue, Call

LEMMA RumblePlaces ==
  ASSUME TypeInv, transfer = "rumble", NEW kinds, Advance(kinds)
  PROVE  /\ step \in 1..Len(Accesses) /\ Len(Accesses) \in {4, 5}
         /\ Accesses = ToggleRumble(IsRumbling)
         /\ NextAccess \/ (Return /\ step = Len(Accesses))
         /\ Len(Accesses) = 5 <=> ~IsRumbling
<1>1. /\ Len(Program) = 1 /\ Program[1].count = 1
      /\ Program[1].name = "toggleRumble"
  BY DEF Program, Once, Loop
<1>2. at = 1 /\ iteration = 0 /\ step \in 1..Len(Accesses)
  BY <1>1 DEF TypeInv, PlaceOK, Positioned, Piece
<1>3. Accesses = ToggleRumble(IsRumbling) /\ Piece.count = 1
  BY <1>1, <1>2 DEF Accesses, AccessesOf, Piece
<1>4. Len(Accesses) \in {4, 5} /\ (Len(Accesses) = 5 <=> ~IsRumbling)
  BY <1>3, RumbleAccesses
<1>5. LastTurn /\ Later = {}
  BY <1>1, <1>2, <1>3 DEF LastTurn, Later
<1>6. NextAccess \/ (Return /\ step = Len(Accesses))
  BY <1>5, Zenon DEF Advance, NextTurn, NextPiece, Return, LastAccess
<1> QED
  BY <1>2, <1>3, <1>4, <1>6

(* The pak is turned off by the last access of a function, and only by it. *)
LEMMA OffReturns ==
  ASSUME TypeInv, DriverStep, Access = LightsOff
  PROVE  /\ transfer' = "none" /\ at' = 1
         /\ transfer = "import" => at = 7 /\ loaded' = TRUE
         /\ transfer = "export" => at = 5 /\ loaded' = loaded
<1>1. Advance({Access.access})
  BY Distinct, Driving, Kinds
<1>2. /\ transfer \in Functions3 /\ cartridge \in Cartridges /\ Positioned
  BY Driving DEF TypeInv, PlaceOK
<1>3. Piece.name \in {"lightsOff", "toggleRumble"}
  BY <1>2, PresentAccess, Distinct DEF Allowed
<1>4. CASE transfer = "import"
  <2>1. at \in 1..7
    BY <1>4, ImportPlaces
  <2>2. at = 7
    BY <1>3, <1>4, <2>1, ImportPieces DEF Piece
  <2>3. Len(Accesses) = 1 /\ step = 1
    <3>1. Accesses = <<LightsOff>>
      BY <1>4, <2>2, ImportPieces DEF Accesses, AccessesOf, Piece
    <3> QED
      BY <1>4, <3>1, ImportPlaces
  <2>4. \/ step < Len(Accesses)
        \/ at \in {2, 4, 6}
        \/ at \in 1..6
        \/ transfer' = "none" /\ loaded' = TRUE /\ at' = 1
    BY <1>1, <1>4, ImportMoves, Zenon
  <2>5. transfer' = "none" /\ loaded' = TRUE /\ at' = 1
    BY <2>2, <2>3, <2>4
  <2> QED
    BY <1>4, <2>2, <2>5
<1>5. CASE transfer = "export"
  <2>1. at \in 1..5
    BY <1>5, ExportPlaces
  <2>2. at = 5
    BY <1>3, <1>5, <2>1, ExportPieces DEF Piece
  <2>3. Len(Accesses) = 1 /\ step = 1
    <3>1. Accesses = <<LightsOff>>
      BY <1>5, <2>2, ExportPieces DEF Accesses, AccessesOf, Piece
    <3> QED
      BY <1>5, <3>1, ExportPlaces
  <2> QED
    BY <1>1, <1>5, <2>2, <2>3, ExportMoves
<1>6. CASE transfer = "rumble"
  <2>1. /\ step \in 1..Len(Accesses) /\ Len(Accesses) \in {4, 5}
        /\ Accesses = ToggleRumble(IsRumbling)
        /\ NextAccess \/ (Return /\ step = Len(Accesses))
        /\ Len(Accesses) = 5 <=> ~IsRumbling
    BY <1>1, <1>6, RumblePlaces
  <2>2. 8 \in 0..15 /\ 0 \in 0..15
    OBVIOUS
  <2>3. PowerOn \in Lit /\ AccessOn \in Lit /\ Select(ROMX) \in Lit
        /\ Upper(0) \in Lit /\ Upper(8) \in Lit
    BY <1>2, <2>2, SingleAccesses
  <2>4. step = Len(Accesses)
    <3>1. Accesses[step] \notin Lit
      BY Distinct DEF Access
    <3>2. CASE IsRumbling
      <4>1. Accesses = <<PowerOn, AccessOn, Select(ROMX), Upper(8)>>
        BY <2>1, <3>2, RumbleAccesses
      <4> QED
        BY <2>1, <2>3, <3>1, <4>1
    <3>3. CASE ~IsRumbling
      <4>1. Accesses = <<PowerOn, AccessOn, Select(ROMX), Upper(0), LightsOff>>
        BY <2>1, <3>3, RumbleAccesses
      <4> QED
        BY <2>1, <2>3, <3>1, <4>1
    <3> QED
      BY <3>2, <3>3
  <2>5. Return
    BY <2>1, <2>4 DEF NextAccess, LastAccess
  <2> QED
    BY <1>6, <2>5 DEF Return
<1> QED
  BY <1>2, <1>4, <1>5, <1>6 DEF Functions3

(* A rumble that stops the motor turns the pak off.                        *)
LEMMA RumbleEnds ==
  ASSUME TypeInv, transfer = "rumble", ~IsRumbling, NEW kinds, Advance(kinds),
         transfer' # "rumble"
  PROVE  Access = LightsOff
<1>1. /\ step \in 1..Len(Accesses) /\ Len(Accesses) = 5
      /\ Accesses = ToggleRumble(IsRumbling)
      /\ NextAccess \/ (Return /\ step = Len(Accesses))
  BY RumblePlaces
<1>2. step = 5
  BY <1>1 DEF NextAccess
<1>3. Accesses = <<PowerOn, AccessOn, Select(ROMX), Upper(0), LightsOff>>
  BY <1>1, RumbleAccesses
<1> QED
  BY <1>2, <1>3 DEF Access

-----------------------------------------------------------------------------
(* What an import has reached.                                             *)

(* Nothing is demanded before the first access of a turn, but that ROM0    *)
(* shows bank 0 when that is to be read.                                   *)
LEMMA FirstAccess ==
  /\ step = 1 /\ (iteration = 0 => mbc["mode"] = 0) => RomAt(iteration)
  /\ step = 1 => /\ RamAt(iteration) /\ LatchAt
                 /\ ReadClockAt(iteration) /\ WriteClockAt
<1>1. ASSUME step = 1, iteration = 0 => mbc["mode"] = 0
      PROVE  RomAt(iteration)
  <2>1. SpecialAt(iteration)
    BY <1>1 DEF SpecialAt
  <2>2. RomXAt(iteration)
    BY <1>1 DEF RomXAt, Front
  <2> QED
    BY <1>1, <2>1, <2>2 DEF RomAt
<1>2. step = 1 => /\ RamAt(iteration) /\ LatchAt
                  /\ ReadClockAt(iteration) /\ WriteClockAt
  BY DEF RamAt, LatchAt, ReadClockAt, WriteClockAt
<1> QED
  BY <1>1, <1>2

LEMMA NextFirstAccess ==
  /\ (step = 1 /\ (iteration = 0 => mbc["mode"] = 0) => RomAt(iteration))'
  /\ (step = 1 => /\ RamAt(iteration) /\ LatchAt
                  /\ ReadClockAt(iteration) /\ WriteClockAt)'
BY FirstAccess, PTL

(* The driver's steps change neither the cartridge nor when the transfer   *)
(* began.                                                                  *)
LEMMA Undisturbed ==
  ASSUME TypeInv, DriverStep
  PROVE  /\ cartridge' = cartridge /\ since' = since
         /\ RamBanks' = RamBanks /\ Counters' = Counters
         /\ ~RejectHeader => Advance({Access.access})
BY Driving, SameCartridge

LEMMA ImportOpens ==
  ASSUME TypeInv, DriverStep, ~RejectHeader, clean' = TRUE, transfer = "import",
         transfer' = "import", at = 1, power => Fresh, ImportAt
  PROVE  ImportAt' /\ (at' = 1 => Fresh')
<1>1. Accesses = <<PowerOn, AccessOn, Call("tpak_init"), Enable, Header>>
  BY OpeningAccesses, ImportPieces
     DEF TypeInv, Accesses, AccessesOf, Piece, Header
<1>2. Len(Accesses) = 5 /\ step \in 1..5
  BY <1>1, ImportPlaces
<1>3. OpeningAt /\ (cartridge.clock => since <= clock[8])
  BY DEF ImportAt
<1>4. /\ cartridge' = cartridge /\ since' = since
      /\ RamBanks' = RamBanks /\ Counters' = Counters
      /\ Advance({Access.access})
  BY Undisturbed
<1>5. CASE step \in 1..4
  <2>1. Access = Opening[step]
    BY <1>1, <1>5 DEF Access, Opening
  <2>2. /\ power' = TRUE /\ Fresh'
        /\ step >= 2 => access' = TRUE
        /\ step >= 4 => mbc'["enable"] = ENABLE_GB_RAM
        /\ UNCHANGED <<clock, latched, cartRam, Ram, romFaithful>>
    BY <1>3, <1>5, <2>1, OpeningStep
  <2>3. step' = step + 1 /\ at' = 1
    BY <1>2, <1>4, <1>5, ImportMoves
  <2>4. OpeningAt'
    BY <1>5, <2>2, <2>3 DEF OpeningAt
  <2> QED
    BY <1>3, <1>4, <2>2, <2>3, <2>4 DEF ImportAt
<1>6. CASE step = 5
  <2>1. Access = Call("tpak_get_cartridge_header") /\ Ready /\ Fresh
    BY <1>1, <1>3, <1>6 DEF Access, Header, OpeningAt, Ready
  <2>2. /\ Ready' /\ romFaithful' = TRUE /\ mbc' = mbc /\ clock' = clock
    BY <2>1, HeaderStep
  <2>3. step' = 1 /\ at' = 2 /\ iteration' = 0
    BY <1>2, <1>4, <1>6, ImportMoves
  <2>4. mbc'["mode"] = 0
    BY <2>1, <2>2 DEF Fresh
  <2>5. RomAt(iteration)'
    BY <2>3, <2>4, NextFirstAccess
  <2> QED
    BY <1>3, <1>4, <2>2, <2>3, <2>5 DEF ImportAt
<1> QED
  BY <1>2, <1>5, <1>6

LEMMA ImportReadsRom ==
  ASSUME TypeInv, DriverStep, ~RejectHeader, clean' = TRUE, transfer = "import",
         at = 2, ImportAt
  PROVE  ImportAt' /\ at' # 1
<1>1. /\ Piece.name = "importRom" /\ step \in 1..Len(Accesses)
      /\ iteration \in 0..(cartridge.RomBankCount - 1)
  BY ImportPieces, ImportPlaces DEF Piece
<1>2. /\ Ready /\ romFaithful /\ RomAt(iteration)
      /\ cartridge.clock => since <= clock[8]
  BY DEF ImportAt
<1>3. /\ Ready' /\ romFaithful' /\ UNCHANGED <<clock, cartRam, Ram>>
      /\ step # Len(Accesses) /\ step' = step + 1
           /\ UNCHANGED <<iteration, cartridge>> => RomAt(iteration)'
  BY <1>1, <1>2, RomStep
<1>4. /\ cartridge' = cartridge /\ since' = since
      /\ RamBanks' = RamBanks /\ Counters' = Counters
      /\ Advance({Access.access})
  BY Undisturbed
<1>5. \/ step < Len(Accesses) /\ step' = step + 1 /\ iteration' = iteration /\ at' = 2
      \/ step' = 1 /\ iteration' = iteration + 1 /\ at' = 2
      \/ at' = 3
  BY <1>4, ImportMoves
<1>6. at' = 2 => RomAt(iteration)'
  <2>1. CASE step < Len(Accesses) /\ step' = step + 1 /\ iteration' = iteration
    BY <1>1, <1>3, <1>4, <2>1
  <2>2. CASE step' = 1 /\ iteration' = iteration + 1
    <3>1. iteration' # 0
      BY <1>1, <2>2
    <3> QED
      BY <2>2, <3>1, NextFirstAccess
  <2> QED
    BY <1>5, <2>1, <2>2
<1> QED
  BY <1>2, <1>3, <1>4, <1>5, <1>6 DEF ImportAt

LEMMA ImportReopens ==
  ASSUME TypeInv, DriverStep, ~RejectHeader, clean' = TRUE, transfer = "import",
         at = 3, ImportAt
  PROVE  ImportAt' /\ at' # 1
<1>1. Accesses = Opening
  BY OpeningAccesses, ImportPieces DEF TypeInv, Accesses, AccessesOf, Piece, Opening
<1>2. step \in 1..4 /\ iteration = 0 /\ Access = Opening[step]
  BY <1>1, ImportPlaces DEF Access, Opening
<1>3. /\ Ready /\ romFaithful
      /\ cartridge.clock => since <= clock[8]
  BY DEF ImportAt
<1>4. Ready' /\ UNCHANGED <<clock, latched, cartRam, Ram, romFaithful>>
  BY <1>2, <1>3, ReopeningStep
<1>5. /\ cartridge' = cartridge /\ since' = since
      /\ RamBanks' = RamBanks /\ Counters' = Counters
      /\ Advance({Access.access})
  BY Undisturbed
<1>6. \/ at' = 3
      \/ /\ step' = 1 /\ iteration' = 0 /\ at' \in 4..7 /\ at' # 6
         /\ at' = 4 \/ RamBanks = {}
         /\ cartridge.clock => at' \in {4, 5}
  BY <1>5, ImportMoves
<1>7. /\ at' = 4 => RamAt(iteration)'
      /\ at' = 5 => LatchAt'
  BY <1>6, NextFirstAccess
<1>8. at' = 7 => Counters = {}
  BY <1>6, ClockCounters
<1>9. (\A b \in RamBanks :
          at > 4 \/ (at = 4 /\ b < iteration) => Ram[b] = cartRam[b])'
  BY <1>5, <1>6 DEF RamBanks
<1>10. (\A r \in Counters :
          at > 6 \/ (at = 6 /\ r < 8 + iteration) => Ram[r] = Time(latched[r]))'
  BY <1>5, <1>6, <1>8
<1>11. at' \in 3..7 /\ at' # 6 /\ (cartridge.clock => at' \in 3..5)
  BY <1>6
<1> QED
  BY <1>3, <1>4, <1>5, <1>7, <1>9, <1>10, <1>11 DEF ImportAt

LEMMA ImportReadsRam ==
  ASSUME TypeInv, DriverStep, ~RejectHeader, clean' = TRUE, transfer = "import",
         at = 4, ImportAt
  PROVE  ImportAt' /\ at' # 1
<1>1. /\ Piece.name = "importRam" /\ step \in 1..Len(Accesses)
      /\ iteration \in RamBanks /\ iteration \in Nat
  BY ImportPieces, ImportPlaces DEF Piece
<1>2. /\ Ready /\ romFaithful /\ RamAt(iteration)
      /\ cartridge.clock => since <= clock[8]
      /\ \A b \in RamBanks : b < iteration => Ram[b] = cartRam[b]
  BY DEF ImportAt
<1>3. /\ Ready' /\ UNCHANGED <<clock, romFaithful>>
      /\ step # Len(Accesses) => UNCHANGED <<cartRam, Ram>>
      /\ step # Len(Accesses) /\ step' = step + 1
           /\ UNCHANGED <<iteration, cartridge>> => RamAt(iteration)'
      /\ step = Len(Accesses) =>
           /\ Ram' = [Ram EXCEPT ![iteration] = cartRam[iteration]]
           /\ UNCHANGED cartRam
  BY <1>1, <1>2, RamStep
<1>4. /\ cartridge' = cartridge /\ since' = since
      /\ RamBanks' = RamBanks /\ Counters' = Counters
      /\ Advance({Access.access})
  BY Undisturbed
<1>5. CASE step < Len(Accesses)
  <2>1. step' = step + 1 /\ iteration' = iteration /\ at' = 4
    BY <1>4, <1>5, ImportMoves
  <2>2. RamAt(iteration)' /\ cartRam' = cartRam /\ Ram' = Ram
    BY <1>1, <1>3, <1>4, <1>5, <2>1
  <2> QED
    BY <1>2, <1>3, <1>4, <2>1, <2>2 DEF ImportAt
<1>6. CASE step = Len(Accesses)
  <2>1. \/ at' = 4 /\ iteration' = iteration + 1 /\ step' = 1
        \/ /\ at' \in {5, 7} /\ step' = 1 /\ iteration + 1 = cartridge.RamBankCount
           /\ cartridge.clock => at' = 5
    BY <1>4, <1>6, ImportMoves
  <2>2. \A b \in RamBanks : b <= iteration => Ram'[b] = cartRam'[b]
    <3>1. Ram' = [Ram EXCEPT ![iteration] = cartRam[iteration]] /\ cartRam' = cartRam
      BY <1>3, <1>6
    <3>2. DOMAIN Ram = RamBanks \cup Counters
      BY DEF TypeInv, GameOK
    <3>3. \A b \in RamBanks : b <= iteration => b < iteration \/ b = iteration
      BY <1>1 DEF RamBanks
    <3> QED
      BY <1>1, <1>2, <3>1, <3>2, <3>3
  <2>3. at' # 4 => \A b \in RamBanks : b <= iteration
    BY <1>1, <2>1 DEF RamBanks
  <2>4. at' = 4 => \A b \in RamBanks : b < iteration' => b <= iteration
    BY <1>1, <2>1 DEF RamBanks
  <2>5. /\ at' = 4 => RamAt(iteration)'
        /\ at' = 5 => LatchAt'
    BY <2>1, NextFirstAccess
  <2>6. at' = 7 => Counters = {}
    BY <2>1, ClockCounters
  <2> QED
    BY <1>2, <1>3, <1>4, <2>1, <2>2, <2>3, <2>4, <2>5, <2>6 DEF ImportAt
<1> QED
  BY <1>1, <1>5, <1>6

LEMMA ImportLatches ==
  ASSUME TypeInv, DriverStep, ~RejectHeader, clean' = TRUE, transfer = "import",
         at = 5, ImportAt
  PROVE  ImportAt' /\ at' # 1
<1>1. /\ Piece.name = "latchClock" /\ step \in 1..Len(Accesses)
      /\ iteration = 0 /\ cartridge.clock
  BY ImportPieces, ImportPlaces DEF Piece
<1>2. /\ Ready /\ romFaithful /\ LatchAt
      /\ since <= clock[8]
      /\ \A b \in RamBanks : Ram[b] = cartRam[b]
  BY <1>1 DEF ImportAt
<1>3. /\ Ready' /\ UNCHANGED <<clock, cartRam, Ram, romFaithful>>
      /\ step # Len(Accesses) /\ step' = step + 1 => LatchAt'
      /\ step = Len(Accesses) => latched' = clock
  BY <1>1, <1>2, LatchStep
<1>4. /\ cartridge' = cartridge /\ since' = since
      /\ RamBanks' = RamBanks /\ Counters' = Counters
      /\ Advance({Access.access})
  BY Undisturbed
<1>5. CASE step < Len(Accesses)
  <2>1. step' = step + 1 /\ at' = 5
    BY <1>4, <1>5, ImportMoves
  <2>2. LatchAt'
    BY <1>1, <1>3, <1>5, <2>1
  <2> QED
    BY <1>2, <1>3, <1>4, <2>1, <2>2 DEF ImportAt
<1>6. CASE step = Len(Accesses)
  <2>1. at' = 6 /\ iteration' = 0 /\ step' = 1
    BY <1>1, <1>4, <1>6, ImportMoves
  <2>2. ReadClockAt(iteration)'
    BY <2>1, NextFirstAccess
  <2>3. Counters = 8..12
    BY <1>1, ClockCounters
  <2>4. Latched'
    <3>1. clock \in [Counters -> 0..MaxTime] /\ since \in 0..MaxTime
      BY DEF TypeInv, CartOK, PlaceOK
    <3>2. latched' = clock /\ clock' = clock
      BY <1>3, <1>6
    <3>3. \A r \in Counters : clock[r] \in Int /\ clock[r] - 0 = clock[r]
      BY <3>1, BoundsAssumption
    <3>4. 0 \in 0..(clock[8] - since)
      BY <1>2, <2>3, <3>1, <3>3, BoundsAssumption
    <3> QED
      BY <1>4, <3>2, <3>3, <3>4 DEF Latched
  <2>5. (\A r \in Counters :
           at > 6 \/ (at = 6 /\ r < 8 + iteration) => Ram[r] = Time(latched[r]))'
    BY <1>4, <2>1, <2>3
  <2> QED
    BY <1>2, <1>3, <1>4, <2>1, <2>2, <2>4, <2>5 DEF ImportAt
<1> QED
  BY <1>1, <1>5, <1>6

LEMMA ImportReadsClock ==
  ASSUME TypeInv, DriverStep, ~RejectHeader, clean' = TRUE, transfer = "import",
         at = 6, ImportAt
  PROVE  ImportAt' /\ at' # 1
<1>1. /\ Piece.name = "importRTCData" /\ step \in 1..Len(Accesses)
      /\ iteration \in 0..4 /\ cartridge.clock
  BY ImportPieces, ImportPlaces DEF Piece
<1>2. /\ Ready /\ romFaithful /\ ReadClockAt(iteration)
      /\ since <= clock[8] /\ Latched
      /\ \A b \in RamBanks : Ram[b] = cartRam[b]
      /\ \A r \in Counters : r < 8 + iteration => Ram[r] = Time(latched[r])
  BY <1>1 DEF ImportAt
<1>3. /\ Ready' /\ UNCHANGED <<clock, latched, cartRam, romFaithful>>
      /\ step # Len(Accesses) => UNCHANGED Ram
      /\ step # Len(Accesses) /\ step' = step + 1 /\ UNCHANGED iteration =>
           ReadClockAt(iteration)'
      /\ step = Len(Accesses) =>
           Ram' = [Ram EXCEPT ![8 + iteration] = Time(latched[8 + iteration])]
  BY <1>1, <1>2, ReadClockStep
<1>4. /\ cartridge' = cartridge /\ since' = since
      /\ RamBanks' = RamBanks /\ Counters' = Counters
      /\ Advance({Access.access})
  BY Undisturbed
<1>5. Latched'
  BY <1>2, <1>3, <1>4 DEF Latched
<1>6. CASE step < Len(Accesses)
  <2>1. step' = step + 1 /\ iteration' = iteration /\ at' = 6
    BY <1>4, <1>6, ImportMoves
  <2>2. ReadClockAt(iteration)' /\ Ram' = Ram
    BY <1>1, <1>3, <1>6, <2>1
  <2> QED
    BY <1>2, <1>3, <1>4, <1>5, <2>1, <2>2 DEF ImportAt
<1>7. CASE step = Len(Accesses)
  <2>1. \/ at' = 6 /\ iteration' = iteration + 1 /\ step' = 1
        \/ at' = 7 /\ iteration = 4
    BY <1>4, <1>7, ImportMoves
  <2>2. Counters = 8..12 /\ RamBanks \cap Counters = {} /\ 8 + iteration \in Counters
    BY <1>1, ClockCounters, BanksOrCounters DEF TypeInv
  <2>3. Ram' = [Ram EXCEPT ![8 + iteration] = Time(latched[8 + iteration])]
    BY <1>3, <1>7
  <2>4. DOMAIN Ram = RamBanks \cup Counters
    BY DEF TypeInv, GameOK
  <2>5. \A b \in RamBanks : Ram'[b] = cartRam'[b]
    <3> TAKE b \in RamBanks
    <3>1. b # 8 + iteration
      BY <2>2
    <3> QED
      BY <1>2, <1>3, <2>3, <2>4, <3>1
  <2>6. \A r \in Counters : r < 8 + iteration + 1 => Ram'[r] = Time(latched'[r])
    <3> TAKE r \in Counters
    <3>1. CASE r = 8 + iteration
      BY <1>3, <2>2, <2>3, <2>4, <3>1
    <3>2. CASE r # 8 + iteration
      <4>1. r < 8 + iteration + 1 => r < 8 + iteration
        BY <1>1, <2>2, <3>2
      <4> QED
        BY <1>2, <1>3, <2>3, <2>4, <3>2, <4>1
    <3> QED
      BY <3>1, <3>2
  <2>7. (\A r \in Counters :
           at > 6 \/ (at = 6 /\ r < 8 + iteration) => Ram[r] = Time(latched[r]))'
    BY <1>1, <1>4, <2>1, <2>2, <2>6
  <2>8. at' = 6 => ReadClockAt(iteration)'
    BY <2>1, NextFirstAccess
  <2> QED
    BY <1>2, <1>3, <1>4, <1>5, <2>1, <2>5, <2>7, <2>8 DEF ImportAt
<1> QED
  BY <1>1, <1>6, <1>7

LEMMA ImportKeeps ==
  ASSUME TypeInv, CleanInv, DriverStep, ~RejectHeader, clean' = TRUE,
         transfer = "import", Access # LightsOff
  PROVE  /\ ImportAt' /\ (at' = 1 => Fresh')
         /\ transfer' = "import" /\ loaded' = loaded
<1>1. clean = TRUE
  BY StaysClean
<1>2. ImportAt /\ (at = 1 /\ power => Fresh)
  BY <1>1 DEF CleanInv
<1>3. at \in 1..7
  BY ImportPlaces
<1>4. at # 7
  <2>1. at = 7 => Accesses = <<LightsOff>>
    BY ImportPieces DEF Accesses, AccessesOf, Piece
  <2>2. step \in 1..Len(Accesses)
    BY ImportPlaces
  <2> QED
    BY <2>1, <2>2 DEF Access
<1>5. transfer' = "import" /\ loaded' = loaded
  <2>1. Advance({Access.access})
    BY Undisturbed
  <2> QED
    BY <1>4, <2>1, ImportMoves
<1>6. at = 1 => ImportAt' /\ (at' = 1 => Fresh')
  BY <1>2, <1>5, ImportOpens
<1>7. at = 2 => ImportAt' /\ at' # 1
  BY <1>2, ImportReadsRom
<1>8. at = 3 => ImportAt' /\ at' # 1
  BY <1>2, ImportReopens
<1>9. at = 4 => ImportAt' /\ at' # 1
  BY <1>2, ImportReadsRam
<1>10. at = 5 => ImportAt' /\ at' # 1
  BY <1>2, ImportLatches
<1>11. at = 6 => ImportAt' /\ at' # 1
  BY <1>2, ImportReadsClock
<1> QED
  BY <1>3, <1>4, <1>5, <1>6, <1>7, <1>8, <1>9, <1>10, <1>11

-----------------------------------------------------------------------------
(* What an export has reached.                                             *)
LEMMA ExportOpens ==
  ASSUME TypeInv, DriverStep, ~RejectHeader, clean' = TRUE, transfer = "export",
         at = 1, power => Fresh, ExportAt
  PROVE  ExportAt' /\ (at' = 1 => Fresh')
<1>1. Accesses = Opening
  BY OpeningAccesses, ExportPieces DEF TypeInv, Accesses, AccessesOf, Piece, Opening
<1>2. /\ Len(Accesses) = 4 /\ step \in 1..4
      /\ Access = Opening[step]
  BY <1>1, ExportPlaces DEF Access, Opening
<1>3. OpeningAt
  BY DEF ExportAt
<1>4. /\ power' = TRUE /\ Fresh'
      /\ step >= 2 => access' = TRUE
      /\ step >= 4 => mbc'["enable"] = ENABLE_GB_RAM
      /\ UNCHANGED <<clock, latched, cartRam, Ram, romFaithful>>
  BY <1>2, <1>3, OpeningStep
<1>5. /\ RamBanks' = RamBanks /\ Advance({Access.access})
  BY Undisturbed
<1>6. CASE step < 4
  <2>1. step' = step + 1 /\ at' = 1
    BY <1>2, <1>5, <1>6, ExportMoves
  <2>2. OpeningAt'
    BY <1>2, <1>4, <2>1 DEF OpeningAt
  <2> QED
    BY <1>4, <1>5, <2>1, <2>2 DEF ExportAt
<1>7. CASE step = 4
  <2>1. /\ step' = 1 /\ iteration' = 0 /\ at' \in 2..5
        /\ at' = 2 \/ RamBanks = {}
    BY <1>2, <1>5, <1>7, ExportMoves
  <2>2. Ready'
    BY <1>4, <1>7 DEF Ready
  <2>3. RamAt(iteration)' /\ WriteClockAt'
    BY <2>1, NextFirstAccess
  <2>4. (\A b \in RamBanks :
           at > 2 \/ (at = 2 /\ b < iteration) => cartRam[b] = Ram[b])'
    <3>1. \A b \in RamBanks : ~(b < 0)
      BY DEF RamBanks
    <3>2. \A b \in RamBanks : at' = 2 /\ iteration' = 0
      BY <2>1
    <3> QED
      BY <1>5, <3>1, <3>2
  <2> QED
    BY <2>1, <2>2, <2>3, <2>4 DEF ExportAt
<1> QED
  BY <1>2, <1>6, <1>7

LEMMA ExportWritesRam ==
  ASSUME TypeInv, DriverStep, ~RejectHeader, clean' = TRUE, transfer = "export",
         at = 2, ExportAt
  PROVE  ExportAt' /\ at' # 1
<1>1. /\ Piece.name = "exportRam" /\ step \in 1..Len(Accesses)
      /\ iteration \in RamBanks /\ iteration \in Nat
  BY ExportPieces, ExportPlaces DEF Piece
<1>2. /\ Ready /\ RamAt(iteration)
      /\ \A b \in RamBanks : b < iteration => cartRam[b] = Ram[b]
  BY DEF ExportAt
<1>3. /\ Ready'
      /\ step # Len(Accesses) => UNCHANGED <<cartRam, Ram>>
      /\ step # Len(Accesses) /\ step' = step + 1
           /\ UNCHANGED <<iteration, cartridge>> => RamAt(iteration)'
      /\ step = Len(Accesses) =>
           /\ \A b \in RamBanks :
                cartRam'[b] = IF b = iteration THEN Ram[iteration] ELSE cartRam[b]
           /\ UNCHANGED Ram
  BY <1>1, <1>2, RamStep
<1>4. /\ cartridge' = cartridge /\ RamBanks' = RamBanks /\ Advance({Access.access})
  BY Undisturbed
<1>5. CASE step < Len(Accesses)
  <2>1. step' = step + 1 /\ iteration' = iteration /\ at' = 2
    BY <1>4, <1>5, ExportMoves
  <2>2. RamAt(iteration)' /\ cartRam' = cartRam /\ Ram' = Ram
    BY <1>1, <1>3, <1>4, <1>5, <2>1
  <2> QED
    BY <1>2, <1>3, <1>4, <2>1, <2>2 DEF ExportAt
<1>6. CASE step = Len(Accesses)
  <2>1. \/ at' = 2 /\ iteration' = iteration + 1 /\ step' = 1
        \/ at' \in 3..5 /\ step' = 1 /\ iteration + 1 = cartridge.RamBankCount
    BY <1>4, <1>6, ExportMoves
  <2>2. \A b \in RamBanks : b <= iteration => cartRam'[b] = Ram'[b]
    <3>1. \A b \in RamBanks : b <= iteration => b < iteration \/ b = iteration
      BY <1>1 DEF RamBanks
    <3> QED
      BY <1>2, <1>3, <1>6, <3>1
  <2>3. at' # 2 => \A b \in RamBanks : b <= iteration
    BY <1>1, <2>1 DEF RamBanks
  <2>4. at' = 2 => \A b \in RamBanks : b < iteration' => b <= iteration
    BY <1>1, <2>1 DEF RamBanks
  <2>5. RamAt(iteration)' /\ WriteClockAt'
    BY <2>1, NextFirstAccess
  <2> QED
    BY <1>2, <1>3, <1>4, <2>1, <2>2, <2>3, <2>4, <2>5 DEF ExportAt
<1> QED
  BY <1>1, <1>5, <1>6

LEMMA ExportWritesClock ==
  ASSUME TypeInv, DriverStep, ~RejectHeader, clean' = TRUE, transfer = "export",
         at \in {3, 4}, ExportAt
  PROVE  ExportAt' /\ at' # 1
<1>1. step \in 1..Len(Accesses)
  BY ExportPlaces
<1>2. /\ Ready /\ (at = 4 => WriteClockAt)
      /\ \A b \in RamBanks : cartRam[b] = Ram[b]
  BY DEF ExportAt
<1>3. /\ Ready' /\ UNCHANGED <<cartRam, Ram>>
      /\ at = 4 /\ step # Len(Accesses) /\ step' = step + 1 => WriteClockAt'
  <2>1. CASE at = 3
    <3>1. Piece.name = "enableRam"
      BY <2>1, ExportPieces DEF Piece
    <3> QED
      BY <1>1, <1>2, <2>1, <3>1, EnableStep
  <2>2. CASE at = 4
    <3>1. Piece.name = "exportRTCData"
      BY <2>2, ExportPieces DEF Piece
    <3> QED
      BY <1>1, <1>2, <2>2, <3>1, WriteClockStep
  <2> QED
    BY <2>1, <2>2
<1>4. RamBanks' = RamBanks /\ Advance({Access.access})
  BY Undisturbed
<1>5. \/ step # Len(Accesses) /\ step' = step + 1 /\ at' = at
      \/ step' = 1 /\ at' \in {4, 5}
  BY <1>1, <1>4, ExportMoves
<1>6. at' = 4 => WriteClockAt'
  BY <1>3, <1>5, NextFirstAccess
<1>7. at' \in {3, 4, 5}
  BY <1>5
<1> QED
  BY <1>2, <1>3, <1>4, <1>6, <1>7 DEF ExportAt

LEMMA ExportKeeps ==
  ASSUME TypeInv, CleanInv, DriverStep, ~RejectHeader, clean' = TRUE,
         transfer = "export", Access # LightsOff
  PROVE  /\ ExportAt' /\ (at' = 1 => Fresh')
         /\ transfer' = "export" /\ loaded' = loaded
<1>1. clean = TRUE
  BY StaysClean
<1>2. ExportAt /\ (at = 1 /\ power => Fresh)
  BY <1>1 DEF CleanInv
<1>3. at \in 1..5
  BY ExportPlaces
<1>4. at # 5
  <2>1. at = 5 => Accesses = <<LightsOff>>
    BY ExportPieces DEF Accesses, AccessesOf, Piece
  <2>2. step \in 1..Len(Accesses)
    BY ExportPlaces
  <2> QED
    BY <2>1, <2>2 DEF Access
<1>5. transfer' = "export" /\ loaded' = loaded
  <2>1. Advance({Access.access})
    BY Undisturbed
  <2> QED
    BY <1>4, <2>1, ExportMoves
<1>6. at = 1 => ExportAt' /\ (at' = 1 => Fresh')
  BY <1>2, ExportOpens
<1>7. at = 2 => ExportAt' /\ at' # 1
  BY <1>2, ExportWritesRam
<1>8. at \in {3, 4} => ExportAt' /\ at' # 1
  BY <1>2, ExportWritesClock
<1> QED
  BY <1>3, <1>4, <1>5, <1>6, <1>7, <1>8

(* The driver gives up only where it reads the header of the cartridge, at *)
(* the beginning of an import.                                             *)
LEMMA RejectsAtFirst ==
  ASSUME TypeInv, RejectHeader
  PROVE  /\ transfer = "import" /\ at = 1
         /\ transfer' = "none" /\ at' = 1 /\ tpakBank' \in {tpakBank, ROM0}
         /\ UNCHANGED <<power, mbc, loaded, IsRumbling, lost, clean>>
<1>1. /\ transfer # "none" /\ Access.access = "tpak_get_cartridge_header"
      /\ transfer' = "none" /\ at' = 1 /\ tpakBank' \in {tpakBank, ROM0}
      /\ UNCHANGED <<power, mbc, loaded, IsRumbling, lost, clean>>
  BY Zenon DEF RejectHeader, gameVars
<1>2. /\ transfer \in Functions3 /\ cartridge \in Cartridges /\ Positioned
  BY <1>1 DEF TypeInv, PlaceOK
<1>3. Access \in AccessSet /\ Access \in Allowed(Piece.name)
  BY <1>2, PresentAccess
<1>4. Access = Header
  BY <1>1, <1>3 DEF AccessSet, Header
<1>5. Piece.name = "getCartridgeMetadata"
  BY <1>3, <1>4, Distinct DEF Allowed
<1>6. transfer # "export"
  <2>1. transfer = "export" => at \in 1..5
    BY ExportPlaces
  <2> QED
    BY <1>5, <2>1, ExportPieces DEF Piece
<1>7. transfer # "rumble"
  <2> SUFFICES ASSUME transfer = "rumble" PROVE FALSE
    OBVIOUS
  <2>1. Program = <<Once("toggleRumble")>>
    BY DEF Program
  <2>2. at \in 1..Len(Program)
    BY <1>1, <1>2 DEF Positioned
  <2>3. Len(Program) = 1 /\ Program[1] = Once("toggleRumble")
    BY <2>1
  <2>4. at = 1
    BY <2>2, <2>3
  <2> QED
    BY <1>5, <2>3, <2>4 DEF Piece, Once, Loop
<1>8. transfer = "import"
  BY <1>2, <1>6, <1>7 DEF Functions3
<1>9. at \in 1..7
  BY <1>8, ImportPlaces
<1>10. at = 1
  BY <1>5, <1>8, <1>9, ImportPieces DEF Piece
<1> QED
  BY <1>1, <1>8, <1>10

(* What is clean stays so until an access is lost.                         *)
LEMMA UntilLost ==
  ASSUME TypeInv, DriverStep, clean = TRUE, lost' = 0
  PROVE  clean' = TRUE
<1>1. lost \in Nat
  BY BoundsAssumption DEF TypeInv, PlaceOK
<1>2. ~Lose
  <2>1. Lose => lost' = lost + 1
    BY Zenon DEF Lose
  <2> QED
    BY <1>1, <2>1
<1>3. SwitchPower => clean' = clean \/ clean' = (clean \/ ~power')
  BY Zenon DEF SwitchPower
<1>4. (SetStatus => UNCHANGED clean) /\ (SelectTpakBank => UNCHANGED clean)
  BY Zenon DEF SetStatus, SelectTpakBank
<1>5. PokeCartridge \/ WriteRamBank => UNCHANGED clean
  <2>1. PokeCartridge => UNCHANGED clean
    BY SMT DEF PokeCartridge
  <2>2. WriteRamBank => UNCHANGED clean
    BY SMT DEF WriteRamBank
  <2> QED
    BY <2>1, <2>2
<1>6. (ReadRomBank => UNCHANGED clean) /\ (ReadRamBank => UNCHANGED clean)
  BY Zenon DEF ReadRomBank, ReadRamBank
<1>7. TpakInit \/ ReadHeader \/ RejectHeader => UNCHANGED clean
  BY Zenon DEF TpakInit, ReadHeader, RejectHeader
<1> QED
  BY <1>2, <1>3, <1>4, <1>5, <1>6, <1>7 DEF DriverStep

(* Accesses are not found again once they are lost.                        *)
LEMMA LostForGood ==
  ASSUME TypeInv, DriverStep, lost' = 0
  PROVE  lost = 0
<1>1. lost \in Nat
  BY BoundsAssumption DEF TypeInv, PlaceOK
<1>2. Lose => lost' = lost + 1
  BY Zenon DEF Lose
<1>3. (SwitchPower => UNCHANGED lost) /\ (SetStatus => UNCHANGED lost)
  BY Zenon DEF SwitchPower, SetStatus
<1>4. SelectTpakBank \/ TpakInit => UNCHANGED lost
  BY Zenon DEF SelectTpakBank, TpakInit
<1>5. PokeCartridge \/ WriteRamBank => UNCHANGED lost
  BY SMT DEF PokeCartridge, WriteRamBank
<1>6. ReadRamBank \/ ReadRomBank \/ ReadHeader \/ RejectHeader => UNCHANGED lost
  BY Zenon DEF ReadRamBank, ReadRomBank, ReadHeader, RejectHeader
<1> QED
  BY <1>1, <1>2, <1>3, <1>4, <1>5, <1>6 DEF DriverStep

-----------------------------------------------------------------------------
(* The invariant is kept.                                                  *)
LEMMA InitCleanInv == Init => CleanInv
  BY Zenon DEF Init, CleanInv

LEMMA RejectKeepsClean ==
  ASSUME TypeInv, CleanInv, RejectHeader
  PROVE  CleanInv'
<1>1. /\ transfer = "import" /\ at = 1
      /\ transfer' = "none" /\ at' = 1 /\ tpakBank' \in {tpakBank, ROM0}
      /\ UNCHANGED <<power, mbc, loaded, IsRumbling, lost, clean>>
  BY RejectsAtFirst
<1>2. ~loaded /\ ~loaded'
  BY <1>1 DEF CleanInv
<1>3. clean /\ power => Fresh'
  BY <1>1 DEF CleanInv, Fresh
<1>4. lost' = 0 /\ ~IsRumbling' => clean'
  BY <1>1 DEF CleanInv
<1> QED
  BY <1>1, <1>2, <1>3, <1>4 DEF CleanInv

LEMMA OffCleans ==
  ASSUME TypeInv, DriverStep, Access = LightsOff, lost = 0, lost' = 0
  PROVE  clean'
<1>1. Access.access = "set" /\ Access.address = CARTRIDGE_POWER_ADDRESS
      /\ Access.value = CARTRIDGE_POWER_OFF
  BY DEF LightsOff, SetTpakValue
<1>2. ~Lose
  BY DEF Lose
<1>3. SwitchPower
  <2>1. /\ Access.access \notin {"readRom", "readRam", "writeRam", "tpak_init",
                                 "tpak_get_cartridge_header"}
        /\ Access.address # TPAK_STATUS_ADDRESS
        /\ Access.address # TPAK_BANK_ADDRESS
        /\ ~(Access.address >= ROM_ADDRESS_OFFSET)
    BY <1>1 DEF CARTRIDGE_POWER_ADDRESS, TPAK_STATUS_ADDRESS, TPAK_BANK_ADDRESS,
                ROM_ADDRESS_OFFSET
  <2>2. SetStatus \/ SelectTpakBank \/ PokeCartridge =>
          \/ Access.address = TPAK_STATUS_ADDRESS
          \/ Access.address = TPAK_BANK_ADDRESS
          \/ Access.address >= ROM_ADDRESS_OFFSET
    BY Kinds
  <2>3. ReadRomBank \/ ReadRamBank \/ WriteRamBank \/ TpakInit \/ ReadHeader
          \/ RejectHeader =>
            Access.access \in {"readRom", "readRam", "writeRam", "tpak_init",
                               "tpak_get_cartridge_header"}
    BY Kinds DEF Advance
  <2> QED
    BY <1>2, <2>1, <2>2, <2>3 DEF DriverStep
<1>4. power' = FALSE
  <2>1. power' = (Access.value = CARTRIDGE_POWER_ON)
    BY <1>3, Zenon DEF SwitchPower
  <2>2. Access.value # CARTRIDGE_POWER_ON
    BY <1>1 DEF CARTRIDGE_POWER_OFF, CARTRIDGE_POWER_ON
  <2> QED
    BY <2>1, <2>2, Zenon
<1> QED
  BY <1>3, <1>4 DEF SwitchPower

(* The clock runs on during an import: what it showed moves further into   *)
(* the past.                                                               *)
LEMMA TickKeepsImport ==
  ASSUME TypeInv, ImportAt, cartridge.clock,
         UNCHANGED <<cartridge, power, access, tpakBank, mbc, romFaithful>>,
         UNCHANGED <<at, iteration, step, since>>,
         UNCHANGED <<latched, cartRam, Ram>>,
         RamBanks' = RamBanks, Counters' = Counters,
         clock' = [r \in Counters |-> clock[r] + 1]
  PROVE  ImportAt'
<1>1. Counters = 8..12
  BY ClockCounters
<1>2. \A r \in Counters : clock[r] \in Int /\ clock'[r] = clock[r] + 1
  BY BoundsAssumption DEF TypeInv, CartOK
<1>3. since \in Int
  BY BoundsAssumption DEF TypeInv, PlaceOK
<1>4. 8 \in Counters
  BY <1>1
<1>5. since <= clock[8] => since <= clock'[8]
  BY <1>2, <1>3, <1>4
<1>6. Latched => Latched'
  <2> SUFFICES ASSUME Latched PROVE Latched'
    OBVIOUS
  <2>1. PICK passed \in 0..(clock[8] - since) :
          \A r \in Counters : latched[r] = clock[r] - passed
    BY DEF Latched
  <2>2. passed + 1 \in 0..(clock'[8] - since)
    BY <1>2, <1>3, <1>4, <2>1
  <2>3. \A r \in Counters : latched[r] = clock'[r] - (passed + 1)
    BY <1>2, <2>1
  <2> QED
    BY <2>2, <2>3 DEF Latched
<1>7. (OpeningAt => OpeningAt') /\ (Ready => Ready')
  BY DEF OpeningAt, Ready
<1>8. RomAt(iteration) => RomAt(iteration)'
  BY DEF RomAt, SpecialAt, RomXAt, Special, Front
<1>9. (RamAt(iteration) => RamAt(iteration)') /\ (LatchAt => LatchAt')
      /\ (ReadClockAt(iteration) => ReadClockAt(iteration)')
  BY DEF RamAt, Moded, LatchAt, ReadClockAt
<1> QED
  BY <1>5, <1>6, <1>7, <1>8, <1>9 DEF ImportAt

LEMMA DriverKeepsClean ==
  ASSUME TypeInv, CleanInv, DriverStep, ~RejectHeader
  PROVE  CleanInv'
<1>1. /\ transfer \in Functions3 /\ transfer' \in {transfer, "none"}
      /\ IsRumbling' = IsRumbling /\ loaded' \in {loaded, TRUE}
      /\ Advance({Access.access})
  BY Driving
<1>2. /\ transfer = "import" => ~loaded
      /\ transfer \in {"export", "rumble"} => loaded
      /\ transfer = "rumble" => ~clean
      /\ lost = 0 /\ ~IsRumbling /\ transfer # "rumble" => clean
  BY DEF CleanInv
<1>3. clean \in BOOLEAN /\ clean' \in BOOLEAN
  BY NextTypeInv DEF TypeInv, PlaceOK, Next
<1>4. transfer' = "import" => ~loaded'
  <2>1. transfer = "import" /\ transfer' = "import" => loaded' = loaded
    BY <1>1, ImportMoves
  <2> QED
    BY <1>1, <1>2, <2>1
<1>5. transfer' \in {"export", "rumble"} => loaded'
  BY <1>1, <1>2
<1>6. clean' /\ Access = LightsOff => transfer' = "none" /\ ~power'
  BY <1>3, OffReturns, PoweringOff
<1>7. clean' /\ Access # LightsOff => clean
  BY <1>3, StaysClean
<1>8. transfer' = "rumble" => ~clean'
  BY <1>1, <1>2, <1>6, <1>7
<1>9. lost' = 0 /\ ~IsRumbling' /\ transfer' # "rumble" => clean'
  <2> SUFFICES ASSUME lost' = 0, ~IsRumbling', transfer' # "rumble" PROVE clean'
    OBVIOUS
  <2>1. lost = 0 /\ ~IsRumbling
    BY <1>1, LostForGood
  <2>2. CASE transfer = "rumble"
    <3>1. Access = LightsOff
      BY <1>1, <2>1, <2>2, RumbleEnds
    <3> QED
      BY <2>1, <3>1, OffCleans
  <2>3. CASE transfer # "rumble"
    BY <1>2, <1>3, <2>1, <2>3, UntilLost
  <2> QED
    BY <2>2, <2>3
<1>10. CASE ~clean'
  BY <1>4, <1>5, <1>8, <1>9, <1>10, Zenon DEF CleanInv
<1>11. CASE clean' /\ Access = LightsOff
  BY <1>4, <1>5, <1>6, <1>8, <1>9, <1>11, Zenon DEF CleanInv
<1>12. CASE clean' /\ Access # LightsOff /\ transfer = "import"
  <2>1. /\ ImportAt' /\ (at' = 1 => Fresh')
        /\ transfer' = "import"
    BY <1>3, <1>12, ImportKeeps
  <2> QED
    BY <1>4, <1>5, <1>8, <1>9, <2>1 DEF CleanInv
<1>13. CASE clean' /\ Access # LightsOff /\ transfer = "export"
  <2>1. /\ ExportAt' /\ (at' = 1 => Fresh')
        /\ transfer' = "export"
    BY <1>3, <1>13, ExportKeeps
  <2> QED
    BY <1>4, <1>5, <1>8, <1>9, <2>1 DEF CleanInv
<1>14. clean' /\ Access # LightsOff => transfer # "rumble"
  BY <1>2, <1>7
<1> QED
  BY <1>1, <1>10, <1>11, <1>12, <1>13, <1>14 DEF Functions3

LEMMA ConsoleKeepsClean ==
  ASSUME TypeInv, CleanInv, ConsoleStep
  PROVE  CleanInv'
<1>1. CASE Import
  <2>1. Begin("import") /\ loaded' = FALSE /\ UNCHANGED <<IsRumbling, clean>>
    BY <1>1 DEF Import
  <2>2. /\ transfer = "none" /\ transfer' = "import" /\ at' = 1 /\ step' = 1
        /\ UNCHANGED <<cartridge, pakVars, cartVars, Ram, romFaithful, age, lost>>
    BY <2>1, Beginning DEF Functions3
  <2>3. at = 1 /\ UNCHANGED <<power, tpakBank, mbc, clock>>
    BY <2>2 DEF TypeInv, PlaceOK, Positioned, pakVars, cartVars
  <2>4. cartridge.clock => clock[8] \in Int /\ since' = clock[8]
    BY <2>1, ClockCounters, BoundsAssumption DEF Begin, TypeInv, CartOK
  <2>5. ImportAt'
    <3>1. OpeningAt'
      BY <2>2 DEF OpeningAt
    <3> QED
      BY <2>2, <2>3, <2>4, <3>1 DEF ImportAt
  <2>6. clean' /\ power' => Fresh'
    BY <2>1, <2>3 DEF CleanInv, Fresh
  <2>7. lost' = 0 /\ ~IsRumbling' => clean'
    BY <2>1, <2>2 DEF CleanInv
  <2> QED
    BY <2>1, <2>2, <2>5, <2>6, <2>7 DEF CleanInv
<1>2. CASE Export
  <2>1. Begin("export") /\ loaded /\ UNCHANGED <<loaded, IsRumbling, clean>>
    BY <1>2 DEF Export
  <2>2. /\ transfer = "none" /\ transfer' = "export" /\ at' = 1 /\ step' = 1
        /\ UNCHANGED <<cartridge, pakVars, cartVars, Ram, romFaithful, age, lost>>
    BY <2>1, Beginning DEF Functions3
  <2>3. at = 1 /\ UNCHANGED <<power, tpakBank, mbc>>
    BY <2>2 DEF TypeInv, PlaceOK, Positioned, pakVars, cartVars
  <2>4. ExportAt'
    <3>1. OpeningAt'
      BY <2>2 DEF OpeningAt
    <3> QED
      BY <2>2, <3>1 DEF ExportAt
  <2>5. clean' /\ power' => Fresh'
    BY <2>1, <2>3 DEF CleanInv, Fresh
  <2>6. lost' = 0 /\ ~IsRumbling' => clean'
    BY <2>1, <2>2 DEF CleanInv
  <2> QED
    BY <2>1, <2>2, <2>4, <2>5, <2>6 DEF CleanInv
<1>3. CASE Rumble
  <2>1. Begin("rumble") /\ loaded /\ clean' = FALSE /\ UNCHANGED loaded
    BY <1>3 DEF Rumble
  <2>2. transfer' = "rumble"
    BY <2>1, Beginning DEF Functions3
  <2> QED
    BY <2>1, <2>2 DEF CleanInv
<1>4. CASE GameSaves \/ GameSetsClock
  <2>1. UNCHANGED unplayed /\ transfer = "none"
    BY <1>4, Zenon DEF GameSaves, GameSetsClock, Playing
  <2>2. UNCHANGED <<power, tpakBank, mbc, loaded, IsRumbling, transfer, at,
                    lost, clean>>
    BY <2>1, Unplayed
  <2> QED
    BY <2>1, <2>2 DEF CleanInv, Fresh
<1>5. CASE Tick
  <2>1. /\ cartridge.clock /\ UNCHANGED unplayed /\ UNCHANGED <<latched, cartRam, Ram>>
        /\ clock' = [r \in Counters |-> clock[r] + 1]
    BY <1>5, Zenon DEF Tick
  <2>2. /\ UNCHANGED <<cartridge, power, access, tpakBank, mbc, romFaithful>>
        /\ UNCHANGED <<loaded, IsRumbling, transfer, at, iteration, step>>
        /\ UNCHANGED <<lost, clean, since>>
        /\ RamBanks' = RamBanks /\ Counters' = Counters
    BY <2>1, Unplayed
  <2>3. transfer = "import" /\ ImportAt => ImportAt'
    BY <2>1, <2>2, TickKeepsImport
  <2>4. ExportAt => ExportAt'
    BY <2>1, <2>2 DEF ExportAt, OpeningAt, Ready, RamAt, Moded, WriteClockAt
  <2> QED
    BY <2>2, <2>3, <2>4 DEF CleanInv, Fresh
<1> QED
  BY <1>1, <1>2, <1>3, <1>4, <1>5 DEF ConsoleStep

LEMMA NextCleanInv == TypeInv /\ CleanInv /\ [Next]_vars => CleanInv'
<1> SUFFICES ASSUME TypeInv, CleanInv, [Next]_vars PROVE CleanInv'
  OBVIOUS
<1>1. CASE DriverStep
  BY <1>1, RejectKeepsClean, DriverKeepsClean
<1>2. CASE ConsoleStep
  BY <1>2, ConsoleKeepsClean
<1>3. CASE UNCHANGED vars
  <2>1. UNCHANGED unplayed /\ UNCHANGED cartVars /\ UNCHANGED <<Ram, age>>
    BY <1>3, Zenon DEF vars, unplayed, gameVars
  <2>2. /\ UNCHANGED <<cartridge, power, access, tpakBank, mbc, romFaithful>>
        /\ UNCHANGED <<loaded, IsRumbling, transfer, at, iteration, step>>
        /\ UNCHANGED <<lost, clean, since>>
        /\ RamBanks' = RamBanks /\ Counters' = Counters
    BY <2>1, Unplayed
  <2>3. UNCHANGED <<clock, latched, cartRam, Ram>>
    BY <2>1, Zenon DEF cartVars
  <2>4. ImportAt => ImportAt'
    <3>1. (OpeningAt => OpeningAt') /\ (Ready => Ready') /\ (Latched => Latched')
      BY <2>2, <2>3 DEF OpeningAt, Ready, Latched
    <3>2. RomAt(iteration) => RomAt(iteration)'
      BY <2>2 DEF RomAt, SpecialAt, RomXAt, Special, Front
    <3>3. (RamAt(iteration) => RamAt(iteration)') /\ (LatchAt => LatchAt')
          /\ (ReadClockAt(iteration) => ReadClockAt(iteration)')
      BY <2>2 DEF RamAt, Moded, LatchAt, ReadClockAt
    <3> QED
      BY <2>2, <2>3, <3>1, <3>2, <3>3 DEF ImportAt
  <2>5. ExportAt => ExportAt'
    BY <2>2, <2>3 DEF ExportAt, OpeningAt, Ready, RamAt, Moded, WriteClockAt
  <2> QED
    BY <2>2, <2>4, <2>5 DEF CleanInv, Fresh
<1> QED
  BY <1>1, <1>2, <1>3 DEF Next, ConsoleStep

LEMMA Invariant == Spec => [](TypeInv /\ CleanInv)
<1>1. Init => TypeInv /\ CleanInv
  BY InitTypeInv, InitCleanInv
<1>2. TypeInv /\ CleanInv /\ [Next]_vars => TypeInv' /\ CleanInv'
  BY NextTypeInv, NextCleanInv
<1> QED
  BY <1>1, <1>2, PTL DEF Spec

-----------------------------------------------------------------------------
(* If no access was ever lost, then between two transfers the motor runs   *)
(* only for a game that wants it to, and a cartridge that is loaded and    *)
(* does not rumble is without power, so that switchBank and switchRamBank  *)
(* find its registers as at power on: lightsOff() is the last access of    *)
(* every function but the one that starts the motor, and a header that is  *)
(* turned down leaves the power on, but has selected no bank.              *)
THEOREM OffBetween == Spec => []OffBetweenTransfers
<1>1. TypeInv /\ CleanInv => OffBetweenTransfers
  <2> SUFFICES ASSUME TypeInv, CleanInv PROVE OffBetweenTransfers
    OBVIOUS
  <2>1. TypeOK
    BY TypeInvMeans
  <2>2. ASSUME transfer = "none", lost = 0, ~IsRumbling
        PROVE  ~Motor /\ (loaded => ~power)
    <3>1. clean /\ at = 1
      BY <2>2 DEF CleanInv, TypeInv, PlaceOK, Positioned
    <3>2. loaded => ~power
      BY <2>2, <3>1 DEF CleanInv
    <3>3. power => mbc["upper"] = 0
      BY <3>1 DEF CleanInv, Fresh
    <3> QED
      BY <3>2, <3>3 DEF Motor, Connected
  <2> QED
    BY <2>1, <2>2 DEF OffBetweenTransfers
<1> QED
  BY <1>1, Invariant, PTL

(* An import, or an export, is over only with its last access.             *)
LEMMA ImportEnds ==
  ASSUME TypeInv, CleanInv, Next, ImportDone
  PROVE  DriverStep /\ at = 7
<1>1. transfer = "import" /\ loaded' /\ ~loaded /\ loaded \in BOOLEAN
  BY DEF ImportDone, CleanInv, TypeInv, GameOK
<1>2. ~Import /\ ~Export /\ ~Rumble /\ ~GameSaves /\ ~GameSetsClock
  BY <1>1, Zenon DEF Import, Export, Rumble, Begin, GameSaves, GameSetsClock,
                     Playing
<1>3. ~Tick
  <2>1. Tick => UNCHANGED loaded
    BY Unplayed DEF Tick
  <2> QED
    BY <1>1, <2>1
<1>4. DriverStep
  BY <1>2, <1>3 DEF Next
<1>5. ~RejectHeader
  BY <1>1, RejectsAtFirst
<1>6. Advance({Access.access})
  BY <1>4, <1>5, Driving
<1>7. at = 7
  BY <1>1, <1>6, ImportMoves
<1> QED
  BY <1>4, <1>7

LEMMA ExportEnds ==
  ASSUME TypeInv, CleanInv, Next, ExportDone
  PROVE  at = 5 /\ cartRam' = cartRam
<1>1. transfer = "export" /\ transfer' = "none"
  BY DEF ExportDone
<1>2. ~Import /\ ~Export /\ ~Rumble /\ ~GameSaves /\ ~GameSetsClock
  BY <1>1, Zenon DEF Import, Export, Rumble, Begin, GameSaves, GameSetsClock,
                     Playing
<1>3. ~Tick
  <2>1. Tick => UNCHANGED transfer
    BY Unplayed DEF Tick
  <2> QED
    BY <1>1, <2>1
<1>4. DriverStep
  BY <1>2, <1>3 DEF Next
<1>5. ~RejectHeader
  BY <1>1, RejectsAtFirst
<1>6. Advance({Access.access})
  BY <1>4, <1>5, Driving
<1>7. at = 5
  BY <1>1, <1>6, ExportMoves
<1>8. Access = LightsOff
  <2>1. Accesses = <<LightsOff>>
    BY <1>1, <1>7, ExportPieces DEF Accesses, AccessesOf, Piece
  <2>2. step \in 1..Len(Accesses)
    BY <1>1, ExportPlaces
  <2> QED
    BY <2>1, <2>2 DEF Access
<1>9. ~WriteRamBank
  <2>1. WriteRamBank => Access.access = "writeRam"
    BY Kinds DEF Advance
  <2> QED
    BY <1>8, <2>1, Distinct
<1>10. cartRam' = cartRam
  <2>1. SwitchPower \/ SetStatus => UNCHANGED cartRam
    BY Zenon DEF SwitchPower, SetStatus, cartVars
  <2>2. SelectTpakBank \/ TpakInit \/ ReadHeader => UNCHANGED cartRam
    BY Zenon DEF SelectTpakBank, TpakInit, ReadHeader, cartVars
  <2>3. PokeCartridge => UNCHANGED cartRam
    BY SMT DEF PokeCartridge
  <2>4. ReadRomBank \/ ReadRamBank => UNCHANGED cartRam
    BY Zenon DEF ReadRomBank, ReadRamBank, cartVars
  <2>5. Lose => UNCHANGED cartRam
    BY Zenon DEF Lose, cartVars
  <2> QED
    BY <1>4, <1>5, <1>9, <2>1, <2>2, <2>3, <2>4, <2>5 DEF DriverStep
<1> QED
  BY <1>7, <1>10

(* Whatever was lost before, an import from the moment the cartridge was   *)
(* last without power to its end, in which no access is lost, leaves every *)
(* bank of ROM and of RAM in its place on the console: each list of        *)
(* accesses, from the registers that the list before it leaves, makes the  *)
(* cartridge show the bank that is then read, for each of the five         *)
(* controllers and every number of banks they select.                      *)
THEOREM ImportsWhole == Spec => LoadedWhole
<1> DEFINE Loads ==
      ImportDone /\ clean => romFaithful /\ \A b \in RamBanks : Ram[b] = cartRam[b]
<1>1. TypeInv /\ CleanInv /\ [Next]_vars => [Loads]_vars
  <2> SUFFICES ASSUME TypeInv, CleanInv, Next, ImportDone, clean
               PROVE  romFaithful /\ \A b \in RamBanks : Ram[b] = cartRam[b]
    OBVIOUS
  <2>1. at = 7
    BY ImportEnds
  <2>2. ImportAt
    BY DEF CleanInv, ImportDone
  <2> QED
    BY <2>1, <2>2 DEF ImportAt
<1> QED
  BY <1>1, Invariant, PTL DEF Spec, LoadedWhole

(* The same for an export in which no access is lost and that finds the    *)
(* pak off: every bank of the cartridge's RAM holds then what the console  *)
(* has of it.  One that finds it on, because the access that switches it   *)
(* off was lost or the motor runs, is not among these.                     *)
THEOREM ExportsWhole == Spec => SavedWhole
<1> DEFINE Saves == ExportDone /\ clean => \A b \in RamBanks : cartRam'[b] = Ram[b]
<1>1. TypeInv /\ CleanInv /\ [Next]_vars => [Saves]_vars
  <2> SUFFICES ASSUME TypeInv, CleanInv, Next, ExportDone, clean
               PROVE  \A b \in RamBanks : cartRam'[b] = Ram[b]
    OBVIOUS
  <2>1. at = 5 /\ cartRam' = cartRam
    BY ExportEnds
  <2>2. ExportAt
    BY DEF CleanInv, ExportDone
  <2> QED
    BY <2>1, <2>2 DEF ExportAt
<1> QED
  BY <1>1, Invariant, PTL DEF Spec, SavedWhole

(* The clock runs while its five counters are read one after the other,    *)
(* with a switch of the pak's bank and a selection of the counter between  *)
(* any two of them; what is read is nonetheless what all five showed at    *)
(* one moment since the import began, because it is the latched copy that  *)
(* is read, and it was latched in this import.                             *)
THEOREM ClockReadAtOnce == Spec => ClockOfOneMoment
<1> DEFINE Reads ==
      ImportDone /\ clean /\ cartridge.clock =>
        \E passed \in 0..(clock[8] - since) :
          \A r \in Counters : Ram[r] = Time(clock[r] - passed)
<1>1. TypeInv /\ CleanInv /\ [Next]_vars => [Reads]_vars
  <2> SUFFICES ASSUME TypeInv, CleanInv, Next, ImportDone, clean, cartridge.clock
               PROVE  \E passed \in 0..(clock[8] - since) :
                        \A r \in Counters : Ram[r] = Time(clock[r] - passed)
    OBVIOUS
  <2>1. at = 7
    BY ImportEnds
  <2>2. ImportAt
    BY DEF CleanInv, ImportDone
  <2>3. Latched /\ \A r \in Counters : Ram[r] = Time(latched[r])
    BY <2>1, <2>2 DEF ImportAt
  <2> QED
    BY <2>3 DEF Latched
<1> QED
  BY <1>1, Invariant, PTL DEF Spec, ClockOfOneMoment
=============================================================================
