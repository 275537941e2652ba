------------------------------ MODULE MCMbc ------------------------------
(***************************************************************************)
(* Cartridges to check Mbc with: one of each controller, with the sizes at *)
(* which its handlers branch, and the bytes their games write.             *)
(***************************************************************************)
EXTENDS Mbc

Cart(type, rom, ram, cells, flagSet, romBytes, ramBytes) ==
  [Type |-> type, RomBankCount |-> rom, RamBankCount |-> ram,
   RamCells |-> cells, sram |-> "sram" \in flagSet, rtc |-> "rtc" \in flagSet,
   rumble |-> "rumble" \in flagSet, romWrites |-> romBytes,
   ramWrites |-> ramBytes]

(* 64 ROM banks: upper register, ROM0 switching and wrap-around all matter.*)
Mbc1Large == Cart("MBC1", 64, 4, 4, {"sram"}, {0, 1, 31, 34}, 0..3)
(* 32 banks: the upper register is computed but always 0.                  *)
Mbc1Medium == Cart("MBC1", 32, 1, 1, {"sram"}, {0, 5, 31}, {0, 2})
(* 8 banks: the lower register wraps around the ROM's size.                *)
Mbc1Small == Cart("MBC1", 8, 0, 0, {}, {0, 7, 8, 9}, {1})
Mbc2Cart == Cart("MBC2", 8, 1, 1, {"sram"}, {0, 3, 8, 15}, {})
Mbc3Clock == Cart("MBC3", 8, 4, 13, {"sram", "rtc"}, {0, 7}, {0, 3, 8, 12})
Mbc3ClockOnly == Cart("MBC3", 4, 0, 13, {"rtc"}, {0, 3}, {8, 11})
Mbc5Rumble == Cart("MBC5", 128, 4, 4, {"sram", "rumble"}, {0, 1, 255},
                   {0, 3, 8, 10})
Mbc5Plain == Cart("MBC5", 64, 0, 0, {}, {0, 63, 64}, {0, 15})
(* 16 RAM banks: as large as the allocation of a cartridge with a clock.   *)
Mbc5BigRam == Cart("MBC5", 4, 16, 16, {"sram"}, {3}, {0, 15})
RomOnly == Cart("ROM_ONLY", 2, 0, 0, {}, {}, {})

AllCarts == {Mbc1Large, Mbc1Medium, Mbc1Small, Mbc2Cart, Mbc3Clock,
             Mbc3ClockOnly, Mbc5Rumble, Mbc5Plain, Mbc5BigRam,
             RomOnly}

(* Enable, disable, a byte that does neither, and both modes and latches.  *)
GameBytes == {0, 1, 10, 26}
=============================================================================
