------------------------------- MODULE MCTpak -------------------------------
(***************************************************************************)
(* Cartridges to check Tpak with: one with ROM only, an MBC1 large enough  *)
(* for banks 20, 40 and 60, an MBC2, an MBC3 with a clock, an MBC5 with a  *)
(* motor, and an MBC1 and an MBC3 with several banks of RAM.               *)
(***************************************************************************)
EXTENDS Tpak

Cart(type, rom, ram, hasClock, hasRumble) ==
  [Type |-> type, RomBankCount |-> rom, RamBankCount |-> ram,
   clock |-> hasClock, rumble |-> hasRumble]

AllCartridges ==
  {Cart("ROM_ONLY", 2, 0, FALSE, FALSE), Cart("MBC1", 128, 1, FALSE, FALSE),
   Cart("MBC1", 4, 4, FALSE, FALSE), Cart("MBC2", 16, 1, FALSE, FALSE),
   Cart("MBC3", 4, 1, TRUE, FALSE), Cart("MBC3", 4, 4, FALSE, FALSE),
   Cart("MBC5", 4, 4, FALSE, TRUE)}
=============================================================================
