------------------------------- MODULE MCSgb -------------------------------
(* Commands to check Sgb with: one of each that is implemented.            *)
EXTENDS Sgb

Packet(bytes) ==
  [i \in 1..SGB_PACKET_LENGTH |-> IF i <= Len(bytes) THEN bytes[i] ELSE 0]
Command(code, bytes) == <<Packet(<<8 * code + 1>> \o bytes)>>

(* Colours of palettes: no two alike.                                      *)
SetPalette01 == Command(0, [i \in 1..14 |-> i])
SetPalette12 == Command(3, [i \in 1..14 |-> 255 - i])
(* A border of a rectangle in palette 1, the rest of the screen in 2.      *)
ApplyToBlocks == Command(4, <<1, 6, 36, 2, 3, 5, 6>>)
(* Line y = 2, line x = 17, line y = 17, line x = 0: palettes 3, 1, 2, 1.   *)
ApplyToLines == Command(5, <<4, 226, 49, 209, 32>>)
DivideAtFive == Command(6, <<27, 5>>)
(* 32 tiles from the upper left corner on, of which the code sets eight.   *)
ApplyToTiles == Command(7, <<0, 0, 32, 0, 0, 27, 228>>)
TransferPacket == Command(15, <<0, 1, 2, 3>>)
(* What the code carries out outside its memory: line x = 25, tiles 18 to  *)
(* 21 of the last row, a block of data besides that of TransferPacket.     *)
LineOffScreen == Command(5, <<1, 57>>)
TilesOffScreen == Command(7, <<18, 17, 32, 0, 0, 27>>)
TransferElsewhere == Command(15, <<1, 1, 2, 3>>)
TwoPlayers == Command(17, <<1>>)
MaskBlack == Command(23, <<2>>)
NoPriority == Command(25, <<0>>)

OnePacketCommands ==
  {SetPalette01, SetPalette12, ApplyToBlocks, ApplyToLines, DivideAtFive,
   ApplyToTiles, TransferPacket, TwoPlayers, MaskBlack, NoPriority,
   LineOffScreen, TilesOffScreen, TransferElsewhere}

DirectionsThenButtons == <<2, 1>>

(* This game is one of those the theorems of SgbProofs are about.          *)
ASSUME GameAssumption == OnePacketGame
=============================================================================
