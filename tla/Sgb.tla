-------------------------------- MODULE Sgb --------------------------------
(***************************************************************************)
(* The Super Game Boy functions of superGameboy.c, which playLogic calls   *)
(* after each instruction when IS_SGB_ENABLED is defined.  A game writes   *)
(* pulses to bits 4 and 5 of the joypad register: 1 or 2 for a bit, 3 to   *)
(* confirm it, 0 to begin.  Bits make bytes, bytes packets, packets a      *)
(* command, and a command palettes, the tiles they apply to, a mask or a   *)
(* choice of controllers.                                                  *)
(*                                                                         *)
(* The game's part is external: it sends the commands in Commands, each    *)
(* packet after a pulse of 0 and followed by a stop bit, and reads buttons *)
(* through the same register, always in the same order.                    *)
(***************************************************************************)
EXTENDS Integers, Sequences, FiniteSetsExt

CONSTANTS
  Commands,     (* What the game sends: each a sequence of packets. *)
  ButtonOrder,  (* What it writes to read directions and buttons. *)
  ResetsEach,   (* Whether it writes 0 before every packet, or the first. *)
  MaxCommands   (* Bound: commands sent from one reset to the next. *)

SGB_PACKET_LENGTH == 16
HORIZONTAL_TILES == 20
VERTICAL_TILES == 18
Byte == 0..255
Bit(n) == <<1, 2, 4, 8, 16, 32, 64, 128>>[n + 1]
Tiles == 0..(HORIZONTAL_TILES * VERTICAL_TILES - 1)
Colours == {n \in Nat : n < 65536}

ASSUME CommandsAssumption ==
  \A c \in Commands : c \in Seq([1..SGB_PACKET_LENGTH -> Byte])
ASSUME ButtonsAssumption == ButtonOrder \in Seq({1, 2})

VARIABLES
  JoypadIo,         (* bits 4 and 5 of the register the game writes *)
  sending,          (* the pulses the game's routine has still to write *)
  sent,             (* the command the game sends or sent last, or <<>> *)
  commandsSent,
  executions,       (* commands executed since it began to send that one *)
  transfer,         (* the fields that resetSGBTransfer resets *)
  overrun,          (* whether something was written outside its memory *)
  Palettes, TilePalettes, MaskState, HasPriority,
  PlayersMode, CurrentController,
  RamBlocks         (* keys of the blocks of SNES RAM, in allocation order *)

gameVars == <<JoypadIo, sending, sent, commandsSent>>
screenVars == <<Palettes, TilePalettes, MaskState, HasPriority>>
playerVars == <<PlayersMode, CurrentController>>
vars == <<gameVars, executions, transfer, overrun, screenVars, playerVars,
          RamBlocks>>

-----------------------------------------------------------------------------
(* The transfer of packets.                                                *)

NoBytes == [i \in {} |-> 0]

ResetTransfer ==
  [IsTransferring |-> FALSE, HasPendingBit |-> FALSE, PendingBit |-> 0,
   AwaitingStopBit |-> FALSE, BitBuffer |-> 0, BitPointer |-> 0,
   BytePointer |-> 0, PacketPointer |-> 0, NumberOfPackets |-> 0,
   CurrentCommand |-> 26, Buffer |-> NoBytes, JoypadRequestResolved |-> FALSE]

(* The bit goes into BitBuffer, the low bit first.                         *)
WithBit(t) ==
  [t EXCEPT !.BitBuffer = t.BitBuffer + t.PendingBit * Bit(t.BitPointer),
            !.HasPendingBit = FALSE, !.BitPointer = t.BitPointer + 1]

(* The first byte names the command and the number of its packets, for     *)
(* which Buffer is allocated.                                              *)
WithHeader(t) ==
  IF t.BytePointer = 0 /\ t.PacketPointer = 0
    THEN [t EXCEPT !.CurrentCommand = t.BitBuffer \div 8,
                   !.NumberOfPackets = t.BitBuffer % 8,
                   !.Buffer = [i \in 0..(SGB_PACKET_LENGTH * (t.BitBuffer % 8) - 1)
                                 |-> 0]]
    ELSE t

Index(t) == SGB_PACKET_LENGTH * t.PacketPointer + t.BytePointer

WithByte(t) ==
  LET full == t.BytePointer + 1 = SGB_PACKET_LENGTH
  IN  [t EXCEPT
         !.Buffer = [i \in DOMAIN t.Buffer |->
                       IF i = Index(t) THEN t.BitBuffer ELSE t.Buffer[i]],
         !.BitBuffer = 0, !.BitPointer = 0,
         !.BytePointer = IF full THEN 0 ELSE t.BytePointer + 1,
         !.PacketPointer = IF full THEN (t.PacketPointer + 1) % 256
                           ELSE t.PacketPointer,
         !.AwaitingStopBit = full]

(* A stop bit leaves HasPendingBit set: it returns before.                 *)
PushBit(t) ==
  IF t.AwaitingStopBit THEN [t EXCEPT !.AwaitingStopBit = t.PendingBit # 0]
  ELSE IF t.BitPointer = 7 THEN WithByte(WithHeader(WithBit(t)))
  ELSE WithBit(t)

(* Whether pushBit writes a byte, and outside the memory allocated for it. *)
WritesOutside(t) ==
  /\ ~t.AwaitingStopBit
  /\ t.BitPointer = 7
  /\ LET h == WithHeader(WithBit(t)) IN Index(h) \notin DOMAIN h.Buffer

(* Mutants: one packet too many is awaited; the stop bit is not.           *)
CompleteLate(t) ==
  t.NumberOfPackets >= 1 /\ t.PacketPointer > t.NumberOfPackets /\ ~t.AwaitingStopBit
CompleteUnstopped(t) ==
  t.NumberOfPackets >= 1 /\ t.PacketPointer >= t.NumberOfPackets

(* Whether a command has arrived, with its last stop bit.                  *)
Complete(t) ==
  /\ t.NumberOfPackets >= 1
  /\ t.PacketPointer >= t.NumberOfPackets
  /\ ~t.AwaitingStopBit

(* processSGBData, but for executing a command: what it makes of the state *)
(* of the register after an instruction.                                   *)
Received(t, bits) ==
  CASE ~t.IsTransferring -> [t EXCEPT !.IsTransferring = bits = 3]
    [] t.IsTransferring /\ bits = 3 /\ t.HasPendingBit -> PushBit(t)
    [] t.IsTransferring /\ bits = 3 /\ ~t.HasPendingBit -> t
    [] t.IsTransferring /\ bits \in {1, 2} ->
         [t EXCEPT !.HasPendingBit = TRUE, !.PendingBit = 2 - bits]
    [] t.IsTransferring /\ bits = 0 -> ResetTransfer

Pushes(t, bits) == t.IsTransferring /\ bits = 3 /\ t.HasPendingBit

-----------------------------------------------------------------------------
(* The commands.  B[i] is byte i of the buffer; what lies behind a buffer  *)
(* too short is read as 0.                                                 *)

Tile(x, y) == y * HORIZONTAL_TILES + x
Unchanged == [pal |-> Palettes, tile |-> TilePalettes, mask |-> MaskState,
              prio |-> HasPriority, players |-> PlayersMode,
              controller |-> CurrentController, blocks |-> RamBlocks,
              over |-> FALSE]

(* Colours are little endian.  Colour 0 of the first palette is that of    *)
(* all palettes.                                                           *)
Palpq(B, p, q, packets) ==
  LET colour(i) == B[i] + 256 * B[i + 1]
      set == [n \in 0..3 |-> [j \in 0..3 |->
                IF n = p THEN colour(2 * j + 1)
                ELSE IF n = q /\ j > 0 THEN colour(2 * j + 7)
                ELSE Palettes[n][j]]]
  IN  IF packets # 1 THEN Unchanged
      ELSE [Unchanged EXCEPT !.pal = [n \in 0..3 |->
              [j \in 0..3 |-> IF j = 0 THEN set[p][0] ELSE set[n][j]]]]

MaskEn(B, packets) ==
  IF packets # 1 \/ B[1] > 3 THEN Unchanged
  ELSE [Unchanged EXCEPT !.mask = B[1] % 4]

PalPri(B) == [Unchanged EXCEPT !.prio = B[1] % 2 = 1]

(* PlayersMode has two bits.                                               *)
MltReq(B) ==
  [Unchanged EXCEPT !.players = B[1] % 4, !.controller = 0]

(* Only a vertical division is carried out.                                *)
AttrDiv(B) ==
  LET line == B[2] % 32
      palette(x) == IF x < line THEN (B[1] \div 4) % 4
                    ELSE IF x = line THEN (B[1] \div 16) % 4
                    ELSE B[1] % 4
  IN  IF (B[1] \div 64) % 2 = 1 THEN Unchanged
      ELSE [Unchanged EXCEPT !.tile =
              [t \in Tiles |-> palette(t % HORIZONTAL_TILES)]]

(* Mutant: the two directions are confused.                                *)
LineTilesSwapped(datum) ==
  IF datum < 128 THEN {Tile(x, datum % 32) : x \in 0..(HORIZONTAL_TILES - 1)}
  ELSE {Tile(datum % 32, y) : y \in 0..(VERTICAL_TILES - 1)}

(* The tiles a loop writes for one line; lines past the last are not       *)
(* refused.                                                                *)
LineTiles(datum) ==
  LET n == datum % 32
  IN  IF datum >= 128
        THEN {Tile(x, n) : x \in 0..(HORIZONTAL_TILES - 1)}
        ELSE {Tile(n, y) : y \in 0..(VERTICAL_TILES - 1)}

(* Lines are set one after another: the last that crosses a tile counts.   *)
AttrLin(B) ==
  LET lines(t) == {i \in 2..(B[1] + 1) : t \in LineTiles(B[i])}
  IN  [Unchanged EXCEPT
         !.tile = [t \in Tiles |-> IF lines(t) = {} THEN TilePalettes[t]
                                   ELSE (B[Max(lines(t))] \div 32) % 4],
         !.over = \E i \in 2..(B[1] + 1) : ~(LineTiles(B[i]) \subseteq Tiles)]

(* Block n of an ATTR_BLK, six bytes from 6n - 4 on, and a tile: on one of *)
(* the four lines that bound the rectangle it counts as on its border, one *)
(* below its lower edge (y2) as inside.                                    *)
BlockPart(B, n, t) ==
  LET i == 6 * n - 4
      x == t % HORIZONTAL_TILES
      y == t \div HORIZONTAL_TILES
      corner(c) == B[i + c] % 32
      onLine == x \in {corner(2), corner(4)} \/ y \in {corner(3), corner(5)}
      inside == x > corner(2) /\ x < corner(4) /\ y > corner(3) /\ y > corner(5)
  IN  IF (B[i] \div 2) % 2 = 1 /\ onLine THEN "line"
      ELSE IF B[i] % 2 = 1 /\ inside THEN "inside"
      ELSE IF (B[i] \div 4) % 2 = 1 THEN "outside" ELSE "kept"

BlockPalette(B, n, t) ==
  LET palettes == B[6 * n - 3]
  IN  CASE BlockPart(B, n, t) = "line" -> (palettes \div 4) % 4
        [] BlockPart(B, n, t) = "inside" -> palettes % 4
        [] BlockPart(B, n, t) = "outside" -> (palettes \div 16) % 4

(* The last block that does not keep a tile as it is counts.               *)
AttrBlk(B) ==
  LET blocks(t) == {n \in 1..(B[1] % 32) : BlockPart(B, n, t) # "kept"}
  IN  IF B[1] % 32 > 18 THEN Unchanged
      ELSE [Unchanged EXCEPT
              !.tile = [t \in Tiles |-> IF blocks(t) = {} THEN TilePalettes[t]
                                        ELSE BlockPalette(B, Max(blocks(t)), t)]]

(* The bytes of an ATTR_CHR begin at 6, but its loops end at a fourth of   *)
(* the number of tiles, counted from 0.  Every byte is written to four     *)
(* tiles though the line may end between them; after the first, lines take *)
(* five bytes each.  Write w is that of pair w % 4 of byte w \div 4.       *)
CharItems(B) == (B[4] % 2) * 256 + B[3]
CharWrites(B) ==
  LET start == IF B[5] % 2 = 0 THEN B[1] % 32 ELSE B[2] % 32
      first == IF B[5] % 2 = 0 THEN B[2] % 32 ELSE B[1] % 32
      across == IF B[5] % 2 = 0 THEN HORIZONTAL_TILES ELSE VERTICAL_TILES
      lines == IF B[5] % 2 = 0 THEN VERTICAL_TILES ELSE HORIZONTAL_TILES
      opening == IF start >= across THEN 0 ELSE (across - start + 3) \div 4
      line(b) == IF b < opening THEN first ELSE first + 1 + ((b - opening) \div 5)
      at(b) == IF b < opening THEN start + 4 * b ELSE 4 * ((b - opening) % 5)
      writes == {w \in 0..335 : /\ 6 + (w \div 4) < CharItems(B) \div 4
                                /\ line(w \div 4) < lines}
  IN  [w \in writes |->
         IF B[5] % 2 = 0 THEN Tile(at(w \div 4) + (w % 4), line(w \div 4))
         ELSE Tile(line(w \div 4), at(w \div 4) + (w % 4))]

AttrChr(B) ==
  LET tile == CharWrites(B)
      writes(t) == {w \in DOMAIN tile : tile[w] = t}
      palette(w) == (B[6 + (w \div 4)] \div Bit(6 - 2 * (w % 4))) % 4
  IN  IF CharItems(B) > 360 THEN Unchanged
      ELSE [Unchanged EXCEPT
              !.tile = [t \in Tiles |-> IF writes(t) = {} THEN TilePalettes[t]
                                        ELSE palette(Max(writes(t)))],
              !.over = \E w \in DOMAIN tile : tile[w] \notin Tiles]

(* data_snd steps from block to block by the size of a block, counted in   *)
(* blocks: the first and each sixteenth are compared, and a new block is   *)
(* written sixteen times as far as the memory reaches.                     *)
BlockKey(B) == <<B[1] + 256 * B[2], B[3]>>
DataSnd(B) ==
  LET key == BlockKey(B)
      count == Len(RamBlocks)
      found == \E i \in 1..count : i % 16 = 1 /\ RamBlocks[i] = key
  IN  IF B[4] > 11 \/ found THEN Unchanged
      ELSE [Unchanged EXCEPT !.blocks = Append(RamBlocks, key),
                             !.over = count > 0]

(* executeSgbCommand: what it leaves.                                      *)
Bytes(buffer) ==
  [i \in 0..256 |-> IF i \in DOMAIN buffer THEN buffer[i] ELSE 0]
Effect(t) ==
  LET B == Bytes(t.Buffer)
      n == t.NumberOfPackets
  IN  CASE t.CurrentCommand = 0 -> Palpq(B, 0, 1, n)
        [] t.CurrentCommand = 1 -> Palpq(B, 2, 3, n)
        [] t.CurrentCommand = 2 -> Palpq(B, 0, 3, n)
        [] t.CurrentCommand = 3 -> Palpq(B, 1, 2, n)
        [] t.CurrentCommand = 4 -> AttrBlk(B)
        [] t.CurrentCommand = 5 -> AttrLin(B)
        [] t.CurrentCommand = 6 -> AttrDiv(B)
        [] t.CurrentCommand = 7 -> AttrChr(B)
        [] t.CurrentCommand = 15 -> DataSnd(B)
        [] t.CurrentCommand = 17 -> MltReq(B)
        [] t.CurrentCommand = 23 -> MaskEn(B, n)
        [] t.CurrentCommand = 25 -> PalPri(B)
        [] OTHER -> Unchanged

-----------------------------------------------------------------------------
(* The game's pulses: external.                                            *)
BitOf(p, i) == (p[(i - 1) \div 8 + 1] \div Bit((i - 1) % 8)) % 2

(* Pulse i of a packet: -1 and 0 begin it, 257 and 258 are its stop bit.   *)
PacketPulse(p, i) ==
  IF i = -1 THEN 0 ELSE IF i % 2 = 0 THEN 3
  ELSE IF i = 257 THEN 2 ELSE 2 - BitOf(p, (i + 1) \div 2)

CommandPulses(c) ==
  IF ResetsEach
  THEN [i \in 1..(260 * Len(c)) |->
          PacketPulse(c[((i - 1) \div 260) + 1], ((i - 1) % 260) - 1)]
  ELSE <<0, 3>> \o [i \in 1..(258 * Len(c)) |->
          PacketPulse(c[((i - 1) \div 258) + 1], ((i - 1) % 258) + 1)]

(* What a game must keep to for the functions of this file to work.  Its   *)
(* commands are of one packet, since a stop bit that is still in the       *)
(* register after the next instruction is taken again, as data, and it     *)
(* asks for the buttons last, since what it writes to read them is taken   *)
(* for bits and ends in a command that announces no packets otherwise.     *)
OnePacketGame ==
  /\ \A c \in Commands : Len(c) = 1 /\ c[1][1] % 8 = 1
  /\ ButtonOrder # <<>> => ButtonOrder[Len(ButtonOrder)] = 1

(* What a command c of one packet asks for outside the memory allocated: a *)
(* line off the screen, a tile behind the last, a second block of data.    *)
PacketBytes(p) == Bytes([i \in 0..(SGB_PACKET_LENGTH - 1) |-> p[i + 1]])
OnScreen(datum) ==
  datum % 32 < IF datum >= 128 THEN VERTICAL_TILES ELSE HORIZONTAL_TILES
Oversteps(c) ==
  LET code == c[1][1] \div 8
      B == PacketBytes(c[1])
  IN  \/ code = 5 /\ \E i \in 2..(B[1] + 1) : ~OnScreen(B[i])
      \/ code = 7 /\ \E w \in DOMAIN CharWrites(B) : CharWrites(B)[w] \notin Tiles
      \/ code = 15 /\ RamBlocks # <<>> /\ RamBlocks # <<BlockKey(B)>>

SendCommand(c) ==
  /\ sending = <<>>
  /\ commandsSent < MaxCommands
  /\ sending' = CommandPulses(c)
  /\ sent' = c
  /\ commandsSent' = commandsSent + 1
  /\ executions' = 0
  /\ UNCHANGED <<JoypadIo, transfer, overrun, screenVars, playerVars, RamBlocks>>

ReadButtons ==
  /\ sending = <<>>
  /\ sending' = ButtonOrder \o <<3>>
  /\ UNCHANGED <<JoypadIo, sent, commandsSent, executions, transfer, overrun,
                 screenVars, playerVars, RamBlocks>>

(* In a mode for several players the next controller's turn comes when the *)
(* register becomes 3.                                                     *)
(* Mutants: or whenever it is 3; only up to the last controller.           *)
NextControllerAlways(controller, bits, resolved) ==
  IF bits = 3 THEN (controller + 1) % 4 ELSE controller
NextControllerStops(controller, bits, resolved) ==
  IF bits = 3 /\ ~resolved /\ controller < 3 THEN controller + 1 ELSE controller
NextController(controller, bits, resolved) ==
  IF bits = 3 /\ ~resolved THEN (controller + 1) % 4 ELSE controller

(* A command executed is followed by a reset of the transfer.              *)
AfterCommand(r) == ResetTransfer

(* processSGBData and performSGBFunctions after an instruction that leaves *)
(* the register at bits.  What they do once something was written outside  *)
(* its memory depends on what lay there: the model goes no further.        *)
ProcessSgb(bits) ==
  LET r == Received(transfer, bits)
      executes == Pushes(transfer, bits) /\ Complete(r)
      t == IF executes THEN AfterCommand(r) ELSE r
      e == IF executes THEN Effect(r) ELSE Unchanged
  IN  /\ ~overrun
      /\ transfer' = [t EXCEPT !.JoypadRequestResolved =
                        IF e.players > 0 THEN bits = 3 ELSE @]
      /\ CurrentController' =
           IF e.players = 0 THEN e.controller
           ELSE NextController(e.controller, bits, t.JoypadRequestResolved)
      /\ PlayersMode' = e.players
      /\ Palettes' = e.pal
      /\ TilePalettes' = e.tile
      /\ MaskState' = e.mask
      /\ HasPriority' = e.prio
      /\ RamBlocks' = e.blocks
      /\ overrun' = \/ Pushes(transfer, bits) /\ WritesOutside(transfer)
                    \/ e.over
      /\ executions' = IF executes /\ executions < 2 THEN executions + 1
                       ELSE executions

WriteJoypad ==
  /\ sending # <<>>
  /\ JoypadIo' = Head(sending)
  /\ sending' = Tail(sending)
  /\ ProcessSgb(Head(sending))
  /\ UNCHANGED <<sent, commandsSent>>

OtherInstruction ==
  /\ ProcessSgb(JoypadIo)
  /\ UNCHANGED gameVars

MonochromePalettes == [n \in 0..3 |-> [j \in 0..3 |-> 100 + j]]

(* resetPlayState, with the game starting anew.                            *)
ResetSgbState ==
  /\ JoypadIo' = 0
  /\ sending' = <<>>
  /\ sent' = <<>>
  /\ commandsSent' = 0
  /\ executions' = 0
  /\ transfer' = ResetTransfer
  /\ Palettes' = MonochromePalettes
  /\ TilePalettes' = [t \in Tiles |-> 0]
  /\ MaskState' = 0
  /\ HasPriority' = TRUE
  /\ PlayersMode' = 0
  /\ CurrentController' = 0
  /\ RamBlocks' = <<>>
  /\ UNCHANGED overrun

Init ==
  /\ JoypadIo = 0
  /\ sending = <<>>
  /\ sent = <<>>
  /\ commandsSent = 0
  /\ executions = 0
  /\ transfer = ResetTransfer
  /\ overrun = FALSE
  /\ Palettes = MonochromePalettes
  /\ TilePalettes = [t \in Tiles |-> 0]
  /\ MaskState = 0
  /\ HasPriority = TRUE
  /\ PlayersMode = 0
  /\ CurrentController = 0
  /\ RamBlocks = <<>>

Next ==
  \/ \E c \in Commands : SendCommand(c)
  \/ ReadButtons
  \/ WriteJoypad
  \/ OtherInstruction
  \/ ResetSgbState

Spec == Init /\ [][Next]_vars

-----------------------------------------------------------------------------
(* Types, and the widths of the fields.                                    *)
TypeOK ==
  /\ JoypadIo \in 0..3
  /\ transfer.BitBuffer \in Byte /\ transfer.BitPointer \in 0..7
  /\ transfer.BytePointer \in 0..(SGB_PACKET_LENGTH - 1)
  /\ transfer.PacketPointer \in Byte /\ transfer.NumberOfPackets \in 0..7
  /\ \A i \in DOMAIN transfer.Buffer : transfer.Buffer[i] \in Byte
  /\ Palettes \in [0..3 -> [0..3 -> Colours]]
  /\ TilePalettes \in [Tiles -> 0..3]
  /\ MaskState \in 0..3 /\ HasPriority \in BOOLEAN
  /\ PlayersMode \in 0..3 /\ CurrentController \in 0..3

(* A command that the game has sent to its end has been executed, once,    *)
(* and nothing else has: not what reading the buttons looks like, however  *)
(* often the register is looked at.                                        *)
ExecutedOnce ==
  /\ executions <= 1
  /\ sending = <<>> /\ sent # <<>> => executions = 1

(* What is executed is what was sent, bit by bit, not before the last stop *)
(* bit, and once.                                                          *)
ExecutedAsSent == []ExecutedOnce /\
  [][executions' = executions + 1 =>
       /\ sending' = <<>>
       /\ DOMAIN transfer.Buffer = 0..(SGB_PACKET_LENGTH * Len(sent) - 1)
       /\ \A i \in DOMAIN transfer.Buffer :
            transfer.Buffer[i] = sent[(i \div SGB_PACKET_LENGTH) + 1]
                                     [(i % SGB_PACKET_LENGTH) + 1]]_vars

(* Nothing is written outside the memory allocated for it but by executing *)
(* a command that asks for it: no bit, byte or packet received is, and all *)
(* registers stay in their ranges.                                         *)
StaysInside == []TypeOK /\
  [][~overrun /\ overrun' => executions' # executions /\ Oversteps(sent)]_vars

(* All palettes show the same colour 0, whichever pair was set last.       *)
ColourZeroShared == \A n \in 0..3 : Palettes[n][0] = Palettes[0][0]

(* In a game for several players the next controller has its turn each     *)
(* time the register becomes 3, and only then: once, however many          *)
(* instructions it stays 3, whether the game asks for a controller by it   *)
(* or confirms a bit of a packet, which performSGBFunctions does not       *)
(* tell apart.  After the pulse that ends a MLT_REQ it is the second's, in *)
(* a game for one always the first's.                                      *)
EndsMltReq ==
  LET r == PushBit(transfer)
  IN  Pushes(transfer, JoypadIo') /\ Complete(r) /\ r.CurrentCommand = 17
ControllersInTurn ==
  [][CurrentController' =
       IF PlayersMode' = 0 THEN 0
       ELSE IF ~(JoypadIo # 3 /\ JoypadIo' = 3) THEN CurrentController
       ELSE IF EndsMltReq THEN 1 ELSE (CurrentController + 1) % 4]_vars

(* After a vertical ATTR_DIV or an ATTR_LIN of up to fourteen lines on the *)
(* screen each tile has the palette of its side of the line, or of the     *)
(* last line through it; and colour 0 is that of all palettes.             *)
TilesAsCommanded == []ColourZeroShared /\
  [][executions' = executions + 1 =>
       LET p == sent[1]
       IN  /\ p[1] \div 8 = 6 /\ p[2] < 64 =>
                \A x \in 0..19, y \in 0..17 :
                  TilePalettes'[20 * y + x] =
                    IF x < p[3] % 32 THEN (p[2] % 16) \div 4
                    ELSE IF x = p[3] % 32 THEN p[2] \div 16 ELSE p[2] % 4
           /\ p[1] \div 8 = 5 /\ p[2] <= 14
              /\ (\A k \in 1..p[2] : OnScreen(p[2 + k])) =>
                \A i \in 1..p[2] : \A x \in 0..19, y \in 0..17 :
                  LET through(d) == IF d >= 128 THEN y = d % 32 ELSE x = d % 32
                  IN  /\ through(p[2 + i])
                      /\ \A j \in (i + 1)..p[2] : ~through(p[2 + j])
                      => TilePalettes'[20 * y + x] = (p[2 + i] % 128) \div 32
      ]_vars
=============================================================================
