------------------------------ MODULE SgbProofs ------------------------------
(***************************************************************************)
(* What the Super Game Boy functions do for every game: registers stay in  *)
(* their ranges and controllers take turns.  And what they do for every    *)
(* game whose commands are of one packet each, whatever is in them: each   *)
(* is executed once, as it was sent, and receiving it writes nothing       *)
(* outside its buffer.                                                     *)
(***************************************************************************)
EXTENDS Sgb, WellFoundedInduction, SequenceTheorems, TLAPS

-----------------------------------------------------------------------------
(* The fields of a transfer.  A buffer is as long as the packets announced.*)
Buffers == UNION {[0..(SGB_PACKET_LENGTH * n - 1) -> Byte] : n \in 0..7}
Transfers ==
  [IsTransferring : BOOLEAN, HasPendingBit : BOOLEAN, PendingBit : {0, 1},
   AwaitingStopBit : BOOLEAN, BitBuffer : Byte, BitPointer : 0..7,
   BytePointer : 0..(SGB_PACKET_LENGTH - 1), PacketPointer : Byte,
   NumberOfPackets : 0..7, CurrentCommand : 0..31, Buffer : Buffers,
   JoypadRequestResolved : BOOLEAN]

(* The bits received so far are the low bits of the byte.                  *)
Receiving(t) == t \in Transfers /\ t.BitBuffer < Bit(t.BitPointer)

LEMMA BitValues ==
  /\ Bit(0) = 1 /\ Bit(1) = 2 /\ Bit(2) = 4 /\ Bit(3) = 8
  /\ Bit(4) = 16 /\ Bit(5) = 32 /\ Bit(6) = 64 /\ Bit(7) = 128
  BY DEF Bit

LEMMA BitDoubles ==
  /\ \A n \in 0..7 : Bit(n) \in 1..128
  /\ \A n \in 0..6 : Bit(n + 1) = 2 * Bit(n)
<1>1. ASSUME NEW n \in 0..7 PROVE Bit(n) \in 1..128
  <2>1. n = 0 \/ n = 1 \/ n = 2 \/ n = 3 \/ n = 4 \/ n = 5 \/ n = 6 \/ n = 7
    OBVIOUS
  <2> QED
    BY <2>1, BitValues
<1>2. ASSUME NEW n \in 0..6 PROVE Bit(n + 1) = 2 * Bit(n)
  <2>1. n = 0 \/ n = 1 \/ n = 2 \/ n = 3 \/ n = 4 \/ n = 5 \/ n = 6
    OBVIOUS
  <2> QED
    BY <2>1, BitValues
<1> QED
  BY <1>1, <1>2

LEMMA ResetReceiving == Receiving(ResetTransfer)
<1>1. NoBytes \in [0..(SGB_PACKET_LENGTH * 0 - 1) -> Byte]
  BY DEF NoBytes, SGB_PACKET_LENGTH
<1>2. NoBytes \in Buffers
  BY <1>1 DEF Buffers
<1>3. ResetTransfer \in Transfers
  BY <1>2 DEF ResetTransfer, Transfers, Byte, SGB_PACKET_LENGTH
<1> QED
  BY <1>3, BitValues DEF Receiving, ResetTransfer

(* A bit that does not end a byte.                                         *)
LEMMA PushOneBit ==
  ASSUME NEW t, Receiving(t), ~t.AwaitingStopBit, t.BitPointer # 7
  PROVE  /\ Receiving(PushBit(t))
         /\ PushBit(t) = [t EXCEPT
              !.BitBuffer = t.BitBuffer + t.PendingBit * Bit(t.BitPointer),
              !.HasPendingBit = FALSE, !.BitPointer = t.BitPointer + 1]
         /\ PushBit(t).HasPendingBit = FALSE
         /\ PushBit(t).AwaitingStopBit = FALSE
         /\ PushBit(t).IsTransferring = t.IsTransferring
         /\ PushBit(t).JoypadRequestResolved = t.JoypadRequestResolved
         /\ PushBit(t).PendingBit = t.PendingBit
         /\ PushBit(t).BytePointer = t.BytePointer
         /\ PushBit(t).PacketPointer = t.PacketPointer
         /\ PushBit(t).NumberOfPackets = t.NumberOfPackets
         /\ PushBit(t).CurrentCommand = t.CurrentCommand
         /\ PushBit(t).Buffer = t.Buffer
<1>1. PushBit(t) = WithBit(t)
  BY DEF PushBit
<1>2. t \in Transfers /\ t.BitBuffer < Bit(t.BitPointer)
  BY DEF Receiving
<1>3. t.BitPointer \in 0..6 /\ t.PendingBit \in {0, 1} /\ t.BitBuffer \in 0..255
  BY <1>2 DEF Transfers, Byte
<1> DEFINE b == t.BitBuffer + t.PendingBit * Bit(t.BitPointer)
           n == t.BitPointer + 1
<1>4. Bit(t.BitPointer) \in 1..64 /\ Bit(n) = 2 * Bit(t.BitPointer)
  <2>1. Bit(t.BitPointer) \in 1..128 /\ Bit(n) \in 1..128
        /\ Bit(n) = 2 * Bit(t.BitPointer)
    BY <1>3, BitDoubles
  <2> QED
    BY <2>1
<1>5. b \in 0..127 /\ b < Bit(n) /\ n \in 0..7
  <2>1. \A x \in 0..255, w \in 1..64, z \in {0, 1} :
          x < w => x + z * w \in 0..127 /\ x + z * w < 2 * w
    OBVIOUS
  <2>2. b \in 0..127 /\ b < 2 * Bit(t.BitPointer)
    BY <2>1, <1>2, <1>3, <1>4
  <2>3. n \in 0..7
    BY <1>3
  <2> HIDE DEF b, n
  <2> QED
    BY <2>2, <2>3, <1>4
<1>6. PushBit(t) = [t EXCEPT !.BitBuffer = b, !.HasPendingBit = FALSE,
                             !.BitPointer = n]
  BY <1>1 DEF WithBit
<1> HIDE DEF b, n
<1>7. b \in Byte
  BY <1>5 DEF Byte
<1>8. PushBit(t) \in Transfers
  BY <1>2, <1>5, <1>6, <1>7 DEF Transfers
<1>9. PushBit(t).BitBuffer = b /\ PushBit(t).BitPointer = n
  BY <1>2, <1>6 DEF Transfers
<1>10. /\ PushBit(t).HasPendingBit = FALSE
       /\ PushBit(t).AwaitingStopBit = t.AwaitingStopBit
       /\ PushBit(t).IsTransferring = t.IsTransferring
       /\ PushBit(t).JoypadRequestResolved = t.JoypadRequestResolved
       /\ PushBit(t).PendingBit = t.PendingBit
       /\ PushBit(t).BytePointer = t.BytePointer
       /\ PushBit(t).PacketPointer = t.PacketPointer
       /\ PushBit(t).NumberOfPackets = t.NumberOfPackets
       /\ PushBit(t).CurrentCommand = t.CurrentCommand
       /\ PushBit(t).Buffer = t.Buffer
  BY <1>2, <1>6, Zenon DEF Transfers
<1>11. t.AwaitingStopBit = FALSE
  BY <1>2, Zenon DEF Transfers
<1> QED
  BY <1>5, <1>6, <1>8, <1>9, <1>10, <1>11 DEF Receiving, b, n

(* A bit that ends a byte: what is made of the byte b.                     *)
StartsCommand(t) == t.BytePointer = 0 /\ t.PacketPointer = 0
Room(t, b) ==
  IF StartsCommand(t)
    THEN [i \in 0..(SGB_PACKET_LENGTH * (b % 8) - 1) |-> 0] ELSE t.Buffer

LEMMA PushLastBit ==
  ASSUME NEW t, Receiving(t), ~t.AwaitingStopBit, t.BitPointer = 7
  PROVE  LET b == t.BitBuffer + t.PendingBit * 128
             room == Room(t, b)
             full == t.BytePointer = SGB_PACKET_LENGTH - 1
             r == PushBit(t)
         IN  /\ b \in Byte /\ room \in Buffers
             /\ Receiving(r)
             /\ r.IsTransferring = t.IsTransferring /\ r.HasPendingBit = FALSE
             /\ r.PendingBit = t.PendingBit
             /\ r.JoypadRequestResolved = t.JoypadRequestResolved
             /\ r.BitBuffer = 0 /\ r.BitPointer = 0
             /\ r.CurrentCommand = IF StartsCommand(t) THEN b \div 8
                                   ELSE t.CurrentCommand
             /\ r.NumberOfPackets = IF StartsCommand(t) THEN b % 8
                                    ELSE t.NumberOfPackets
             /\ r.Buffer = [i \in DOMAIN room |->
                              IF i = Index(t) THEN b ELSE room[i]]
             /\ full => /\ r.BytePointer = 0 /\ r.AwaitingStopBit
                        /\ r.PacketPointer = (t.PacketPointer + 1) % 256
             /\ ~full => /\ r.BytePointer = t.BytePointer + 1
                         /\ ~r.AwaitingStopBit
                         /\ r.PacketPointer = t.PacketPointer
             /\ WritesOutside(t) <=> Index(t) \notin DOMAIN room
<1> DEFINE b == t.BitBuffer + t.PendingBit * 128
           room == Room(t, b)
           full == t.BytePointer = SGB_PACKET_LENGTH - 1
           r == PushBit(t)
           w == WithBit(t)
           h == WithHeader(w)
<1>1. t \in Transfers /\ t.BitBuffer < 128
  BY BitValues DEF Receiving
<1>2. t.PendingBit \in {0, 1} /\ t.BitBuffer \in 0..127
      /\ t.BytePointer \in 0..15 /\ t.PacketPointer \in 0..255
      /\ t.Buffer \in Buffers
  BY <1>1 DEF Transfers, Byte, SGB_PACKET_LENGTH
<1>3. b \in 0..255
  <2>1. \A x \in 0..127, z \in {0, 1} : x + z * 128 \in 0..255
    OBVIOUS
  <2> QED
    BY <2>1, <1>2
<1>4. b % 8 \in 0..7 /\ b \div 8 \in 0..31
  <2> HIDE DEF b
  <2> QED BY <1>3
<1>5. w = [t EXCEPT !.BitBuffer = b, !.HasPendingBit = FALSE, !.BitPointer = 8]
  <2>1. Bit(t.BitPointer) = 128 /\ t.BitPointer + 1 = 8
    BY BitValues
  <2> QED
    BY <2>1 DEF WithBit
<1> HIDE DEF b
<1> DEFINE command == IF StartsCommand(t) THEN b \div 8 ELSE t.CurrentCommand
           packets == IF StartsCommand(t) THEN b % 8 ELSE t.NumberOfPackets
<1>6. h = [w EXCEPT !.CurrentCommand = command, !.NumberOfPackets = packets,
                    !.Buffer = room]
  <2>1. w.BytePointer = t.BytePointer /\ w.PacketPointer = t.PacketPointer
        /\ w.BitBuffer = b /\ w.CurrentCommand = t.CurrentCommand
        /\ w.NumberOfPackets = t.NumberOfPackets /\ w.Buffer = t.Buffer
    BY <1>1, <1>5 DEF Transfers
  <2> HIDE DEF w
  <2>2. CASE StartsCommand(t)
    BY <2>1, <2>2 DEF WithHeader, StartsCommand, Room
  <2>3. CASE ~StartsCommand(t)
    <3>1. h = w
      BY <2>1, <2>3 DEF WithHeader, StartsCommand
    <3>2. w = [w EXCEPT !.CurrentCommand = w.CurrentCommand,
                        !.NumberOfPackets = w.NumberOfPackets,
                        !.Buffer = w.Buffer]
      BY <1>1, <1>5 DEF Transfers
    <3> QED
      BY <3>1, <3>2, <2>1, <2>3 DEF Room
  <2> QED
    BY <2>2, <2>3
<1>7. room \in Buffers /\ command \in 0..31 /\ packets \in 0..7
  <2>1. CASE StartsCommand(t)
    <3> DEFINE n == b % 8
    <3>1. n \in 0..7 /\ room = [i \in 0..(SGB_PACKET_LENGTH * n - 1) |-> 0]
      BY <2>1, <1>4 DEF Room
    <3>2. command \in 0..31 /\ packets \in 0..7
      BY <2>1, <1>4
    <3> HIDE DEF n, room, command, packets
    <3> QED
      BY <3>1, <3>2 DEF Buffers, Byte
  <2>2. CASE ~StartsCommand(t)
    BY <2>2, <1>1, <1>2 DEF Room, Transfers
  <2> QED
    BY <2>1, <2>2
<1> HIDE DEF room, command, packets
<1> DEFINE value == [t EXCEPT !.BitBuffer = b, !.HasPendingBit = FALSE,
                       !.BitPointer = 8, !.CurrentCommand = command,
                       !.NumberOfPackets = packets, !.Buffer = room]
<1>8. h = value
  BY <1>5, <1>6
<1>9. value.BitBuffer = b /\ value.BytePointer = t.BytePointer
      /\ value.PacketPointer = t.PacketPointer /\ value.Buffer = room
  BY <1>1 DEF Transfers
<1>10. Index(h) = Index(t)
  BY <1>8, <1>9 DEF Index
<1>11. WritesOutside(t) <=> Index(t) \notin DOMAIN room
  BY <1>8, <1>9, <1>10 DEF WritesOutside
<1> DEFINE buffer == [i \in DOMAIN room |-> IF i = Index(t) THEN b ELSE room[i]]
           byte == IF full THEN 0 ELSE t.BytePointer + 1
           packet == IF full THEN (t.PacketPointer + 1) % 256 ELSE t.PacketPointer
<1>12. (h.BytePointer + 1 = SGB_PACKET_LENGTH) <=> full
  BY <1>2, <1>8, <1>9 DEF SGB_PACKET_LENGTH
<1>13. r = [h EXCEPT !.Buffer = buffer, !.BitBuffer = 0, !.BitPointer = 0,
                     !.BytePointer = byte, !.PacketPointer = packet,
                     !.AwaitingStopBit = full]
  <2>1. r = WithByte(h)
    BY DEF PushBit
  <2>2. (h.BytePointer + 1 = SGB_PACKET_LENGTH) = full
    BY <1>12
  <2>3. buffer = [i \in DOMAIN h.Buffer |->
                    IF i = Index(h) THEN h.BitBuffer ELSE h.Buffer[i]]
    BY <1>8, <1>9, <1>10
  <2>4. byte = IF h.BytePointer + 1 = SGB_PACKET_LENGTH THEN 0
               ELSE h.BytePointer + 1
    BY <1>8, <1>9, <2>2
  <2>5. packet = IF h.BytePointer + 1 = SGB_PACKET_LENGTH
                 THEN (h.PacketPointer + 1) % 256 ELSE h.PacketPointer
    BY <1>8, <1>9, <2>2
  <2> HIDE DEF full, buffer, byte, packet, h, r
  <2> QED
    BY <2>1, <2>2, <2>3, <2>4, <2>5 DEF WithByte
<1>14. buffer \in Buffers /\ byte \in 0..15 /\ packet \in Byte /\ full \in BOOLEAN
  <2>1. PICK n \in 0..7 : room \in [0..(SGB_PACKET_LENGTH * n - 1) -> Byte]
    BY <1>7 DEF Buffers
  <2>2. buffer \in [0..(SGB_PACKET_LENGTH * n - 1) -> Byte]
    BY <2>1, <1>3 DEF Byte
  <2>3. byte \in 0..15
    BY <1>2 DEF SGB_PACKET_LENGTH
  <2>4. packet \in Byte
    BY <1>2 DEF Byte
  <2> QED
    BY <2>2, <2>3, <2>4 DEF Buffers
<1> HIDE DEF buffer, byte, packet, full, h, r
<1>15. r = [value EXCEPT !.Buffer = buffer, !.BitBuffer = 0, !.BitPointer = 0,
                         !.BytePointer = byte, !.PacketPointer = packet,
                         !.AwaitingStopBit = full]
  BY <1>8, <1>13
<1>16. /\ r.IsTransferring = t.IsTransferring /\ r.HasPendingBit = FALSE
       /\ r.AwaitingStopBit = full
       /\ r.JoypadRequestResolved = t.JoypadRequestResolved
  BY <1>1, <1>15, Zenon DEF Transfers
<1>17. /\ r.PendingBit = t.PendingBit
       /\ r.BitBuffer = 0 /\ r.BitPointer = 0
       /\ r.CurrentCommand = command /\ r.NumberOfPackets = packets
       /\ r.Buffer = buffer /\ r.BytePointer = byte /\ r.PacketPointer = packet
  BY <1>1, <1>15 DEF Transfers
<1>18. r \in Transfers
  <2>1. SGB_PACKET_LENGTH - 1 = 15 /\ 0 \in Byte /\ 0 \in 0..7 /\ FALSE \in BOOLEAN
    BY DEF SGB_PACKET_LENGTH, Byte
  <2>2. r = [t EXCEPT !.HasPendingBit = FALSE, !.CurrentCommand = command,
               !.NumberOfPackets = packets, !.Buffer = buffer, !.BitBuffer = 0,
               !.BitPointer = 0, !.BytePointer = byte, !.PacketPointer = packet,
               !.AwaitingStopBit = full]
    BY <1>1, <1>15 DEF Transfers
  <2> QED
    BY <1>1, <1>7, <1>14, <2>1, <2>2, Zenon DEF Transfers
<1>19. Receiving(r)
  BY <1>17, <1>18, BitValues DEF Receiving
<1>20. b \in Byte
  BY <1>3 DEF Byte
<1>21. /\ full => /\ r.BytePointer = 0 /\ r.AwaitingStopBit
                  /\ r.PacketPointer = (t.PacketPointer + 1) % 256
       /\ ~full => /\ r.BytePointer = t.BytePointer + 1 /\ ~r.AwaitingStopBit
                   /\ r.PacketPointer = t.PacketPointer
  BY <1>16, <1>17 DEF byte, packet
<1> QED
  BY <1>7, <1>11, <1>16, <1>17, <1>19, <1>20, <1>21
     DEF b, room, full, r, buffer, command, packets

(* A bit while a stop bit is awaited: only 0 ends the packet, and the bit  *)
(* stays pending.                                                          *)
LEMMA PushStopBit ==
  ASSUME NEW t, Receiving(t), t.AwaitingStopBit
  PROVE  /\ PushBit(t) = [t EXCEPT !.AwaitingStopBit = t.PendingBit # 0]
         /\ Receiving(PushBit(t))
         /\ PushBit(t).AwaitingStopBit <=> t.PendingBit # 0
         /\ PushBit(t).HasPendingBit = t.HasPendingBit
         /\ PushBit(t).IsTransferring = t.IsTransferring
         /\ PushBit(t).JoypadRequestResolved = t.JoypadRequestResolved
         /\ PushBit(t).PendingBit = t.PendingBit
         /\ PushBit(t).BitBuffer = t.BitBuffer
         /\ PushBit(t).BitPointer = t.BitPointer
         /\ PushBit(t).BytePointer = t.BytePointer
         /\ PushBit(t).PacketPointer = t.PacketPointer
         /\ PushBit(t).NumberOfPackets = t.NumberOfPackets
         /\ PushBit(t).CurrentCommand = t.CurrentCommand
         /\ PushBit(t).Buffer = t.Buffer
<1>1. PushBit(t) = [t EXCEPT !.AwaitingStopBit = t.PendingBit # 0]
  BY DEF PushBit
<1> DEFINE still == t.PendingBit # 0
<1>2. still \in BOOLEAN
  OBVIOUS
<1> HIDE DEF still
<1>3. PushBit(t) = [t EXCEPT !.AwaitingStopBit = still]
  BY <1>1 DEF still
<1>4. PushBit(t) \in Transfers
  BY <1>2, <1>3, Zenon DEF Receiving, Transfers
<1>5. /\ PushBit(t).AwaitingStopBit = still
      /\ PushBit(t).HasPendingBit = t.HasPendingBit
      /\ PushBit(t).IsTransferring = t.IsTransferring
      /\ PushBit(t).JoypadRequestResolved = t.JoypadRequestResolved
      /\ PushBit(t).PendingBit = t.PendingBit
      /\ PushBit(t).BitBuffer = t.BitBuffer
      /\ PushBit(t).BitPointer = t.BitPointer
      /\ PushBit(t).BytePointer = t.BytePointer
      /\ PushBit(t).PacketPointer = t.PacketPointer
      /\ PushBit(t).NumberOfPackets = t.NumberOfPackets
      /\ PushBit(t).CurrentCommand = t.CurrentCommand
      /\ PushBit(t).Buffer = t.Buffer
  BY <1>3, Zenon DEF Receiving, Transfers
<1>6. Receiving(PushBit(t))
  BY <1>4, <1>5 DEF Receiving
<1>7. still <=> t.PendingBit # 0
  BY DEF still
<1> QED
  BY <1>1, <1>5, <1>6, <1>7, Zenon

-----------------------------------------------------------------------------
(* Between two instructions no command waits to be executed; a bit is      *)
(* pending only in a transfer; and once the register has been 3 for an     *)
(* instruction, what is pending is at most a stop bit: one that was 1, or  *)
(* one that will be the first bit of another byte.                         *)
Listening(t, bits) ==
  /\ Receiving(t)
  /\ ~Complete(t)
  /\ t.HasPendingBit => t.IsTransferring
  /\ t.AwaitingStopBit => t.BitPointer = 0
  /\ t.HasPendingBit /\ bits = 3 =>
       t.BitPointer = 0 /\ (t.AwaitingStopBit => t.PendingBit # 0)

LEMMA ResetListens == \A bits : Listening(ResetTransfer, bits)
  BY ResetReceiving DEF Listening, ResetTransfer, Complete

(* Whatever pushBit makes of a transfer, but for what completes a command. *)
LEMMA PushListens ==
  ASSUME NEW t, NEW bits \in 0..3, Listening(t, bits), ~Complete(PushBit(t)),
         t.IsTransferring
  PROVE  Listening(PushBit(t), 3)
<1> DEFINE r == PushBit(t)
<1>1. t \in Transfers
  BY DEF Listening, Receiving
<1>2. CASE t.AwaitingStopBit
  <2>1. /\ Receiving(r)
        /\ r.IsTransferring = t.IsTransferring /\ r.HasPendingBit = t.HasPendingBit
        /\ (r.AwaitingStopBit <=> t.PendingBit # 0)
        /\ r.BitPointer = t.BitPointer /\ r.PendingBit = t.PendingBit
    BY <1>2, PushStopBit DEF Listening
  <2> QED
    BY <1>2, <2>1 DEF Listening
<1>3. CASE ~t.AwaitingStopBit /\ t.BitPointer # 7
  <2>1. Receiving(r) /\ r.HasPendingBit = FALSE /\ r.AwaitingStopBit = FALSE
    BY <1>1, <1>3, PushOneBit DEF Listening, Transfers
  <2> QED
    BY <2>1 DEF Listening
<1>4. CASE ~t.AwaitingStopBit /\ t.BitPointer = 7
  <2>1. Receiving(r) /\ r.HasPendingBit = FALSE /\ r.BitPointer = 0
    BY <1>4, PushLastBit DEF Listening
  <2> QED
    BY <2>1 DEF Listening
<1> QED
  BY <1>2, <1>3, <1>4

(* A register that is still 3 completes no command.                        *)
LEMMA OnlyAPulseCompletes ==
  ASSUME NEW t, Listening(t, 3), Pushes(t, 3)
  PROVE  ~Complete(PushBit(t))
<1> DEFINE r == PushBit(t)
<1>1. t \in Transfers /\ t.HasPendingBit /\ t.BitPointer = 0 /\ ~Complete(t)
      /\ (t.AwaitingStopBit => t.PendingBit # 0)
  BY DEF Listening, Receiving, Pushes
<1>2. CASE t.AwaitingStopBit
  <2>1. Receiving(t)
    BY DEF Listening
  <2>2. r.AwaitingStopBit <=> t.PendingBit # 0
    BY <1>2, <2>1, PushStopBit
  <2> QED
    BY <1>1, <1>2, <2>2 DEF Complete
<1>3. CASE ~t.AwaitingStopBit
  <2>1. r.NumberOfPackets = t.NumberOfPackets /\ r.PacketPointer = t.PacketPointer
        /\ r.AwaitingStopBit = FALSE
    <3>1. Receiving(t) /\ t.BitPointer # 7
      BY <1>1 DEF Listening
    <3> QED
      BY <1>3, <3>1, PushOneBit
  <2> QED
    BY <1>1, <1>3, <2>1 DEF Complete
<1> QED
  BY <1>2, <1>3

(* The five cases of processSGBData.                                       *)
LEMMA ReceivedCases ==
  ASSUME NEW t \in Transfers, NEW bits \in 0..3
  PROVE  \/ ~t.IsTransferring
              /\ Received(t, bits) = [t EXCEPT !.IsTransferring = bits = 3]
         \/ Pushes(t, bits) /\ bits = 3 /\ Received(t, bits) = PushBit(t)
         \/ /\ t.IsTransferring /\ bits = 3 /\ ~t.HasPendingBit
            /\ Received(t, bits) = t
         \/ /\ t.IsTransferring /\ bits \in {1, 2}
            /\ Received(t, bits) =
                 [t EXCEPT !.HasPendingBit = TRUE, !.PendingBit = 2 - bits]
         \/ t.IsTransferring /\ bits = 0 /\ Received(t, bits) = ResetTransfer
<1>1. bits = 0 \/ bits = 1 \/ bits = 2 \/ bits = 3
  OBVIOUS
<1>2. t.IsTransferring \in BOOLEAN /\ t.HasPendingBit \in BOOLEAN
  BY SMTT(30) DEF Transfers
<1> QED
  BY <1>1, <1>2 DEF Received, Pushes

LEMMA ReceivedListens ==
  ASSUME NEW t, NEW bits \in 0..3, NEW before \in 0..3, Listening(t, before),
         ~(Pushes(t, bits) /\ Complete(Received(t, bits)))
  PROVE  /\ Listening(Received(t, bits), bits)
         /\ bits # 0 => Received(t, bits).JoypadRequestResolved =
                          t.JoypadRequestResolved
<1> DEFINE r == Received(t, bits)
<1> SUFFICES /\ Listening(r, bits)
             /\ bits # 0 => r.JoypadRequestResolved = t.JoypadRequestResolved
  OBVIOUS
<1>1. t \in Transfers /\ Receiving(t)
  BY DEF Listening, Receiving
<1>2. CASE ~t.IsTransferring /\ r = [t EXCEPT !.IsTransferring = bits = 3]
  <2> DEFINE confirmed == bits = 3
  <2>1. confirmed \in BOOLEAN
    OBVIOUS
  <2>2. r = [t EXCEPT !.IsTransferring = confirmed]
    BY <1>2
  <2> HIDE DEF confirmed
  <2>3. r \in Transfers
    BY <1>1, <2>1, <2>2, Zenon DEF Transfers
  <2>4. /\ r.HasPendingBit = t.HasPendingBit
        /\ r.AwaitingStopBit = t.AwaitingStopBit
        /\ r.JoypadRequestResolved = t.JoypadRequestResolved
        /\ r.NumberOfPackets = t.NumberOfPackets
        /\ r.PacketPointer = t.PacketPointer
        /\ r.BitBuffer = t.BitBuffer /\ r.BitPointer = t.BitPointer
    BY <1>1, <2>2, Zenon DEF Transfers
  <2> HIDE DEF r
  <2> QED
    BY <1>2, <2>3, <2>4 DEF Listening, Receiving, Complete
<1>3. CASE Pushes(t, bits) /\ bits = 3 /\ r = PushBit(t)
  <2>1. Listening(r, 3)
    BY <1>3, PushListens DEF Pushes, Listening
  <2>2. r.JoypadRequestResolved = t.JoypadRequestResolved
    <3>1. CASE t.AwaitingStopBit
      BY <1>1, <1>3, <3>1, PushStopBit
    <3>2. CASE ~t.AwaitingStopBit /\ t.BitPointer # 7
      BY <1>1, <1>3, <3>2, PushOneBit, ZenonT(60)
    <3>3. CASE ~t.AwaitingStopBit /\ t.BitPointer = 7
      BY <1>1, <1>3, <3>3, PushLastBit, ZenonT(60)
    <3> QED
      BY <3>1, <3>2, <3>3
  <2> QED
    BY <1>3, <2>1, <2>2
<1>4. CASE t.IsTransferring /\ bits = 3 /\ ~t.HasPendingBit /\ r = t
  BY <1>4 DEF Listening
<1>5. CASE /\ t.IsTransferring /\ bits \in {1, 2}
           /\ r = [t EXCEPT !.HasPendingBit = TRUE, !.PendingBit = 2 - bits]
  <2> DEFINE bit == 2 - bits
  <2>1. bit \in {0, 1} /\ TRUE \in BOOLEAN
    BY <1>5
  <2>2. r = [t EXCEPT !.HasPendingBit = TRUE, !.PendingBit = bit]
    BY <1>5
  <2> HIDE DEF bit
  <2>3. r \in Transfers
    BY <1>1, <2>1, <2>2, Zenon DEF Transfers
  <2>4. /\ r.IsTransferring = t.IsTransferring
        /\ r.AwaitingStopBit = t.AwaitingStopBit
        /\ r.JoypadRequestResolved = t.JoypadRequestResolved
        /\ r.NumberOfPackets = t.NumberOfPackets
        /\ r.PacketPointer = t.PacketPointer
        /\ r.BitBuffer = t.BitBuffer /\ r.BitPointer = t.BitPointer
    BY <1>1, <2>2, Zenon DEF Transfers
  <2>5. bits # 3
    BY <1>5
  <2> HIDE DEF r
  <2> QED
    BY <1>5, <2>3, <2>4, <2>5 DEF Listening, Receiving, Complete
<1>6. CASE t.IsTransferring /\ bits = 0 /\ r = ResetTransfer
  BY <1>6, ResetListens
<1> QED
  BY <1>1, <1>2, <1>3, <1>4, <1>5, <1>6, ReceivedCases

-----------------------------------------------------------------------------
(* Sets of numbers have a least element if they are not empty, and bounded *)
(* ones a largest: the last line, block or byte that applies to a tile.    *)
LEMMA LeastNatural ==
  ASSUME NEW T \in SUBSET Nat, T # {}
  PROVE  \E n \in T : \A m \in T : n <= m
<1> DEFINE R == OpToRel(<, Nat)
<1>1. IsWellFoundedOn(R, Nat)
  BY NatLessThanWellFounded
<1> HIDE DEF R
<1>2. PICK x \in T : \A y \in T : ~ (<<y, x>> \in R)
  BY <1>1, WFMin
<1>3. \A y \in Nat, z \in Nat : <<y, z>> \in R <=> y < z
  BY DEF R, OpToRel
<1>4. \A y \in T : y \in Nat /\ x \in Nat
  OBVIOUS
<1>5. \A y \in T : ~ (y < x)
  BY <1>2, <1>3, <1>4, Zenon
<1> QED
  BY <1>4, <1>5

LEMMA MaxOfBounded ==
  ASSUME NEW n \in Nat, NEW S \in SUBSET (0..n), S # {}
  PROVE  Max(S) \in S /\ \A s \in S : s <= Max(S)
<1> DEFINE T == {n - s : s \in S}
<1>1. T \in SUBSET Nat /\ T # {}
  <2>1. \A s \in S : n - s \in Nat
    OBVIOUS
  <2>2. PICK s \in S : TRUE
    OBVIOUS
  <2>3. n - s \in T
    BY <2>2
  <2> QED
    BY <2>1, <2>3
<1>2. PICK t \in T : \A u \in T : t <= u
  BY <1>1, LeastNatural
<1>3. PICK m \in S : t = n - m
  OBVIOUS
<1>4. \A s \in S : m >= s
  <2> TAKE s \in S
  <2>1. n - m <= n - s
    BY <1>2, <1>3
  <2>2. m \in Int /\ s \in Int
    OBVIOUS
  <2> QED
    BY <2>1, <2>2
<1>5. \E x \in S : \A s \in S : x >= s
  BY <1>4
<1>6. Max(S) \in S /\ \A s \in S : Max(S) >= s
  BY <1>5, Zenon DEF Max
<1> QED
  BY <1>6

-----------------------------------------------------------------------------
(* The screen and the controllers, and what a command makes of them.       *)
ScreenOK ==
  /\ Palettes \in [0..3 -> [0..3 -> Colours]]
  /\ TilePalettes \in [Tiles -> 0..3]
  /\ MaskState \in 0..3 /\ HasPriority \in BOOLEAN
  /\ PlayersMode \in 0..3 /\ CurrentController \in 0..3
  /\ ColourZeroShared

EffectOK(e) ==
  /\ e.pal \in [0..3 -> [0..3 -> Colours]]
  /\ e.tile \in [Tiles -> 0..3]
  /\ e.mask \in 0..3 /\ e.prio \in BOOLEAN
  /\ e.players \in 0..3 /\ e.controller \in 0..3
  /\ \A n \in 0..3 : e.pal[n][0] = e.pal[0][0]
  /\ \/ e.players = PlayersMode /\ e.controller = CurrentController
     \/ e.controller = 0

(* A command that only sets tiles, or only adds a block.                   *)
LEMMA UnchangedOK ==
  ASSUME ScreenOK
  PROVE  /\ EffectOK(Unchanged)
         /\ \A tile \in [Tiles -> 0..3] : \A over :
              EffectOK([Unchanged EXCEPT !.tile = tile, !.over = over])
         /\ \A tile \in [Tiles -> 0..3] : EffectOK([Unchanged EXCEPT !.tile = tile])
         /\ \A blocks, over :
              EffectOK([Unchanged EXCEPT !.blocks = blocks, !.over = over])
  BY DEF ScreenOK, EffectOK, Unchanged, ColourZeroShared

LEMMA ByteParts ==
  ASSUME NEW x \in Byte
  PROVE  /\ x % 4 \in 0..3 /\ (x \div 4) % 4 \in 0..3 /\ (x \div 16) % 4 \in 0..3
         /\ (x \div 32) % 4 \in 0..3 /\ x % 32 \in 0..31
         /\ x \div 8 \in 0..31 /\ x % 8 \in 0..7
         /\ \A y \in 1..128 : (x \div y) % 4 \in 0..3
  BY DEF Byte

LEMMA WordOfBytes ==
  ASSUME NEW low \in 0..255, NEW high \in 0..255
  PROVE  low + 256 * high \in Colours
  BY DEF Colours

LEMMA PalpqOK ==
  ASSUME ScreenOK, NEW B \in [0..256 -> Byte], NEW p \in 0..3, NEW q \in 0..3,
         NEW packets
  PROVE  EffectOK(Palpq(B, p, q, packets))
<1>1. CASE packets # 1
  BY <1>1, UnchangedOK DEF Palpq
<1>2. CASE packets = 1
  <2> DEFINE colour(i) == B[i] + 256 * B[i + 1]
             set == [n \in 0..3 |-> [j \in 0..3 |->
                       IF n = p THEN colour(2 * j + 1)
                       ELSE IF n = q /\ j > 0 THEN colour(2 * j + 7)
                       ELSE Palettes[n][j]]]
             pal == [n \in 0..3 |->
                      [j \in 0..3 |-> IF j = 0 THEN set[p][0] ELSE set[n][j]]]
  <2>1. Palpq(B, p, q, packets) = [Unchanged EXCEPT !.pal = pal]
    BY <1>2, SMTT(30) DEF Palpq
  <2>2. ASSUME NEW i \in 0..255 PROVE colour(i) \in Colours
    <3>1. i \in 0..256 /\ i + 1 \in 0..256
      OBVIOUS
    <3>2. B[i] \in Byte /\ B[i + 1] \in Byte
      BY <3>1
    <3>3. B[i] \in 0..255 /\ B[i + 1] \in 0..255
      BY <3>2 DEF Byte
    <3> QED
      BY <3>3, WordOfBytes, ZenonT(60)
  <2>3. \A n, j \in 0..3 : set[n][j] \in Colours
    <3> TAKE n \in 0..3, j \in 0..3
    <3>1. 2 * j + 1 \in 0..255 /\ 2 * j + 7 \in 0..255 /\ Palettes[n][j] \in Colours
      BY DEF ScreenOK
    <3>2. colour(2 * j + 1) \in Colours /\ colour(2 * j + 7) \in Colours
      BY <2>2, <3>1
    <3> HIDE DEF colour
    <3> QED
      BY <3>1, <3>2, SMTT(30)
  <2> HIDE DEF set
  <2>4. pal \in [0..3 -> [0..3 -> Colours]]
    BY <2>3
  <2>5. \A n \in 0..3 : pal[n][0] = pal[0][0]
    OBVIOUS
  <2> HIDE DEF pal
  <2> QED
    BY <2>1, <2>4, <2>5 DEF EffectOK, Unchanged, ScreenOK
<1> QED
  BY <1>1, <1>2

LEMMA AttrDivOK ==
  ASSUME ScreenOK, NEW B \in [0..256 -> Byte]
  PROVE  EffectOK(AttrDiv(B))
<1> DEFINE line == B[2] % 32
           palette(x) == IF x < line THEN (B[1] \div 4) % 4
                         ELSE IF x = line THEN (B[1] \div 16) % 4
                         ELSE B[1] % 4
           tile == [t \in Tiles |-> palette(t % HORIZONTAL_TILES)]
<1>1. B[1] \in Byte
  OBVIOUS
<1>2. \A x : palette(x) \in 0..3
  BY <1>1, ByteParts
<1>3. tile \in [Tiles -> 0..3]
  <2> HIDE DEF palette
  <2> QED BY <1>2
<1>4. AttrDiv(B) = Unchanged \/ AttrDiv(B) = [Unchanged EXCEPT !.tile = tile]
  BY DEF AttrDiv
<1> HIDE DEF tile
<1> QED
  BY <1>3, <1>4, UnchangedOK

LEMMA AttrLinOK ==
  ASSUME ScreenOK, NEW B \in [0..256 -> Byte]
  PROVE  EffectOK(AttrLin(B))
<1> DEFINE lines(t) == {i \in 2..(B[1] + 1) : t \in LineTiles(B[i])}
           tile == [t \in Tiles |-> IF lines(t) = {} THEN TilePalettes[t]
                                    ELSE (B[Max(lines(t))] \div 32) % 4]
           over == \E i \in 2..(B[1] + 1) : ~(LineTiles(B[i]) \subseteq Tiles)
<1>1. B[1] \in 0..255
  <2>1. B[1] \in Byte
    OBVIOUS
  <2> QED
    BY <2>1, ZenonT(60) DEF Byte
<1>2. ASSUME NEW t \in Tiles PROVE tile[t] \in 0..3
  <2>1. CASE lines(t) = {}
    BY <2>1 DEF ScreenOK
  <2>2. CASE lines(t) # {}
    <3>1. lines(t) \in SUBSET (0..256)
      BY <1>1
    <3> HIDE DEF lines
    <3>2. Max(lines(t)) \in 0..256
      BY <2>2, <3>1, MaxOfBounded
    <3>3. (B[Max(lines(t))] \div 32) % 4 \in 0..3
      BY <3>2, ByteParts, SMTT(30)
    <3> QED
      BY <2>2, <3>3
  <2> QED
    BY <2>1, <2>2, ZenonT(60)
<1>3. tile \in [Tiles -> 0..3]
  BY <1>2
<1>4. AttrLin(B) = [Unchanged EXCEPT !.tile = tile, !.over = over]
  BY DEF AttrLin
<1> HIDE DEF tile, over
<1> QED
  BY <1>3, <1>4, UnchangedOK, ZenonT(60)

LEMMA AttrBlkOK ==
  ASSUME ScreenOK, NEW B \in [0..256 -> Byte]
  PROVE  EffectOK(AttrBlk(B))
<1> DEFINE blocks(t) == {n \in 1..(B[1] % 32) : BlockPart(B, n, t) # "kept"}
           tile == [t \in Tiles |-> IF blocks(t) = {} THEN TilePalettes[t]
                                    ELSE BlockPalette(B, Max(blocks(t)), t)]
<1>1. CASE B[1] % 32 > 18
  BY <1>1, UnchangedOK DEF AttrBlk
<1>2. CASE ~(B[1] % 32 > 18)
  <2>1. B[1] \in Byte
    OBVIOUS
  <2>2. B[1] % 32 \in 0..18
    BY <1>2, <2>1, ByteParts, SMTT(30)
  <2>3. ASSUME NEW t \in Tiles PROVE tile[t] \in 0..3
    <3>1. CASE blocks(t) = {}
      BY <3>1, <2>3 DEF ScreenOK
    <3>2. CASE blocks(t) # {}
      <4>1. blocks(t) \in SUBSET (0..18)
        BY <2>2
      <4> DEFINE n == Max(blocks(t))
      <4>2. n \in blocks(t)
        <5> HIDE DEF blocks
        <5> QED BY <3>2, <4>1, MaxOfBounded
      <4>3. n \in 1..18 /\ BlockPart(B, n, t) # "kept"
        BY <4>2, <2>2
      <4> HIDE DEF n
      <4>4. B[6 * n - 3] \in Byte
        <5>1. 6 * n - 3 \in 0..256
          BY <4>3
        <5> QED
          BY <5>1
      <4>5. BlockPart(B, n, t) \in {"line", "inside", "outside", "kept"}
        BY SMTT(30) DEF BlockPart
      <4>6. BlockPalette(B, n, t) \in 0..3
        BY <4>3, <4>4, <4>5, ByteParts DEF BlockPalette
      <4> QED
        BY <3>2, <4>6 DEF n
    <3> QED
      BY <3>1, <3>2
  <2>4. tile \in [Tiles -> 0..3]
    BY <2>3
  <2>5. AttrBlk(B) = [Unchanged EXCEPT !.tile = tile]
    BY <1>2 DEF AttrBlk
  <2> HIDE DEF tile
  <2> QED
    BY <2>4, <2>5, UnchangedOK
<1> QED
  BY <1>1, <1>2

LEMMA AttrChrOK ==
  ASSUME ScreenOK, NEW B \in [0..256 -> Byte]
  PROVE  EffectOK(AttrChr(B))
<1> DEFINE written == CharWrites(B)
           writes(t) == {w \in DOMAIN written : written[w] = t}
           palette(w) == (B[6 + (w \div 4)] \div Bit(6 - 2 * (w % 4))) % 4
           tile == [t \in Tiles |-> IF writes(t) = {} THEN TilePalettes[t]
                                    ELSE palette(Max(writes(t)))]
           over == \E w \in DOMAIN written : written[w] \notin Tiles
<1>1. DOMAIN written \in SUBSET (0..335)
  BY DEF CharWrites
<1> HIDE DEF written
<1>2. ASSUME NEW w \in 0..335 PROVE palette(w) \in 0..3
  <2>1. 6 + (w \div 4) \in 0..256 /\ 6 - 2 * (w % 4) \in 0..7
    OBVIOUS
  <2>2. B[6 + (w \div 4)] \in Byte
    BY <2>1
  <2>3. Bit(6 - 2 * (w % 4)) \in 1..128
    BY <2>1, BitDoubles, SMTT(30)
  <2> QED
    BY <2>2, <2>3, ByteParts, ZenonT(60)
<1>3. ASSUME NEW t \in Tiles PROVE tile[t] \in 0..3
  <2>1. CASE writes(t) = {}
    BY <2>1, <1>3 DEF ScreenOK
  <2>2. CASE writes(t) # {}
    <3>1. writes(t) \in SUBSET (0..335)
      BY <1>1
    <3>2. Max(writes(t)) \in 0..335
      <4> DEFINE W == writes(t)
      <4>1. W \in SUBSET (0..335) /\ W # {}
        BY <2>2, <3>1
      <4> HIDE DEF W
      <4>2. Max(W) \in W
        BY <4>1, MaxOfBounded, SMTT(30)
      <4> QED
        BY <4>1, <4>2 DEF W
    <3>3. palette(Max(writes(t))) \in 0..3
      BY <1>2, <3>2, ZenonT(60)
    <3> HIDE DEF palette, writes
    <3> QED
      BY <2>2, <3>3
  <2> QED
    BY <2>1, <2>2, ZenonT(60)
<1>4. tile \in [Tiles -> 0..3]
  BY <1>3, ZenonT(60)
<1>5. \/ AttrChr(B) = Unchanged
      \/ AttrChr(B) = [Unchanged EXCEPT !.tile = tile, !.over = over]
  BY DEF AttrChr, written
<1> HIDE DEF tile, over
<1> QED
  BY <1>4, <1>5, UnchangedOK, ZenonT(60)

(* Whatever command a buffer holds, it leaves palettes palettes and tiles  *)
(* tiles, and the first colour shared; and it gives the first controller   *)
(* its turn or none.                                                       *)
LEMMA BytesType ==
  ASSUME NEW buffer \in Buffers
  PROVE  Bytes(buffer) \in [0..256 -> Byte]
<1>1. PICK n \in 0..7 : buffer \in [0..(SGB_PACKET_LENGTH * n - 1) -> Byte]
  BY DEF Buffers
<1>2. \A i \in DOMAIN buffer : buffer[i] \in Byte
  BY <1>1
<1>3. 0 \in Byte
  BY DEF Byte
<1> QED
  BY <1>2, <1>3 DEF Bytes

LEMMA EffectsOK ==
  ASSUME ScreenOK, NEW t \in Transfers
  PROVE  EffectOK(Effect(t))
<1> DEFINE B == Bytes(t.Buffer)
           n == t.NumberOfPackets
           c == t.CurrentCommand
<1>1. B \in [0..256 -> Byte]
  BY BytesType DEF Transfers
<1>2. B[1] \in Byte
  BY <1>1
<1> HIDE DEF B
<1>3. \A p, q \in 0..3 : EffectOK(Palpq(B, p, q, n))
  BY <1>1, PalpqOK
<1>4. EffectOK(AttrBlk(B)) /\ EffectOK(AttrLin(B)) /\ EffectOK(AttrDiv(B))
      /\ EffectOK(AttrChr(B)) /\ EffectOK(Unchanged)
  BY <1>1, AttrBlkOK, AttrLinOK, AttrDivOK, AttrChrOK, UnchangedOK
<1>5. EffectOK(DataSnd(B))
  <2> DEFINE added == Append(RamBlocks, BlockKey(B))
             over == Len(RamBlocks) > 0
  <2>1. DataSnd(B) = Unchanged
        \/ DataSnd(B) = [Unchanged EXCEPT !.blocks = added, !.over = over]
    BY DEF DataSnd
  <2>2. CASE DataSnd(B) = Unchanged
    BY <2>2, <1>4
  <2>3. CASE DataSnd(B) = [Unchanged EXCEPT !.blocks = added, !.over = over]
    <3> HIDE DEF added, over
    <3>1. EffectOK([Unchanged EXCEPT !.blocks = added, !.over = over])
      BY UnchangedOK
    <3> QED
      BY <2>3, <3>1
  <2> QED
    BY <2>1, <2>2, <2>3
<1>6. EffectOK(MltReq(B))
  BY <1>2, ByteParts DEF MltReq, EffectOK, ScreenOK, Unchanged, ColourZeroShared
<1>7. EffectOK(MaskEn(B, n))
  <2>1. MaskEn(B, n) = Unchanged
        \/ MaskEn(B, n) = [Unchanged EXCEPT !.mask = B[1] % 4]
    BY DEF MaskEn
  <2> QED
    BY <2>1, <1>2, ByteParts
       DEF EffectOK, ScreenOK, Unchanged, ColourZeroShared
<1>8. EffectOK(PalPri(B))
  <2> DEFINE prio == B[1] % 2 = 1
  <2>1. PalPri(B) = [Unchanged EXCEPT !.prio = prio] /\ prio \in BOOLEAN
    BY DEF PalPri
  <2> HIDE DEF prio
  <2> QED
    BY <2>1 DEF EffectOK, ScreenOK, Unchanged, ColourZeroShared
<1>9. Effect(t) \in {Palpq(B, 0, 1, n), Palpq(B, 2, 3, n), Palpq(B, 0, 3, n),
                     Palpq(B, 1, 2, n), AttrBlk(B), AttrLin(B), AttrDiv(B),
                     AttrChr(B), DataSnd(B), MltReq(B), MaskEn(B, n), PalPri(B),
                     Unchanged}
  <2>1. c \in 0..31
    BY DEF Transfers
  <2> HIDE DEF n
  <2> QED
    BY <2>1 DEF Effect, B, n
<1> QED
  BY <1>3, <1>4, <1>5, <1>6, <1>7, <1>8, <1>9

(* Only a MLT_REQ changes who plays, and it begins with the first.         *)
LEMMA OnlyMltReqSetsPlayers ==
  ASSUME NEW r \in Transfers
  PROVE  IF r.CurrentCommand = 17 THEN Effect(r).controller = 0
         ELSE /\ Effect(r).players = PlayersMode
              /\ Effect(r).controller = CurrentController
<1> DEFINE B == Bytes(r.Buffer)
           n == r.NumberOfPackets
           c == r.CurrentCommand
           Keeps(e) == e.players = PlayersMode /\ e.controller = CurrentController
<1>1. CASE c = 17
  <2>1. Effect(r) = MltReq(B)
    BY <1>1 DEF Effect
  <2> HIDE DEF B
  <2>2. MltReq(B).controller = 0
    BY DEF MltReq, Unchanged
  <2> QED
    BY <1>1, <2>1, <2>2
<1>2. CASE c # 17
  <2>1. Keeps(Unchanged)
    BY DEF Unchanged
  <2> HIDE DEF B, n
  <2>2. \A p, q : Keeps(Palpq(B, p, q, n))
    BY <2>1 DEF Palpq, Unchanged
  <2>3. Keeps(AttrBlk(B)) /\ Keeps(AttrDiv(B)) /\ Keeps(AttrLin(B))
    BY <2>1 DEF AttrBlk, AttrDiv, AttrLin, Unchanged
  <2>4. Keeps(AttrChr(B)) /\ Keeps(DataSnd(B))
    BY <2>1 DEF AttrChr, DataSnd, Unchanged
  <2>5. Keeps(MaskEn(B, n)) /\ Keeps(PalPri(B))
    BY <2>1 DEF MaskEn, PalPri, Unchanged
  <2>6. Effect(r) \in {Palpq(B, 0, 1, n), Palpq(B, 2, 3, n), Palpq(B, 0, 3, n),
                       Palpq(B, 1, 2, n), AttrBlk(B), AttrLin(B), AttrDiv(B),
                       AttrChr(B), DataSnd(B), MaskEn(B, n), PalPri(B), Unchanged}
    <3>1. c \in 0..31
      BY DEF Transfers
    <3> QED
      BY <1>2, <3>1 DEF Effect, B, n
  <2> HIDE DEF Keeps
  <2>7. Keeps(Effect(r))
    BY <2>1, <2>2, <2>3, <2>4, <2>5, <2>6
  <2> QED
    BY <1>2, <2>7 DEF Keeps
<1> QED
  BY <1>1, <1>2

-----------------------------------------------------------------------------
(* What the game writes are pulses.                                        *)
LEMMA BitsAreBits ==
  ASSUME NEW p \in [1..SGB_PACKET_LENGTH -> Byte], NEW i \in 1..128
  PROVE  BitOf(p, i) \in {0, 1}
<1>1. (i - 1) \div 8 + 1 \in 1..16 /\ (i - 1) % 8 \in 0..7
  OBVIOUS
<1> DEFINE byte == p[(i - 1) \div 8 + 1]
           bit == Bit((i - 1) % 8)
<1>2. byte \in Byte
  BY <1>1 DEF SGB_PACKET_LENGTH
<1>3. bit \in 1..128
  BY <1>1, BitDoubles
<1>4. BitOf(p, i) = (byte \div bit) % 2
  BY DEF BitOf
<1> HIDE DEF byte, bit
<1>5. byte \div bit \in Int
  BY <1>2, <1>3 DEF Byte
<1> QED
  BY <1>4, <1>5

LEMMA PulsesArePulses ==
  ASSUME NEW p \in [1..SGB_PACKET_LENGTH -> Byte], NEW i \in -1..258
  PROVE  PacketPulse(p, i) \in 0..3
<1>1. CASE i = -1 \/ i % 2 = 0 \/ i = 257
  BY <1>1 DEF PacketPulse
<1>2. CASE ~(i = -1 \/ i % 2 = 0 \/ i = 257)
  <2>1. (i + 1) \div 2 \in 1..128
    BY <1>2
  <2>2. BitOf(p, (i + 1) \div 2) \in {0, 1}
    BY <2>1, BitsAreBits
  <2>3. PacketPulse(p, i) = 2 - BitOf(p, (i + 1) \div 2)
    BY <1>2 DEF PacketPulse
  <2> QED
    BY <2>2, <2>3
<1> QED
  BY <1>1, <1>2

LEMMA CommandsArePulses ==
  ASSUME NEW c \in Commands
  PROVE  CommandPulses(c) \in Seq(0..3)
<1>1. c \in Seq([1..SGB_PACKET_LENGTH -> Byte]) /\ Len(c) \in Nat
  BY CommandsAssumption
<1>2. CASE ResetsEach
  <2> DEFINE pulse(i) == PacketPulse(c[((i - 1) \div 260) + 1],
                                     ((i - 1) % 260) - 1)
  <2>1. ASSUME NEW i \in 1..(260 * Len(c)) PROVE pulse(i) \in 0..3
    <3>1. ((i - 1) \div 260) + 1 \in 1..Len(c) /\ ((i - 1) % 260) - 1 \in -1..258
      BY <1>1
    <3>2. c[((i - 1) \div 260) + 1] \in [1..SGB_PACKET_LENGTH -> Byte]
      BY <1>1, <3>1
    <3> QED
      BY <3>1, <3>2, PulsesArePulses
  <2>2. CommandPulses(c) = [i \in 1..(260 * Len(c)) |-> pulse(i)]
    BY <1>2 DEF CommandPulses
  <2>3. 260 * Len(c) \in Nat
    BY <1>1
  <2> HIDE DEF pulse
  <2> QED
    BY <2>1, <2>2, <2>3
<1>3. CASE ~ResetsEach
  <2> DEFINE pulse(i) == PacketPulse(c[((i - 1) \div 258) + 1],
                                     ((i - 1) % 258) + 1)
  <2>1. ASSUME NEW i \in 1..(258 * Len(c)) PROVE pulse(i) \in 0..3
    <3>1. ((i - 1) \div 258) + 1 \in 1..Len(c) /\ ((i - 1) % 258) + 1 \in -1..258
      BY <1>1
    <3>2. c[((i - 1) \div 258) + 1] \in [1..SGB_PACKET_LENGTH -> Byte]
      BY <1>1, <3>1
    <3> QED
      BY <3>1, <3>2, PulsesArePulses
  <2>2. CommandPulses(c) = <<0, 3>> \o [i \in 1..(258 * Len(c)) |-> pulse(i)]
    BY <1>3 DEF CommandPulses
  <2>3. 258 * Len(c) \in Nat
    BY <1>1
  <2> HIDE DEF pulse
  <2>4. [i \in 1..(258 * Len(c)) |-> pulse(i)] \in Seq(0..3)
    BY <2>1, <2>3
  <2> QED
    BY <2>2, <2>4
<1> QED
  BY <1>2, <1>3

LEMMA ButtonsArePulses == ButtonOrder \o <<3>> \in Seq(0..3)
<1>1. ButtonOrder \in Seq(0..3)
  BY ButtonsAssumption
<1> QED
  BY <1>1

-----------------------------------------------------------------------------
(* The invariant of every game.  In a mode for several players a           *)
(* request is resolved exactly while the register is 3; in one for a       *)
(* single player it is the first controller's turn.                        *)
Resolving == PlayersMode > 0 =>
               (transfer.JoypadRequestResolved <=> JoypadIo = 3)
FirstAlone == PlayersMode = 0 => CurrentController = 0
GameInv ==
  /\ JoypadIo \in 0..3 /\ sending \in Seq(0..3)
  /\ Listening(transfer, JoypadIo)
  /\ ScreenOK
  /\ Resolving
  /\ FirstAlone

InTurn ==
  CurrentController' =
    IF PlayersMode' = 0 THEN 0
    ELSE IF ~(JoypadIo # 3 /\ JoypadIo' = 3) THEN CurrentController
    ELSE IF EndsMltReq THEN 1 ELSE (CurrentController + 1) % 4

LEMMA ResolvedListens ==
  ASSUME NEW t, NEW bits, Listening(t, bits), NEW flag \in BOOLEAN
  PROVE  /\ Listening([t EXCEPT !.JoypadRequestResolved = flag], bits)
         /\ [t EXCEPT !.JoypadRequestResolved = flag].JoypadRequestResolved = flag
<1> DEFINE r == [t EXCEPT !.JoypadRequestResolved = flag]
<1>1. t \in Transfers
  BY DEF Listening, Receiving
<1>2. r \in Transfers /\ r.JoypadRequestResolved = flag
  BY <1>1, Zenon DEF Transfers
<1>3. /\ r.IsTransferring = t.IsTransferring
      /\ r.HasPendingBit = t.HasPendingBit /\ r.PendingBit = t.PendingBit
      /\ r.AwaitingStopBit = t.AwaitingStopBit
      /\ r.NumberOfPackets = t.NumberOfPackets
      /\ r.PacketPointer = t.PacketPointer
      /\ r.BitBuffer = t.BitBuffer /\ r.BitPointer = t.BitPointer
  BY <1>1, Zenon DEF Transfers
<1> HIDE DEF r
<1>4. Listening(r, bits)
  BY <1>2, <1>3 DEF Listening, Receiving, Complete
<1> QED
  BY <1>2, <1>4 DEF r

LEMMA PushReceives ==
  ASSUME NEW t, Receiving(t)
  PROVE  Receiving(PushBit(t))
<1>1. CASE t.AwaitingStopBit
  BY <1>1, PushStopBit
<1>2. CASE ~t.AwaitingStopBit /\ t.BitPointer # 7
  BY <1>2, PushOneBit
<1>3. CASE ~t.AwaitingStopBit /\ t.BitPointer = 7
  BY <1>3, PushLastBit
<1> QED
  BY <1>1, <1>2, <1>3

(* One look at the register keeps the invariant, and controllers in turn.  *)
LEMMA LookKeepsGameInv ==
  ASSUME GameInv, NEW bits \in 0..3, JoypadIo' = bits, ProcessSgb(bits)
  PROVE  /\ Listening(transfer', JoypadIo') /\ ScreenOK' /\ Resolving'
         /\ FirstAlone' /\ InTurn
<1> DEFINE r == Received(transfer, bits)
           executes == Pushes(transfer, bits) /\ Complete(r)
           t == IF executes THEN AfterCommand(r) ELSE r
           e == IF executes THEN Effect(r) ELSE Unchanged
           flag == IF e.players > 0 THEN bits = 3 ELSE t.JoypadRequestResolved
<1>1. Listening(transfer, JoypadIo) /\ JoypadIo \in 0..3 /\ ScreenOK /\ Resolving
      /\ FirstAlone /\ transfer \in Transfers
  BY DEF GameInv, Listening, Receiving
<1>2. ASSUME executes
      PROVE  /\ Listening(t, bits) /\ t.JoypadRequestResolved = FALSE
             /\ EffectOK(e) /\ bits = 3 /\ JoypadIo # 3
             /\ IF EndsMltReq THEN e.controller = 0
                ELSE e.players = PlayersMode /\ e.controller = CurrentController
  <2>1. bits = 3 /\ r = PushBit(transfer)
    <3>1. Pushes(transfer, bits)
      BY <1>2
    <3> QED
      BY <3>1 DEF Pushes, Received
  <2>2. JoypadIo # 3
    BY <1>1, <1>2, <2>1, OnlyAPulseCompletes
  <2>3. r \in Transfers
    BY <1>1, <2>1, PushReceives DEF Listening, Receiving
  <2>4. EffectOK(e)
    BY <1>1, <1>2, <2>3, EffectsOK
  <2>5. t = ResetTransfer
    BY <1>2 DEF AfterCommand
  <2>6. Listening(t, bits) /\ t.JoypadRequestResolved = FALSE
    <3>1. Listening(ResetTransfer, bits)
      BY ResetListens
    <3>2. ResetTransfer.JoypadRequestResolved = FALSE
      BY DEF ResetTransfer
    <3> HIDE DEF t
    <3> QED
      BY <2>5, <3>1, <3>2
  <2>7. EndsMltReq <=> r.CurrentCommand = 17
    BY <1>2, <2>1 DEF EndsMltReq
  <2>8. e = Effect(r)
    BY <1>2
  <2>9. IF EndsMltReq THEN e.controller = 0
        ELSE e.players = PlayersMode /\ e.controller = CurrentController
    <3> HIDE DEF r, e, executes
    <3> QED BY <2>3, <2>7, <2>8, OnlyMltReqSetsPlayers
  <2> QED
    BY <2>1, <2>2, <2>4, <2>6, <2>9
<1>3. ASSUME ~executes
      PROVE  /\ Listening(t, bits) /\ EffectOK(e) /\ ~EndsMltReq
             /\ e.players = PlayersMode /\ e.controller = CurrentController
             /\ bits # 0 => t.JoypadRequestResolved = transfer.JoypadRequestResolved
  <2>1. t = r /\ e = Unchanged
    BY <1>3
  <2>2. Listening(r, bits)
        /\ (bits # 0 => r.JoypadRequestResolved = transfer.JoypadRequestResolved)
    BY <1>1, <1>3, ReceivedListens
  <2>3. e.players = PlayersMode /\ e.controller = CurrentController
    BY <2>1 DEF Unchanged
  <2>4. ~EndsMltReq
    <3>1. Pushes(transfer, bits) => r = PushBit(transfer)
      BY DEF Pushes, Received
    <3> QED
      BY <1>3, <3>1 DEF EndsMltReq
  <2> HIDE DEF r, t, e, executes
  <2> QED
    BY <1>1, <2>1, <2>2, <2>3, <2>4, UnchangedOK
<1>4. /\ transfer' = [t EXCEPT !.JoypadRequestResolved = flag]
      /\ CurrentController' =
           IF e.players = 0 THEN e.controller
           ELSE NextController(e.controller, bits, t.JoypadRequestResolved)
      /\ PlayersMode' = e.players
      /\ Palettes' = e.pal /\ TilePalettes' = e.tile
      /\ MaskState' = e.mask /\ HasPriority' = e.prio
  BY DEF ProcessSgb
<1> HIDE DEF r, executes, t, e
<1>5. Listening(t, bits) /\ EffectOK(e) /\ t.JoypadRequestResolved \in BOOLEAN
  <2>1. Listening(t, bits) /\ EffectOK(e)
    BY <1>2, <1>3
  <2> QED
    BY <2>1 DEF Listening, Receiving, Transfers
<1>6. flag \in BOOLEAN
  BY <1>5
<1>7. e.players > 0 => (flag <=> bits = 3)
  OBVIOUS
<1> HIDE DEF flag
<1>8. Listening(transfer', bits) /\ transfer'.JoypadRequestResolved = flag
  BY <1>4, <1>5, <1>6, ResolvedListens
<1>9. CurrentController' \in {e.controller, (e.controller + 1) % 4}
  BY <1>4 DEF NextController
<1>10. ScreenOK'
  <2>1. e.controller \in 0..3
    BY <1>5 DEF EffectOK
  <2>2. CurrentController' \in 0..3
    BY <1>9, <2>1
  <2> QED
    BY <1>4, <1>5, <2>2 DEF EffectOK, ScreenOK, ColourZeroShared
<1>11. Resolving'
  BY <1>4, <1>7, <1>8 DEF Resolving
<1>12. e.players \in 0..3 /\ e.controller \in 0..3 /\ CurrentController \in 0..3
  BY <1>1, <1>5 DEF EffectOK, ScreenOK
<1>13. e.players = 0 => CurrentController' = 0
  <2> SUFFICES ASSUME e.players = 0 PROVE e.controller = 0
    BY <1>4
  <2>1. CASE executes
    BY <1>1, <1>2, <2>1 DEF FirstAlone
  <2>2. CASE ~executes
    BY <1>1, <1>3, <2>2 DEF FirstAlone
  <2> QED
    BY <2>1, <2>2
<1>14. FirstAlone'
  BY <1>4, <1>13 DEF FirstAlone
<1>15. InTurn
  <2>1. CASE e.players = 0
    BY <1>4, <1>13, <2>1 DEF InTurn
  <2>2. CASE executes /\ e.players # 0
    <3>1. bits = 3 /\ JoypadIo # 3 /\ ~t.JoypadRequestResolved
      BY <1>2, <2>2
    <3>2. CurrentController' = (e.controller + 1) % 4
      BY <1>4, <2>2, <3>1 DEF NextController
    <3>3. e.controller = IF EndsMltReq THEN 0 ELSE CurrentController
      BY <1>2, <2>2
    <3>4. CurrentController' = IF EndsMltReq THEN 1 ELSE (CurrentController + 1) % 4
      BY <3>2, <3>3
    <3> QED
      BY <1>4, <2>2, <3>1, <3>4 DEF InTurn
  <2>3. CASE ~executes /\ e.players # 0
    <3>1. ~EndsMltReq /\ e.controller = CurrentController /\ PlayersMode > 0
      BY <1>3, <1>12, <2>3
    <3>2. CurrentController' = NextController(CurrentController, bits,
                                              t.JoypadRequestResolved)
      BY <1>4, <2>3, <3>1
    <3>3. bits = 3 => (t.JoypadRequestResolved <=> JoypadIo = 3)
      BY <1>1, <1>3, <2>3, <3>1 DEF Resolving
    <3> QED
      BY <1>4, <2>3, <3>1, <3>2, <3>3 DEF NextController, InTurn
  <2> QED
    BY <2>1, <2>2, <2>3
<1> QED
  BY <1>8, <1>10, <1>11, <1>14, <1>15

LEMMA InitGameInv == Init => GameInv
<1> SUFFICES ASSUME Init PROVE GameInv
  OBVIOUS
<1>1. JoypadIo \in 0..3 /\ sending \in Seq(0..3)
  BY DEF Init
<1>2. Listening(transfer, JoypadIo)
  BY ResetListens DEF Init
<1>3. ScreenOK
  BY DEF Init, ScreenOK, ColourZeroShared, MonochromePalettes, Colours
<1>4. Resolving
  BY DEF Init, Resolving
<1>5. FirstAlone
  BY DEF Init, FirstAlone
<1> QED
  BY <1>1, <1>2, <1>3, <1>4, <1>5 DEF GameInv

LEMMA NextGameInv == GameInv /\ [Next]_vars => GameInv' /\ (vars' = vars \/ InTurn)
<1> SUFFICES ASSUME GameInv, [Next]_vars
             PROVE  GameInv' /\ (vars' = vars \/ InTurn)
  OBVIOUS
<1>1. ASSUME NEW c \in Commands, SendCommand(c) PROVE GameInv' /\ InTurn
  BY <1>1, CommandsArePulses
     DEF GameInv, SendCommand, ScreenOK, Resolving, FirstAlone, ColourZeroShared,
         InTurn, screenVars, playerVars
<1>2. CASE ReadButtons
  BY <1>2, ButtonsArePulses
     DEF GameInv, ReadButtons, ScreenOK, Resolving, FirstAlone, ColourZeroShared,
         InTurn, screenVars, playerVars
<1>3. CASE WriteJoypad
  <2>1. Head(sending) \in 0..3 /\ sending' \in Seq(0..3)
    BY <1>3 DEF WriteJoypad, GameInv
  <2> QED
    BY <1>3, <2>1, LookKeepsGameInv DEF WriteJoypad, GameInv
<1>4. CASE OtherInstruction
  BY <1>4, LookKeepsGameInv DEF OtherInstruction, GameInv, gameVars
<1>5. CASE ResetSgbState
  <2>1. JoypadIo' \in 0..3 /\ sending' \in Seq(0..3)
    BY <1>5 DEF ResetSgbState
  <2>2. Listening(transfer', JoypadIo')
    BY <1>5, ResetListens DEF ResetSgbState
  <2>3. ScreenOK'
    BY <1>5 DEF ResetSgbState, ScreenOK, ColourZeroShared, MonochromePalettes,
                Colours
  <2>4. Resolving' /\ FirstAlone' /\ InTurn
    BY <1>5 DEF ResetSgbState, Resolving, FirstAlone, InTurn
  <2> QED
    BY <2>1, <2>2, <2>3, <2>4 DEF GameInv
<1>6. CASE UNCHANGED vars
  BY <1>6 DEF GameInv, vars, gameVars, screenVars, playerVars, ScreenOK,
              Resolving, FirstAlone, ColourZeroShared
<1> QED
  BY <1>1, <1>2, <1>3, <1>4, <1>5, <1>6 DEF Next

LEMMA GameInvTypes == GameInv => TypeOK
<1> SUFFICES ASSUME GameInv PROVE TypeOK
  OBVIOUS
<1>1. transfer \in Transfers
  BY DEF GameInv, Listening, Receiving
<1>2. PICK n \in 0..7 :
        transfer.Buffer \in [0..(SGB_PACKET_LENGTH * n - 1) -> Byte]
  BY <1>1 DEF Transfers, Buffers
<1> QED
  BY <1>1, <1>2 DEF TypeOK, GameInv, ScreenOK, Transfers

(* For every game, whatever it writes and however it reads the buttons,    *)
(* every field keeps to its width.                                         *)
THEOREM TypeCorrect == Spec => []TypeOK
<1>1. Init => GameInv
  BY InitGameInv
<1>2. GameInv /\ [Next]_vars => GameInv'
  BY NextGameInv
<1>3. GameInv => TypeOK
  BY GameInvTypes
<1> QED
  BY <1>1, <1>2, <1>3, PTL DEF Spec

(* For every game all palettes share the first colour.                     *)
THEOREM FirstColourShared == Spec => []ColourZeroShared
<1>1. Init => GameInv
  BY InitGameInv
<1>2. GameInv /\ [Next]_vars => GameInv'
  BY NextGameInv
<1>3. GameInv => ColourZeroShared
  BY DEF GameInv, ScreenOK
<1> QED
  BY <1>1, <1>2, <1>3, PTL DEF Spec

(* For every game of several players each time the register becomes 3, and *)
(* only then, the next controller has its turn.                            *)
THEOREM ControllersTakeTurns == Spec => ControllersInTurn
<1>1. Init => GameInv
  BY InitGameInv
<1>2. GameInv /\ [Next]_vars => GameInv'
  BY NextGameInv
<1>3. GameInv /\ [Next]_vars => [InTurn]_vars
  BY NextGameInv
<1> QED
  BY <1>1, <1>2, <1>3, PTL DEF Spec, ControllersInTurn, InTurn

-----------------------------------------------------------------------------
(* Games whose commands are of one packet.  Of a packet p the first n bits *)
(* have been received: the low bits of the byte begun are in BitBuffer and *)
(* the bytes before it in Buffer, which the first one has made as long as  *)
(* one packet.                                                             *)
Packets == [1..SGB_PACKET_LENGTH -> Byte]
Got(t, p, n) ==
  /\ t.BitPointer = n % 8
  /\ t.BytePointer = (n \div 8) % 16
  /\ t.PacketPointer = n \div 128
  /\ t.AwaitingStopBit <=> n = 128
  /\ n < 128 => t.BitBuffer = p[(n \div 8) + 1] % Bit(n % 8)
  /\ n >= 8 => /\ t.NumberOfPackets = 1
               /\ t.CurrentCommand = p[1] \div 8
               /\ DOMAIN t.Buffer = 0..15
               /\ \A j \in 0..15 : j < n \div 8 => t.Buffer[j] = p[j + 1]

LEMMA NoBits ==
  ASSUME NEW x \in 0..255
  PROVE  x % Bit(0) = 0
<1>1. x % 1 = 0
  OBVIOUS
<1> QED
  BY <1>1, BitValues

LEMMA LastBit ==
  ASSUME NEW x \in 0..255
  PROVE  (x % 128) + ((x \div 128) % 2) * 128 = x
  OBVIOUS

LEMMA NextBit ==
  ASSUME NEW x \in 0..255, NEW s \in 0..6
  PROVE  (x % Bit(s)) + ((x \div Bit(s)) % 2) * Bit(s) = x % Bit(s + 1)
<1> DEFINE a == Bit(s)
           c == Bit(s + 1)
<1>1. a \in {1, 2, 4, 8, 16, 32, 64}
  <2>1. s = 0 \/ s = 1 \/ s = 2 \/ s = 3 \/ s = 4 \/ s = 5 \/ s = 6
    OBVIOUS
  <2> QED
    BY <2>1, BitValues
<1>2. c = 2 * a
  BY BitDoubles
<1> HIDE DEF a, c
<1>3. /\ (x % 1) + ((x \div 1) % 2) * 1 = x % 2
      /\ (x % 2) + ((x \div 2) % 2) * 2 = x % 4
      /\ (x % 4) + ((x \div 4) % 2) * 4 = x % 8
      /\ (x % 8) + ((x \div 8) % 2) * 8 = x % 16
  OBVIOUS
<1>4. /\ (x % 16) + ((x \div 16) % 2) * 16 = x % 32
      /\ (x % 32) + ((x \div 32) % 2) * 32 = x % 64
      /\ (x % 64) + ((x \div 64) % 2) * 64 = x % 128
  OBVIOUS
<1>5. (x % a) + ((x \div a) % 2) * a = x % c
  <2>1. \/ (a = 1 /\ c = 2) \/ (a = 2 /\ c = 4) \/ (a = 4 /\ c = 8)
        \/ (a = 8 /\ c = 16) \/ (a = 16 /\ c = 32) \/ (a = 32 /\ c = 64)
        \/ (a = 64 /\ c = 128)
    BY <1>1, <1>2
  <2>2. CASE a = 1 /\ c = 2
    BY <1>3, <2>2, Zenon
  <2>3. CASE a = 2 /\ c = 4
    BY <1>3, <2>3, Zenon
  <2>4. CASE a = 4 /\ c = 8
    BY <1>3, <2>4, Zenon
  <2>5. CASE a = 8 /\ c = 16
    BY <1>3, <2>5, Zenon
  <2>6. CASE a = 16 /\ c = 32
    BY <1>4, <2>6, Zenon
  <2>7. CASE a = 32 /\ c = 64
    BY <1>4, <2>7, Zenon
  <2>8. CASE a = 64 /\ c = 128
    BY <1>4, <2>8, Zenon
  <2> QED
    BY <2>1, <2>2, <2>3, <2>4, <2>5, <2>6, <2>7, <2>8
<1> QED
  BY <1>5 DEF a, c

(* Bit n + 1 of a packet pushed.                                           *)
LEMMA PushGot ==
  ASSUME NEW t, Receiving(t), NEW p \in Packets, p[1] % 8 = 1,
         NEW n \in 0..127, Got(t, p, n), t.PendingBit = BitOf(p, n + 1)
  PROVE  /\ Got(PushBit(t), p, n + 1)
         /\ ~WritesOutside(t)
         /\ ~Complete(PushBit(t))
         /\ PushBit(t).HasPendingBit = FALSE
         /\ PushBit(t).IsTransferring = t.IsTransferring
<1> DEFINE m == n \div 8
           s == n % 8
           x == p[m + 1]
           r == PushBit(t)
<1>1. m \in 0..15 /\ s \in 0..7 /\ n = 8 * m + s
  OBVIOUS
<1>2. x \in 0..255
  BY <1>1 DEF Packets, SGB_PACKET_LENGTH, Byte
<1>3. /\ t.BitPointer = s /\ t.BytePointer = m /\ t.PacketPointer = 0
      /\ ~t.AwaitingStopBit
      /\ t.BitBuffer = x % Bit(s)
      /\ t.PendingBit = (x \div Bit(s)) % 2
  <2>1. (n \div 8) % 16 = n \div 8 /\ n \div 128 = 0 /\ n < 128 /\ n # 128
        /\ (n + 1) - 1 = n
    OBVIOUS
  <2> QED
    BY <2>1 DEF Got, BitOf
<1> HIDE DEF m, s, x
<1>4. CASE s # 7
  <2>1. /\ r.BitBuffer = t.BitBuffer + t.PendingBit * Bit(s)
        /\ r.BitPointer = s + 1 /\ r.BytePointer = m /\ r.PacketPointer = 0
        /\ r.AwaitingStopBit = FALSE /\ r.HasPendingBit = FALSE
        /\ r.IsTransferring = t.IsTransferring
        /\ r.NumberOfPackets = t.NumberOfPackets
        /\ r.CurrentCommand = t.CurrentCommand /\ r.Buffer = t.Buffer
    <3>1. t \in Transfers
      BY DEF Receiving
    <3>2. t.BitPointer # 7
      BY <1>3, <1>4
    <3>3. r = [t EXCEPT !.BitBuffer = t.BitBuffer + t.PendingBit * Bit(t.BitPointer),
                        !.HasPendingBit = FALSE, !.BitPointer = t.BitPointer + 1]
      BY <1>3, <3>2, PushOneBit
    <3>4. /\ r.BitBuffer = t.BitBuffer + t.PendingBit * Bit(t.BitPointer)
          /\ r.BitPointer = t.BitPointer + 1
      BY <3>1, <3>3, ZenonT(60) DEF Transfers
    <3> QED
      BY <1>3, <3>2, <3>4, PushOneBit
  <2>2. r.BitBuffer = x % Bit(s + 1)
    <3>1. r.BitBuffer = (x % Bit(s)) + ((x \div Bit(s)) % 2) * Bit(s)
      BY <1>3, <2>1, Zenon
    <3>2. s \in 0..6
      BY <1>1, <1>4
    <3> QED
      BY <1>2, <3>1, <3>2, NextBit
  <2>3. (n + 1) \div 8 = m /\ (n + 1) % 8 = s + 1 /\ (n + 1) \div 128 = 0
        /\ n + 1 # 128 /\ m % 16 = m /\ n \div 8 = m
    BY <1>1, <1>4
  <2>4. n + 1 >= 8 => n >= 8
    BY <1>1, <1>4
  <2>5. Got(r, p, n + 1)
    BY <2>1, <2>2, <2>3, <2>4 DEF Got, x
  <2>6. ~WritesOutside(t)
    BY <1>3, <1>4 DEF WritesOutside
  <2>7. ~Complete(r)
    <3>1. r \in Transfers
      BY PushReceives DEF Receiving
    <3>2. r.NumberOfPackets \in 0..7
      BY <3>1 DEF Transfers
    <3> QED
      BY <2>1, <3>2 DEF Complete
  <2> QED
    BY <2>1, <2>5, <2>6, <2>7
<1>5. CASE s = 7
  <2> DEFINE b == t.BitBuffer + t.PendingBit * 128
             room == Room(t, b)
  <2>1. b = x
    <3>1. Bit(s) = 128
      BY <1>5, BitValues
    <3>2. b = (x % 128) + ((x \div 128) % 2) * 128
      BY <1>3, <3>1, Zenon
    <3> QED
      BY <1>2, <3>2, LastBit
  <2> HIDE DEF b
  <2>2. /\ r.IsTransferring = t.IsTransferring /\ r.HasPendingBit = FALSE
        /\ r.BitBuffer = 0 /\ r.BitPointer = 0
        /\ r.CurrentCommand = IF StartsCommand(t) THEN b \div 8
                              ELSE t.CurrentCommand
        /\ r.NumberOfPackets = IF StartsCommand(t) THEN b % 8
                               ELSE t.NumberOfPackets
        /\ r.Buffer = [i \in DOMAIN room |-> IF i = Index(t) THEN b ELSE room[i]]
        /\ r.BytePointer = IF m = 15 THEN 0 ELSE m + 1
        /\ r.PacketPointer = IF m = 15 THEN 1 ELSE 0
        /\ (r.AwaitingStopBit <=> m = 15)
        /\ (WritesOutside(t) <=> Index(t) \notin DOMAIN room)
    <3>1. t.BitPointer = 7
      BY <1>3, <1>5
    <3>2. /\ r.IsTransferring = t.IsTransferring /\ r.HasPendingBit = FALSE
          /\ r.BitBuffer = 0 /\ r.BitPointer = 0
      BY <1>3, <3>1, PushLastBit, ZenonT(60)
    <3>3. /\ r.CurrentCommand = IF StartsCommand(t) THEN b \div 8
                                ELSE t.CurrentCommand
          /\ r.NumberOfPackets = IF StartsCommand(t) THEN b % 8
                                 ELSE t.NumberOfPackets
      BY <1>3, <3>1, PushLastBit, ZenonT(60) DEF b
    <3>4. /\ r.Buffer = [i \in DOMAIN room |->
                           IF i = Index(t) THEN b ELSE room[i]]
          /\ (WritesOutside(t) <=> Index(t) \notin DOMAIN room)
      BY <1>3, <3>1, PushLastBit, ZenonT(60) DEF b
    <3>5. CASE m = 15
      <4>1. t.BytePointer = SGB_PACKET_LENGTH - 1 /\ (t.PacketPointer + 1) % 256 = 1
        BY <1>3, <3>5 DEF SGB_PACKET_LENGTH
      <4>2. r.BytePointer = 0
        BY <1>3, <3>1, <4>1, PushLastBit
      <4>3. r.PacketPointer = 1
        BY <1>3, <3>1, <4>1, PushLastBit, ZenonT(60)
      <4>4. r.AwaitingStopBit
        BY <1>3, <3>1, <4>1, PushLastBit
      <4> QED
        BY <3>2, <3>3, <3>4, <3>5, <4>2, <4>3, <4>4
    <3>6. CASE m # 15
      <4>1. t.BytePointer # SGB_PACKET_LENGTH - 1
        BY <1>3, <3>6 DEF SGB_PACKET_LENGTH
      <4>2. /\ r.BytePointer = m + 1 /\ r.PacketPointer = 0
            /\ ~r.AwaitingStopBit
        BY <1>3, <3>1, <4>1, PushLastBit, ZenonT(60)
      <4> QED
        BY <3>2, <3>3, <3>4, <3>6, <4>2
    <3> QED
      BY <3>5, <3>6
  <2>3. Index(t) = m
    BY <1>1, <1>3 DEF Index, SGB_PACKET_LENGTH
  <2>4. /\ StartsCommand(t) <=> m = 0
        /\ m = 0 => x = p[1]
        /\ m # 0 => n >= 8
    BY <1>1, <1>3 DEF StartsCommand, x
  <2>5. /\ DOMAIN room = 0..15
        /\ r.NumberOfPackets = 1 /\ r.CurrentCommand = p[1] \div 8
        /\ \A j \in 0..15 : j < m => room[j] = p[j + 1]
    <3>1. CASE m = 0
      <4>1. room = [i \in 0..15 |-> 0]
        BY <2>1, <2>4, <3>1 DEF Room, SGB_PACKET_LENGTH
      <4> HIDE DEF room
      <4> QED
        BY <2>1, <2>2, <2>4, <3>1, <4>1
    <3>2. CASE m # 0
      <4>1. room = t.Buffer
        BY <2>4, <3>2 DEF Room
      <4>2. n \div 8 = m
        BY DEF m
      <4> HIDE DEF room
      <4> QED
        BY <2>2, <2>4, <3>2, <4>1, <4>2 DEF Got
    <3> QED
      BY <3>1, <3>2
  <2> HIDE DEF room
  <2>6. DOMAIN r.Buffer = 0..15
        /\ \A j \in 0..15 : j < m + 1 => r.Buffer[j] = p[j + 1]
    <3>1. DOMAIN r.Buffer = 0..15
      BY <2>2, <2>5
    <3>2. ASSUME NEW j \in 0..15, j < m + 1 PROVE r.Buffer[j] = p[j + 1]
      <4>1. j = m \/ j < m
        BY <1>1, <3>2
      <4>2. r.Buffer[j] = IF j = m THEN x ELSE room[j]
        BY <2>1, <2>2, <2>3, <2>5
      <4> QED
        BY <1>1, <2>5, <4>1, <4>2 DEF x
    <3> QED
      BY <3>1, <3>2
  <2>7. /\ (n + 1) \div 8 = m + 1 /\ (n + 1) % 8 = 0 /\ n + 1 >= 8
        /\ (n + 1) \div 128 = IF m = 15 THEN 1 ELSE 0
        /\ ((n + 1) \div 8) % 16 = IF m = 15 THEN 0 ELSE m + 1
        /\ (n + 1 = 128 <=> m = 15)
        /\ (n + 1 < 128 => m + 2 \in 1..16)
    BY <1>1, <1>5
  <2>8. n + 1 < 128 => r.BitBuffer = p[((n + 1) \div 8) + 1] % Bit((n + 1) % 8)
    <3>1. SUFFICES ASSUME n + 1 < 128
                   PROVE  r.BitBuffer = p[((n + 1) \div 8) + 1] % Bit((n + 1) % 8)
      OBVIOUS
    <3>2. ((n + 1) \div 8) + 1 = m + 2
      BY <1>1, <2>7
    <3>3. p[m + 2] \in 0..255
      BY <2>7, <3>1 DEF Packets, SGB_PACKET_LENGTH, Byte
    <3>4. p[m + 2] % Bit(0) = 0
      BY <3>3, NoBits
    <3> QED
      BY <2>2, <2>7, <3>2, <3>4
  <2>9. Got(r, p, n + 1)
    BY <2>2, <2>5, <2>6, <2>7, <2>8 DEF Got
  <2>10. ~WritesOutside(t)
    BY <1>1, <2>2, <2>3, <2>5
  <2>11. ~Complete(r)
    <3>1. m = 15 => r.AwaitingStopBit
      BY <2>2
    <3>2. m # 15 => r.PacketPointer = 0
      BY <2>2
    <3> QED
      BY <2>5, <3>1, <3>2 DEF Complete
  <2> QED
    BY <2>2, <2>9, <2>10, <2>11
<1> QED
  BY <1>4, <1>5

-----------------------------------------------------------------------------
(* What a look at the register does, but for JoypadRequestResolved, which  *)
(* is performSGBFunctions's own.                                           *)
SameBits(u, t) ==
  /\ u.IsTransferring = t.IsTransferring
  /\ u.HasPendingBit = t.HasPendingBit /\ u.PendingBit = t.PendingBit
  /\ u.AwaitingStopBit = t.AwaitingStopBit
  /\ u.BitBuffer = t.BitBuffer /\ u.BitPointer = t.BitPointer
  /\ u.BytePointer = t.BytePointer /\ u.PacketPointer = t.PacketPointer
  /\ u.NumberOfPackets = t.NumberOfPackets
  /\ u.CurrentCommand = t.CurrentCommand /\ u.Buffer = t.Buffer

Executes(bits) ==
  Pushes(transfer, bits) /\ Complete(Received(transfer, bits))

(* The command of one packet being sent has been followed up to its pulse i,
   which the register shows.                                               *)
Following(t, io, p, i) ==
  /\ io = PacketPulse(p, i)
  /\ t.IsTransferring <=> i >= 0
  /\ t.HasPendingBit <=> i > 0 /\ i % 2 = 1
  /\ t.HasPendingBit => t.PendingBit = 2 - io
  /\ Got(t, p, IF i = -1 THEN 0 ELSE i \div 2)

(* What a game writes to read the buttons is taken for bits that are 1: the *)
(* first byte announces seven packets, and the first packet's stop bit     *)
(* never comes.                                                            *)
Chattering(t, io) ==
  /\ t.HasPendingBit /\ io # 2 => t.PendingBit = 1
  /\ t.BitBuffer = Bit(t.BitPointer) - 1
  /\ \/ /\ t.NumberOfPackets = 0
        /\ t.BytePointer = 0 /\ t.PacketPointer = 0 /\ ~t.AwaitingStopBit
     \/ /\ t.NumberOfPackets = 7 /\ DOMAIN t.Buffer = 0..111
        /\ \/ t.PacketPointer = 0 /\ ~t.AwaitingStopBit
           \/ t.PacketPointer = 1 /\ t.BytePointer = 0 /\ t.AwaitingStopBit

(* A transfer that has not begun is as resetSGBTransfer leaves it.         *)
Idle(t) == ~t.IsTransferring => SameBits(t, ResetTransfer)

Sending == sent # <<>> /\ executions = 0
Last == 258 - Len(sending)
Underway ==
  /\ Len(sending) \in 1..260
  /\ \A i \in 1..Len(sending) : sending[i] = PacketPulse(sent[1], Last + i)
  /\ IF Len(sending) = 260 THEN JoypadIo # 2
     ELSE Following(transfer, JoypadIo, sent[1], Last)
Asking ==
  /\ \A i \in 1..Len(sending) : /\ sending[i] # 0
                                /\ sending[i] = 3 <=> i = Len(sending)
  /\ Len(sending) >= 2 => sending[Len(sending) - 1] = 1
  /\ Len(sending) <= 1 => JoypadIo # 2

(* The invariant of games whose commands are of one packet.                *)
PacketInv ==
  /\ GameInv
  /\ executions \in 0..1
  /\ sent = <<>> \/ sent \in Commands
  /\ Idle(transfer)
  /\ Sending => Underway
  /\ ~Sending => Asking
  /\ ~Sending \/ Len(sending) = 260 => Chattering(transfer, JoypadIo)

LEMMA ResolvedSameBits ==
  ASSUME NEW t \in Transfers, NEW flag
  PROVE  SameBits([t EXCEPT !.JoypadRequestResolved = flag], t)
  BY ZenonT(60) DEF SameBits, Transfers

LEMMA ReceivedType ==
  ASSUME NEW t, Receiving(t), NEW bits \in 0..3
  PROVE  Received(t, bits) \in Transfers
<1> DEFINE r == Received(t, bits)
<1>1. t \in Transfers
  BY DEF Receiving
<1>2. CASE r = [t EXCEPT !.IsTransferring = bits = 3]
  <2> DEFINE confirmed == bits = 3
  <2>1. confirmed \in BOOLEAN /\ r = [t EXCEPT !.IsTransferring = confirmed]
    BY <1>2
  <2> HIDE DEF confirmed
  <2> QED
    BY <1>1, <2>1, Zenon DEF Transfers
<1>3. CASE r = PushBit(t)
  BY <1>3, PushReceives DEF Receiving
<1>4. CASE bits \in {1, 2} /\ r = [t EXCEPT !.HasPendingBit = TRUE,
                                            !.PendingBit = 2 - bits]
  <2> DEFINE bit == 2 - bits
  <2>1. bit \in {0, 1} /\ TRUE \in BOOLEAN
    BY <1>4
  <2>2. r = [t EXCEPT !.HasPendingBit = TRUE, !.PendingBit = bit]
    BY <1>4
  <2> HIDE DEF bit
  <2> QED
    BY <1>1, <2>1, <2>2, Zenon DEF Transfers
<1>5. CASE r = t \/ r = ResetTransfer
  BY <1>1, <1>5, ResetReceiving DEF Receiving
<1> QED
  BY <1>1, <1>2, <1>3, <1>4, <1>5, ReceivedCases

LEMMA LookLeaves ==
  ASSUME GameInv, NEW bits \in 0..3, ProcessSgb(bits)
  PROVE  /\ ~Executes(bits) =>
              /\ SameBits(transfer', Received(transfer, bits))
              /\ executions' = executions
              /\ TilePalettes' = TilePalettes /\ RamBlocks' = RamBlocks
              /\ overrun' <=> \/ overrun
                              \/ Pushes(transfer, bits) /\ WritesOutside(transfer)
         /\ Executes(bits) =>
              LET e == Effect(Received(transfer, bits))
              IN  /\ SameBits(transfer', ResetTransfer)
                  /\ executions' = IF executions < 2 THEN executions + 1
                                   ELSE executions
                  /\ TilePalettes' = e.tile /\ RamBlocks' = e.blocks
                  /\ overrun' <=> \/ overrun
                                  \/ WritesOutside(transfer)
                                  \/ e.over
<1> DEFINE r == Received(transfer, bits)
           executes == Pushes(transfer, bits) /\ Complete(r)
           t == IF executes THEN AfterCommand(r) ELSE r
           e == IF executes THEN Effect(r) ELSE Unchanged
           flag == IF e.players > 0 THEN bits = 3 ELSE t.JoypadRequestResolved
<1>1. Receiving(transfer)
  BY DEF GameInv, Listening
<1>2. r \in Transfers
  BY <1>1, ReceivedType
<1>3. t \in Transfers
  BY <1>2, ResetReceiving DEF AfterCommand, Receiving
<1>4. /\ transfer' = [t EXCEPT !.JoypadRequestResolved = flag]
      /\ TilePalettes' = e.tile /\ RamBlocks' = e.blocks
      /\ ~overrun
      /\ overrun' <=> \/ Pushes(transfer, bits) /\ WritesOutside(transfer)
                      \/ e.over
      /\ executions' = IF executes /\ executions < 2 THEN executions + 1
                       ELSE executions
  BY DEF ProcessSgb
<1> HIDE DEF flag
<1>5. SameBits(transfer', t)
  BY <1>3, <1>4, ResolvedSameBits
<1>6. ASSUME ~Executes(bits)
      PROVE  /\ SameBits(transfer', Received(transfer, bits))
             /\ executions' = executions
             /\ TilePalettes' = TilePalettes /\ RamBlocks' = RamBlocks
             /\ overrun' <=> \/ overrun
                             \/ Pushes(transfer, bits) /\ WritesOutside(transfer)
  <2>1. ~executes
    BY <1>6 DEF Executes
  <2>2. t = r /\ e = Unchanged
    BY <2>1
  <2>3. Unchanged.tile = TilePalettes /\ Unchanged.blocks = RamBlocks
        /\ Unchanged.over = FALSE
    BY DEF Unchanged
  <2> HIDE DEF t, e, executes
  <2>4. SameBits(transfer', Received(transfer, bits))
    BY <1>5, <2>2
  <2>5. executions' = executions /\ TilePalettes' = TilePalettes
        /\ RamBlocks' = RamBlocks
    BY <1>4, <2>1, <2>2, <2>3
  <2>6. overrun' <=> \/ overrun
                     \/ Pushes(transfer, bits) /\ WritesOutside(transfer)
    BY <1>4, <2>2, <2>3
  <2> QED
    BY <2>4, <2>5, <2>6
<1>7. ASSUME Executes(bits)
      PROVE  /\ SameBits(transfer', ResetTransfer)
             /\ executions' = IF executions < 2 THEN executions + 1
                              ELSE executions
             /\ TilePalettes' = Effect(r).tile /\ RamBlocks' = Effect(r).blocks
             /\ overrun' <=> \/ overrun
                             \/ WritesOutside(transfer)
                             \/ Effect(r).over
  <2>1. executes /\ Pushes(transfer, bits)
    BY <1>7 DEF Executes
  <2>2. t = ResetTransfer /\ e = Effect(r)
    BY <2>1 DEF AfterCommand
  <2> HIDE DEF t, e, executes, r
  <2>3. SameBits(transfer', ResetTransfer)
    BY <1>5, <2>2
  <2>4. executions' = IF executions < 2 THEN executions + 1 ELSE executions
    BY <1>4, <2>1
  <2>5. TilePalettes' = Effect(r).tile /\ RamBlocks' = Effect(r).blocks
    BY <1>4, <2>2
  <2>6. overrun' <=> overrun \/ WritesOutside(transfer) \/ Effect(r).over
    BY <1>4, <2>1, <2>2
  <2> QED
    BY <2>3, <2>4, <2>5, <2>6
<1> QED
  BY <1>6, <1>7

(* What is said of the bits holds of any transfer with the same bits.      *)
LEMMA SameBitsSay ==
  ASSUME NEW t, NEW u, SameBits(u, t)
  PROVE  /\ \A p, n : Got(t, p, n) => Got(u, p, n)
         /\ \A io : Chattering(t, io) => Chattering(u, io)
  BY DEF SameBits, Got, Chattering

-----------------------------------------------------------------------------
(* The pulses of a game whose commands are of one packet.                  *)
LEMMA PulseKinds ==
  ASSUME NEW p \in Packets, NEW i \in -1..258
  PROVE  /\ i = -1 => PacketPulse(p, i) = 0
         /\ i >= 0 /\ i % 2 = 0 => PacketPulse(p, i) = 3
         /\ i % 2 = 1 /\ i >= 0 => PacketPulse(p, i) \in {1, 2}
         /\ i = 257 => PacketPulse(p, i) = 2
         /\ i % 2 = 1 /\ i >= 0 /\ i < 257 =>
              2 - PacketPulse(p, i) = BitOf(p, (i \div 2) + 1)
<1>1. CASE i = -1
  BY <1>1 DEF PacketPulse
<1>2. CASE i >= 0 /\ i % 2 = 0
  BY <1>2 DEF PacketPulse
<1>3. CASE i = 257
  BY <1>3 DEF PacketPulse
<1>4. CASE i % 2 = 1 /\ i >= 0 /\ i < 257
  <2>1. (i \div 2) + 1 \in 1..128 /\ (i + 1) \div 2 = (i \div 2) + 1
        /\ i # -1 /\ i % 2 # 0 /\ i # 257
    BY <1>4
  <2>2. BitOf(p, (i \div 2) + 1) \in {0, 1}
    BY <2>1, BitsAreBits DEF Packets
  <2>3. PacketPulse(p, i) = 2 - BitOf(p, (i \div 2) + 1)
    BY <2>1 DEF PacketPulse
  <2> QED
    BY <1>4, <2>1, <2>2, <2>3
<1> QED
  BY <1>1, <1>2, <1>3, <1>4

LEMMA AfterReset ==
  ASSUME NEW t \in Seq(0..3)
  PROVE  /\ <<0, 3>> \o t \in Seq(0..3)
         /\ Len(<<0, 3>> \o t) = 2 + Len(t)
         /\ (<<0, 3>> \o t)[1] = 0
         /\ (<<0, 3>> \o t)[2] = 3
         /\ \A i \in 3..(2 + Len(t)) : (<<0, 3>> \o t)[i] = t[i - 2]
<1> DEFINE a == <<0, 3>>
<1>1. a \in Seq(0..3) /\ Len(a) = 2 /\ a[1] = 0 /\ a[2] = 3
  OBVIOUS
<1> HIDE DEF a
<1>2. /\ a \o t \in Seq(0..3)
      /\ Len(a \o t) = 2 + Len(t)
      /\ \A i \in 1..(2 + Len(t)) : (a \o t)[i] = IF i <= 2 THEN a[i] ELSE t[i - 2]
  <2>1. /\ a \o t \in Seq(0..3)
        /\ Len(a \o t) = Len(a) + Len(t)
        /\ \A i \in 1..Len(a) + Len(t) :
             (a \o t)[i] = IF i <= Len(a) THEN a[i] ELSE t[i - Len(a)]
    BY <1>1, ConcatProperties, Zenon
  <2> QED
    BY <1>1, <2>1, Zenon
<1>3. Len(t) \in Nat
  OBVIOUS
<1>4. \A i \in 3..(2 + Len(t)) : (a \o t)[i] = t[i - 2]
  BY <1>2, <1>3
<1>5. (a \o t)[1] = 0 /\ (a \o t)[2] = 3
  BY <1>1, <1>2, <1>3
<1> QED
  BY <1>2, <1>4, <1>5 DEF a

LEMMA OnePacketCommands ==
  ASSUME OnePacketGame, NEW c \in Commands
  PROVE  /\ Len(c) = 1 /\ c # <<>> /\ c[1] \in Packets /\ c[1][1] % 8 = 1
         /\ CommandPulses(c) = [i \in 1..260 |-> PacketPulse(c[1], i - 2)]
<1> DEFINE p == c[1]
           pulses == [i \in 1..260 |-> PacketPulse(p, i - 2)]
<1>1. c \in Seq(Packets) /\ Len(c) = 1 /\ p[1] % 8 = 1
  BY CommandsAssumption DEF OnePacketGame, Packets
<1>2. p \in Packets /\ c # <<>>
  <2>1. p \in Packets
    <3>1. 1 \in 1..Len(c)
      BY <1>1
    <3> QED
      BY <1>1, <3>1, ElementOfSeq, Zenon
  <2>2. c # <<>>
    <3>1. Len(<<>>) # 1
      OBVIOUS
    <3> QED
      BY <1>1, <3>1, Zenon
  <2> QED
    BY <2>1, <2>2
<1>3. CASE ResetsEach
  <2>1. CommandPulses(c) = [i \in 1..260 |->
          PacketPulse(c[((i - 1) \div 260) + 1], ((i - 1) % 260) - 1)]
    BY <1>1, <1>3 DEF CommandPulses
  <2>2. \A i \in 1..260 : ((i - 1) \div 260) + 1 = 1 /\ ((i - 1) % 260) - 1 = i - 2
    OBVIOUS
  <2> QED
    BY <1>1, <1>2, <2>1, <2>2
<1>4. CASE ~ResetsEach
  <2> DEFINE tail == [i \in 1..258 |-> PacketPulse(p, i)]
  <2>1. CommandPulses(c) = <<0, 3>> \o [i \in 1..258 |->
          PacketPulse(c[((i - 1) \div 258) + 1], ((i - 1) % 258) + 1)]
    <3>1. 258 * Len(c) = 258
      BY <1>1
    <3> QED
      BY <1>4, <3>1 DEF CommandPulses
  <2>2. \A i \in 1..258 : ((i - 1) \div 258) + 1 = 1 /\ ((i - 1) % 258) + 1 = i
    OBVIOUS
  <2>3. CommandPulses(c) = <<0, 3>> \o tail
    BY <2>1, <2>2
  <2>4. \A i \in 1..258 : i \in -1..258
    OBVIOUS
  <2>5. \A i \in 1..258 : PacketPulse(p, i) \in 0..3
    BY <1>2, <2>4, PulsesArePulses DEF Packets
  <2>6. tail \in Seq(0..3) /\ Len(tail) = 258
    <3>1. tail \in [1..258 -> 0..3]
      BY <2>5, Zenon
    <3> HIDE DEF tail
    <3>2. tail \in Seq(0..3)
      <4> DEFINE n == 258
      <4>1. n \in Nat /\ tail \in [1..n -> 0..3]
        BY <3>1
      <4> HIDE DEF n
      <4> QED
        BY <4>1, SeqDef, Zenon
    <3>3. DOMAIN tail = 1..258 /\ DOMAIN tail = 1..Len(tail) /\ Len(tail) \in Nat
      BY <3>1, <3>2, LenProperties, Zenon
    <3>4. Len(tail) = 258
      BY <3>3
    <3> QED
      BY <3>2, <3>4
  <2> HIDE DEF tail
  <2>7. /\ CommandPulses(c) \in Seq(0..3)
        /\ Len(CommandPulses(c)) = 2 + Len(tail)
        /\ CommandPulses(c)[1] = 0 /\ CommandPulses(c)[2] = 3
        /\ \A i \in 3..(2 + Len(tail)) : CommandPulses(c)[i] = tail[i - 2]
    <3> DEFINE all == <<0, 3>> \o tail
    <3>1. /\ all \in Seq(0..3)
          /\ Len(all) = 2 + Len(tail)
          /\ all[1] = 0 /\ all[2] = 3
          /\ \A i \in 3..(2 + Len(tail)) : all[i] = tail[i - 2]
      BY <2>6, AfterReset, Zenon
    <3>2. CommandPulses(c) = all
      BY <2>3
    <3> HIDE DEF all
    <3> QED
      BY <3>1, <3>2, Zenon
  <2>8. 2 + Len(tail) = 260
    BY <2>6
  <2>9. ASSUME NEW i \in 1..260 PROVE CommandPulses(c)[i] = PacketPulse(p, i - 2)
    <3>1. CASE i = 1
      <4>1. PacketPulse(p, -1) = 0
        BY <1>2, PulseKinds
      <4>2. 1 - 2 = -1
        OBVIOUS
      <4> QED
        BY <3>1, <4>1, <4>2, <2>7
    <3>2. CASE i = 2
      <4>1. PacketPulse(p, 0) = 3
        BY <1>2, PulseKinds
      <4>2. 2 - 2 = 0
        OBVIOUS
      <4> QED
        BY <3>2, <4>1, <4>2, <2>7
    <3>3. CASE i > 2
      <4>1. i - 2 \in 1..258 /\ i \in 3..260
        BY <3>3
      <4>2. CommandPulses(c)[i] = tail[i - 2]
        BY <2>7, <2>8, <4>1
      <4> QED
        BY <4>1, <4>2 DEF tail
    <3> QED
      BY <3>1, <3>2, <3>3
  <2>10. \A f \in Seq(0..3) : Len(f) = 260
           /\ (\A i \in 1..260 : f[i] = PacketPulse(p, i - 2)) => f = pulses
    BY SMTT(30)
  <2> HIDE DEF pulses
  <2>11. CommandPulses(c) = pulses
    BY <2>7, <2>8, <2>9, <2>10
  <2> QED
    BY <1>1, <1>2, <2>11 DEF pulses
<1> QED
  BY <1>3, <1>4

-----------------------------------------------------------------------------
(* A packet is followed from pulse to pulse, however often the register is *)
(* looked at, and none of its bits completes it but the stop bit.          *)
Heard(t, bits, p, i) ==
  /\ Following(Received(t, bits), bits, p, i)
  /\ ~(Pushes(t, bits) /\ Complete(Received(t, bits)))
  /\ ~(Pushes(t, bits) /\ WritesOutside(t))

LEMMA GotAFlag ==
  ASSUME NEW t \in Transfers, NEW p, NEW n, Got(t, p, n)
  PROVE  /\ \A flag : Got([t EXCEPT !.IsTransferring = flag], p, n)
         /\ \A bit : Got([t EXCEPT !.HasPendingBit = TRUE, !.PendingBit = bit], p, n)
<1>1. ASSUME NEW flag PROVE Got([t EXCEPT !.IsTransferring = flag], p, n)
  <2> DEFINE u == [t EXCEPT !.IsTransferring = flag]
  <2>1. /\ u.AwaitingStopBit = t.AwaitingStopBit
        /\ u.BitBuffer = t.BitBuffer /\ u.BitPointer = t.BitPointer
        /\ u.BytePointer = t.BytePointer /\ u.PacketPointer = t.PacketPointer
        /\ u.NumberOfPackets = t.NumberOfPackets
        /\ u.CurrentCommand = t.CurrentCommand /\ u.Buffer = t.Buffer
    BY Zenon DEF Transfers
  <2> HIDE DEF u
  <2> QED
    BY <2>1 DEF Got, u
<1>2. ASSUME NEW bit
      PROVE  Got([t EXCEPT !.HasPendingBit = TRUE, !.PendingBit = bit], p, n)
  <2> DEFINE u == [t EXCEPT !.HasPendingBit = TRUE, !.PendingBit = bit]
  <2>1. /\ u.AwaitingStopBit = t.AwaitingStopBit
        /\ u.BitBuffer = t.BitBuffer /\ u.BitPointer = t.BitPointer
        /\ u.BytePointer = t.BytePointer /\ u.PacketPointer = t.PacketPointer
        /\ u.NumberOfPackets = t.NumberOfPackets
        /\ u.CurrentCommand = t.CurrentCommand /\ u.Buffer = t.Buffer
    BY Zenon DEF Transfers
  <2> HIDE DEF u
  <2> QED
    BY <2>1 DEF Got, u
<1> QED
  BY <1>1, <1>2

(* A pulse that is a bit, or one seen again.                               *)
LEMMA BitHeard ==
  ASSUME NEW t, Receiving(t), NEW p \in Packets, NEW i \in 1..257, i % 2 = 1,
         t.IsTransferring, Got(t, p, i \div 2)
  PROVE  Heard(t, PacketPulse(p, i), p, i)
<1> DEFINE bits == PacketPulse(p, i)
           bit == 2 - bits
           r == Received(t, bits)
<1>1. bits \in {1, 2}
  <2>1. i \in -1..258 /\ i >= 0
    OBVIOUS
  <2> QED
    BY <2>1, PulseKinds
<1> HIDE DEF bits
<1>2. t \in Transfers
  BY DEF Receiving
<1>3. r = [t EXCEPT !.HasPendingBit = TRUE, !.PendingBit = bit]
  BY <1>1 DEF Received
<1> HIDE DEF bit
<1>4. r.HasPendingBit /\ r.PendingBit = bit /\ r.IsTransferring
  BY <1>2, <1>3, Zenon DEF Transfers
<1>5. Got(r, p, i \div 2)
  <2>1. Got([t EXCEPT !.HasPendingBit = TRUE, !.PendingBit = bit], p, i \div 2)
    BY <1>2, GotAFlag, Zenon
  <2> HIDE DEF r
  <2> QED
    BY <1>3, <2>1, Zenon
<1>6. ~Pushes(t, bits)
  BY <1>1 DEF Pushes
<1> HIDE DEF r
<1>7. Following(r, bits, p, i)
  <2>1. i >= 0 /\ i > 0 /\ i # -1
    OBVIOUS
  <2> QED
    BY <1>4, <1>5, <2>1 DEF Following, bits, bit
<1>8. Heard(t, bits, p, i)
  BY <1>6, <1>7 DEF Heard, r
<1> QED
  BY <1>8 DEF bits

LEMMA NextPulseHeard ==
  ASSUME NEW t, Receiving(t), NEW p \in Packets, p[1] % 8 = 1,
         NEW i \in -1..256, NEW io, Following(t, io, p, i)
  PROVE  Heard(t, PacketPulse(p, i + 1), p, i + 1)
<1> DEFINE bits == PacketPulse(p, i + 1)
           r == Received(t, bits)
<1>1. t \in Transfers
  BY DEF Receiving
<1>2. CASE i = -1
  <2>1. bits = 3 /\ i + 1 = 0
    BY <1>2, PulseKinds
  <2>2. ~t.IsTransferring /\ ~t.HasPendingBit /\ Got(t, p, 0)
    BY <1>2 DEF Following
  <2>3. r = [t EXCEPT !.IsTransferring = TRUE]
    BY <2>1, <2>2 DEF Received
  <2>4. Got(r, p, 0) /\ r.IsTransferring /\ ~r.HasPendingBit
    <3>1. r.IsTransferring = TRUE /\ r.HasPendingBit = t.HasPendingBit
      BY <1>1, <2>3, Zenon DEF Transfers
    <3>2. Got([t EXCEPT !.IsTransferring = TRUE], p, 0)
      BY <1>1, <2>2, GotAFlag, Zenon
    <3> HIDE DEF r
    <3>3. Got(r, p, 0)
      BY <2>3, <3>2, Zenon
    <3> QED
      BY <2>2, <3>1, <3>3
  <2>5. ~Pushes(t, bits)
    BY <2>2 DEF Pushes
  <2>6. Following(r, 3, p, 0)
    <3>1. PacketPulse(p, 0) = 3 /\ 0 \div 2 = 0
      BY <2>1, <1>2
    <3> HIDE DEF r
    <3> QED
      BY <2>4, <3>1 DEF Following
  <2> QED
    BY <2>1, <2>5, <2>6 DEF Heard
<1>3. CASE i >= 0 /\ i % 2 = 0
  <2>1. i + 1 \in 1..257 /\ (i + 1) % 2 = 1 /\ (i + 1) \div 2 = i \div 2 /\ i # -1
    BY <1>3
  <2>2. t.IsTransferring /\ Got(t, p, (i + 1) \div 2)
    BY <1>3, <2>1 DEF Following
  <2> QED
    BY <2>1, <2>2, BitHeard
<1>4. CASE i >= 0 /\ i % 2 = 1
  <2> DEFINE n == i \div 2
  <2>1. /\ n \in 0..127 /\ i + 1 \in 2..256 /\ (i + 1) % 2 = 0
        /\ (i + 1) \div 2 = n + 1 /\ i < 257 /\ i # -1 /\ i > 0
    BY <1>4
  <2>2. bits = 3
    BY <2>1, PulseKinds
  <2>3. /\ t.IsTransferring /\ t.HasPendingBit
        /\ t.PendingBit = 2 - PacketPulse(p, i) /\ Got(t, p, n)
    BY <1>4, <2>1 DEF Following
  <2>4. t.PendingBit = BitOf(p, n + 1)
    BY <1>4, <2>1, <2>3, PulseKinds, SMTT(30)
  <2>5. r = PushBit(t)
    BY <2>2, <2>3 DEF Received
  <2> HIDE DEF n
  <2>6. /\ Got(r, p, n + 1) /\ ~WritesOutside(t) /\ ~Complete(r)
        /\ r.HasPendingBit = FALSE /\ r.IsTransferring
    BY <2>1, <2>3, <2>4, <2>5, PushGot, ZenonT(60)
  <2>7. Following(r, bits, p, i + 1)
    <3>1. i + 1 >= 0 /\ i + 1 # -1
      BY <2>1
    <3> HIDE DEF r
    <3> QED
      BY <2>1, <2>6, <3>1 DEF Following
  <2> QED
    BY <2>6, <2>7 DEF Heard
<1> QED
  BY <1>2, <1>3, <1>4

LEMMA SamePulseHeard ==
  ASSUME NEW t, Receiving(t), NEW p \in Packets,
         NEW i \in -1..257, NEW io, Following(t, io, p, i)
  PROVE  Heard(t, io, p, i)
<1> DEFINE r == Received(t, io)
<1>1. t \in Transfers /\ io = PacketPulse(p, i)
  BY DEF Receiving, Following
<1>2. CASE i = -1
  <2>1. io = 0
    BY <1>1, <1>2, PulseKinds
  <2>2. ~t.IsTransferring /\ ~t.HasPendingBit /\ Got(t, p, 0)
    BY <1>2 DEF Following
  <2>3. r = [t EXCEPT !.IsTransferring = FALSE]
    <3> DEFINE confirmed == io = 3
    <3>1. r = [t EXCEPT !.IsTransferring = confirmed]
      BY <2>2 DEF Received
    <3>2. confirmed = FALSE
      BY <2>1
    <3> HIDE DEF confirmed
    <3> QED
      BY <3>1, <3>2
  <2>4. Got(r, p, 0) /\ ~r.IsTransferring /\ ~r.HasPendingBit
    <3>1. r.IsTransferring = FALSE /\ r.HasPendingBit = t.HasPendingBit
      BY <1>1, <2>3, Zenon DEF Transfers
    <3>2. Got([t EXCEPT !.IsTransferring = FALSE], p, 0)
      BY <1>1, <2>2, GotAFlag, Zenon
    <3> HIDE DEF r
    <3>3. Got(r, p, 0)
      BY <2>3, <3>2, Zenon
    <3> QED
      BY <2>2, <3>1, <3>3
  <2>5. ~Pushes(t, io)
    BY <2>2 DEF Pushes
  <2> HIDE DEF r
  <2>6. Following(r, io, p, i)
    BY <1>1, <1>2, <2>4 DEF Following
  <2> QED
    BY <2>5, <2>6 DEF Heard, r
<1>3. CASE i >= 0 /\ i % 2 = 0
  <2>1. io = 3 /\ t.IsTransferring /\ ~t.HasPendingBit
    BY <1>1, <1>3, PulseKinds DEF Following
  <2>2. r = t /\ ~Pushes(t, io)
    BY <2>1 DEF Received, Pushes
  <2> QED
    BY <2>2 DEF Heard
<1>4. CASE i >= 0 /\ i % 2 = 1
  <2>1. i \in 1..257 /\ i # -1
    BY <1>4
  <2>2. t.IsTransferring /\ Got(t, p, i \div 2)
    BY <1>4, <2>1 DEF Following
  <2> QED
    BY <1>1, <1>4, <2>1, <2>2, BitHeard
<1> QED
  BY <1>2, <1>3, <1>4

(* The stop bit confirmed: the packet has arrived as it was sent.          *)
Arrived(t, p) ==
  /\ t.NumberOfPackets = 1 /\ t.CurrentCommand = p[1] \div 8
  /\ DOMAIN t.Buffer = 0..15
  /\ \A j \in 0..15 : t.Buffer[j] = p[j + 1]

LEMMA StopBitHeard ==
  ASSUME NEW t, Receiving(t), NEW p \in Packets, NEW io, Following(t, io, p, 257)
  PROVE  /\ Pushes(t, 3) /\ Complete(Received(t, 3)) /\ ~WritesOutside(t)
         /\ Arrived(t, p) /\ Arrived(Received(t, 3), p)
<1> DEFINE r == Received(t, 3)
<1>1. 257 \div 2 = 128 /\ 257 % 2 = 1 /\ 257 >= 0 /\ 257 > 0 /\ 257 # -1
      /\ 257 \in -1..258
  OBVIOUS
<1>2. /\ t.IsTransferring /\ t.HasPendingBit /\ t.PendingBit = 2 - io
      /\ io = PacketPulse(p, 257) /\ Got(t, p, 128)
  BY <1>1 DEF Following
<1>3. t.PendingBit = 0
  <2>1. io = 2
    BY <1>1, <1>2, PulseKinds
  <2> QED
    BY <1>2, <2>1
<1>4. t.AwaitingStopBit /\ t.PacketPointer = 1 /\ Arrived(t, p)
  <2>1. 128 \div 128 = 1 /\ 128 >= 8 /\ 128 \div 8 = 16 /\ (\A j \in 0..15 : j < 16)
    OBVIOUS
  <2> QED
    BY <1>2, <2>1 DEF Got, Arrived
<1>5. Pushes(t, 3) /\ r = PushBit(t)
  BY <1>2 DEF Pushes, Received
<1>6. /\ ~r.AwaitingStopBit
      /\ r.PacketPointer = t.PacketPointer
      /\ r.NumberOfPackets = t.NumberOfPackets
      /\ r.CurrentCommand = t.CurrentCommand /\ r.Buffer = t.Buffer
  BY <1>3, <1>4, <1>5, PushStopBit
<1> HIDE DEF r
<1>7. Complete(r) /\ Arrived(r, p)
  BY <1>4, <1>6 DEF Complete, Arrived
<1>8. ~WritesOutside(t)
  BY <1>4 DEF WritesOutside
<1> QED
  BY <1>4, <1>5, <1>7, <1>8 DEF r

-----------------------------------------------------------------------------
(* What is written to read the buttons completes nothing and fits into the *)
(* buffer it has announced, however often it is looked at.                 *)
Harmless(t, bits) ==
  /\ Chattering(Received(t, bits), bits)
  /\ ~(Pushes(t, bits) /\ Complete(Received(t, bits)))
  /\ ~(Pushes(t, bits) /\ WritesOutside(t))

LEMMA ChatterPushed ==
  ASSUME NEW t, Receiving(t), NEW io, Chattering(t, io), t.PendingBit = 1
  PROVE  /\ Chattering(PushBit(t), 3)
         /\ ~Complete(PushBit(t))
         /\ ~WritesOutside(t)
<1> DEFINE r == PushBit(t)
<1>1. t \in Transfers
  BY DEF Receiving
<1>2. t.BitBuffer = Bit(t.BitPointer) - 1 /\ t.BitPointer \in 0..7
      /\ t.BytePointer \in 0..15
  BY <1>1 DEF Chattering, Transfers, SGB_PACKET_LENGTH
<1>3. CASE t.AwaitingStopBit
  <2>1. /\ r.AwaitingStopBit /\ r.PendingBit = 1
        /\ r.BitBuffer = t.BitBuffer /\ r.BitPointer = t.BitPointer
        /\ r.BytePointer = t.BytePointer /\ r.PacketPointer = t.PacketPointer
        /\ r.NumberOfPackets = t.NumberOfPackets /\ r.Buffer = t.Buffer
    BY <1>3, PushStopBit
  <2>2. /\ t.NumberOfPackets = 7 /\ DOMAIN t.Buffer = 0..111
        /\ t.PacketPointer = 1 /\ t.BytePointer = 0
    BY <1>3 DEF Chattering
  <2>3. ~WritesOutside(t)
    BY <1>3 DEF WritesOutside
  <2> HIDE DEF r
  <2>4. Chattering(r, 3) /\ ~Complete(r)
    BY <1>2, <2>1, <2>2 DEF Chattering, Complete
  <2> QED
    BY <2>3, <2>4 DEF r
<1>4. CASE ~t.AwaitingStopBit /\ t.BitPointer # 7
  <2>1. r = [t EXCEPT !.BitBuffer = t.BitBuffer + t.PendingBit * Bit(t.BitPointer),
                      !.HasPendingBit = FALSE, !.BitPointer = t.BitPointer + 1]
    BY <1>4, PushOneBit
  <2>2. r.BitBuffer = t.BitBuffer + t.PendingBit * Bit(t.BitPointer)
        /\ r.BitPointer = t.BitPointer + 1
    BY <1>1, <2>1, Zenon DEF Transfers
  <2>3. /\ r.HasPendingBit = FALSE /\ r.AwaitingStopBit = FALSE
        /\ r.BytePointer = t.BytePointer /\ r.PacketPointer = t.PacketPointer
        /\ r.NumberOfPackets = t.NumberOfPackets /\ r.Buffer = t.Buffer
    BY <1>4, PushOneBit
  <2>4. ~WritesOutside(t)
    BY <1>4 DEF WritesOutside
  <2> HIDE DEF r
  <2>5. r.BitBuffer = Bit(r.BitPointer) - 1
    <3> DEFINE a == Bit(t.BitPointer)
               c == Bit(t.BitPointer + 1)
    <3>1. a \in 1..128 /\ c = 2 * a
      <4>1. t.BitPointer \in 0..6
        BY <1>2, <1>4
      <4> QED
        BY <4>1, BitDoubles
    <3>2. r.BitBuffer = (a - 1) + 1 * a
      BY <1>2, <2>2
    <3> HIDE DEF a, c
    <3>3. r.BitBuffer = c - 1
      BY <3>1, <3>2
    <3> QED
      BY <2>2, <3>3 DEF c
  <2>6. Chattering(r, 3) /\ ~Complete(r)
    BY <1>4, <2>3, <2>5 DEF Chattering, Complete
  <2> QED
    BY <2>4, <2>6 DEF r
<1>5. CASE ~t.AwaitingStopBit /\ t.BitPointer = 7
  <2> DEFINE b == t.BitBuffer + t.PendingBit * 128
             room == Room(t, b)
  <2>1. b = 255
    <3>1. t.BitBuffer = 127
      BY <1>2, <1>5, BitValues
    <3> QED
      BY <3>1
  <2>2. t.PacketPointer = 0
    BY <1>5 DEF Chattering
  <2>3. StartsCommand(t) \/ (t.NumberOfPackets = 7 /\ DOMAIN t.Buffer = 0..111)
    BY <1>5 DEF Chattering, StartsCommand
  <2> HIDE DEF b
  <2>4. DOMAIN room = 0..111
    <3>1. b % 8 = 7 /\ SGB_PACKET_LENGTH * 7 - 1 = 111
      BY <2>1 DEF SGB_PACKET_LENGTH
    <3> QED
      BY <2>3, <3>1 DEF Room
  <2>5. /\ r.HasPendingBit = FALSE /\ r.BitBuffer = 0 /\ r.BitPointer = 0
    BY <1>5, PushLastBit
  <2>6. r.NumberOfPackets = 7
    <3>1. r.NumberOfPackets = IF StartsCommand(t) THEN b % 8 ELSE t.NumberOfPackets
      BY <1>5, PushLastBit DEF b
    <3>2. b % 8 = 7
      BY <2>1
    <3> QED
      BY <2>3, <3>1, <3>2
  <2>7. /\ r.Buffer = [i \in DOMAIN room |-> IF i = Index(t) THEN b ELSE room[i]]
        /\ (WritesOutside(t) <=> Index(t) \notin DOMAIN room)
    BY <1>5, PushLastBit DEF b
  <2>8. Index(t) \in 0..111
    BY <1>2, <2>2 DEF Index, SGB_PACKET_LENGTH
  <2> HIDE DEF room
  <2>9. DOMAIN r.Buffer = 0..111 /\ ~WritesOutside(t)
    BY <2>4, <2>7, <2>8
  <2>10. CASE t.BytePointer = SGB_PACKET_LENGTH - 1
    <3>1. (t.PacketPointer + 1) % 256 = 1
      BY <2>2
    <3>2. r.BytePointer = 0
      BY <1>5, <2>10, PushLastBit
    <3>3. r.AwaitingStopBit
      BY <1>5, <2>10, PushLastBit
    <3>4. r.PacketPointer = 1
      BY <1>5, <2>10, <3>1, PushLastBit
    <3> HIDE DEF r
    <3>5. Chattering(r, 3) /\ ~Complete(r)
      BY <2>5, <2>6, <2>9, <3>2, <3>3, <3>4, BitValues DEF Chattering, Complete
    <3> QED
      BY <2>9, <3>5 DEF r
  <2>11. CASE t.BytePointer # SGB_PACKET_LENGTH - 1
    <3>1. ~r.AwaitingStopBit
      BY <1>5, <2>11, PushLastBit
    <3>2. r.PacketPointer = 0
      BY <1>5, <2>2, <2>11, PushLastBit
    <3> HIDE DEF r
    <3>3. Chattering(r, 3) /\ ~Complete(r)
      BY <2>5, <2>6, <2>9, <3>1, <3>2, BitValues DEF Chattering, Complete
    <3> QED
      BY <2>9, <3>3 DEF r
  <2> QED
    BY <2>10, <2>11
<1> QED
  BY <1>3, <1>4, <1>5

LEMMA ResetChatters == \A io : Chattering(ResetTransfer, io)
  BY BitValues DEF Chattering, ResetTransfer

LEMMA IdleChatters ==
  ASSUME NEW t, Idle(t), ~t.IsTransferring
  PROVE  ~t.HasPendingBit /\ \A io : Chattering(t, io)
<1>1. SameBits(t, ResetTransfer)
  BY DEF Idle
<1>2. ~t.HasPendingBit
  BY <1>1 DEF SameBits, ResetTransfer
<1>3. \A io : Chattering(t, io)
  BY <1>1, ResetChatters, SameBitsSay
<1> QED
  BY <1>2, <1>3

LEMMA ChatterHeard ==
  ASSUME NEW t, Receiving(t), Idle(t), NEW io, Chattering(t, io),
         NEW bits \in 0..3, bits = 3 => io # 2
  PROVE  Harmless(t, bits)
<1> DEFINE r == Received(t, bits)
<1>1. t \in Transfers
  BY DEF Receiving
<1>2. CASE ~t.IsTransferring
  <2>1. ~Pushes(t, bits)
    BY <1>2 DEF Pushes
  <2> DEFINE confirmed == bits = 3
  <2>2. r = [t EXCEPT !.IsTransferring = confirmed]
    BY <1>2 DEF Received
  <2> HIDE DEF confirmed
  <2>3. /\ r.HasPendingBit = t.HasPendingBit
        /\ r.AwaitingStopBit = t.AwaitingStopBit
        /\ r.BitBuffer = t.BitBuffer /\ r.BitPointer = t.BitPointer
        /\ r.BytePointer = t.BytePointer /\ r.PacketPointer = t.PacketPointer
        /\ r.NumberOfPackets = t.NumberOfPackets /\ r.Buffer = t.Buffer
    BY <1>1, <2>2, Zenon DEF Transfers
  <2>4. ~t.HasPendingBit /\ Chattering(t, bits)
    BY <1>2, IdleChatters
  <2> HIDE DEF r
  <2>5. Chattering(r, bits)
    BY <2>3, <2>4 DEF Chattering
  <2> QED
    BY <2>1, <2>5 DEF Harmless, r
<1>3. CASE t.IsTransferring /\ bits = 0
  <2>1. r = ResetTransfer /\ ~Pushes(t, bits)
    BY <1>3 DEF Received, Pushes
  <2> HIDE DEF r
  <2>2. Chattering(r, bits)
    BY <2>1, ResetChatters
  <2> QED
    BY <2>1, <2>2 DEF Harmless, r
<1>4. CASE t.IsTransferring /\ bits \in {1, 2}
  <2> DEFINE bit == 2 - bits
  <2>1. ~Pushes(t, bits)
    BY <1>4 DEF Pushes
  <2>2. r = [t EXCEPT !.HasPendingBit = TRUE, !.PendingBit = bit]
    BY <1>4 DEF Received
  <2>3. bits # 2 => bit = 1
    BY <1>4
  <2> HIDE DEF bit
  <2>4. /\ r.PendingBit = bit
        /\ r.AwaitingStopBit = t.AwaitingStopBit
        /\ r.BitBuffer = t.BitBuffer /\ r.BitPointer = t.BitPointer
        /\ r.BytePointer = t.BytePointer /\ r.PacketPointer = t.PacketPointer
        /\ r.NumberOfPackets = t.NumberOfPackets /\ r.Buffer = t.Buffer
    BY <1>1, <2>2, Zenon DEF Transfers
  <2> HIDE DEF r
  <2>5. Chattering(r, bits)
    BY <2>3, <2>4 DEF Chattering
  <2> QED
    BY <2>1, <2>5 DEF Harmless, r
<1>5. CASE t.IsTransferring /\ bits = 3 /\ ~t.HasPendingBit
  <2>1. r = t /\ ~Pushes(t, bits)
    BY <1>5 DEF Received, Pushes
  <2>2. Chattering(t, bits)
    BY <1>5 DEF Chattering
  <2> QED
    BY <2>1, <2>2 DEF Harmless
<1>6. CASE t.IsTransferring /\ bits = 3 /\ t.HasPendingBit
  <2>1. t.PendingBit = 1
    BY <1>6 DEF Chattering
  <2>2. r = PushBit(t)
    BY <1>6 DEF Received
  <2> HIDE DEF r
  <2>3. Chattering(r, 3) /\ ~Complete(r) /\ ~WritesOutside(t)
    BY <2>1, <2>2, ChatterPushed
  <2> QED
    BY <1>6, <2>3 DEF Harmless, r
<1>7. bits = 0 \/ bits \in {1, 2} \/ bits = 3
  OBVIOUS
<1> QED
  BY <1>2, <1>3, <1>4, <1>5, <1>6, <1>7

(* A look at the register leaves a transfer idle or in progress.           *)
LEMMA LookIdles ==
  ASSUME NEW t, Receiving(t), Idle(t), NEW bits \in 0..3
  PROVE  Idle(Received(t, bits))
<1> DEFINE r == Received(t, bits)
<1>1. t \in Transfers
  BY DEF Receiving
<1>2. CASE ~t.IsTransferring
  <2> DEFINE confirmed == bits = 3
  <2>1. r = [t EXCEPT !.IsTransferring = confirmed] /\ confirmed \in BOOLEAN
    BY <1>2 DEF Received
  <2> HIDE DEF confirmed
  <2>2. r.IsTransferring = confirmed
    BY <1>1, <2>1, Zenon DEF Transfers
  <2>3. CASE confirmed
    BY <2>2, <2>3 DEF Idle
  <2>4. CASE ~confirmed
    <3>1. confirmed = t.IsTransferring
      <4>1. t.IsTransferring = FALSE
        BY <1>1, <1>2, Zenon DEF Transfers
      <4>2. confirmed = FALSE
        BY <2>1, <2>4
      <4> QED
        BY <4>1, <4>2
    <3>2. r = t
      BY <1>1, <2>1, <3>1, Zenon DEF Transfers
    <3> QED
      BY <3>2
  <2> QED
    BY <2>3, <2>4
<1>3. CASE t.IsTransferring
  <2>1. CASE r = PushBit(t)
    <3>1. PushBit(t).IsTransferring = t.IsTransferring
      <4>1. CASE t.AwaitingStopBit
        BY <4>1, PushStopBit
      <4>2. CASE ~t.AwaitingStopBit /\ t.BitPointer # 7
        BY <4>2, PushOneBit
      <4>3. CASE ~t.AwaitingStopBit /\ t.BitPointer = 7
        BY <4>3, PushLastBit
      <4> QED
        BY <4>1, <4>2, <4>3
    <3> QED
      BY <1>3, <2>1, <3>1 DEF Idle
  <2>2. CASE r = [t EXCEPT !.HasPendingBit = TRUE, !.PendingBit = 2 - bits]
    <3>1. r.IsTransferring = t.IsTransferring
      BY <1>1, <2>2, Zenon DEF Transfers
    <3> QED
      BY <1>3, <3>1 DEF Idle
  <2>3. CASE r = t \/ r = ResetTransfer
    BY <1>3, <2>3 DEF Idle, SameBits
  <2> QED
    BY <1>1, <1>3, <2>1, <2>2, <2>3, ReceivedCases
<1> QED
  BY <1>2, <1>3

-----------------------------------------------------------------------------
(* The steps of a game whose commands are of one packet.  A look at the    *)
(* register either leaves the screen and the memory alone, or executes the *)
(* command sent, at the end of its pulses.                                 *)
Quiet == /\ executions' = executions /\ TilePalettes' = TilePalettes
         /\ RamBlocks' = RamBlocks /\ (overrun' <=> overrun)
Runs ==
  /\ Sending /\ sent' = sent /\ sending' = <<>> /\ executions' = 1
  /\ Arrived(transfer, sent[1])
  /\ \E r \in Transfers : /\ Arrived(r, sent[1])
                          /\ TilePalettes' = Effect(r).tile
                          /\ RamBlocks' = Effect(r).blocks
                          /\ overrun' <=> overrun \/ Effect(r).over

LEMMA QuietLook ==
  ASSUME PacketInv, NEW bits \in 0..3, ProcessSgb(bits),
         ~(Pushes(transfer, bits) /\ Complete(Received(transfer, bits))),
         ~(Pushes(transfer, bits) /\ WritesOutside(transfer))
  PROVE  /\ Quiet
         /\ SameBits(transfer', Received(transfer, bits))
         /\ Idle(transfer')
<1>1. GameInv /\ Receiving(transfer) /\ Idle(transfer)
  BY DEF PacketInv, GameInv, Listening
<1>2. ~Executes(bits)
  BY DEF Executes
<1>3. SameBits(transfer', Received(transfer, bits)) /\ Quiet
  BY <1>1, <1>2, LookLeaves DEF Quiet
<1>4. Idle(Received(transfer, bits))
  BY <1>1, LookIdles
<1> QED
  BY <1>3, <1>4 DEF Idle, SameBits

LEMMA SameFollowing ==
  ASSUME NEW t, NEW u, SameBits(u, t), NEW io, NEW p, NEW i, Following(t, io, p, i)
  PROVE  Following(u, io, p, i)
<1>1. Got(u, p, IF i = -1 THEN 0 ELSE i \div 2)
  BY SameBitsSay DEF Following
<1> QED
  BY <1>1 DEF Following, SameBits

LEMMA PulseWritten ==
  ASSUME GameInv, WriteJoypad
  PROVE  /\ Head(sending) \in 0..3 /\ Head(sending) = sending[1]
         /\ JoypadIo' = Head(sending)
         /\ Len(sending) \in Nat /\ Len(sending) >= 1
         /\ Len(sending') = Len(sending) - 1
         /\ \A i \in 1..(Len(sending) - 1) : sending'[i] = sending[i + 1]
         /\ ProcessSgb(Head(sending)) /\ sent' = sent
<1>1. sending \in Seq(0..3) /\ sending # <<>> /\ sending' = Tail(sending)
  BY DEF GameInv, WriteJoypad
<1>2. /\ Head(sending) \in 0..3
      /\ Len(Tail(sending)) = Len(sending) - 1
      /\ \A i \in 1..Len(Tail(sending)) : Tail(sending)[i] = sending[i + 1]
  BY <1>1, HeadTailProperties, Zenon
<1>3. Head(sending) = sending[1]
  BY <1>1
<1>4. Len(sending) \in Nat /\ Len(sending) # 0
  BY <1>1
<1> QED
  BY <1>1, <1>2, <1>3, <1>4 DEF WriteJoypad

(* Everything of PacketInv but the transfer and what is still sent.        *)
LEMMA SentPacket ==
  ASSUME OnePacketGame, PacketInv, Sending
  PROVE  /\ sent \in Commands /\ sent[1] \in Packets /\ sent[1][1] % 8 = 1
         /\ Underway
  BY OnePacketCommands DEF PacketInv, Sending

LEMMA FirstPulse ==
  ASSUME OnePacketGame, PacketInv, Sending, Len(sending) = 260, WriteJoypad, GameInv'
  PROVE  Quiet /\ PacketInv'
<1> DEFINE p == sent[1]
           r == Received(transfer, 0)
<1>1. p \in Packets /\ Underway /\ GameInv /\ Receiving(transfer) /\ Idle(transfer)
      /\ sent \in Commands /\ executions = 0 /\ Chattering(transfer, JoypadIo)
  BY SentPacket, SMTT(30) DEF PacketInv, GameInv, Listening, Sending
<1>2. /\ Head(sending) = sending[1] /\ JoypadIo' = Head(sending)
      /\ Len(sending') = 259 /\ sent' = sent /\ ProcessSgb(Head(sending))
      /\ \A i \in 1..259 : sending'[i] = sending[i + 1]
  <2>1. 260 - 1 = 259
    OBVIOUS
  <2> QED
    BY <1>1, <2>1, PulseWritten
<1>3. \A i \in 1..260 : sending[i] = PacketPulse(p, i - 2)
  <2>1. \A i \in 1..260 : Last + i = i - 2
    BY DEF Last
  <2> QED
    BY <1>1, <2>1 DEF Underway
<1>4. Head(sending) = 0
  <2>1. 1 - 2 = -1 /\ 1 \in 1..260
    OBVIOUS
  <2>2. PacketPulse(p, -1) = 0
    BY <1>1, PulseKinds
  <2> QED
    BY <1>2, <1>3, <2>1, <2>2
<1>5. Harmless(transfer, 0)
  BY <1>1, ChatterHeard
<1>6. /\ Quiet /\ SameBits(transfer', r) /\ Idle(transfer')
  BY <1>2, <1>4, <1>5, QuietLook DEF Harmless
<1>7. ~r.IsTransferring
  <2>1. transfer \in Transfers
    BY <1>1 DEF Receiving
  <2>2. CASE ~transfer.IsTransferring
    <3> DEFINE confirmed == 0 = 3
    <3>1. r = [transfer EXCEPT !.IsTransferring = confirmed]
      BY <2>2 DEF Received
    <3>2. ~confirmed
      OBVIOUS
    <3> HIDE DEF confirmed, r
    <3>3. r.IsTransferring = confirmed
      BY <2>1, <3>1, Zenon DEF Transfers
    <3> QED
      BY <3>2, <3>3
  <2>3. CASE transfer.IsTransferring
    BY <2>3 DEF Received, ResetTransfer
  <2> QED
    BY <2>2, <2>3
<1>8. SameBits(transfer', ResetTransfer)
  BY <1>6, <1>7 DEF SameBits, Idle
<1>9. Following(transfer', 0, p, -1)
  <2>1. Got(ResetTransfer, p, 0)
    <3>1. p[1] \in 0..255 /\ 0 % 8 = 0 /\ 0 \div 8 = 0 /\ 0 \div 128 = 0 /\ 0 % 16 = 0
      BY <1>1 DEF Packets, SGB_PACKET_LENGTH, Byte
    <3>2. p[1] % Bit(0) = 0
      BY <3>1, NoBits, SMTT(30)
    <3> QED
      BY <3>1, <3>2 DEF Got, ResetTransfer
  <2>2. Got(transfer', p, 0)
    BY <1>8, <2>1, SameBitsSay
  <2>3. PacketPulse(p, -1) = 0
    BY <1>1, PulseKinds
  <2>4. ~transfer'.IsTransferring /\ ~transfer'.HasPendingBit
    BY <1>8 DEF SameBits, ResetTransfer
  <2> QED
    BY <2>2, <2>3, <2>4 DEF Following
<1>10. Underway'
  <2>1. Last' = -1 /\ \A i \in 1..259 : (i + 1) - 2 = -1 + i
    BY <1>2 DEF Last
  <2>2. \A i \in 1..259 : sending'[i] = PacketPulse(p, -1 + i)
    <3>1. \A i \in 1..259 : i + 1 \in 1..260
      OBVIOUS
    <3> QED
      BY <1>2, <1>3, <2>1, <3>1
  <2> QED
    BY <1>2, <1>4, <1>9, <2>1, <2>2 DEF Underway
<1>11. Sending' /\ executions' = 0
  BY <1>1, <1>2, <1>6 DEF Sending, Quiet
<1> QED
  BY <1>1, <1>2, <1>6, <1>10, <1>11 DEF PacketInv

LEMMA NextPulse ==
  ASSUME OnePacketGame, PacketInv, Sending, WriteJoypad, GameInv',
         Len(sending) >= 2, Len(sending) <= 259
  PROVE  Quiet /\ PacketInv'
<1> DEFINE p == sent[1]
           i == Last
           bits == Head(sending)
           n == Len(sending)
<1>1. p \in Packets /\ p[1] % 8 = 1 /\ Underway /\ GameInv /\ Receiving(transfer)
      /\ sent \in Commands /\ executions = 0
  BY SentPacket DEF PacketInv, GameInv, Listening, Sending
<1>2. /\ bits \in 0..3 /\ bits = sending[1] /\ JoypadIo' = bits
      /\ Len(sending') = n - 1 /\ sent' = sent /\ ProcessSgb(bits)
      /\ \A j \in 1..(n - 1) : sending'[j] = sending[j + 1]
  BY <1>1, PulseWritten
<1>3. n \in Int /\ n >= 2 /\ n <= 259
  BY <1>1, PulseWritten
<1> HIDE DEF n
<1>4. /\ i \in -1..256 /\ Last' = i + 1
      /\ \A j \in 1..n : sending[j] = PacketPulse(p, i + j)
      /\ Following(transfer, JoypadIo, p, i)
  <2>1. i = 258 - n /\ Last' = 258 - (n - 1)
    BY <1>2 DEF Last, n
  <2>2. n # 260
    BY <1>3
  <2>3. /\ \A j \in 1..n : sending[j] = PacketPulse(p, i + j)
        /\ Following(transfer, JoypadIo, p, i)
    BY <1>1, <2>2 DEF Underway, n
  <2> HIDE DEF i
  <2> QED
    BY <1>3, <2>1, <2>3
<1> HIDE DEF i
<1>5. bits = PacketPulse(p, i + 1)
  <2>1. 1 \in 1..n
    BY <1>3
  <2> QED
    BY <1>2, <1>4, <2>1
<1>6. Heard(transfer, bits, p, i + 1)
  BY <1>1, <1>4, <1>5, NextPulseHeard
<1>7. /\ Quiet /\ SameBits(transfer', Received(transfer, bits)) /\ Idle(transfer')
  BY <1>2, <1>6, QuietLook DEF Heard
<1>8. Following(transfer', bits, p, i + 1)
  BY <1>6, <1>7, SameFollowing DEF Heard
<1> HIDE DEF bits
<1>9. Underway'
  <2>1. Len(sending') \in 1..260 /\ Len(sending') # 260 /\ Len(sending') = n - 1
    BY <1>3, <1>2
  <2>2. \A j \in 1..Len(sending') : sending'[j] = PacketPulse(p, (i + 1) + j)
    <3> TAKE j \in 1..Len(sending')
    <3>1. j \in 1..(n - 1) /\ j + 1 \in 1..n /\ i + (j + 1) = (i + 1) + j
      BY <1>3, <1>4, <2>1
    <3> QED
      BY <1>2, <1>4, <3>1
  <2> QED
    BY <1>2, <1>4, <1>8, <2>1, <2>2 DEF Underway
<1>10. Sending' /\ executions' = 0 /\ Len(sending') # 260
  <2>1. Len(sending') # 260
    BY <1>3, <1>2
  <2> QED
    BY <1>1, <1>2, <1>7, <2>1 DEF Sending, Quiet
<1> QED
  BY <1>1, <1>2, <1>7, <1>9, <1>10 DEF PacketInv

LEMMA LastPulse ==
  ASSUME OnePacketGame, PacketInv, Sending, WriteJoypad, GameInv', Len(sending) = 1
  PROVE  Runs /\ PacketInv'
<1> DEFINE p == sent[1]
           r == Received(transfer, 3)
           e == Effect(r)
<1>1. p \in Packets /\ p[1] % 8 = 1 /\ Underway /\ GameInv /\ Receiving(transfer)
      /\ sent \in Commands /\ executions = 0
  BY SentPacket DEF PacketInv, GameInv, Listening, Sending
<1>2. /\ Head(sending) = sending[1] /\ JoypadIo' = Head(sending)
      /\ Len(sending') = 0 /\ sent' = sent /\ ProcessSgb(Head(sending))
  <2>1. 1 - 1 = 0
    OBVIOUS
  <2> QED
    BY <1>1, <2>1, PulseWritten
<1>3. Head(sending) = 3 /\ Following(transfer, JoypadIo, p, 257)
  <2>1. Last = 257 /\ 257 + 1 = 258 /\ 1 \in 1..1 /\ 1 # 260
    BY DEF Last
  <2>2. sending[1] = PacketPulse(p, 258)
    BY <1>1, <2>1 DEF Underway
  <2>3. PacketPulse(p, 258) = 3
    BY <1>1, PulseKinds
  <2> QED
    BY <1>1, <1>2, <2>1, <2>2, <2>3 DEF Underway
<1>4. /\ Executes(3) /\ ~WritesOutside(transfer)
      /\ Arrived(transfer, p) /\ Arrived(r, p)
  BY <1>1, <1>3, StopBitHeard DEF Executes
<1>5. r \in Transfers
  BY <1>1, ReceivedType
<1>6. /\ SameBits(transfer', ResetTransfer)
      /\ executions' = 1
      /\ TilePalettes' = e.tile /\ RamBlocks' = e.blocks
      /\ (overrun' <=> overrun \/ e.over)
  <2>1. ProcessSgb(3)
    BY <1>2, <1>3
  <2>2. executions' = IF executions < 2 THEN executions + 1 ELSE executions
    BY <1>1, <1>4, <2>1, LookLeaves
  <2>3. executions' = 1
    BY <1>1, <2>2
  <2>4. SameBits(transfer', ResetTransfer)
    BY <1>1, <1>4, <2>1, LookLeaves
  <2>5. TilePalettes' = e.tile /\ RamBlocks' = e.blocks
        /\ (overrun' <=> overrun \/ WritesOutside(transfer) \/ e.over)
    BY <1>1, <1>4, <2>1, LookLeaves
  <2> QED
    BY <1>4, <2>3, <2>4, <2>5
<1> HIDE DEF r, e
<1>7. sending' = <<>>
  BY <1>2 DEF GameInv
<1>8. Runs
  BY <1>2, <1>4, <1>5, <1>6, <1>7 DEF Runs, e
<1>9. Chattering(transfer', JoypadIo') /\ Idle(transfer')
  <2>1. Chattering(transfer', JoypadIo')
    BY <1>6, ResetChatters, SameBitsSay
  <2> QED
    BY <1>6, <2>1 DEF Idle
<1>10. Asking' /\ ~Sending'
  <2>1. Len(sending') = 0 /\ (\A i : i \notin 1..0) /\ JoypadIo' = 3
    BY <1>2, <1>3
  <2> QED
    BY <1>6, <2>1 DEF Asking, Sending
<1> QED
  BY <1>1, <1>2, <1>6, <1>8, <1>9, <1>10 DEF PacketInv

(* A look between two writes.                                              *)
LEMMA SamePulse ==
  ASSUME OnePacketGame, PacketInv, OtherInstruction, GameInv'
  PROVE  Quiet /\ PacketInv'
<1>1. /\ GameInv /\ Receiving(transfer) /\ Idle(transfer) /\ JoypadIo \in 0..3
      /\ ProcessSgb(JoypadIo) /\ JoypadIo' = JoypadIo /\ sending' = sending
      /\ sent' = sent
  BY DEF PacketInv, GameInv, Listening, OtherInstruction, gameVars
<1>2. CASE Sending /\ Len(sending) # 260
  <2> DEFINE p == sent[1]
  <2>1. p \in Packets /\ Underway /\ Following(transfer, JoypadIo, p, Last)
    BY <1>2, SentPacket DEF Underway
  <2>2. Last \in -1..257
    <3> DEFINE n == Len(sending)
    <3>1. n \in 1..260 /\ n # 260 /\ Last = 258 - n
      BY <1>2, <2>1 DEF Underway, Last
    <3> HIDE DEF n
    <3> QED
      BY <3>1
  <2>3. Heard(transfer, JoypadIo, p, Last)
    BY <1>1, <2>1, <2>2, SamePulseHeard
  <2>4. /\ Quiet /\ Idle(transfer')
        /\ SameBits(transfer', Received(transfer, JoypadIo))
    BY <1>1, <2>3, QuietLook DEF Heard
  <2>5. Following(transfer', JoypadIo, p, Last)
    BY <2>3, <2>4, SameFollowing, SMTT(30) DEF Heard
  <2>6. Underway' /\ Sending'
    BY <1>1, <1>2, <2>1, <2>4, <2>5 DEF Underway, Last, Sending, Quiet
  <2> QED
    BY <1>1, <1>2, <2>4, <2>6 DEF PacketInv, Quiet
<1>3. CASE ~Sending \/ Len(sending) = 260
  <2>1. Chattering(transfer, JoypadIo) /\ (JoypadIo = 3 => JoypadIo # 2)
    BY <1>3 DEF PacketInv
  <2>2. Harmless(transfer, JoypadIo)
    BY <1>1, <2>1, ChatterHeard
  <2>3. /\ Quiet /\ Idle(transfer')
        /\ SameBits(transfer', Received(transfer, JoypadIo))
    BY <1>1, <2>2, QuietLook DEF Harmless
  <2>4. Chattering(transfer', JoypadIo)
    BY <2>2, <2>3, SameBitsSay DEF Harmless
  <2>5. Sending' <=> Sending
    BY <1>1, <2>3 DEF Sending, Quiet
  <2>6. Sending => Underway'
    BY <1>1, <1>3 DEF PacketInv, Underway, Last
  <2>7. ~Sending => Asking'
    BY <1>1 DEF PacketInv, Asking
  <2> QED
    BY <1>1, <2>3, <2>4, <2>5, <2>6, <2>7 DEF PacketInv, Quiet
<1> QED
  BY <1>2, <1>3

(* A pulse of those that ask for the buttons.                              *)
LEMMA ButtonPulse ==
  ASSUME OnePacketGame, PacketInv, ~Sending, WriteJoypad, GameInv'
  PROVE  Quiet /\ PacketInv'
<1> DEFINE bits == Head(sending)
           n == Len(sending)
<1>1. /\ GameInv /\ Receiving(transfer) /\ Idle(transfer) /\ Asking
      /\ Chattering(transfer, JoypadIo)
  BY DEF PacketInv, GameInv, Listening
<1>2. /\ bits \in 0..3 /\ bits = sending[1] /\ JoypadIo' = bits
      /\ n \in Nat /\ n >= 1 /\ Len(sending') = n - 1
      /\ sent' = sent /\ ProcessSgb(bits)
      /\ \A i \in 1..(n - 1) : sending'[i] = sending[i + 1]
  BY <1>1, PulseWritten
<1>3. /\ \A i \in 1..n : sending[i] # 0 /\ (sending[i] = 3 <=> i = n)
      /\ n >= 2 => sending[n - 1] = 1
      /\ n <= 1 => JoypadIo # 2
  BY <1>1 DEF Asking
<1> HIDE DEF bits, n
<1>4. bits = 3 <=> n = 1
  <2>1. 1 \in 1..n
    BY <1>2
  <2> QED
    BY <1>2, <1>3, <2>1
<1>5. Harmless(transfer, bits)
  <2>1. bits = 3 => JoypadIo # 2
    BY <1>3, <1>4
  <2> QED
    BY <1>1, <1>2, <2>1, ChatterHeard
<1>6. /\ Quiet /\ Idle(transfer')
      /\ SameBits(transfer', Received(transfer, bits))
  BY <1>2, <1>5, QuietLook DEF Harmless, PacketInv
<1>7. Chattering(transfer', bits)
  BY <1>5, <1>6, SameBitsSay DEF Harmless
<1>8. ~Sending'
  BY <1>2, <1>6 DEF Sending, Quiet
<1>9. Asking'
  <2> DEFINE m == Len(sending')
  <2>1. m = n - 1
    BY <1>2
  <2> HIDE DEF m
  <2>2. \A i \in 1..m : sending'[i] # 0 /\ (sending'[i] = 3 <=> i = m)
    <3> TAKE i \in 1..m
    <3>1. i \in 1..(n - 1) /\ i + 1 \in 1..n /\ (i + 1 = n <=> i = m)
      BY <1>2, <2>1
    <3> QED
      BY <1>2, <1>3, <3>1
  <2>3. m >= 2 => sending'[m - 1] = 1
    <3>1. m >= 2 => m - 1 \in 1..(n - 1) /\ (m - 1) + 1 = n - 1 /\ n >= 2
      BY <1>2, <2>1
    <3> QED
      BY <1>2, <1>3, <3>1
  <2>4. m <= 1 => bits # 2
    <3>1. CASE n = 1
      BY <1>4, <3>1
    <3>2. CASE n = 2
      <4>1. sending[1] = 1
        BY <1>3, <3>2
      <4> QED
        BY <1>2, <4>1
    <3> QED
      BY <1>2, <2>1, <3>1, <3>2
  <2> QED
    BY <1>2, <2>2, <2>3, <2>4 DEF Asking, m
<1> QED
  BY <1>2, <1>6, <1>7, <1>8, <1>9 DEF PacketInv, Quiet

(* The other steps: one that begins a command or the game anew.            *)
Begins == /\ executions' = 0 /\ overrun' = overrun
          /\ RamBlocks' = RamBlocks \/ RamBlocks' = <<>>

LEMMA CommandBegins ==
  ASSUME OnePacketGame, PacketInv, NEW c \in Commands, SendCommand(c), GameInv'
  PROVE  Begins /\ PacketInv'
<1>1. /\ sending = <<>> /\ sending' = CommandPulses(c) /\ sent' = c
      /\ executions' = 0 /\ transfer' = transfer /\ JoypadIo' = JoypadIo
      /\ overrun' = overrun /\ RamBlocks' = RamBlocks
  BY DEF SendCommand
<1>2. ~Sending
  <2>1. SUFFICES ASSUME Sending PROVE FALSE
    OBVIOUS
  <2>2. Len(sending) \in 1..260
    BY <2>1 DEF PacketInv, Underway
  <2> QED
    BY <1>1, <2>2
<1>3. JoypadIo # 2 /\ Chattering(transfer, JoypadIo)
  <2>1. Len(sending) = 0
    BY <1>1
  <2> QED
    BY <1>2, <2>1 DEF PacketInv, Asking
<1>4. /\ c # <<>> /\ sending' = [i \in 1..260 |-> PacketPulse(c[1], i - 2)]
  BY <1>1, OnePacketCommands
<1>5. Len(sending') = 260
  BY <1>4
<1>6. Underway'
  <2>1. \A i \in 1..260 : sending'[i] = PacketPulse(c[1], i - 2) /\ -2 + i = i - 2
    BY <1>4
  <2>2. Last' = -2 /\ 260 \in 1..260
    BY <1>5 DEF Last
  <2> QED
    BY <1>1, <1>3, <1>5, <2>1, <2>2 DEF Underway
<1> QED
  BY <1>1, <1>3, <1>4, <1>6 DEF PacketInv, Begins, Sending

LEMMA ButtonsBegin ==
  ASSUME OnePacketGame, PacketInv, ReadButtons, GameInv'
  PROVE  Quiet /\ PacketInv'
<1>1. /\ sending = <<>> /\ sending' = ButtonOrder \o <<3>> /\ sent' = sent
      /\ executions' = executions /\ transfer' = transfer /\ JoypadIo' = JoypadIo
      /\ overrun' = overrun /\ RamBlocks' = RamBlocks
      /\ TilePalettes' = TilePalettes
  BY DEF ReadButtons, screenVars
<1>2. ~Sending
  <2>1. SUFFICES ASSUME Sending PROVE FALSE
    OBVIOUS
  <2>2. Len(sending) \in 1..260
    BY <2>1 DEF PacketInv, Underway
  <2> QED
    BY <1>1, <2>2
<1>3. JoypadIo # 2
  <2>1. Len(sending) = 0
    BY <1>1
  <2> QED
    BY <1>2, <2>1 DEF PacketInv, Asking
<1> DEFINE n == Len(ButtonOrder)
<1>4. ButtonOrder \in Seq(0..3) /\ <<3>> \in Seq(0..3) /\ Len(<<3>>) = 1
      /\ n \in Nat /\ \A i \in 1..n : ButtonOrder[i] \in {1, 2}
  BY ButtonsAssumption
<1>5. /\ Len(ButtonOrder \o <<3>>) = n + Len(<<3>>)
      /\ \A i \in 1..n + Len(<<3>>) :
           (ButtonOrder \o <<3>>)[i] = IF i <= n THEN ButtonOrder[i]
                                       ELSE <<3>>[i - n]
  BY <1>4, ConcatProperties, Zenon
<1>6. n >= 1 => ButtonOrder[n] = 1
  <2>1. n >= 1 => ButtonOrder # <<>>
    BY <1>4
  <2> QED
    BY <2>1 DEF OnePacketGame
<1> DEFINE m == Len(sending')
<1> HIDE DEF n
<1>7. /\ m = n + 1
      /\ \A i \in 1..n : sending'[i] = ButtonOrder[i]
      /\ sending'[n + 1] = 3
  <2>1. m = n + 1 /\ n + 1 \in 1..(n + 1) /\ ~(n + 1 <= n) /\ (n + 1) - n = 1
    BY <1>1, <1>4, <1>5
  <2>2. \A i \in 1..(n + 1) :
          sending'[i] = IF i <= n THEN ButtonOrder[i] ELSE <<3>>[i - n]
    BY <1>1, <1>4, <1>5
  <2>3. sending'[n + 1] = <<3>>[1]
    BY <2>1, <2>2
  <2>4. \A i \in 1..n : i \in 1..(n + 1) /\ i <= n
    BY <1>4
  <2> QED
    BY <2>1, <2>2, <2>3, <2>4
<1> HIDE DEF m
<1>8. Asking'
  <2>1. \A i \in 1..m : sending'[i] # 0 /\ (sending'[i] = 3 <=> i = m)
    <3> TAKE i \in 1..m
    <3>1. CASE i = n + 1
      BY <1>7, <3>1
    <3>2. CASE i # n + 1
      <4>1. i \in 1..n
        BY <1>4, <1>7, <3>2
      <4>2. sending'[i] \in {1, 2}
        BY <1>4, <1>7, <4>1
      <4> QED
        BY <1>7, <3>2, <4>2
    <3> QED
      BY <3>1, <3>2
  <2>2. m >= 2 => sending'[m - 1] = 1
    <3>1. m >= 2 => m - 1 = n /\ n >= 1 /\ n \in 1..n
      BY <1>4, <1>7
    <3> QED
      BY <1>6, <1>7, <3>1
  <2> QED
    BY <1>1, <1>3, <2>1, <2>2 DEF Asking, m
<1>9. ~Sending'
  BY <1>1, <1>2 DEF Sending
<1> QED
  BY <1>1, <1>2, <1>8, <1>9 DEF PacketInv, Quiet

LEMMA ResetBegins ==
  ASSUME GameInv', ResetSgbState
  PROVE  Begins /\ PacketInv'
<1>1. /\ sending' = <<>> /\ sent' = <<>> /\ executions' = 0 /\ JoypadIo' = 0
      /\ transfer' = ResetTransfer /\ overrun' = overrun /\ RamBlocks' = <<>>
  BY DEF ResetSgbState
<1>2. Chattering(transfer', JoypadIo') /\ Idle(transfer')
  BY <1>1, ResetChatters DEF Idle, SameBits
<1>3. Asking' /\ ~Sending'
  BY <1>1 DEF Asking, Sending
<1> QED
  BY <1>1, <1>2, <1>3 DEF PacketInv, Begins

LEMMA InitPacketInv == Init => PacketInv
<1> SUFFICES ASSUME Init PROVE PacketInv
  OBVIOUS
<1>1. GameInv
  BY InitGameInv
<1>2. /\ sending = <<>> /\ sent = <<>> /\ executions = 0 /\ JoypadIo = 0
      /\ transfer = ResetTransfer
  BY DEF Init
<1>3. Chattering(transfer, JoypadIo) /\ Idle(transfer)
  BY <1>2, ResetChatters DEF Idle, SameBits
<1>4. Asking /\ ~Sending
  BY <1>2 DEF Asking, Sending
<1> QED
  BY <1>1, <1>2, <1>3, <1>4 DEF PacketInv

LEMMA NextPacketInv ==
  ASSUME OnePacketGame
  PROVE  PacketInv /\ [Next]_vars => PacketInv' /\ (Quiet \/ Runs \/ Begins)
<1> SUFFICES ASSUME PacketInv, [Next]_vars
             PROVE  PacketInv' /\ (Quiet \/ Runs \/ Begins)
  OBVIOUS
<1>1. GameInv'
  BY NextGameInv DEF PacketInv
<1>2. CASE \E c \in Commands : SendCommand(c)
  BY <1>1, <1>2, CommandBegins
<1>3. CASE ReadButtons
  BY <1>1, <1>3, ButtonsBegin
<1>4. CASE WriteJoypad
  <2>1. CASE Sending
    <3> DEFINE n == Len(sending)
    <3>1. n \in 1..260
      BY <2>1 DEF PacketInv, Underway
    <3> HIDE DEF n
    <3>2. n = 260 \/ n = 1 \/ (n >= 2 /\ n <= 259)
      BY <3>1
    <3> QED
      BY <1>1, <1>4, <2>1, <3>2, FirstPulse, NextPulse, LastPulse DEF n
  <2> QED
    BY <1>1, <1>4, <2>1, ButtonPulse
<1>5. CASE OtherInstruction
  BY <1>1, <1>5, SamePulse
<1>6. CASE ResetSgbState
  BY <1>1, <1>6, ResetBegins, SMTT(30)
<1>7. CASE UNCHANGED vars
  <2>1. /\ JoypadIo' = JoypadIo /\ sending' = sending /\ sent' = sent
        /\ executions' = executions /\ transfer' = transfer
        /\ overrun' = overrun /\ RamBlocks' = RamBlocks
        /\ TilePalettes' = TilePalettes
    BY <1>7 DEF vars, gameVars, screenVars
  <2> QED
    BY <1>1, <2>1
       DEF PacketInv, Quiet, Sending, Underway, Asking, Last
<1> QED
  BY <1>2, <1>3, <1>4, <1>5, <1>6, <1>7 DEF Next

(* The steps of ExecutedAsSent.                                            *)
SentAndExecuted ==
  executions' = executions + 1 =>
    /\ sending' = <<>>
    /\ DOMAIN transfer.Buffer = 0..(SGB_PACKET_LENGTH * Len(sent) - 1)
    /\ \A i \in DOMAIN transfer.Buffer :
         transfer.Buffer[i] = sent[(i \div SGB_PACKET_LENGTH) + 1]
                                  [(i % SGB_PACKET_LENGTH) + 1]

(* Every command of one packet that a game sends to its end is executed as *)
(* it was sent, once, and nothing else is, whatever the commands are and   *)
(* however the buttons are read in between.                                *)
THEOREM CommandsExecuted == OnePacketGame => (Spec => ExecutedAsSent)
<1> SUFFICES ASSUME OnePacketGame PROVE Spec => ExecutedAsSent
  OBVIOUS
<1>1. Init => PacketInv
  BY InitPacketInv
<1>2. PacketInv /\ [Next]_vars => PacketInv'
  BY NextPacketInv
<1>3. PacketInv => ExecutedOnce
  <2> SUFFICES ASSUME PacketInv PROVE ExecutedOnce
    OBVIOUS
  <2>1. executions <= 1 /\ executions \in 0..1
    BY DEF PacketInv
  <2>2. ASSUME sending = <<>>, sent # <<>> PROVE executions = 1
    <3>1. Sending => Len(sending) \in 1..260
      BY DEF PacketInv, Underway
    <3>2. ~Sending
      BY <2>2, <3>1
    <3> QED
      BY <2>1, <2>2, <3>2 DEF Sending
  <2> QED
    BY <2>1, <2>2 DEF ExecutedOnce
<1>4. PacketInv /\ [Next]_vars => [SentAndExecuted]_vars
  <2> SUFFICES ASSUME PacketInv, [Next]_vars, executions' = executions + 1
               PROVE  SentAndExecuted
    BY DEF SentAndExecuted
  <2>1. Runs
    <3>1. executions \in 0..1
      BY DEF PacketInv
    <3>2. ~Quiet /\ ~Begins
      BY <3>1 DEF Quiet, Begins
    <3> QED
      BY <3>2, NextPacketInv
  <2>2. Len(sent) = 1
    BY <2>1, SentPacket, OnePacketCommands DEF Runs
  <2>3. /\ DOMAIN transfer.Buffer = 0..15
        /\ \A i \in 0..15 : transfer.Buffer[i] = sent[1][i + 1]
    BY <2>1 DEF Runs, Arrived
  <2>4. SGB_PACKET_LENGTH = 16 /\ 16 * 1 - 1 = 15
        /\ \A i \in 0..15 : (i \div 16) + 1 = 1 /\ i % 16 = i
    BY DEF SGB_PACKET_LENGTH
  <2>5. sending' = <<>>
    BY <2>1 DEF Runs
  <2> QED
    BY <2>2, <2>3, <2>4, <2>5 DEF SentAndExecuted
<1> QED
  BY <1>1, <1>2, <1>3, <1>4, PTL DEF Spec, ExecutedAsSent, SentAndExecuted

-----------------------------------------------------------------------------
(* What a command of one packet executes on: the bytes of the packet.      *)
LEMMA PacketBytesOf ==
  ASSUME NEW p \in Packets
  PROVE  /\ PacketBytes(p) \in [0..256 -> Byte]
         /\ \A i \in 0..15 : PacketBytes(p)[i] = p[i + 1]
<1> DEFINE buffer == [i \in 0..15 |-> p[i + 1]]
<1>1. \A i \in 0..15 : buffer[i] \in Byte
  BY DEF Packets, SGB_PACKET_LENGTH
<1>2. SGB_PACKET_LENGTH - 1 = 15 /\ 0 \in Byte
  BY DEF SGB_PACKET_LENGTH, Byte
<1>3. PacketBytes(p) = Bytes(buffer)
  BY <1>2, Zenon DEF PacketBytes
<1>4. Bytes(buffer) = [i \in 0..256 |-> IF i \in 0..15 THEN buffer[i] ELSE 0]
  BY DEF Bytes
<1>5. \A i \in 0..15 : i \in 0..256
  OBVIOUS
<1> QED
  BY <1>1, <1>2, <1>3, <1>4, <1>5

LEMMA ArrivedBytes ==
  ASSUME NEW p \in Packets, NEW r, Arrived(r, p)
  PROVE  Bytes(r.Buffer) = PacketBytes(p)
<1> DEFINE buffer == [i \in 0..15 |-> p[i + 1]]
<1>1. PacketBytes(p) = Bytes(buffer)
  <2>1. SGB_PACKET_LENGTH - 1 = 15
    BY DEF SGB_PACKET_LENGTH
  <2> QED
    BY <2>1, Zenon DEF PacketBytes
<1>2. DOMAIN r.Buffer = 0..15 /\ \A i \in 0..15 : r.Buffer[i] = buffer[i]
  BY DEF Arrived
<1>3. DOMAIN buffer = 0..15
  OBVIOUS
<1> HIDE DEF buffer
<1>4. Bytes(r.Buffer) = Bytes(buffer)
  BY <1>2, <1>3 DEF Bytes
<1> QED
  BY <1>1, <1>4

(* Only lines, tiles and blocks of data can be written outside.            *)
LEMMA OtherCommandsInside ==
  ASSUME NEW r \in Transfers, r.CurrentCommand \notin {5, 7, 15}
  PROVE  ~Effect(r).over
<1> DEFINE B == Bytes(r.Buffer)
           n == r.NumberOfPackets
           c == r.CurrentCommand
           Leaves(e) == e.over = FALSE
<1>1. Leaves(Unchanged)
  BY DEF Unchanged
<1> HIDE DEF B, n
<1>2. \A p, q : Leaves(Palpq(B, p, q, n))
  BY <1>1 DEF Palpq, Unchanged
<1>3. Leaves(AttrBlk(B)) /\ Leaves(AttrDiv(B))
  BY <1>1 DEF AttrBlk, AttrDiv, Unchanged
<1>4. Leaves(MltReq(B)) /\ Leaves(MaskEn(B, n)) /\ Leaves(PalPri(B))
  BY <1>1 DEF MltReq, MaskEn, PalPri, Unchanged
<1>5. Effect(r) \in {Palpq(B, 0, 1, n), Palpq(B, 2, 3, n), Palpq(B, 0, 3, n),
                     Palpq(B, 1, 2, n), AttrBlk(B), AttrDiv(B), MltReq(B),
                     MaskEn(B, n), PalPri(B), Unchanged}
  <2>1. c \in 0..31
    BY DEF Transfers
  <2> QED
    BY <2>1 DEF Effect, B, n
<1> HIDE DEF Leaves
<1>6. Leaves(Effect(r))
  BY <1>1, <1>2, <1>3, <1>4, <1>5
<1> QED
  BY <1>6 DEF Leaves

LEMMA LineOnScreen ==
  ASSUME NEW d \in Byte, OnScreen(d)
  PROVE  LineTiles(d) \subseteq Tiles
<1> DEFINE n == d % 32
<1>1. n \in 0..31 /\ d \in Int
  BY DEF Byte
<1>2. n < IF d >= 128 THEN 18 ELSE 20
  BY DEF OnScreen, HORIZONTAL_TILES, VERTICAL_TILES
<1>3. LineTiles(d) = IF d >= 128 THEN {n * 20 + x : x \in 0..19}
                     ELSE {y * 20 + n : y \in 0..17}
  BY DEF LineTiles, Tile, HORIZONTAL_TILES, VERTICAL_TILES
<1>4. Tiles = 0..359
  BY DEF Tiles, HORIZONTAL_TILES, VERTICAL_TILES
<1> HIDE DEF n
<1>5. CASE d >= 128
  BY <1>1, <1>2, <1>3, <1>4, <1>5
<1>6. CASE ~(d >= 128)
  BY <1>1, <1>2, <1>3, <1>4, <1>6
<1> QED
  BY <1>5, <1>6

(* A command that arrives writes outside only if it was sent to.           *)
LEMMA CommandsOverstep ==
  ASSUME OnePacketGame, NEW c \in Commands, NEW r \in Transfers,
         Arrived(r, c[1]), Effect(r).over
  PROVE  Oversteps(c)
<1> DEFINE p == c[1]
           B == PacketBytes(p)
           code == p[1] \div 8
<1>1. p \in Packets
  BY OnePacketCommands
<1>2. Bytes(r.Buffer) = B /\ r.CurrentCommand = code
  BY <1>1, ArrivedBytes DEF Arrived
<1>3. B \in [0..256 -> Byte] /\ \A i \in 0..15 : B[i] = p[i + 1]
  BY <1>1, PacketBytesOf
<1>4. Oversteps(c) <=>
        \/ code = 5 /\ \E i \in 2..(B[1] + 1) : ~OnScreen(B[i])
        \/ code = 7 /\ \E w \in DOMAIN CharWrites(B) : CharWrites(B)[w] \notin Tiles
        \/ code = 15 /\ RamBlocks # <<>> /\ RamBlocks # <<BlockKey(B)>>
  BY Zenon DEF Oversteps
<1>5. Unchanged.over = FALSE
  BY DEF Unchanged
<1> HIDE DEF B, code, p
<1>6. CASE code = 5
  <2> DEFINE over == \E i \in 2..(B[1] + 1) : ~(LineTiles(B[i]) \subseteq Tiles)
  <2>1. Effect(r) = AttrLin(B)
    BY <1>2, <1>6, SMTT(30) DEF Effect
  <2>2. \E tile : AttrLin(B) = [Unchanged EXCEPT !.tile = tile, !.over = over]
    BY DEF AttrLin
  <2> HIDE DEF over
  <2>3. \A tile : [Unchanged EXCEPT !.tile = tile, !.over = over].over = over
    BY Zenon DEF Unchanged
  <2>4. over
    BY <2>1, <2>2, <2>3, Zenon
  <2>5. PICK i \in 2..(B[1] + 1) : ~(LineTiles(B[i]) \subseteq Tiles)
    BY <2>4 DEF over
  <2>6. B[i] \in Byte
    <3>1. B[1] \in 0..255
      <4>1. 1 \in 0..256
        OBVIOUS
      <4>2. B[1] \in Byte
        BY <1>3, <4>1
      <4> QED
        BY <4>2 DEF Byte
    <3>2. i \in 0..256
      BY <3>1
    <3> QED
      BY <1>3, <3>2
  <2>7. ~OnScreen(B[i])
    BY <2>5, <2>6, LineOnScreen
  <2> QED
    BY <1>4, <1>6, <2>7
<1>7. CASE code = 7
  <2> DEFINE tiles == CharWrites(B)
             over == \E w \in DOMAIN tiles : tiles[w] \notin Tiles
  <2>1. Effect(r) = AttrChr(B)
    BY <1>2, <1>7, SMTT(30) DEF Effect
  <2>2. \/ AttrChr(B) = Unchanged
        \/ \E tile : AttrChr(B) = [Unchanged EXCEPT !.tile = tile, !.over = over]
    BY DEF AttrChr
  <2> HIDE DEF over
  <2>3. \A tile : [Unchanged EXCEPT !.tile = tile, !.over = over].over = over
    BY Zenon DEF Unchanged
  <2>4. over
    BY <1>5, <2>1, <2>2, <2>3, Zenon
  <2> QED
    BY <1>4, <1>7, <2>4 DEF over
<1>8. CASE code = 15
  <2> DEFINE key == BlockKey(B)
             count == Len(RamBlocks)
             found == \E i \in 1..count : i % 16 = 1 /\ RamBlocks[i] = key
             added == Append(RamBlocks, key)
             over == count > 0
  <2>1. Effect(r) = DataSnd(B)
    BY <1>2, <1>8 DEF Effect
  <2>2. DataSnd(B) # Unchanged
    BY <1>5, <2>1
  <2>3. /\ ~found
        /\ DataSnd(B) = [Unchanged EXCEPT !.blocks = added, !.over = over]
    BY <2>2 DEF DataSnd
  <2>4. over
    <3> HIDE DEF added, over
    <3>1. [Unchanged EXCEPT !.blocks = added, !.over = over].over = over
      BY Zenon DEF Unchanged
    <3> QED
      BY <2>1, <2>3, <3>1, Zenon
  <2>5. RamBlocks # <<>>
    BY <2>4
  <2>6. RamBlocks # <<key>>
    <3> HIDE DEF key
    <3>1. ASSUME RamBlocks = <<key>> PROVE FALSE
      <4>1. 1 \in 1..count /\ 1 % 16 = 1 /\ RamBlocks[1] = key
        BY <3>1
      <4> QED
        BY <2>3, <4>1
    <3> QED
      BY <3>1
  <2> QED
    BY <1>4, <1>8, <2>5, <2>6
<1>9. CASE code \notin {5, 7, 15}
  BY <1>2, <1>9, OtherCommandsInside
<1> QED
  BY <1>6, <1>7, <1>8, <1>9

Overruns == ~overrun /\ overrun' => executions' # executions /\ Oversteps(sent)

LEMMA NextOverruns ==
  ASSUME OnePacketGame, PacketInv, [Next]_vars
  PROVE  Overruns
<1> SUFFICES ASSUME ~overrun, overrun'
             PROVE  executions' # executions /\ Oversteps(sent)
  BY DEF Overruns
<1>1. Runs
  BY NextPacketInv DEF Quiet, Begins
<1>2. executions = 0 /\ executions' = 1 /\ sent \in Commands
  BY <1>1, SentPacket DEF Runs, Sending
<1>3. PICK r \in Transfers : Arrived(r, sent[1]) /\ Effect(r).over
  BY <1>1 DEF Runs
<1> QED
  BY <1>2, <1>3, CommandsOverstep

(* In every game of commands of one packet nothing received is written     *)
(* outside the memory allocated for it: only a command executed that asks  *)
(* for it can write there.  And every field keeps to its width.            *)
THEOREM OverrunsAreCommanded == OnePacketGame => (Spec => StaysInside)
<1> SUFFICES ASSUME OnePacketGame PROVE Spec => StaysInside
  OBVIOUS
<1>1. Init => PacketInv
  BY InitPacketInv
<1>2. PacketInv /\ [Next]_vars => PacketInv'
  BY NextPacketInv
<1>3. PacketInv => TypeOK
  BY GameInvTypes DEF PacketInv
<1>4. PacketInv /\ [Next]_vars => [Overruns]_vars
  BY NextOverruns
<1> QED
  BY <1>1, <1>2, <1>3, <1>4, PTL DEF Spec, StaysInside, Overruns

-----------------------------------------------------------------------------
(* What lines make of the tiles.                                           *)
LEMMA DivisionParts ==
  ASSUME NEW x \in Byte
  PROVE  /\ (x \div 4) % 4 = (x % 16) \div 4
         /\ (x \div 32) % 4 = (x % 128) \div 32
         /\ x < 64 => (x \div 16) % 4 = x \div 16 /\ (x \div 64) % 2 = 0
  BY DEF Byte

LEMMA DivisionAsCommanded ==
  ASSUME NEW p \in Packets, p[2] < 64, NEW x \in 0..19, NEW y \in 0..17
  PROVE  AttrDiv(PacketBytes(p)).tile[20 * y + x] =
           IF x < p[3] % 32 THEN (p[2] % 16) \div 4
           ELSE IF x = p[3] % 32 THEN p[2] \div 16 ELSE p[2] % 4
<1> DEFINE B == PacketBytes(p)
           line == B[2] % 32
           palette(z) == IF z < line THEN (B[1] \div 4) % 4
                         ELSE IF z = line THEN (B[1] \div 16) % 4
                         ELSE B[1] % 4
           tile == [t \in Tiles |-> palette(t % HORIZONTAL_TILES)]
<1>1. B[1] = p[2] /\ B[2] = p[3] /\ B[1] \in Byte
  BY PacketBytesOf
<1>2. /\ (B[1] \div 4) % 4 = (p[2] % 16) \div 4 /\ (B[1] \div 16) % 4 = p[2] \div 16
      /\ (B[1] \div 64) % 2 = 0
  BY <1>1, DivisionParts
<1>3. 20 * y + x \in Tiles /\ (20 * y + x) % HORIZONTAL_TILES = x
  BY DEF Tiles, HORIZONTAL_TILES, VERTICAL_TILES
<1>4. AttrDiv(B) = [Unchanged EXCEPT !.tile = tile]
  <2>1. (B[1] \div 64) % 2 # 1
    BY <1>2
  <2> QED
    BY <2>1, Zenon DEF AttrDiv
<1>5. tile[20 * y + x] = palette(x)
  <2> HIDE DEF palette
  <2> QED BY <1>3
<1>6. palette(x) = IF x < p[3] % 32 THEN (p[2] % 16) \div 4
                   ELSE IF x = p[3] % 32 THEN p[2] \div 16 ELSE p[2] % 4
  BY <1>1, <1>2, Zenon
<1> HIDE DEF tile, palette
<1>7. AttrDiv(B).tile = tile
  BY <1>4 DEF Unchanged
<1> QED
  BY <1>5, <1>6, <1>7

(* The tiles of a line on the screen are those that it goes through.  Past *)
(* the right edge a vertical line would go on in the row below.            *)
LEMMA TilesOfLine ==
  ASSUME NEW d \in Byte, LineTiles(d) \subseteq Tiles,
         NEW x \in 0..19, NEW y \in 0..17
  PROVE  20 * y + x \in LineTiles(d) <=>
           IF d >= 128 THEN y = d % 32 ELSE x = d % 32
<1> DEFINE n == d % 32
<1>1. n \in 0..31 /\ d \in Int
  BY DEF Byte
<1> HIDE DEF n
<1>2. CASE d >= 128
  <2>1. 20 * y + x \in LineTiles(d) <=> \E z \in 0..19 : 20 * y + x = n * 20 + z
    BY <1>2 DEF LineTiles, Tile, HORIZONTAL_TILES, n
  <2>2. ASSUME NEW z \in 0..19, 20 * y + x = n * 20 + z PROVE y = n
    BY <1>1, <2>2
  <2>3. y = n => 20 * y + x = n * 20 + x
    BY <1>1
  <2> QED
    BY <1>2, <2>1, <2>2, <2>3 DEF n
<1>3. CASE ~(d >= 128)
  <2>1. LineTiles(d) = {z * 20 + n : z \in 0..17}
    BY <1>3 DEF LineTiles, Tile, HORIZONTAL_TILES, VERTICAL_TILES, n
  <2>2. n <= 19
    <3>1. 17 \in 0..17 /\ 17 * 20 + n \in LineTiles(d)
      BY <2>1
    <3>2. 17 * 20 + n \in Tiles
      BY <3>1
    <3> QED
      BY <1>1, <3>2 DEF Tiles, HORIZONTAL_TILES, VERTICAL_TILES
  <2>3. ASSUME NEW z \in 0..17, 20 * y + x = z * 20 + n PROVE x = n
    BY <1>1, <2>2, <2>3
  <2>4. x = n => 20 * y + x = y * 20 + n
    BY <1>1
  <2> QED
    BY <1>3, <2>1, <2>3, <2>4 DEF n
<1> QED
  BY <1>2, <1>3

LEMMA LinesAsCommanded ==
  ASSUME NEW p \in Packets, p[2] <= 14,
         \A k \in 2..(p[2] + 1) : LineTiles(PacketBytes(p)[k]) \subseteq Tiles,
         NEW i \in 1..p[2], NEW x \in 0..19, NEW y \in 0..17,
         IF p[2 + i] >= 128 THEN y = p[2 + i] % 32 ELSE x = p[2 + i] % 32,
         \A j \in (i + 1)..p[2] :
           ~(IF p[2 + j] >= 128 THEN y = p[2 + j] % 32 ELSE x = p[2 + j] % 32)
  PROVE  AttrLin(PacketBytes(p)).tile[20 * y + x] = (p[2 + i] % 128) \div 32
<1> DEFINE B == PacketBytes(p)
           n == p[2]
           t == 20 * y + x
           through(d) == IF d >= 128 THEN y = d % 32 ELSE x = d % 32
           lines(s) == {k \in 2..(B[1] + 1) : s \in LineTiles(B[k])}
           tile == [s \in Tiles |-> IF lines(s) = {} THEN TilePalettes[s]
                                    ELSE (B[Max(lines(s))] \div 32) % 4]
           over == \E k \in 2..(B[1] + 1) : ~(LineTiles(B[k]) \subseteq Tiles)
           crossing == lines(t)
<1>1. B[1] = n /\ n \in 0..14 /\ i \in 1..n
  <2>1. B[1] = n /\ B[1] \in Byte
    BY PacketBytesOf
  <2> QED
    BY <2>1 DEF Byte
<1>2. ASSUME NEW k \in 2..(n + 1)
      PROVE  B[k] = p[k + 1] /\ B[k] \in Byte /\ (t \in LineTiles(B[k]) <=> through(B[k]))
  <2>1. k \in 0..15 /\ k \in 0..256
    BY <1>1
  <2>2. B[k] = p[k + 1] /\ B[k] \in Byte
    BY <2>1, PacketBytesOf
  <2>3. LineTiles(B[k]) \subseteq Tiles
    BY <1>2
  <2> HIDE DEF B
  <2> QED
    BY <2>2, <2>3, TilesOfLine
<1>3. t \in Tiles
  BY DEF Tiles, HORIZONTAL_TILES, VERTICAL_TILES
<1> HIDE DEF B, n, t
<1>4. crossing \in SUBSET (0..15)
  BY <1>1
<1>5. i + 1 \in crossing
  <2>1. i + 1 \in 2..(n + 1) /\ (i + 1) + 1 = 2 + i
    BY <1>1
  <2>2. B[i + 1] = p[2 + i] /\ (t \in LineTiles(B[i + 1]) <=> through(B[i + 1]))
    BY <1>2, <2>1
  <2>3. through(p[2 + i])
    OBVIOUS
  <2> HIDE DEF through
  <2> QED
    BY <1>1, <2>1, <2>2, <2>3
<1>6. Max(crossing) \in crossing /\ \A s \in crossing : s <= Max(crossing)
  <2> HIDE DEF crossing
  <2>1. crossing # {} /\ 15 \in Nat
    BY <1>5
  <2> QED
    BY <1>4, <2>1, MaxOfBounded
<1> DEFINE m == Max(crossing)
<1>7. m \in crossing /\ i + 1 <= m
  BY <1>5, <1>6
<1> HIDE DEF m
<1>8. m \in 2..(n + 1) /\ t \in LineTiles(B[m])
  BY <1>1, <1>7
<1>9. m = i + 1
  <2>1. SUFFICES ASSUME m # i + 1 PROVE FALSE
    OBVIOUS
  <2> DEFINE j == m - 1
  <2>2. j \in (i + 1)..n /\ 2 + j = m + 1
    BY <1>1, <1>7, <1>8, <2>1
  <2>3. ~through(p[2 + j])
    BY <2>2 DEF n
  <2>4. through(B[m]) /\ B[m] = p[m + 1]
    BY <1>2, <1>8
  <2> HIDE DEF through, j
  <2> QED
    BY <2>2, <2>3, <2>4
<1>10. tile[t] = (B[m] \div 32) % 4
  <2>1. lines(t) # {}
    BY <1>5
  <2>2. Max(lines(t)) = m
    BY DEF m
  <2> HIDE DEF lines
  <2> QED
    BY <1>3, <2>1, <2>2
<1>11. (B[m] \div 32) % 4 = (p[2 + i] % 128) \div 32
  <2>1. i + 1 \in 2..(n + 1) /\ (i + 1) + 1 = 2 + i
    BY <1>1
  <2>2. B[m] = p[2 + i] /\ B[m] \in Byte
    BY <1>2, <1>9, <2>1
  <2> QED
    BY <2>2, DivisionParts
<1>12. AttrLin(B) = [Unchanged EXCEPT !.tile = tile, !.over = over]
  BY DEF AttrLin
<1> HIDE DEF tile, over
<1>13. AttrLin(B).tile = tile
  BY <1>12 DEF Unchanged
<1> QED
  BY <1>10, <1>11, <1>13 DEF B, t

(* The steps of TilesAsCommanded.                                          *)
TilesSet ==
  executions' = executions + 1 =>
    LET p == sent[1]
    IN  /\ p[1] \div 8 = 6 /\ p[2] < 64 =>
             \A x \in 0..19, y \in 0..17 :
               TilePalettes'[20 * y + x] =
                 IF x < p[3] % 32 THEN (p[2] % 16) \div 4
                 ELSE IF x = p[3] % 32 THEN p[2] \div 16 ELSE p[2] % 4
        /\ p[1] \div 8 = 5 /\ p[2] <= 14
           /\ (\A k \in 1..p[2] : OnScreen(p[2 + k])) =>
             \A i \in 1..p[2] : \A x \in 0..19, y \in 0..17 :
               LET through(d) == IF d >= 128 THEN y = d % 32 ELSE x = d % 32
               IN  /\ through(p[2 + i])
                   /\ \A j \in (i + 1)..p[2] : ~through(p[2 + j])
                   => TilePalettes'[20 * y + x] = (p[2 + i] % 128) \div 32

LEMMA RunsSetTiles ==
  ASSUME OnePacketGame, PacketInv, Runs
  PROVE  TilesSet
<1> DEFINE p == sent[1]
           B == PacketBytes(p)
<1>1. sent \in Commands /\ p \in Packets
  BY SentPacket DEF Runs
<1>2. PICK r \in Transfers : Arrived(r, p) /\ TilePalettes' = Effect(r).tile
  BY DEF Runs
<1>3. Bytes(r.Buffer) = B /\ r.CurrentCommand = p[1] \div 8
  BY <1>1, <1>2, ArrivedBytes, SMTT(30) DEF Arrived
<1>4. ASSUME p[1] \div 8 = 6, p[2] < 64, NEW x \in 0..19, NEW y \in 0..17
      PROVE  TilePalettes'[20 * y + x] =
               IF x < p[3] % 32 THEN (p[2] % 16) \div 4
               ELSE IF x = p[3] % 32 THEN p[2] \div 16 ELSE p[2] % 4
  <2>1. Effect(r) = AttrDiv(B)
    BY <1>3, <1>4 DEF Effect
  <2> HIDE DEF p
  <2> QED
    BY <1>1, <1>2, <1>4, <2>1, DivisionAsCommanded
<1>5. ASSUME p[1] \div 8 = 5, p[2] <= 14, \A k \in 1..p[2] : OnScreen(p[2 + k]),
             NEW i \in 1..p[2], NEW x \in 0..19, NEW y \in 0..17,
             IF p[2 + i] >= 128 THEN y = p[2 + i] % 32 ELSE x = p[2 + i] % 32,
             \A j \in (i + 1)..p[2] :
               ~(IF p[2 + j] >= 128 THEN y = p[2 + j] % 32 ELSE x = p[2 + j] % 32)
      PROVE  TilePalettes'[20 * y + x] = (p[2 + i] % 128) \div 32
  <2>1. Effect(r) = AttrLin(B)
    BY <1>3, <1>5 DEF Effect
  <2>2. p[2] \in 0..14
    <3>1. p[2] \in Byte
      BY <1>1 DEF Packets, SGB_PACKET_LENGTH
    <3> QED
      BY <1>5, <3>1 DEF Byte
  <2>3. B \in [0..256 -> Byte] /\ \A j \in 0..15 : B[j] = p[j + 1]
    BY <1>1, PacketBytesOf
  <2>4. ASSUME NEW k \in 2..(p[2] + 1) PROVE LineTiles(B[k]) \subseteq Tiles
    <3>1. k \in 0..15 /\ k \in 0..256 /\ k - 1 \in 1..p[2] /\ 2 + (k - 1) = k + 1
      BY <2>2
    <3>2. B[k] = p[k + 1] /\ B[k] \in Byte
      BY <2>3, <3>1
    <3>3. OnScreen(p[k + 1])
      BY <1>5, <3>1
    <3> HIDE DEF B, p
    <3> QED
      BY <3>2, <3>3, LineOnScreen
  <2> HIDE DEF p
  <2>5. AttrLin(B).tile[20 * y + x] = (p[2 + i] % 128) \div 32
    BY <1>1, <1>5, <2>4, LinesAsCommanded, ZenonT(90) DEF B
  <2> QED
    BY <1>2, <2>1, <2>5
<1>6. p[1] \div 8 = 6 /\ p[2] < 64 =>
        \A x \in 0..19, y \in 0..17 :
          TilePalettes'[20 * y + x] =
            IF x < p[3] % 32 THEN (p[2] % 16) \div 4
            ELSE IF x = p[3] % 32 THEN p[2] \div 16 ELSE p[2] % 4
  BY <1>4, Zenon
<1>7. p[1] \div 8 = 5 /\ p[2] <= 14
      /\ (\A k \in 1..p[2] : OnScreen(p[2 + k])) =>
        \A i \in 1..p[2] : \A x \in 0..19, y \in 0..17 :
          LET through(d) == IF d >= 128 THEN y = d % 32 ELSE x = d % 32
          IN  /\ through(p[2 + i])
              /\ \A j \in (i + 1)..p[2] : ~through(p[2 + j])
              => TilePalettes'[20 * y + x] = (p[2 + i] % 128) \div 32
  <2> HIDE DEF p, B
  <2> HAVE p[1] \div 8 = 5 /\ p[2] <= 14
           /\ (\A k \in 1..p[2] : OnScreen(p[2 + k]))
  <2> TAKE i \in 1..p[2]
  <2> TAKE x \in 0..19, y \in 0..17
  <2> QED
    BY <1>5, ZenonT(60)
<1> QED
  BY <1>6, <1>7, ZenonT(60) DEF TilesSet

(* After every command of a game of commands of one packet that divides    *)
(* the screen or draws lines on it, each tile has the palette it says.     *)
THEOREM TilesAsSent == OnePacketGame => (Spec => TilesAsCommanded)
<1> SUFFICES ASSUME OnePacketGame PROVE Spec => TilesAsCommanded
  OBVIOUS
<1>1. Init => PacketInv
  BY InitPacketInv
<1>2. PacketInv /\ [Next]_vars => PacketInv'
  BY NextPacketInv
<1>3. PacketInv => ColourZeroShared
  BY DEF PacketInv, GameInv, ScreenOK
<1>4. PacketInv /\ [Next]_vars => [TilesSet]_vars
  <2> SUFFICES ASSUME PacketInv, [Next]_vars, executions' = executions + 1
               PROVE  TilesSet
    BY DEF TilesSet
  <2>1. executions \in 0..1
    BY DEF PacketInv
  <2>2. ~Quiet /\ ~Begins
    BY <2>1 DEF Quiet, Begins
  <2> QED
    BY <2>2, NextPacketInv, RunsSetTiles, SMTT(30)
<1> QED
  BY <1>1, <1>2, <1>3, <1>4, PTL DEF Spec, TilesAsCommanded, TilesSet
=============================================================================
