------------------------------ MODULE RtcProofs ------------------------------
(***************************************************************************)
(* The real-time clock's registers stay bytes and its halts add up, for    *)
(* every set of moments, every byte a game writes and every bound.         *)
(***************************************************************************)
EXTENDS Rtc, TLAPS

(* The history is made of numbers and flags.                               *)
History == [time : Int, ended : Int, halt : Int, latches : Int,
            blindWrites : Int, halted : BOOLEAN, astray : BOOLEAN,
            unseen : BOOLEAN]

(* A halt is counted from its beginning.                                   *)
HaltsBegin == ~game.unseen /\ ~Stopped(registers) => game.halt = 0

(* What TypeOK needs to be inductive: a halt began in the past.            *)
IInv ==
  /\ TypeOK
  /\ RTCStopTime <= now
  /\ game \in History
  /\ HaltsBegin
  /\ HaltsAddUp

(* Quotients are integers and remainders are bounded.                      *)
LEMMA Division ==
  ASSUME NEW x \in Int
  PROVE  /\ x \div 60 \in Int /\ x \div 1000 \in Int /\ x \div 3600 \in Int
         /\ x \div 24 \in Int /\ x \div 1440 \in Int /\ x \div 86400 \in Int
         /\ x % 60 \in 0..59 /\ x % 24 \in 0..23 /\ x % 128 \in 0..127
  OBVIOUS

(* The status once the days have been counted is a byte.                   *)
LEMMA StatusIsByte ==
  ASSUME NEW status \in Byte, NEW days \in Int
  PROVE  (IF days <= 255 THEN status
          ELSE IF DaysHigh(status) = 0 THEN status + 1
          ELSE 128 + ((status - 1) % 128)) \in Byte
<1>1. (status - 1) % 128 \in 0..127
  BY Division DEF Byte
<1>2. status % 2 = 0 => status # 255
  BY DEF Byte
<1> QED
  BY <1>1, <1>2 DEF DaysHigh, Byte

(* What updateRealTimeClock computes are bytes, whatever the registers     *)
(* were and however much time has passed.                                  *)
LEMMA UpdatedBytes ==
  ASSUME NEW r \in [Registers -> Byte], NEW diff \in Int
  PROVE  Updated(r, diff) \in [Registers -> Byte]
<1> DEFINE seconds == r[Seconds] + diff \div 1000
           newSeconds == seconds % 60
           minutes == r[Minutes] + seconds \div 60
           newMinutes == minutes % 60
           hours == r[Hours] + newMinutes \div 60 + newSeconds \div 3600
           newHours == hours % 24
           days == r[DaysLow] + newHours \div 24 + newMinutes \div 1440
                     + newSeconds \div 86400
           status == r[StatusByte]
           newStatus == IF days <= 255 THEN status
                        ELSE IF DaysHigh(status) = 0 THEN status + 1
                        ELSE 128 + ((status - 1) % 128)
<1>1. r[Seconds] \in Int /\ r[Minutes] \in Int /\ r[Hours] \in Int
      /\ r[DaysLow] \in Int /\ status \in Byte
  BY DEF Registers, Seconds, Minutes, Hours, DaysLow, StatusByte, Byte
<1>2. Updated(r, diff) = [r EXCEPT ![Seconds] = newSeconds,
                                   ![Minutes] = newMinutes,
                                   ![Hours] = newHours,
                                   ![DaysLow] = days % 128,
                                   ![StatusByte] = newStatus]
  BY DEF Updated
<1>3. seconds \in Int
  BY <1>1, Division
<1>4. newSeconds \in 0..59 /\ newSeconds \in Int /\ seconds \div 60 \in Int
  <2> HIDE DEF seconds
  <2> QED BY <1>3, Division
<1>5. minutes \in Int
  <2> HIDE DEF seconds
  <2> QED BY <1>1, <1>4
<1>6. newMinutes \in 0..59 /\ newMinutes \in Int
  <2> HIDE DEF minutes
  <2> QED BY <1>5, Division
<1>7. hours \in Int
  <2> HIDE DEF newMinutes, newSeconds
  <2> QED BY <1>1, <1>4, <1>6, Division
<1>8. newHours \in 0..23 /\ newHours \in Int
  <2> HIDE DEF hours
  <2> QED BY <1>7, Division
<1>9. days \in Int
  <2> HIDE DEF newHours, newMinutes, newSeconds
  <2> QED BY <1>1, <1>4, <1>6, <1>8, Division
<1>10. days % 128 \in Byte /\ newStatus \in Byte
  <2> HIDE DEF days, status
  <2> QED BY <1>1, <1>9, Division, StatusIsByte DEF Byte
<1>11. newSeconds \in Byte /\ newMinutes \in Byte /\ newHours \in Byte
  <2> HIDE DEF newSeconds, newMinutes, newHours
  <2> QED BY <1>4, <1>6, <1>8 DEF Byte
<1> HIDE DEF newSeconds, newMinutes, newHours, days, newStatus
<1> QED
  BY <1>2, <1>10, <1>11

(* Storing them anywhere leaves the registers bytes.                       *)
LEMMA StoredBytes ==
  ASSUME NEW r \in [Registers -> Byte], NEW u \in [Registers -> Byte],
         NEW bank \in Byte
  PROVE  Stored(r, u, bank) \in [Registers -> Byte]
<1>1. \A b \in Seconds..DaysLow : StoredAt(u)[b] \in Byte
  BY DEF StoredAt, Registers, Seconds, DaysLow, StatusByte
<1> QED
  BY <1>1 DEF Stored

LEMMA InitInv == Init => IInv
<1> SUFFICES ASSUME Init PROVE IInv
  OBVIOUS
<1>1. now \in Int /\ 0 <= now
  BY MomentsAssumption DEF Init
<1>2. registers \in [Registers -> Byte]
  BY StartAssumption DEF Init
<1>3. registers[Minutes] \in Int /\ registers[Seconds] \in Int
  BY <1>2 DEF Registers, Seconds, Minutes, StatusByte, Byte
<1>4. TypeOK
  <2>1. disabledPages \in [Pages -> BOOLEAN] /\ shownPage \in Pages
    BY DEF Init, Pages
  <2>2. now \in Moments /\ LastRTCTicks \in Moments
    BY DEF Init
  <2>3. SRAMBankNumber \in Byte /\ RTCStopTime = 0 /\ RTCTimeStopped \in Nat
    BY DEF Init, Byte
  <2>4. isSRAMDisabled \in BOOLEAN /\ isRTCLatched \in BOOLEAN
    BY DEF Init
  <2> QED
    BY <1>2, <2>1, <2>2, <2>3, <2>4 DEF TypeOK
<1>5. /\ game.ended = 0 /\ game.halt = 0 /\ RTCTimeStopped = 0
      /\ game.unseen = Stopped(registers)
  BY DEF Init
<1>6. HaltsAddUp /\ HaltsBegin
  BY <1>5 DEF HaltsAddUp, HaltsBegin
<1>7. Stopped(registers) \in BOOLEAN
  BY DEF Stopped, IsTimerStopped
<1>8. game \in History
  BY <1>3, <1>7 DEF Init, History
<1> QED
  BY <1>1, <1>4, <1>6, <1>8 DEF IInv, Init

(* What passing time does to the history.                                  *)
LEMMA PassHistory ==
  ASSUME IInv, NEW t \in Moments, t > now,
         game' = [game EXCEPT
                    !.time = IF game.astray \/ Stopped(registers) THEN @
                             ELSE @ + (t - now),
                    !.halt = IF ~game.unseen /\ Stopped(registers)
                             THEN @ + (t - now) ELSE @]
  PROVE  /\ game' \in History
         /\ game'.time = IF game.astray \/ Stopped(registers) THEN game.time
                         ELSE game.time + (t - now)
         /\ game'.halt = IF ~game.unseen /\ Stopped(registers)
                         THEN game.halt + (t - now) ELSE game.halt
         /\ game'.ended = game.ended /\ game'.latches = game.latches
         /\ game'.halted = game.halted /\ game'.astray = game.astray
         /\ game'.unseen = game.unseen
<1> DEFINE time == IF game.astray \/ Stopped(registers) THEN game.time
                   ELSE game.time + (t - now)
           halt == IF ~game.unseen /\ Stopped(registers)
                   THEN game.halt + (t - now) ELSE game.halt
<1>1. game \in History /\ now \in Int /\ t \in Int
  BY MomentsAssumption DEF IInv, TypeOK
<1>2. time \in Int /\ halt \in Int
  BY <1>1 DEF History
<1>3. game' = [game EXCEPT !.time = time, !.halt = halt]
  OBVIOUS
<1> HIDE DEF time, halt
<1>4. /\ game' \in History /\ game'.time = time /\ game'.halt = halt
      /\ game'.ended = game.ended /\ game'.latches = game.latches
      /\ game'.halted = game.halted /\ game'.astray = game.astray
      /\ game'.unseen = game.unseen
  BY <1>1, <1>2, <1>3 DEF History
<1> QED
  BY <1>4 DEF time, halt

(* Time passing: a halt that goes on grows with it.                        *)
LEMMA PassInv == IInv /\ Pass => IInv'
<1> SUFFICES ASSUME IInv, Pass PROVE IInv'
  OBVIOUS
<1>1. PICK t \in Moments :
        /\ t > now /\ now' = t
        /\ game' = [game EXCEPT
                      !.time = IF game.astray \/ Stopped(registers) THEN @
                               ELSE @ + (t - now),
                      !.halt = IF ~game.unseen /\ Stopped(registers)
                               THEN @ + (t - now) ELSE @]
        /\ UNCHANGED <<registers, window, isRTCLatched, ticks>>
  BY DEF Pass
<1>2. now \in Int /\ t \in Int /\ RTCStopTime \in Int /\ RTCTimeStopped \in Int
      /\ game.halt \in Int
  BY MomentsAssumption DEF IInv, TypeOK, History
<1>3. TypeOK'
  BY <1>1 DEF IInv, TypeOK, window, ticks
<1>4. /\ game' \in History
      /\ game'.halt = IF ~game.unseen /\ Stopped(registers)
                      THEN game.halt + (t - now) ELSE game.halt
      /\ game'.ended = game.ended /\ game'.unseen = game.unseen
  BY <1>1, PassHistory
<1>5. Stopped(registers)' = Stopped(registers)
  BY <1>1 DEF Stopped
<1>6. HaltsBegin'
  BY <1>4, <1>5 DEF IInv, HaltsBegin
<1>7. HaltsAddUp'
  <2> SUFFICES ASSUME ~game.unseen
               PROVE  /\ game'.ended = RTCTimeStopped
                      /\ Stopped(registers) => game'.halt = t - RTCStopTime
    BY <1>1, <1>4, <1>5 DEF HaltsAddUp, ticks
  <2>1. /\ game.ended = RTCTimeStopped
        /\ Stopped(registers) => game.halt = now - RTCStopTime
    BY DEF IInv, HaltsAddUp
  <2> QED
    BY <2>1, <1>2, <1>4
<1>8. RTCStopTime' <= now'
  BY <1>1, <1>2 DEF ticks, IInv
<1> QED
  BY <1>3, <1>4, <1>6, <1>7, <1>8 DEF IInv

(* Enabling or disabling RAM and selecting a bank touch neither the clock  *)
(* nor its history.                                                        *)
LEMMA WriteRom01Inv ==
  ASSUME IInv, NEW enable \in BOOLEAN, WriteRom01(enable)
  PROVE  IInv'
<1>1. shownPage' \in Pages
  BY DEF WriteRom01, Pages
<1>2. isSRAMDisabled' \in BOOLEAN
  BY DEF WriteRom01
<1>3. UNCHANGED <<now, registers, disabledPages, SRAMBankNumber, isRTCLatched,
                  LastRTCTicks, RTCStopTime, RTCTimeStopped, game>>
  BY DEF WriteRom01, ticks
<1> QED
  BY <1>1, <1>2, <1>3 DEF IInv, TypeOK, HaltsAddUp, HaltsBegin, Stopped

LEMMA Mbc3WriteRom45Inv ==
  ASSUME IInv, NEW b \in Banks, Mbc3WriteRom45(b)
  PROVE  IInv'
<1>1. SRAMBankNumber' \in Byte
  BY GameAssumption DEF Mbc3WriteRom45
<1>2. UNCHANGED <<now, registers, disabledPages, shownPage, isSRAMDisabled,
                  isRTCLatched, LastRTCTicks, RTCStopTime, RTCTimeStopped, game>>
  BY DEF Mbc3WriteRom45, ticks
<1> QED
  BY <1>1, <1>2 DEF IInv, TypeOK, HaltsAddUp, HaltsBegin, Stopped

(* What a latch does to the history.                                       *)
LEMMA LatchHistory ==
  ASSUME IInv, UpdateRealTimeClock
  PROVE  /\ game' \in History
         /\ game'.latches = game.latches + 1 /\ game'.ended = 0
         /\ game'.time = game.time /\ game'.halt = game.halt
         /\ game'.halted = game.halted
         /\ ~game'.astray => /\ ~game.astray /\ ~isSRAMDisabled
                             /\ SRAMBankNumber = 0 /\ ~Stopped(registers)
         /\ ~game'.unseen => /\ ~game.unseen
                             /\ Stopped(registers') <=> Stopped(registers)
<1> DEFINE astray == \/ game.astray \/ isSRAMDisabled \/ SRAMBankNumber # 0
                     \/ Stopped(registers)
           unseen == game.unseen \/ Stopped(registers') # Stopped(registers)
           latches == game.latches + 1
           none == 0
<1>1. game \in History
  BY DEF IInv
<1>2. astray \in BOOLEAN /\ unseen \in BOOLEAN
  OBVIOUS
<1>3. latches \in Int /\ none \in Int
  BY <1>1 DEF History
<1>4. game' = [game EXCEPT !.latches = latches, !.ended = none,
                           !.astray = astray, !.unseen = unseen]
  BY DEF UpdateRealTimeClock
<1> HIDE DEF astray, unseen, latches, none
<1>5. /\ game' \in History
      /\ game'.latches = latches /\ game'.ended = none
      /\ game'.time = game.time /\ game'.halt = game.halt
      /\ game'.halted = game.halted
      /\ game'.astray = astray /\ game'.unseen = unseen
  BY <1>1, <1>2, <1>3, <1>4 DEF History
<1>6. ~unseen => ~game.unseen /\ (Stopped(registers') <=> Stopped(registers))
  BY DEF unseen
<1>7. ~astray => /\ ~game.astray /\ ~isSRAMDisabled
                 /\ SRAMBankNumber = 0 /\ ~Stopped(registers)
  BY DEF astray
<1> QED
  BY <1>5, <1>6, <1>7 DEF latches, none

(* A latch forgets the halts it has counted, and a halt that goes on       *)
(* lasts over it if the flag it stores is the one it found.                *)
LEMMA UpdateInv ==
  ASSUME IInv, UpdateRealTimeClock, isRTCLatched' \in BOOLEAN,
         UNCHANGED <<now, window>>
  PROVE  IInv'
<1> DEFINE diff == (now - LastRTCTicks) + RTCTimeStopped
<1>1. now \in Int /\ LastRTCTicks \in Int /\ RTCTimeStopped \in Int
  BY MomentsAssumption DEF IInv, TypeOK
<1>2. diff \in Int
  BY <1>1
<1>3. registers \in [Registers -> Byte] /\ SRAMBankNumber \in Byte
  BY DEF IInv, TypeOK
<1>4. registers' = IF isSRAMDisabled THEN registers
                   ELSE Stored(registers, Updated(registers, diff), SRAMBankNumber)
  BY DEF UpdateRealTimeClock
<1> HIDE DEF diff
<1>5. registers' \in [Registers -> Byte]
  BY <1>2, <1>3, <1>4, UpdatedBytes, StoredBytes
<1>6. LastRTCTicks' = now /\ RTCTimeStopped' = 0 /\ RTCStopTime' = RTCStopTime
  BY DEF UpdateRealTimeClock
<1>7. TypeOK'
  BY <1>5, <1>6 DEF IInv, TypeOK, window
<1>8. /\ game' \in History /\ game'.ended = 0 /\ game'.halt = game.halt
      /\ ~game'.unseen => /\ ~game.unseen
                          /\ Stopped(registers') <=> Stopped(registers)
  BY LatchHistory
<1>9. HaltsAddUp' /\ HaltsBegin'
  <2> SUFFICES ASSUME ~game'.unseen
               PROVE  /\ game'.ended = RTCTimeStopped'
                      /\ Stopped(registers') => game'.halt = now' - RTCStopTime'
                      /\ ~Stopped(registers') => game'.halt = 0
    BY DEF HaltsAddUp, HaltsBegin, Stopped
  <2>1. /\ Stopped(registers') <=> Stopped(registers)
        /\ Stopped(registers) => game.halt = now - RTCStopTime
        /\ ~Stopped(registers) => game.halt = 0
    BY <1>8 DEF IInv, HaltsAddUp, HaltsBegin
  <2> QED
    BY <2>1, <1>6, <1>8
<1> QED
  BY <1>6, <1>7, <1>8, <1>9 DEF IInv, window

LEMMA HasRTCWriteRom67Inv ==
  ASSUME IInv, NEW v \in {0, 1}, HasRTCWriteRom67(v)
  PROVE  IInv'
<1>1. isRTCLatched' \in BOOLEAN /\ UNCHANGED <<now, window>>
  BY DEF HasRTCWriteRom67
<1>2. CASE ~isRTCLatched /\ v = 1
  BY <1>1, <1>2, UpdateInv DEF HasRTCWriteRom67
<1>3. CASE ~(~isRTCLatched /\ v = 1)
  <2>1. UNCHANGED <<registers, ticks, game>>
    BY <1>3 DEF HasRTCWriteRom67
  <2> QED
    BY <1>1, <2>1 DEF IInv, TypeOK, HaltsAddUp, HaltsBegin, Stopped, window, ticks
<1> QED
  BY <1>2, <1>3

(* What a write to cartridge RAM does to the history.                      *)
LEMMA WriteHistory ==
  ASSUME IInv, NEW v \in Values, HasRTCWriteSRAM(v)
  PROVE  /\ game' \in History
         /\ game'.time = game.time /\ game'.latches = game.latches
         /\ game'.ended = IF Stopped(registers) /\ ~Stopped(registers')
                          THEN game.ended + game.halt ELSE game.ended
         /\ game'.halt = IF Stopped(registers') THEN game.halt ELSE 0
         /\ ~game'.halted => ~game.halted /\ ~Stopped(registers')
         /\ ~game'.astray =>
              /\ ~game.astray
              /\ SRAMBankNumber \in Registers =>
                   ~isSRAMDisabled /\ SRAMBankNumber = StatusByte
         /\ ~game'.unseen =>
              ~game.unseen /\ (SRAMBankNumber = StatusByte => ~isSRAMDisabled)
<1> DEFINE blindWrites == IF isSRAMDisabled THEN game.blindWrites + 1
                          ELSE game.blindWrites
           ended == IF Stopped(registers) /\ ~Stopped(registers')
                    THEN game.ended + game.halt ELSE game.ended
           halt == IF Stopped(registers') THEN game.halt ELSE 0
           halted == game.halted \/ Stopped(registers')
           astray == game.astray \/ (SRAMBankNumber \in Registers /\
                       (isSRAMDisabled \/ SRAMBankNumber # StatusByte))
           unseen == game.unseen \/ (SRAMBankNumber = StatusByte /\ isSRAMDisabled)
<1>1. game \in History
  BY DEF IInv
<1>2. halted \in BOOLEAN /\ astray \in BOOLEAN /\ unseen \in BOOLEAN
  OBVIOUS
<1>3. blindWrites \in Int /\ ended \in Int /\ halt \in Int
  BY <1>1 DEF History
<1>4. game' = [game EXCEPT !.blindWrites = blindWrites, !.ended = ended,
                           !.halt = halt, !.halted = halted,
                           !.astray = astray, !.unseen = unseen]
  BY DEF HasRTCWriteSRAM, Written
<1> HIDE DEF blindWrites, ended, halt, halted, astray, unseen
<1>5. /\ game' \in History
      /\ game'.time = game.time /\ game'.latches = game.latches
      /\ game'.ended = ended /\ game'.halt = halt
      /\ game'.halted = halted /\ game'.astray = astray
      /\ game'.unseen = unseen
  BY <1>1, <1>2, <1>3, <1>4 DEF History
<1>6. /\ ~halted => ~game.halted /\ ~Stopped(registers')
      /\ ~astray => /\ ~game.astray
                    /\ SRAMBankNumber \in Registers =>
                         ~isSRAMDisabled /\ SRAMBankNumber = StatusByte
      /\ ~unseen => ~game.unseen /\ (SRAMBankNumber = StatusByte => ~isSRAMDisabled)
  BY DEF halted, astray, unseen
<1> QED
  BY <1>5, <1>6 DEF ended, halt

(* A write to the status starts a halt, ends one, or changes neither.      *)
LEMMA HasRTCWriteSRAMInv ==
  ASSUME IInv, NEW v \in Values, HasRTCWriteSRAM(v)
  PROVE  IInv'
<1> DEFINE wasStopped == IF isSRAMDisabled THEN disabledPages[shownPage]
                         ELSE Stopped(registers)
           toggled == SRAMBankNumber = StatusByte /\ IsTimerStopped(v) # wasStopped
<1>1. v \in Byte
  BY GameAssumption
<1>2. now \in Int /\ RTCStopTime \in Int /\ RTCTimeStopped \in Nat
      /\ RTCStopTime <= now /\ now \in Moments /\ RTCStopTime \in Moments \cup {0}
  BY MomentsAssumption DEF IInv, TypeOK
<1>3. /\ toggled => ToggleRealTimeClock(IsTimerStopped(v))
      /\ ~toggled => UNCHANGED ticks
  BY DEF HasRTCWriteSRAM
<1>4. UNCHANGED <<now, shownPage, isSRAMDisabled, SRAMBankNumber, isRTCLatched>>
  BY DEF HasRTCWriteSRAM
<1>5. registers' \in [Registers -> Byte]
  <2>1. CASE isSRAMDisabled
    BY <2>1 DEF HasRTCWriteSRAM, IInv, TypeOK
  <2>2. CASE ~isSRAMDisabled
    BY <2>2, <1>1 DEF HasRTCWriteSRAM, IInv, TypeOK
  <2> QED
    BY <2>1, <2>2
<1>6. disabledPages' \in [Pages -> BOOLEAN]
  <2>1. CASE isSRAMDisabled
    <3>1. IsTimerStopped(v) \in BOOLEAN
      BY DEF IsTimerStopped
    <3>2. disabledPages' = [disabledPages EXCEPT ![shownPage] = IsTimerStopped(v)]
      BY <2>1 DEF HasRTCWriteSRAM
    <3>3. disabledPages \in [Pages -> BOOLEAN]
      BY DEF IInv, TypeOK
    <3> QED
      BY <3>1, <3>2, <3>3
  <2>2. CASE ~isSRAMDisabled
    BY <2>2 DEF HasRTCWriteSRAM, IInv, TypeOK
  <2> QED
    BY <2>1, <2>2
<1> HIDE DEF toggled
<1>7. LastRTCTicks' = LastRTCTicks /\ RTCTimeStopped' \in Nat
      /\ RTCStopTime' \in Moments \cup {0} /\ RTCStopTime' <= now
  <2>1. CASE toggled /\ IsTimerStopped(v)
    BY <2>1, <1>2, <1>3 DEF ToggleRealTimeClock
  <2>2. CASE toggled /\ ~IsTimerStopped(v)
    BY <2>2, <1>2, <1>3 DEF ToggleRealTimeClock
  <2>3. CASE ~toggled
    BY <2>3, <1>2, <1>3 DEF ticks
  <2> QED
    BY <2>1, <2>2, <2>3
<1>8. TypeOK'
  BY <1>4, <1>5, <1>6, <1>7 DEF IInv, TypeOK
<1>9. /\ game' \in History
      /\ game'.ended = IF Stopped(registers) /\ ~Stopped(registers')
                       THEN game.ended + game.halt ELSE game.ended
      /\ game'.halt = IF Stopped(registers') THEN game.halt ELSE 0
      /\ ~game'.unseen =>
           ~game.unseen /\ (SRAMBankNumber = StatusByte => ~isSRAMDisabled)
  BY WriteHistory
<1>10. HaltsAddUp' /\ HaltsBegin'
  <2> SUFFICES ASSUME ~game'.unseen
               PROVE  /\ game'.ended = RTCTimeStopped'
                      /\ Stopped(registers') => game'.halt = now' - RTCStopTime'
                      /\ ~Stopped(registers') => game'.halt = 0
    BY DEF HaltsAddUp, HaltsBegin, Stopped
  <2>1. /\ game.ended = RTCTimeStopped
        /\ Stopped(registers) => game.halt = now - RTCStopTime
        /\ ~Stopped(registers) => game.halt = 0
        /\ SRAMBankNumber = StatusByte => ~isSRAMDisabled
    BY <1>9 DEF IInv, HaltsAddUp, HaltsBegin
  <2>2. ~Stopped(registers') => game'.halt = 0
    BY <1>9
  <2>3. CASE SRAMBankNumber # StatusByte
    <3>1. registers'[StatusByte] = registers[StatusByte]
      BY <2>3 DEF HasRTCWriteSRAM, Registers, StatusByte, Seconds, IInv, TypeOK
    <3>2. ~toggled
      BY <2>3 DEF toggled
    <3>3. Stopped(registers') <=> Stopped(registers)
      BY <3>1 DEF Stopped
    <3> QED
      BY <3>2, <3>3, <2>1, <2>2, <1>3, <1>4, <1>9 DEF ticks
  <2>4. CASE SRAMBankNumber = StatusByte
    <3>1. ~isSRAMDisabled
      BY <2>4, <2>1
    <3>2. registers'[StatusByte] = v
      BY <2>4, <3>1 DEF HasRTCWriteSRAM, Registers, StatusByte, Seconds
    <3>3. Stopped(registers') <=> IsTimerStopped(v)
      BY <3>2 DEF Stopped
    <3>4. toggled <=> ~(IsTimerStopped(v) <=> Stopped(registers))
      BY <2>4, <3>1 DEF toggled, Stopped, IsTimerStopped
    <3>5. CASE IsTimerStopped(v) /\ Stopped(registers)
      BY <3>3, <3>4, <3>5, <2>1, <1>3, <1>4, <1>9 DEF ticks
    <3>6. CASE IsTimerStopped(v) /\ ~Stopped(registers)
      BY <3>3, <3>4, <3>6, <2>1, <1>2, <1>3, <1>4, <1>9 DEF ToggleRealTimeClock
    <3>7. CASE ~IsTimerStopped(v) /\ Stopped(registers)
      BY <3>3, <3>4, <3>7, <2>1, <1>2, <1>3, <1>4, <1>9 DEF ToggleRealTimeClock
    <3>8. CASE ~IsTimerStopped(v) /\ ~Stopped(registers)
      BY <3>3, <3>4, <3>8, <2>1, <1>3, <1>4, <1>9 DEF ticks
    <3> QED
      BY <3>5, <3>6, <3>7, <3>8
  <2> QED
    BY <2>3, <2>4
<1> QED
  BY <1>4, <1>7, <1>8, <1>9, <1>10 DEF IInv

(* What a reset does to the history.                                       *)
LEMMA ResetHistory ==
  ASSUME IInv, Reset
  PROVE  /\ game' \in History
         /\ game'.latches = game.latches /\ game'.ended = 0
         /\ game'.time = game.time /\ game'.halt = game.halt
         /\ game'.halted = game.halted /\ game'.astray = game.astray
         /\ ~game'.unseen => ~game.unseen /\ ~Stopped(registers)
<1> DEFINE unseen == game.unseen \/ Stopped(registers)
           none == 0
<1>1. game \in History /\ unseen \in BOOLEAN /\ none \in Int
  BY DEF IInv
<1>2. game' = [game EXCEPT !.ended = none, !.unseen = unseen]
  BY DEF Reset
<1> HIDE DEF unseen, none
<1>3. /\ game' \in History
      /\ game'.latches = game.latches /\ game'.ended = none
      /\ game'.time = game.time /\ game'.halt = game.halt
      /\ game'.halted = game.halted /\ game'.astray = game.astray
      /\ game'.unseen = unseen
  BY <1>1, <1>2 DEF History
<1> QED
  BY <1>3 DEF unseen, none

(* A reset forgets the halts that ended, as the latch would have.          *)
LEMMA ResetInv == IInv /\ Reset => IInv'
<1> SUFFICES ASSUME IInv, Reset PROVE IInv'
  OBVIOUS
<1>1. /\ shownPage' \in Pages /\ isSRAMDisabled' \in BOOLEAN
      /\ SRAMBankNumber' \in Byte
      /\ RTCTimeStopped' = 0 /\ RTCStopTime' = 0
      /\ UNCHANGED <<now, registers, disabledPages, isRTCLatched, LastRTCTicks>>
  BY DEF Reset, Pages, Byte
<1>2. now \in Nat
  BY MomentsAssumption DEF IInv, TypeOK
<1>3. TypeOK' /\ RTCStopTime' <= now'
  BY <1>1, <1>2 DEF IInv, TypeOK
<1>4. HaltsAddUp' /\ HaltsBegin'
  BY <1>1, ResetHistory DEF IInv, HaltsAddUp, HaltsBegin, Stopped
<1> QED
  BY <1>3, <1>4, ResetHistory DEF IInv

LEMMA NextInv == IInv /\ [Next]_vars => IInv'
<1> SUFFICES ASSUME IInv, [Next]_vars PROVE IInv'
  OBVIOUS
<1>1. CASE Pass
  BY <1>1, PassInv
<1>2. CASE \E enable \in BOOLEAN : WriteRom01(enable)
  BY <1>2, WriteRom01Inv
<1>3. CASE \E b \in Banks : Mbc3WriteRom45(b)
  BY <1>3, Mbc3WriteRom45Inv
<1>4. CASE \E v \in {0, 1} : HasRTCWriteRom67(v)
  BY <1>4, HasRTCWriteRom67Inv
<1>5. CASE \E v \in Values : HasRTCWriteSRAM(v)
  BY <1>5, HasRTCWriteSRAMInv
<1>6. CASE Reset
  BY <1>6, ResetInv
<1>7. CASE UNCHANGED vars
  BY <1>7 DEF vars, window, ticks, IInv, TypeOK, HaltsAddUp, HaltsBegin, Stopped
<1> QED
  BY <1>1, <1>2, <1>3, <1>4, <1>5, <1>6, <1>7 DEF Next

(* updateRealTimeClock never stores anything but bytes in the registers,   *)
(* wherever the window is, and a halt never begins in the future.          *)
THEOREM TypeCorrect == Spec => []TypeOK
<1>1. IInv => TypeOK
  BY DEF IInv
<1> QED
  BY <1>1, InitInv, NextInv, PTL DEF Spec

(* toggleRealTimeClock and the latch together count every halt they are    *)
(* told of once, and for as long as it lasted.                             *)
THEOREM HaltsCounted == Spec => []HaltsAddUp
<1>1. IInv => HaltsAddUp
  BY DEF IInv
<1> QED
  BY <1>1, InitInv, NextInv, PTL DEF Spec

-----------------------------------------------------------------------------
(* What KeepsTime needs beside IInv: a game that has neither gone astray   *)
(* nor halted the clock finds it running, and no halt waiting to be added. *)
Running ==
  ~game.astray /\ ~game.halted => ~Stopped(registers) /\ RTCTimeStopped = 0

TimeInv ==
  /\ game.latches \in Nat
  /\ Running
  /\ KeepsTime

(* Seconds carried into minutes change neither by more than whole hours,   *)
(* whatever numbers they start from.                                       *)
LEMMA CarryKeepsSeconds ==
  ASSUME NEW m \in Int, NEW s \in Int
  PROVE  (60 * ((m + s \div 60) % 60) + (s % 60)) % 3600 = (60 * m + s) % 3600
<1> DEFINE q == s \div 60
           r == s % 60
           n == m + q
           k == n \div 60
           l == n % 60
<1>1. q \in Int /\ r \in 0..59 /\ s = 60 * q + r
  OBVIOUS
<1>2. n \in Int
  BY <1>1
<1>3. k \in Int /\ l \in 0..59 /\ n = 60 * k + l
  <2> HIDE DEF n
  <2> QED BY <1>2
<1>4. 60 * m + s = (60 * l + r) + 3600 * k
  <2>1. n = m + q
    OBVIOUS
  <2> HIDE DEF n, k, l, q, r
  <2> QED BY <1>1, <1>2, <1>3, <2>1
<1> DEFINE a == 60 * l + r
<1>5. a \in 0..3599
  <2> HIDE DEF l, r
  <2> QED BY <1>1, <1>3
<1>6. \A x \in 0..3599, y \in Int : (x + 3600 * y) % 3600 = x /\ x % 3600 = x
  OBVIOUS
<1>7. (a + 3600 * k) % 3600 = a /\ a % 3600 = a
  <2> HIDE DEF a, k
  <2> QED BY <1>3, <1>5, <1>6
<1> DEFINE before == 60 * m + s
           after == 60 * ((m + s \div 60) % 60) + (s % 60)
<1>8. before = a + 3600 * k
  BY <1>4
<1>9. after = a
  OBVIOUS
<1>10. after % 3600 = before % 3600
  <2> HIDE DEF a, k, before, after
  <2> QED BY <1>7, <1>8, <1>9
<1> QED
  BY <1>10

(* Sums that are equal to within whole hours stay so when the same is      *)
(* added to both.                                                          *)
LEMMA AddWithinHour ==
  ASSUME NEW x \in Int, NEW y \in Int, NEW d \in Int, x % 3600 = y % 3600
  PROVE  (x + d) % 3600 = (y + d) % 3600
  OBVIOUS

(* Two intervals cut to whole seconds lose at most one together.           *)
LEMMA OneSecondLost ==
  ASSUME NEW x \in Int, NEW d \in Int
  PROVE  \/ (x + d) \div 1000 = x \div 1000 + d \div 1000
         \/ (x + d) \div 1000 = x \div 1000 + d \div 1000 + 1
  OBVIOUS

(* The registers a latch leaves, in the bank they are read from.           *)
LEMMA LatchStores ==
  ASSUME NEW r \in [Registers -> Byte], NEW u \in [Registers -> Byte]
  PROVE  /\ Stored(r, u, 0)[Seconds] = u[Seconds]
         /\ Stored(r, u, 0)[Minutes] = u[Minutes]
         /\ Stored(r, u, 0)[StatusByte] = r[StatusByte]
  BY DEF Stored, StoredAt, Registers, Seconds, Minutes, DaysLow, StatusByte

LEMMA UpdatedTime ==
  ASSUME NEW r \in [Registers -> Byte], NEW diff \in Int
  PROVE  LET s == r[Seconds] + diff \div 1000
         IN  /\ Updated(r, diff)[Seconds] = s % 60
             /\ Updated(r, diff)[Minutes] = (r[Minutes] + s \div 60) % 60
  BY DEF Updated, Registers, Seconds, Minutes, Hours, DaysLow, StatusByte

LEMMA InitTime == Init => TimeInv
<1> SUFFICES ASSUME Init PROVE TimeInv
  OBVIOUS
<1> DEFINE start == 60 * registers[Minutes] + registers[Seconds]
<1>1. registers \in [Registers -> Byte] /\ now \in Int
  BY StartAssumption, MomentsAssumption DEF Init
<1>2. registers[Minutes] \in Int /\ registers[Seconds] \in Int
  BY <1>1 DEF Registers, Seconds, Minutes, StatusByte, Byte
<1>3. start \in Int
  BY <1>2
<1>4. game.latches = 0 /\ game.time = 1000 * start /\ LastRTCTicks = now
      /\ RTCTimeStopped = 0 /\ game.halted = Stopped(registers)
  BY DEF Init
<1> HIDE DEF start
<1>5. (game.time - (now - LastRTCTicks)) \div 1000 - 0 = start
  BY <1>1, <1>3, <1>4
<1>6. 0 \in 0..game.latches
  BY <1>4
<1>7. start % 3600 = ((game.time - (now - LastRTCTicks)) \div 1000 - 0) % 3600
  BY <1>5
<1>8. KeepsTime
  BY <1>4, <1>6, <1>7 DEF KeepsTime, start
<1> QED
  BY <1>4, <1>8 DEF TimeInv, Running

(* Time that passes is time the next latch will count.                     *)
LEMMA PassTime == IInv /\ TimeInv /\ Pass => TimeInv'
<1> SUFFICES ASSUME IInv, TimeInv, Pass PROVE TimeInv'
  OBVIOUS
<1>1. PICK t \in Moments :
        /\ t > now /\ now' = t
        /\ game' = [game EXCEPT
                      !.time = IF game.astray \/ Stopped(registers) THEN @
                               ELSE @ + (t - now),
                      !.halt = IF ~game.unseen /\ Stopped(registers)
                               THEN @ + (t - now) ELSE @]
        /\ UNCHANGED <<registers, LastRTCTicks, RTCTimeStopped>>
  BY DEF Pass, ticks
<1>2. now \in Int /\ t \in Int /\ LastRTCTicks \in Int /\ game.time \in Int
  BY MomentsAssumption DEF IInv, TypeOK, History
<1>3. /\ game'.latches = game.latches /\ game'.astray = game.astray
      /\ game'.halted = game.halted
      /\ game'.time = IF game.astray \/ Stopped(registers) THEN game.time
                      ELSE game.time + (t - now)
  BY <1>1, PassHistory
<1>4. Running'
  BY <1>1, <1>3 DEF TimeInv, Running, Stopped
<1>5. KeepsTime'
  <2> SUFFICES ASSUME ~game.astray, ~game.halted PROVE KeepsTime'
    BY <1>3 DEF KeepsTime
  <2>1. game'.time = game.time + (t - now)
    BY <1>3 DEF TimeInv, Running
  <2>2. game'.time - (now' - LastRTCTicks') = game.time - (now - LastRTCTicks)
    BY <2>1, <1>1, <1>2
  <2> QED
    BY <2>2, <1>1, <1>3 DEF TimeInv, KeepsTime
<1> QED
  BY <1>3, <1>4, <1>5 DEF TimeInv

(* A latch in a game that does not go astray: what has passed since the    *)
(* last one is added to the seconds, but for what is left of a second.     *)
LEMMA UpdateTime ==
  ASSUME IInv, TimeInv, UpdateRealTimeClock, UNCHANGED <<now, window>>
  PROVE  TimeInv'
<1> DEFINE diff == (now - LastRTCTicks) + RTCTimeStopped
<1>1. now \in Int /\ LastRTCTicks \in Int /\ RTCTimeStopped \in Int
      /\ game.time \in Int
  BY MomentsAssumption DEF IInv, TypeOK, History
<1>2. registers \in [Registers -> Byte]
  BY DEF IInv, TypeOK
<1>3. registers' = IF isSRAMDisabled THEN registers
                   ELSE Stored(registers, Updated(registers, diff), SRAMBankNumber)
  BY DEF UpdateRealTimeClock
<1>4. diff \in Int
  BY <1>1
<1>5. LastRTCTicks' = now /\ RTCTimeStopped' = 0 /\ now' = now
  BY DEF UpdateRealTimeClock
<1>7. /\ game'.latches = game.latches + 1 /\ game'.time = game.time
      /\ game'.halted = game.halted
      /\ ~game'.astray => /\ ~game.astray /\ ~isSRAMDisabled
                          /\ SRAMBankNumber = 0 /\ ~Stopped(registers)
  BY LatchHistory
<1>8. game.latches \in Nat
  BY DEF TimeInv
<1>9. ASSUME ~game'.astray, ~game'.halted
      PROVE  ~Stopped(registers)' /\ KeepsTime'
  <2> DEFINE m == registers[Minutes]
             s == registers[Seconds]
             d == diff \div 1000
             x == game.time - (now - LastRTCTicks)
             u == Updated(registers, diff)
  <2>1. registers' = Stored(registers, u, 0)
    BY <1>3, <1>7, <1>9
  <2>2. u \in [Registers -> Byte]
    BY <1>2, <1>4, UpdatedBytes
  <2>3. /\ registers'[Seconds] = u[Seconds] /\ registers'[Minutes] = u[Minutes]
        /\ registers'[StatusByte] = registers[StatusByte]
    BY <2>1, <2>2, <1>2, LatchStores
  <2>4. ~Stopped(registers)'
    BY <2>3, <1>7, <1>9 DEF Stopped
  <2>5. m \in Int /\ s \in Int
    BY <1>2 DEF Registers, Seconds, Minutes, StatusByte, Byte
  <2>6. d \in Int /\ x \in Int
    <3> HIDE DEF diff
    <3> QED BY <1>1, <1>4
  <2>7. diff = now - LastRTCTicks
    BY <1>1, <1>7, <1>9 DEF TimeInv, Running
  <2>8. game'.time - (now' - LastRTCTicks') = x + diff
    <3> HIDE DEF diff
    <3> QED BY <2>7, <1>1, <1>5, <1>7
  <2>9. PICK late \in 0..game.latches :
          (60 * m + s) % 3600 = (x \div 1000 - late) % 3600
    BY <1>7, <1>9 DEF TimeInv, KeepsTime
  <2>10. u[Seconds] = (s + d) % 60 /\ u[Minutes] = (m + (s + d) \div 60) % 60
    BY <1>2, <1>4, UpdatedTime
  <2> HIDE DEF m, s, d, x, u, diff
  <2>11. s + d \in Int
    BY <2>5, <2>6
  <2>12. (60 * u[Minutes] + u[Seconds]) % 3600 = (60 * m + (s + d)) % 3600
    BY <2>5, <2>10, <2>11, CarryKeepsSeconds
  <2>13. (60 * m + (s + d)) % 3600 = ((x \div 1000 - late) + d) % 3600
    <3>1. 60 * m + s \in Int /\ x \div 1000 - late \in Int
      BY <2>5, <2>6
    <3>2. ((60 * m + s) + d) % 3600 = ((x \div 1000 - late) + d) % 3600
      BY <2>6, <2>9, <3>1, AddWithinHour
    <3> QED
      BY <3>2, <2>5, <2>6
  <2>14. \E l \in 0..(game.latches + 1) :
           (x \div 1000 - late) + d = (x + diff) \div 1000 - l
    <3>1. late \in 0..(game.latches + 1) /\ late + 1 \in 0..(game.latches + 1)
      BY <1>8
    <3>2. CASE (x + diff) \div 1000 = x \div 1000 + d
      <4>1. (x \div 1000 - late) + d = (x + diff) \div 1000 - late
        BY <3>2, <2>6
      <4> QED BY <3>1, <4>1
    <3>3. CASE (x + diff) \div 1000 = x \div 1000 + d + 1
      <4>1. (x \div 1000 - late) + d = (x + diff) \div 1000 - (late + 1)
        BY <3>3, <2>6
      <4> QED BY <3>1, <4>1
    <3> QED
      BY <3>2, <3>3, <2>6, <1>4, OneSecondLost DEF d
  <2>15. PICK l \in 0..(game.latches + 1) :
           (x \div 1000 - late) + d = (x + diff) \div 1000 - l
    BY <2>14
  <2>16. (60 * u[Minutes] + u[Seconds]) % 3600 = ((x + diff) \div 1000 - l) % 3600
    <3>1. ((x \div 1000 - late) + d) % 3600 = ((x + diff) \div 1000 - l) % 3600
      BY <2>15
    <3>2. (60 * u[Minutes] + u[Seconds]) % 3600
            = ((x \div 1000 - late) + d) % 3600
      BY <2>12, <2>13
    <3> QED
      BY <3>1, <3>2
  <2>17. u[Seconds] < 60 /\ u[Minutes] < 60
    BY <2>5, <2>6, <2>10
  <2>18. KeepsTime'
    BY <2>3, <2>8, <2>16, <2>17, <1>7 DEF KeepsTime
  <2> QED
    BY <2>4, <2>18
<1>10. KeepsTime'
  BY <1>9 DEF KeepsTime
<1>11. Running'
  BY <1>5, <1>9 DEF Running
<1> QED
  BY <1>7, <1>8, <1>10, <1>11 DEF TimeInv

(* Writes to RAM: one that neither halts the clock nor goes astray leaves  *)
(* the registers the time is read from as they are.                        *)
LEMMA WriteTime ==
  ASSUME IInv, TimeInv, NEW v \in Values, HasRTCWriteSRAM(v)
  PROVE  TimeInv'
<1> DEFINE wasStopped == IF isSRAMDisabled THEN disabledPages[shownPage]
                         ELSE Stopped(registers)
           toggled == SRAMBankNumber = StatusByte /\ IsTimerStopped(v) # wasStopped
<1>1. ~toggled => UNCHANGED ticks
  BY DEF HasRTCWriteSRAM
<1>4. /\ game'.time = game.time /\ game'.latches = game.latches
      /\ ~game'.halted => ~game.halted /\ ~Stopped(registers')
      /\ ~game'.astray =>
           /\ ~game.astray
           /\ SRAMBankNumber \in Registers =>
                ~isSRAMDisabled /\ SRAMBankNumber = StatusByte
  BY WriteHistory
<1>5. game.latches \in Nat /\ now' = now
  BY DEF TimeInv, HasRTCWriteSRAM
<1>6. LastRTCTicks' = LastRTCTicks
  BY <1>1 DEF HasRTCWriteSRAM, ToggleRealTimeClock, ticks
<1>7. ASSUME ~game'.astray, ~game'.halted
      PROVE  /\ ~Stopped(registers') /\ ~Stopped(registers)
             /\ RTCTimeStopped' = 0
             /\ registers'[Minutes] = registers[Minutes]
             /\ registers'[Seconds] = registers[Seconds]
  <2>1. ~Stopped(registers) /\ RTCTimeStopped = 0 /\ ~Stopped(registers')
    BY <1>4, <1>7 DEF TimeInv, Running
  <2>2. registers'[Minutes] = registers[Minutes]
        /\ registers'[Seconds] = registers[Seconds]
    BY <1>4, <1>7 DEF HasRTCWriteSRAM, Registers, Seconds, Minutes, StatusByte
  <2>3. SRAMBankNumber = StatusByte => registers'[StatusByte] = v /\ ~isSRAMDisabled
    BY <1>4, <1>7 DEF HasRTCWriteSRAM, Registers, Seconds, StatusByte
  <2>4. SRAMBankNumber = StatusByte => ~IsTimerStopped(v)
    BY <2>1, <2>3 DEF Stopped
  <2>5. ~toggled
    BY <2>1, <2>3, <2>4 DEF Stopped, IsTimerStopped
  <2> QED
    BY <1>1, <2>1, <2>2, <2>5 DEF ticks
<1>8. Running'
  BY <1>7 DEF Running, Stopped
<1>9. KeepsTime'
  BY <1>4, <1>5, <1>6, <1>7 DEF TimeInv, KeepsTime
<1> QED
  BY <1>4, <1>5, <1>8, <1>9 DEF TimeInv

LEMMA NextTime == IInv /\ TimeInv /\ [Next]_vars => TimeInv'
<1> SUFFICES ASSUME IInv, TimeInv, [Next]_vars PROVE TimeInv'
  OBVIOUS
<1>1. CASE Pass
  BY <1>1, PassTime
<1>2. CASE \E enable \in BOOLEAN : WriteRom01(enable)
  BY <1>2 DEF WriteRom01, ticks, TimeInv, Running, KeepsTime, Stopped
<1>3. CASE \E b \in Banks : Mbc3WriteRom45(b)
  BY <1>3 DEF Mbc3WriteRom45, ticks, TimeInv, Running, KeepsTime, Stopped
<1>4. CASE \E v \in {0, 1} : HasRTCWriteRom67(v)
  <2> PICK v \in {0, 1} : HasRTCWriteRom67(v)
    BY <1>4
  <2>1. UNCHANGED <<now, window>>
    BY DEF HasRTCWriteRom67
  <2>2. CASE ~isRTCLatched /\ v = 1
    BY <2>1, <2>2, UpdateTime DEF HasRTCWriteRom67
  <2>3. CASE ~(~isRTCLatched /\ v = 1)
    <3>1. UNCHANGED <<registers, ticks, game>>
      BY <2>3 DEF HasRTCWriteRom67
    <3> QED
      BY <2>1, <3>1 DEF ticks, TimeInv, Running, KeepsTime, Stopped
  <2> QED
    BY <2>2, <2>3
<1>5. CASE \E v \in Values : HasRTCWriteSRAM(v)
  BY <1>5, WriteTime
<1>6. CASE Reset
  <2>1. /\ game'.latches = game.latches /\ game'.time = game.time
        /\ game'.halted = game.halted /\ game'.astray = game.astray
    BY <1>6, ResetHistory
  <2>2. UNCHANGED <<now, registers, LastRTCTicks>> /\ RTCTimeStopped' = 0
    BY <1>6 DEF Reset
  <2> QED
    BY <2>1, <2>2 DEF TimeInv, Running, KeepsTime, Stopped
<1>7. CASE UNCHANGED vars
  BY <1>7 DEF vars, window, ticks, TimeInv, Running, KeepsTime, Stopped
<1> QED
  BY <1>1, <1>2, <1>3, <1>4, <1>5, <1>6, <1>7 DEF Next

(* However often and however irregularly a game latches the clock, the     *)
(* minutes and seconds it reads have lost at most a second for each latch  *)
(* and nothing is counted twice, at every moment and for every start.      *)
THEOREM TimeKept == Spec => []KeepsTime
<1>1. TimeInv => KeepsTime
  BY DEF TimeInv
<1>2. Init => IInv /\ TimeInv
  BY InitInv, InitTime
<1>3. IInv /\ TimeInv /\ [Next]_vars => (IInv /\ TimeInv)'
  BY NextInv, NextTime
<1> QED
  BY <1>1, <1>2, <1>3, PTL DEF Spec
=============================================================================
