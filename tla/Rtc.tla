--------------------------------- MODULE Rtc ---------------------------------
(***************************************************************************)
(* The real-time clock of an MBC3 cartridge that has RAM as well: rtc.c,   *)
(* the latch and the register writes of mmu.c, what importRTCData and      *)
(* loadCartridge set up for them, and a reset.  Cartridge RAM holds        *)
(* thirteen banks, the last five filled with the clock's registers, so a   *)
(* register is a bank here.  Milliseconds are those of get_ticks_ms.       *)
(*                                                                         *)
(* `game' is not state of the program: it follows the clock a cartridge    *)
(* would have, to compare the registers with.                              *)
(***************************************************************************)
EXTENDS Integers, Sequences

CONSTANTS
  Moments,         (* the values of get_ticks_ms at which something happens *)
  StartRegisters,  (* what importRTCData may have read from the cartridge   *)
  Banks,           (* the bytes the game writes at 4000-5FFF                *)
  Values,          (* the bytes it writes to cartridge RAM                  *)
  MaxLatches,      (* bound on the times it latches the clock               *)
  MaxBlindWrites   (* bound on its writes to RAM that is disabled           *)

VARIABLES
  now,             (* get_ticks_ms                                          *)
  registers,       (* the clock's banks of Cartridge.Ram.Data               *)
  disabledPages,   (* the halt flag of each disabledRAMPage                 *)
  shownPage,       (* the one the window shows while RAM is disabled        *)
  isSRAMDisabled, SRAMBankNumber,
  isRTCLatched,
  LastRTCTicks, RTCStopTime, RTCTimeStopped,
  game             (* history, see above                                    *)

window == <<disabledPages, shownPage, isSRAMDisabled, SRAMBankNumber>>
ticks == <<LastRTCTicks, RTCStopTime, RTCTimeStopped>>
vars == <<now, registers, window, isRTCLatched, ticks, game>>

Seconds == 8
Minutes == 9
Hours == 10
DaysLow == 11
StatusByte == 12
Registers == Seconds..StatusByte
Pages == {"gbc_state.c", "mmu.c"}
Byte == 0..255

ASSUME MomentsAssumption == Moments \subseteq Nat /\ Moments # {}
ASSUME StartAssumption == StartRegisters \subseteq [Registers -> Byte]
ASSUME GameAssumption ==
  Banks \subseteq Byte /\ Values \subseteq Byte /\ MaxLatches \in Nat
  /\ MaxBlindWrites \in Nat

(* The fields of RealTimeClockStatus, bit 6 and bit 0, on a big-endian CPU.*)
IsTimerStopped(status) == (status \div 64) % 2 = 1
DaysHigh(status) == status % 2

-----------------------------------------------------------------------------
(* What updateRealTimeClock makes of the registers r, `diff' milliseconds  *)
(* after they were right.  Each register has been reduced by the time the  *)
(* next one is computed from it.                                           *)
Updated(r, diff) ==
  LET seconds == r[Seconds] + diff \div 1000
      newSeconds == seconds % 60
      newMinutes == (r[Minutes] + seconds \div 60) % 60
      newHours == (r[Hours] + newMinutes \div 60 + newSeconds \div 3600) % 24
      days == r[DaysLow] + newHours \div 24 + newMinutes \div 1440
                + newSeconds \div 86400
      status == r[StatusByte]
  IN [r EXCEPT ![Seconds] = newSeconds,
               ![Minutes] = newMinutes,
               ![Hours] = newHours,
               ![DaysLow] = days % 128,
               ![StatusByte] =
                 IF days <= 255 THEN status
                 ELSE IF DaysHigh(status) = 0 THEN status + 1
                 ELSE 128 + ((status - 1) % 128)]

(* The banks relative to the window, where the five results are stored:    *)
(* the last two share a bank and the status is stored last.                *)
StoredAt(u) == [b \in Seconds..DaysLow |-> IF b = DaysLow THEN u[StatusByte]
                                           ELSE u[b]]

(* The registers once `u' is stored from bank `bank' of cartridge RAM on;  *)
(* what lands past the thirteenth bank is nobody's that the game can see.  *)
Stored(r, u, bank) ==
  [b \in Registers |-> IF b - bank \in Seconds..DaysLow THEN StoredAt(u)[b - bank]
                       ELSE r[b]]

(* The halt flag of the registers the game sees.                           *)
Stopped(r) == IsTimerStopped(r[StatusByte])

Init ==
  /\ now \in Moments /\ \A t \in Moments : now <= t
  /\ registers \in StartRegisters
  /\ disabledPages = [page \in Pages |-> TRUE] /\ shownPage = "gbc_state.c"
  /\ isSRAMDisabled = TRUE /\ SRAMBankNumber = 0
  /\ isRTCLatched = FALSE
  /\ LastRTCTicks = now /\ RTCStopTime = 0 /\ RTCTimeStopped = 0
  /\ game = [time |-> 1000 * (60 * registers[Minutes] + registers[Seconds]),
             ended |-> 0, halt |-> 0, latches |-> 0, blindWrites |-> 0,
             halted |-> Stopped(registers), astray |-> Stopped(registers),
             unseen |-> Stopped(registers)]

-----------------------------------------------------------------------------
(* Time passes; the clock of a cartridge stands still while it is halted.  *)
(* The clock is followed until the game goes astray, a halt until one came *)
(* about that toggleRealTimeClock was not told of.                         *)
Pass ==
  \E t \in Moments :
    /\ t > now
    /\ now' = t
    /\ game' =
         [game EXCEPT
            !.time = IF game.astray \/ Stopped(registers) THEN @
                     ELSE @ + (t - now),
            !.halt = IF ~game.unseen /\ Stopped(registers) THEN @ + (t - now)
                     ELSE @]
    /\ UNCHANGED <<registers, window, isRTCLatched, ticks>>

(* 0000-1FFF: RAM, and with it the registers, is enabled or disabled.  The *)
(* page of gbc_state.c is not shown again before the next reset.           *)
WriteRom01(enable) ==
  /\ isSRAMDisabled' = ~enable
  /\ shownPage' = "mmu.c"
  /\ UNCHANGED <<now, registers, disabledPages, SRAMBankNumber, isRTCLatched,
                 ticks, game>>

(* 4000-5FFF: the bank, of RAM or of the clock, that the window shows.     *)
Mbc3WriteRom45(b) ==
  /\ SRAMBankNumber' = b
  /\ UNCHANGED <<now, registers, disabledPages, shownPage, isSRAMDisabled,
                 isRTCLatched, ticks, game>>

(* Mutant: the time of the latch is not kept for the next one.             *)
UpdateRealTimeClockAgain ==
  LET diff == (now - LastRTCTicks) + RTCTimeStopped
  IN /\ registers' = IF isSRAMDisabled THEN registers
                     ELSE Stored(registers, Updated(registers, diff),
                                 SRAMBankNumber)
     /\ RTCTimeStopped' = 0
     /\ UNCHANGED <<RTCStopTime, LastRTCTicks>>
     /\ game' = [game EXCEPT
                   !.latches = @ + 1, !.ended = 0,
                   !.astray = \/ @ \/ isSRAMDisabled \/ SRAMBankNumber # 0
                              \/ Stopped(registers),
                   !.unseen = \/ @ \/ Stopped(registers') # Stopped(registers)]

(* updateRealTimeClock: the registers are read from Ram.Data and stored    *)
(* from the window on, past the disabled page when that is what it shows.  *)
(* The time the clock stood still is added.                                *)
UpdateRealTimeClock ==
  LET diff == (now - LastRTCTicks) + RTCTimeStopped
  IN /\ registers' = IF isSRAMDisabled THEN registers
                     ELSE Stored(registers, Updated(registers, diff),
                                 SRAMBankNumber)
     /\ LastRTCTicks' = now
     /\ RTCTimeStopped' = 0
     /\ UNCHANGED RTCStopTime
     /\ game' = [game EXCEPT
                   !.latches = @ + 1, !.ended = 0,
                   !.astray = \/ @ \/ isSRAMDisabled \/ SRAMBankNumber # 0
                              \/ Stopped(registers),
                   !.unseen = \/ @ \/ Stopped(registers') # Stopped(registers)]

(* 6000-7FFF: the game latches the clock by writing 0 and then 1.          *)
HasRTCWriteRom67(v) ==
  /\ isRTCLatched' = (v # 0)
  /\ IF ~isRTCLatched /\ v = 1
     THEN game.latches < MaxLatches /\ UpdateRealTimeClock
     ELSE UNCHANGED <<registers, ticks, game>>
  /\ UNCHANGED <<now, window>>

(* Mutant: only the last halt is remembered.                               *)
ToggleRealTimeClockLast(isStopped) ==
  /\ IF isStopped
     THEN RTCStopTime' = now /\ UNCHANGED RTCTimeStopped
     ELSE RTCTimeStopped' = now - RTCStopTime /\ UNCHANGED RTCStopTime
  /\ UNCHANGED LastRTCTicks

(* toggleRealTimeClock: a halt is timed when it ends.                      *)
ToggleRealTimeClock(isStopped) ==
  /\ IF isStopped
     THEN RTCStopTime' = now /\ UNCHANGED RTCTimeStopped
     ELSE /\ RTCTimeStopped' = RTCTimeStopped + (now - RTCStopTime)
          /\ UNCHANGED RTCStopTime
  /\ UNCHANGED LastRTCTicks

(* The history after a write that leaves the registers as `after'.         *)
Written(after) ==
  [game EXCEPT
     !.blindWrites = IF isSRAMDisabled THEN @ + 1 ELSE @,
     !.ended = IF Stopped(registers) /\ ~Stopped(after) THEN @ + game.halt ELSE @,
     !.halt = IF Stopped(after) THEN @ ELSE 0,
     !.halted = @ \/ Stopped(after),
     !.astray = @ \/ (SRAMBankNumber \in Registers /\
                        (isSRAMDisabled \/ SRAMBankNumber # StatusByte)),
     !.unseen = @ \/ (SRAMBankNumber = StatusByte /\ isSRAMDisabled)]

(* A000-BFFF: hasRTCwriteSRAM.  With the status selected, the clock is     *)
(* toggled when the halt flag of the byte differs from that of the byte in *)
(* the window; then the byte fills the window.  The window may show a      *)
(* disabled page, or a bank of RAM (which no property here speaks of).     *)
HasRTCWriteSRAM(v) ==
  LET wasStopped == IF isSRAMDisabled THEN disabledPages[shownPage]
                    ELSE Stopped(registers)
  IN /\ IF SRAMBankNumber = StatusByte /\ IsTimerStopped(v) # wasStopped
        THEN ToggleRealTimeClock(IsTimerStopped(v))
        ELSE UNCHANGED ticks
     /\ IF isSRAMDisabled
        THEN /\ game.blindWrites < MaxBlindWrites
             /\ disabledPages' = [disabledPages EXCEPT
                                    ![shownPage] = IsTimerStopped(v)]
             /\ UNCHANGED registers
        ELSE /\ registers' = [r \in Registers |->
                               IF r = SRAMBankNumber THEN v ELSE registers[r]]
             /\ UNCHANGED disabledPages
     /\ game' = Written(registers')
     /\ UNCHANGED <<now, shownPage, isSRAMDisabled, SRAMBankNumber, isRTCLatched>>

(* The reset of the menu: resetPlayState, loadCartridge and                *)
(* cpu_reset_state.  A halt that goes on is not known of any more.         *)
Reset ==
  /\ shownPage' = "gbc_state.c" /\ isSRAMDisabled' = TRUE
  /\ SRAMBankNumber' = 0
  /\ RTCTimeStopped' = 0 /\ RTCStopTime' = 0
  /\ game' = [game EXCEPT !.ended = 0, !.unseen = @ \/ Stopped(registers)]
  /\ UNCHANGED <<now, registers, disabledPages, isRTCLatched, LastRTCTicks>>

Next ==
  \/ Pass
  \/ \E enable \in BOOLEAN : WriteRom01(enable)
  \/ \E b \in Banks : Mbc3WriteRom45(b)
  \/ \E v \in {0, 1} : HasRTCWriteRom67(v)
  \/ \E v \in Values : HasRTCWriteSRAM(v)
  \/ Reset

Spec == Init /\ [][Next]_vars

-----------------------------------------------------------------------------
(***************************************************************************)
(* Properties.                                                             *)
(***************************************************************************)

(* Registers stay bytes, whatever is stored in them and from where on.     *)
TypeOK ==
  /\ now \in Moments
  /\ registers \in [Registers -> Byte]
  /\ disabledPages \in [Pages -> BOOLEAN] /\ shownPage \in Pages
  /\ isSRAMDisabled \in BOOLEAN /\ isRTCLatched \in BOOLEAN
  /\ SRAMBankNumber \in Byte
  /\ LastRTCTicks \in Moments /\ RTCStopTime \in Moments \cup {0}
  /\ RTCTimeStopped \in Nat

(* "Updates the current RTC value based on the initial value": a game that *)
(* latches the clock with RAM enabled and bank 0 selected, and only lets   *)
(* it run, reads the minutes and seconds of the cartridge's own clock, at  *)
(* most one second late for every latch: time between two latches is       *)
(* counted once, however often and however irregularly it is latched, and  *)
(* from whatever bytes the cartridge's registers held at first.            *)
KeepsTime ==
  ~game.astray /\ ~game.halted =>
    /\ game.latches > 0 => registers[Minutes] < 60 /\ registers[Seconds] < 60
    /\ \E late \in 0..game.latches :
         (60 * registers[Minutes] + registers[Seconds]) % 3600 =
           ((game.time - (now - LastRTCTicks)) \div 1000 - late) % 3600

(* "When we switch the timer back on, find out how much time elapsed since *)
(* we turned it off": every halt is counted once, when it ends and from    *)
(* when it began, however many there are, with latches, writes to other    *)
(* registers, changes of bank and disabled RAM between and during them.  A *)
(* latch uses up the halts that have ended, a reset forgets them.  Not so  *)
(* with halts toggleRealTimeClock is not told of: the clock was halted     *)
(* when it was loaded or is reset, a latch with another bank shown stores  *)
(* something else over the flag, or a disabled page is taken for the       *)
(* status.                                                                 *)
HaltsAddUp ==
  ~game.unseen =>
    /\ game.ended = RTCTimeStopped
    /\ Stopped(registers) => game.halt = now - RTCStopTime
=============================================================================
