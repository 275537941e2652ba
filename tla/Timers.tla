------------------------------ MODULE Timers ------------------------------
(***************************************************************************)
(* The timers of cpu.c.  One of three handlers is installed in             *)
(* GbState.TimersStep; the third waits one step after an overflow, requests*)
(* the interrupt, then installs one of the others and runs it.             *)
(***************************************************************************)
EXTENDS EmuState

(* x & n when n is a power of two: what the code keeps of a clock after a  *)
(* tick of n.                                                              *)
Masked(x, n) == ((x \div n) % 2) * n

(* timersStep (factor 1) and timersStepDouble (factor 2), from the handler *)
(* and the counter they find.                                              *)
RunTimers(factor, handler, counter) ==
  LET clock == (InternalClock + last_op_cycles) % InternalMod
      divTicks == clock >= DivTick * factor
      tick == TimaTick[TimerControl % 4] * factor
      timaClock == (TIMAClock + last_op_cycles) % TimaClockMod
      enabled == TimerControl >= 4
      timaTicks == enabled /\ timaClock >= tick
      next == (counter + 1) % CounterMod
  IN /\ InternalClock' = IF divTicks THEN Masked(clock, DivTick * factor)
                                     ELSE clock
     /\ TimerClock' = IF divTicks THEN (TimerClock + 1) % CounterMod
                                  ELSE TimerClock
     /\ TIMAClock' = IF ~enabled THEN TIMAClock
                     ELSE IF timaTicks THEN Masked(timaClock, tick)
                     ELSE timaClock
     /\ TimerCounter' = IF timaTicks THEN next ELSE counter
     /\ TimersStep' = IF timaTicks /\ next = 0
                      THEN "timersStepPendingInterrupt" ELSE handler
     /\ UNCHANGED <<TimerResetValue, TimerControl>>

RunNormal ==
  /\ TimersStep = "timersStep"
  /\ RunTimers(1, TimersStep, TimerCounter)
  /\ UNCHANGED InterruptFlags

RunDouble ==
  /\ TimersStep = "timersStepDouble"
  /\ RunTimers(2, TimersStep, TimerCounter)
  /\ UNCHANGED InterruptFlags

ResumedHandler ==
  IF IsInDoubleSpeedMode THEN "timersStepDouble" ELSE "timersStep"

RunPendingInterrupt ==
  /\ TimersStep = "timersStepPendingInterrupt"
  /\ InterruptFlags' = InterruptFlags \cup {TIMER}
  /\ RunTimers(Speed, ResumedHandler, TimerResetValue)

StepTimers ==
  /\ RunNormal \/ RunDouble \/ RunPendingInterrupt
  /\ UNCHANGED <<last_op_cycles, interruptVars, lcdVars, hdmaVars, speedVars>>

(* FF04: "Whenever DIV register is written to, it resets."                 *)
WriteDiv ==
  /\ TimerClock' = 0
  /\ UNCHANGED <<TimersStep, InternalClock, TIMAClock, TimerCounter,
                 TimerResetValue, TimerControl>>

(* FF05 to FF07 are plain memory.                                          *)
WriteTimers(counter, resetValue, control) ==
  /\ TimerCounter' = counter
  /\ TimerResetValue' = resetValue
  /\ TimerControl' = control
  /\ UNCHANGED <<TimersStep, InternalClock, TIMAClock, TimerClock>>
=============================================================================
