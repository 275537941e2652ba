-------------------------------- MODULE Cpu --------------------------------
(***************************************************************************)
(* The emulated CPU (gbz80ops.c, and cpu_step and cpu_handle_interrupts of *)
(* cpu.c) running a program: registers, flags, stack, memory, jumps, calls *)
(* and interrupts, which may be requested between any two instructions.    *)
(* What an instruction computes is Alu's.  The bytes of an instruction are *)
(* one record; its length is kept, so that jumps go to addresses.          *)
(* STOP, the undefined instructions and the cycles are left out.           *)
(***************************************************************************)
EXTENDS Alu, Sequences
LOCAL INSTANCE Functions

CONSTANTS
  Program,       \* an instruction for every address one may start at
  Entry,         \* where it begins
  Memories,      \* what memory may hold then, as functions on addresses
  Requested,     \* the interrupts, of 0..4, that are switched on
  MaxInterrupts  \* bound on the interrupts taken

Registers == {"A", "B", "C", "D", "E", "H", "L"}

(* What bytes decode to by the tables of gbz80ops.h: each operation with   *)
(* at most these operands.                                                 *)
CbOps == ShiftOps \cup {"BIT", "RES", "SET"}
ArithmeticOps == {"ADD", "ADC", "SUB", "SBC", "AND", "XOR", "OR", "CP"}
AdjustOps == {"DAA", "CPL", "CCF", "SCF", "RLCA", "RLA", "RRCA", "RRA"}
InRegisters == Registers \cup {"(HL)"}
InMemory == {"(HL)", "(HL+)", "(HL-)", "(BC)", "(DE)", "(nn)", "(C)", "(n)"}

Decoded(i) ==
  /\ i.n \in Word
  /\ {"n", "(n)"} \cap {i.x, i.y} # {} => i.n \in Byte
  /\ i.cc \in {"", "NZ", "Z", "NC", "C"}
  /\ \/ i.op \in {"NOP", "LDSPHL", "LDnnSP", "JP", "JPHL", "CALL", "RST", "RET", "RETI",
                  "DI", "EI", "HALT"} \cup AdjustOps
     \/ i.op = "LD" /\ i.x \in Registers /\ i.y \in Registers \cup {"n"} \cup InMemory
     \/ i.op = "LD" /\ i.x \in InMemory /\ i.y \in Registers \cup {"n"}
     \/ i.op \in ArithmeticOps /\ i.y \in InRegisters \cup {"n"}
     \/ i.op \in {"INC", "DEC"} \cup ShiftOps /\ i.x \in InRegisters
     \/ i.op \in {"BIT", "RES", "SET"} /\ i.x \in InRegisters /\ i.n \in 0..7
     \/ i.op \in {"LD16", "INC16", "DEC16", "ADDHL"} /\ i.x \in {"BC", "DE", "HL", "SP"}
     \/ i.op \in {"PUSH", "POP"} /\ i.x \in {"BC", "DE", "HL", "AF"}
     \/ i.op \in {"JR", "LDHLSP", "ADDSP"} /\ i.n \in Byte

ASSUME ProgramAssumption ==
  /\ DOMAIN Program \subseteq Word /\ Entry \in DOMAIN Program
  /\ \A a \in DOMAIN Program : Decoded(Program[a])
ASSUME MemoriesAssumption ==
  \A m \in Memories :
    DOMAIN m \subseteq Word /\ \A a \in DOMAIN m : m[a] \in Byte
ASSUME InterruptsAssumption == Requested \subseteq 0..4 /\ MaxInterrupts \in Nat

VARIABLES
  r,        \* the registers
  f,        \* the flags
  sp, pc,
  mem,
  ime,      \* interrupts_master_enabled
  halted,   \* halt_for_interrupts
  taken,    \* how many of each interrupt have been taken
  frames,   \* history: the calls and interrupts that have not returned
  given     \* history: memory at the start

vars == <<r, f, sp, pc, mem, ime, halted, taken, frames, given>>

(* cpu_reset_state, on a cartridge that does not support the Color.        *)
Init ==
  /\ r = [x \in Registers |->
            [A |-> 1, B |-> 0, C |-> 19, D |-> 0, E |-> 216, H |-> 1, L |-> 77][x]]
  /\ f = [Z |-> 1, N |-> 0, H |-> 1, C |-> 1]
  /\ sp = 65534
  /\ pc = Entry
  /\ mem \in Memories
  /\ ime = TRUE
  /\ halted = FALSE
  /\ taken = [i \in 0..4 |-> 0]
  /\ frames = <<>>
  /\ given = mem

-----------------------------------------------------------------------------
(* Instructions and their operands.                                        *)
Length(i) ==
  IF i.op \in {"JP", "CALL", "LD16", "LDnnSP"} \/ "(nn)" \in {i.x, i.y} THEN 3
  ELSE IF \/ i.op \in CbOps \cup {"JR", "LDHLSP", "ADDSP"}
          \/ {"n", "(n)"} \cap {i.x, i.y} # {} THEN 2
  ELSE 1

Following(i) == (pc + Length(i)) % 65536

FlagByte == 128 * f.Z + 64 * f.N + 32 * f.H + 16 * f.C

Pair(x) ==
  CASE x = "BC" -> 256 * r["B"] + r["C"]
    [] x = "DE" -> 256 * r["D"] + r["E"]
    [] x = "HL" -> 256 * r["H"] + r["L"]
    [] x = "SP" -> sp
    [] x = "AF" -> 256 * r["A"] + FlagByte

WithPair(x, v) ==
  CASE x = "BC" -> [r EXCEPT !["B"] = v \div 256, !["C"] = v % 256]
    [] x = "DE" -> [r EXCEPT !["D"] = v \div 256, !["E"] = v % 256]
    [] x = "HL" -> [r EXCEPT !["H"] = v \div 256, !["L"] = v % 256]
    [] x = "AF" -> [r EXCEPT !["A"] = v \div 256]
    [] x = "SP" -> r

Address(i, x) ==
  CASE x \in {"(HL)", "(HL+)", "(HL-)"} -> Pair("HL")
    [] x = "(BC)" -> Pair("BC")
    [] x = "(DE)" -> Pair("DE")
    [] x = "(nn)" -> i.n
    [] x = "(C)" -> 65280 + r["C"]
    [] x = "(n)" -> 65280 + i.n

Get(i, x) ==
  IF x \in Registers THEN r[x]
  ELSE IF x = "n" THEN i.n
  ELSE mem[Address(i, x)]

(* The registers and memory with v in operand x.                           *)
PutRegister(x, v) == IF x \in Registers THEN [r EXCEPT ![x] = v] ELSE r
PutMemory(i, x, v) ==
  IF x \in Registers THEN mem ELSE [mem EXCEPT ![Address(i, x)] = v]

(* NZ, Z, NC, C or none.                                                   *)
Holds(cc) ==
  CASE cc = "" -> TRUE
    [] cc = "NZ" -> f.Z = 0
    [] cc = "Z" -> f.Z = 1
    [] cc = "NC" -> f.C = 0
    [] cc = "C" -> f.C = 1

(* The stack grows down, the low byte of a word below the high one.        *)
Pushed(v) ==
  [mem EXCEPT ![(sp - 2) % 65536] = v % 256, ![(sp - 1) % 65536] = v \div 256]
Popped == mem[sp] + 256 * mem[(sp + 1) % 65536]

Executes(i, ops) == ~halted /\ i.op \in ops
GoesOn(i) == pc' = Following(i) /\ UNCHANGED <<ime, halted, taken, frames, given>>

-----------------------------------------------------------------------------
Load8(i) ==
  /\ Executes(i, {"LD", "NOP"})
  /\ GoesOn(i)
  /\ UNCHANGED <<f, sp>>
  /\ IF i.op = "NOP" THEN UNCHANGED <<r, mem>>
     ELSE /\ mem' = PutMemory(i, i.x, Get(i, i.y))
          /\ LET regs == IF "(HL+)" \in {i.x, i.y}
                         THEN WithPair("HL", (Pair("HL") + 1) % 65536)
                         ELSE IF "(HL-)" \in {i.x, i.y}
                         THEN WithPair("HL", (Pair("HL") - 1) % 65536)
                         ELSE r
             IN  r' = IF i.x \in Registers THEN [regs EXCEPT ![i.x] = Get(i, i.y)]
                      ELSE regs

Load16(i) ==
  /\ Executes(i, {"LD16", "LDSPHL", "LDnnSP", "LDHLSP"})
  /\ GoesOn(i)
  /\ CASE i.op = "LD16" ->
            /\ r' = WithPair(i.x, i.n)
            /\ sp' = IF i.x = "SP" THEN i.n ELSE sp
            /\ UNCHANGED <<f, mem>>
       [] i.op = "LDSPHL" -> sp' = Pair("HL") /\ UNCHANGED <<r, f, mem>>
       [] i.op = "LDnnSP" ->
            /\ mem' = [mem EXCEPT ![i.n] = sp % 256,
                                   ![(i.n + 1) % 65536] = sp \div 256]
            /\ UNCHANGED <<r, f, sp>>
       [] i.op = "LDHLSP" ->
            LET sum == AddToSp(sp, i.n)
            IN  /\ r' = WithPair("HL", sum.value)
                /\ f' = sum.f
                /\ UNCHANGED <<sp, mem>>

Computed(op, a, n, c) ==
  CASE op = "ADD" -> Adc(a, n, 0)
    [] op = "ADC" -> Adc(a, n, c)
    [] op = "SUB" -> Sbc(a, n, 0)
    [] op = "SBC" -> Sbc(a, n, c)
    [] op = "AND" -> And(a, n)
    [] op = "XOR" -> Xor(a, n)
    [] op = "OR" -> Or(a, n)
    [] op = "CP" -> Cp(a, n)

Arithmetic(i) ==
  /\ Executes(i, ArithmeticOps)
  /\ GoesOn(i)
  /\ LET res == Computed(i.op, r["A"], Get(i, i.y), f.C)
     IN  r' = [r EXCEPT !["A"] = res.value] /\ f' = res.f
  /\ UNCHANGED <<sp, mem>>

Count(i) ==
  /\ Executes(i, {"INC", "DEC"})
  /\ GoesOn(i)
  /\ LET res == IF i.op = "INC" THEN Inc(Get(i, i.x), f) ELSE Dec(Get(i, i.x), f)
     IN  /\ r' = PutRegister(i.x, res.value)
         /\ mem' = PutMemory(i, i.x, res.value)
         /\ f' = res.f
  /\ UNCHANGED sp

(* INC, DEC and ADD HL of words, and ADD SP.                               *)
Words(i) ==
  /\ Executes(i, {"INC16", "DEC16", "ADDHL", "ADDSP"})
  /\ GoesOn(i)
  /\ UNCHANGED mem
  /\ CASE i.op \in {"INC16", "DEC16"} ->
            LET v == (Pair(i.x) + (IF i.op = "INC16" THEN 1 ELSE -1)) % 65536
            IN  /\ r' = WithPair(i.x, v)
                /\ sp' = IF i.x = "SP" THEN v ELSE sp
                /\ UNCHANGED f
       [] i.op = "ADDHL" ->
            LET sum == AddWord(Pair("HL"), Pair(i.x), f)
            IN  r' = WithPair("HL", sum.value) /\ f' = sum.f /\ UNCHANGED sp
       [] i.op = "ADDSP" ->
            LET sum == AddToSp(sp, i.n)
            IN  sp' = sum.value /\ f' = sum.f /\ UNCHANGED r

Adjust(i) ==
  /\ Executes(i, AdjustOps)
  /\ GoesOn(i)
  /\ LET a == r["A"]
         res == CASE i.op = "DAA" -> Daa(a, f)
                  [] i.op = "CPL" -> Cpl(a, f)
                  [] i.op = "CCF" -> [value |-> a, f |-> Ccf(f)]
                  [] i.op = "SCF" -> [value |-> a, f |-> Scf(f)]
                  [] i.op = "RLCA" -> ShiftA("RLC", a, f)
                  [] i.op = "RLA" -> ShiftA("RL", a, f)
                  [] i.op = "RRCA" -> ShiftA("RRC", a, f)
                  [] i.op = "RRA" -> ShiftA("RR", a, f)
     IN  r' = [r EXCEPT !["A"] = res.value] /\ f' = res.f
  /\ UNCHANGED <<sp, mem>>

Shifts(i) ==
  /\ Executes(i, ShiftOps)
  /\ GoesOn(i)
  /\ LET res == Shift(i.op, Get(i, i.x), f)
     IN  /\ r' = PutRegister(i.x, res.value)
         /\ mem' = PutMemory(i, i.x, res.value)
         /\ f' = res.f
  /\ UNCHANGED sp

Bits(i) ==
  /\ Executes(i, {"BIT", "RES", "SET"})
  /\ GoesOn(i)
  /\ LET v == Get(i, i.x)
         res == CASE i.op = "RES" -> ResBit(i.n, v)
                  [] i.op = "SET" -> SetBit(i.n, v)
                  [] i.op = "BIT" -> v
     IN  /\ r' = PutRegister(i.x, res)
         /\ mem' = PutMemory(i, i.x, res)
         /\ f' = IF i.op = "BIT" THEN TestBit(i.n, v, f) ELSE f
  /\ UNCHANGED sp

Push(i) ==
  /\ Executes(i, {"PUSH"})
  /\ GoesOn(i)
  /\ mem' = Pushed(Pair(i.x))
  /\ sp' = (sp - 2) % 65536
  /\ UNCHANGED <<r, f>>

(* The low bits of F are never set.                                        *)
PoppedFlags ==
  LET n == Popped % 256
  IN  [Z |-> BitOf(n, 7), N |-> BitOf(n, 6), H |-> BitOf(n, 5), C |-> BitOf(n, 4)]
(* Mutant: POP AF pops A only.                                             *)
PopUnflagged(i) ==
  /\ Executes(i, {"POP"})
  /\ GoesOn(i)
  /\ r' = WithPair(i.x, Popped)
  /\ sp' = (sp + 2) % 65536
  /\ UNCHANGED <<f, mem>>
Pop(i) ==
  /\ Executes(i, {"POP"})
  /\ GoesOn(i)
  /\ r' = WithPair(i.x, Popped)
  /\ f' = IF i.x = "AF" THEN PoppedFlags ELSE f
  /\ sp' = (sp + 2) % 65536
  /\ UNCHANGED mem

-----------------------------------------------------------------------------
Jump(i) ==
  /\ Executes(i, {"JP", "JR", "JPHL"})
  /\ pc' = IF ~Holds(i.cc) THEN Following(i)
           ELSE CASE i.op = "JP" -> i.n
                  [] i.op = "JR" -> (Following(i) + Signed(i.n)) % 65536
                  [] i.op = "JPHL" -> Pair("HL")
  /\ UNCHANGED <<r, f, sp, mem, ime, halted, taken, frames, given>>

Frame(return) == [return |-> return, sp |-> sp, r |-> r, f |-> f]

Call(i) ==
  /\ Executes(i, {"CALL", "RST"})
  /\ IF Holds(i.cc)
     THEN /\ mem' = Pushed(Following(i))
          /\ sp' = (sp - 2) % 65536
          /\ pc' = i.n
          /\ frames' = <<Frame(Following(i))>> \o frames
     ELSE pc' = Following(i) /\ UNCHANGED <<mem, sp, frames>>
  /\ UNCHANGED <<r, f, ime, halted, taken, given>>

(* Mutant: the stack pointer stays.                                        *)
ReturnUnpopped(i) ==
  /\ Executes(i, {"RET", "RETI"})
  /\ IF Holds(i.cc)
     THEN pc' = Popped /\ frames' = Tail(frames) /\ UNCHANGED sp
     ELSE pc' = Following(i) /\ UNCHANGED <<sp, frames>>
  /\ ime' = (ime \/ i.op = "RETI")
  /\ UNCHANGED <<r, f, mem, halted, taken, given>>
Return(i) ==
  /\ Executes(i, {"RET", "RETI"})
  /\ IF Holds(i.cc)
     THEN pc' = Popped /\ sp' = (sp + 2) % 65536 /\ frames' = Tail(frames)
     ELSE pc' = Following(i) /\ UNCHANGED <<sp, frames>>
  /\ ime' = (ime \/ i.op = "RETI")
  /\ UNCHANGED <<r, f, mem, halted, taken, given>>

(* DI and EI.                                                              *)
(* Mutant: DI does nothing.                                                *)
SwitchOn(i) ==
  /\ Executes(i, {"DI", "EI"})
  /\ pc' = Following(i)
  /\ ime' = (ime \/ i.op = "EI")
  /\ UNCHANGED <<r, f, sp, mem, halted, taken, frames, given>>
Switch(i) ==
  /\ Executes(i, {"DI", "EI"})
  /\ pc' = Following(i)
  /\ ime' = (i.op = "EI")
  /\ UNCHANGED <<r, f, sp, mem, halted, taken, frames, given>>

Halt(i) ==
  /\ Executes(i, {"HALT"})
  /\ pc' = Following(i)
  /\ halted' = TRUE
  /\ UNCHANGED <<r, f, sp, mem, ime, taken, frames, given>>

(* cpu_handle_interrupts, when an interrupt is requested.                  *)
Pending == FoldFunction(+, 0, taken) < MaxInterrupts

Interrupt(i) ==
  /\ Pending
  /\ ime
  /\ mem' = Pushed(pc)
  /\ sp' = (sp - 2) % 65536
  /\ pc' = 64 + 8 * i
  /\ ime' = FALSE
  /\ halted' = FALSE
  /\ taken' = [taken EXCEPT ![i] = @ + 1]
  /\ frames' = <<Frame(pc)>> \o frames
  /\ UNCHANGED <<r, f, given>>

(* With interrupts off a request only ends HALT.                           *)
Wake ==
  /\ Pending
  /\ ~ime
  /\ halted
  /\ halted' = FALSE
  /\ UNCHANGED <<r, f, sp, pc, mem, ime, taken, frames, given>>

cpu_step ==
  \E i \in {Program[pc]} :
    \/ Load8(i) \/ Load16(i) \/ Arithmetic(i) \/ Count(i) \/ Words(i) \/ Adjust(i)
    \/ Shifts(i) \/ Bits(i) \/ Push(i) \/ Pop(i) \/ Jump(i) \/ Call(i)
    \/ Return(i) \/ Switch(i) \/ Halt(i)

Next ==
  \/ cpu_step
  \/ \E i \in Requested : Interrupt(i)
  \/ Wake

Spec == Init /\ [][Next]_vars

-----------------------------------------------------------------------------
(* Registers stay bytes, pointers words, and a program that only jumps to  *)
(* its labels never finds itself between two instructions.                 *)
TypeOK ==
  /\ r \in [Registers -> Byte]
  /\ f \in FlagSet
  /\ sp \in Word
  /\ pc \in DOMAIN Program
  /\ \A a \in DOMAIN mem : mem[a] \in Byte
  /\ ime \in BOOLEAN /\ halted \in BOOLEAN

(* What a program keeps to: there is an instruction to execute and memory  *)
(* where it reads;                                                         *)
Reads(i) ==
  {Address(i, x) : x \in {i.x, i.y} \cap InMemory}
    \cup IF i.op \in {"POP", "RET", "RETI"} THEN {sp, (sp + 1) % 65536} ELSE {}
Mapped == pc \in DOMAIN Program /\ Reads(Program[pc]) \subseteq DOMAIN mem

(* there is room to push, and never above a return address that is still   *)
(* to be used; none of these is written over; and a routine that returns   *)
(* has taken from the stack what it put there.                             *)
Pushes == {"PUSH", "CALL", "RST"}
Stores == {"LD", "INC", "DEC", "RES", "SET"} \cup ShiftOps
Writes(i) ==
  {Address(i, x) : x \in {i.x} \cap IF i.op \in Stores THEN InMemory ELSE {}}
    \cup IF i.op = "LDnnSP" THEN {i.n, (i.n + 1) % 65536} ELSE {}
ReturnCells(frame) == {frame.sp - 2, frame.sp - 1}

Disciplined ==
  LET i == Program[pc]
  IN  /\ Mapped
      /\ ime \/ i.op \in Pushes => sp >= 2 /\ {sp - 2, sp - 1} \subseteq DOMAIN mem
      /\ frames # <<>> => sp <= Head(frames).sp - 2
      /\ \A k \in DOMAIN frames : Writes(i) \cap ReturnCells(frames[k]) = {}
      /\ i.op \in {"RET", "RETI"} /\ Holds(i.cc) =>
           frames # <<>> /\ sp = Head(frames).sp - 2

(* A routine returns to the instruction after its call with the stack as   *)
(* it was, whichever of its returns it takes (ret, retCC, reti).           *)
ReturnsToCaller ==
  [][Len(frames') < Len(frames) =>
       pc' = Head(frames).return /\ sp' = Head(frames).sp]_vars

(* The program does not notice an interrupt: at its handler's RETI all     *)
(* registers and flags are what they were when it was taken, and           *)
(* interrupts are on again, as they must have been (reti, popR16).         *)
HandlerUnnoticed ==
  [][~halted /\ Program[pc].op = "RETI" =>
       r' = Head(frames).r /\ f' = Head(frames).f /\ ime' = TRUE]_vars
=============================================================================
