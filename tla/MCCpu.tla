------------------------------- MODULE MCCpu -------------------------------
(***************************************************************************)
(* Routines of the kind games are made of, for Cpu to run, with what each  *)
(* is to compute.  Addresses: routine to run C000, operands X and Y at C002 *)
(* and C004, result at C006, a count that interrupts advance at C008, a    *)
(* second stack below C020, the carry of the result at FF80.               *)
(***************************************************************************)
EXTENDS Cpu, TLC

Routine == 49152
X == 49154
Y == 49156
Z == 49158
Ticks == 49160
OtherStack == 49184
CarryAt == 65408

(* Where the handler and the routines are.                                 *)
TickAt == 320
AddAt == 384
SubtractAt == 448
MultiplyAt == 512
DivideAt == 576
MirrorAt == 640
PackAt == 704
LargerAt == 768
MaxAt == 832
HalveAt == 896
CountAt == 960
WaitAt == 1024
StackAt == 1088

(* Assembly: an instruction, its label and the label it refers to.         *)
Op(op) == [op |-> op, x |-> "", y |-> "", n |-> 0, cc |-> "", at |-> "", to |-> ""]
Op1(op, x) == [Op(op) EXCEPT !.x = x]
Op2(op, x, y) == [Op(op) EXCEPT !.x = x, !.y = y]
OpN(op, x, n) == [Op(op) EXCEPT !.x = x, !.n = n]
LdN(x, n) == [Op("LD") EXCEPT !.x = x, !.y = "n", !.n = n]
LdA(a) == [Op("LD") EXCEPT !.x = "A", !.y = "(nn)", !.n = a]
StA(a) == [Op("LD") EXCEPT !.x = "(nn)", !.y = "A", !.n = a]
Ld(x, y) == Op2("LD", x, y)
Alu8(op, y) == Op2(op, "A", y)
And15 == [Op2("AND", "A", "n") EXCEPT !.n = 15]
Go(op, cc, to) == [Op(op) EXCEPT !.cc = cc, !.to = to]
RetIf(cc) == [Op("RET") EXCEPT !.cc = cc]
At(label, i) == [i EXCEPT !.at = label]
Rst8 == OpN("RST", "", 8)

Segments == {
  [base |-> 8, code |-> <<            \* RST 8: keeps the carry
    LdN("A", 0), Op("RRA"), Op("RLCA"), LdN("C", 128), Ld("(C)", "A"), Op("RET")>>],
  [base |-> 64, code |-> <<OpN("JP", "", TickAt)>>],
  [base |-> 80, code |-> <<           \* the timer's: disturbs A and flags
    Op1("PUSH", "AF"), Alu8("XOR", "A"), Op("SCF"), Op("RRCA"), Op("CPL"), Op1("POP", "AF"),
    Op("RETI")>>],
  [base |-> 256, code |-> <<
    Go("CALL", "", "dispatch"),
    At("done", Op("HALT")), Go("JR", "", "done"),
    At("dispatch", LdA(Routine)), Ld("L", "A"), LdA(Routine + 1), Ld("H", "A"),
    Op("JPHL")>>],
  [base |-> TickAt, code |-> <<
    Op1("PUSH", "AF"), Op1("PUSH", "HL"), OpN("LD16", "HL", Ticks),
    Op1("INC", "(HL)"), Go("JR", "NZ", "tock"), Op1("INC16", "HL"),
    Op1("INC", "(HL)"),
    At("tock", Op1("POP", "HL")), Op1("POP", "AF"), Op("RETI")>>],
  [base |-> AddAt, code |-> <<
    OpN("LD16", "HL", X), OpN("LD16", "DE", Y), LdN("B", 2),
    Alu8("AND", "A"),
    At("add1", Ld("A", "(DE)")), Alu8("ADC", "(HL)"), Op("DAA"), Ld("(HL+)", "A"),
    Op1("INC16", "DE"), Op1("DEC", "B"), Go("JR", "NZ", "add1"), Rst8, Op("RET")>>],
  [base |-> SubtractAt, code |-> <<
    OpN("LD16", "HL", Y), OpN("LD16", "DE", X), LdN("B", 2),
    Alu8("SUB", "A"),
    At("subtract1", Ld("A", "(DE)")), Alu8("SBC", "(HL)"), Op("DAA"),
    Ld("(DE)", "A"), Op1("INC16", "HL"), Op1("INC16", "DE"), Op1("DEC", "B"),
    Go("JR", "NZ", "subtract1"), Rst8, Op("RET")>>],
  [base |-> MultiplyAt, code |-> <<
    LdA(X), Ld("E", "A"), LdA(X + 1), Ld("D", "A"), LdA(Y),
    Ld("C", "A"), OpN("LD16", "HL", 0),
    At("multiply1", Op1("SRL", "C")), Go("JR", "NC", "multiply2"),
    Op1("ADDHL", "DE"),
    At("multiply2", Op1("SLA", "E")), Op1("RL", "D"), Ld("A", "C"),
    Alu8("OR", "A"), Go("JP", "NZ", "multiply1"),
    Ld("A", "L"), StA(Z), Ld("A", "H"), StA(Z + 1), Op("RET")>>],
  [base |-> DivideAt, code |-> <<
    OpN("LD16", "HL", Y), Ld("D", "(HL)"), Op1("DEC16", "HL"),
    Op1("DEC16", "HL"), Ld("C", "(HL)"), LdN("B", 8), Alu8("XOR", "A"),
    At("divide1", Op1("SLA", "C")), Op("RLA"), Alu8("CP", "D"),
    Go("JR", "C", "divide2"), Alu8("SUB", "D"), Op1("INC", "C"),
    At("divide2", Op1("DEC", "B")), Go("JR", "NZ", "divide1"),
    OpN("LD16", "HL", Z + 1), Ld("(HL-)", "A"), Ld("(HL)", "C"), Op("RET")>>],
  [base |-> MirrorAt, code |-> <<
    LdA(X), Ld("C", "A"), LdN("B", 8),
    At("mirror1", Op1("RRC", "C")), Op1("RL", "D"), Op1("DEC", "B"),
    Go("JR", "NZ", "mirror1"), Ld("A", "D"), StA(Z), LdN("B", 8),
    At("mirror2", Op("RLCA")), Op1("RR", "E"), Op1("DEC", "B"),
    Go("JR", "NZ", "mirror2"), Ld("A", "E"), StA(Z + 1), Op("RET")>>],
  [base |-> PackAt, code |-> <<
    OpN("LD16", "BC", X), Ld("A", "(BC)"), Op1("SWAP", "A"), OpN("LD16", "HL", X + 1),
    Alu8("ADD", "(HL)"), StA(Z), Ld("B", "A"), And15, Op("NOP"),
    OpN("LD16", "DE", Y + 1), Ld("(DE)", "A"), Ld("A", "B"), Op1("SWAP", "A"),
    And15, Op1("DEC16", "DE"), Ld("(DE)", "A"), Op("RET")>>],
  [base |-> LargerAt, code |-> <<
    LdA(X), Ld("C", "A"), LdA(X + 1), Ld("B", "A"),
    Op1("PUSH", "BC"), LdA(Y), Ld("C", "A"), LdA(Y + 1), Ld("B", "A"),
    Op1("PUSH", "BC"), Alu8("XOR", "A"), [Op("CALL") EXCEPT !.cc = "Z", !.n = MaxAt],
    OpN("ADDSP", "", 4), Ld("A", "E"), StA(Z), Ld("A", "D"), StA(Z + 1),
    Op("RET")>>],
  [base |-> MaxAt, code |-> <<
    OpN("LDHLSP", "", 2), Ld("A", "(HL+)"), Ld("C", "A"),
    Ld("A", "(HL+)"), Ld("B", "A"), Ld("E", "(HL)"), Op1("INC16", "HL"),
    Ld("D", "(HL)"), Ld("A", "E"), Alu8("SUB", "C"), Ld("A", "D"),
    Alu8("SBC", "B"), Op("CCF"), RetIf("C"), Op1("PUSH", "BC"), Op1("POP", "DE"),
    Op("RET")>>],
  [base |-> HalveAt, code |-> <<
    OpN("LD16", "HL", X), Op1("SRA", "(HL)"), Op1("INC16", "HL"),
    OpN("BIT", "(HL)", 7), Go("JR", "Z", "halve1"), OpN("RES", "(HL)", 7),
    Op("RET"), At("halve1", OpN("SET", "(HL)", 7)), Op("RET")>>],
  [base |-> CountAt, code |-> <<
    Op("DI"), LdA(Ticks), Ld("E", "A"), LdA(Ticks + 1), Ld("D", "A"),
    Op1("INC16", "DE"), Ld("A", "E"), StA(Ticks), Ld("A", "D"), StA(Ticks + 1),
    Op("EI"), Op("RET")>>],
  [base |-> WaitAt, code |-> <<
    Op("DI"), Op("HALT"), Op("EI"), Op("RET")>>],
  [base |-> StackAt, code |-> <<
    OpN("LDnnSP", "", Z), OpN("LD16", "HL", 0), Op1("ADDHL", "SP"),
    OpN("LD16", "SP", OtherStack), Op1("PUSH", "HL"), OpN("LD16", "HL", 0),
    Op1("POP", "HL"), Op("LDSPHL"), Op("RET")>>]}

(* The instructions of a segment with their addresses.                     *)
LaidOut(s) ==
  LET laid[k \in Nat] ==
        IF k = 0 THEN [next |-> s.base, lines |-> {}]
        ELSE LET before == laid[k - 1]
             IN  [next |-> before.next + Length(s.code[k]),
                  lines |-> before.lines \cup {[a |-> before.next, i |-> s.code[k]]}]
  IN  laid[Len(s.code)].lines
Lines == UNION {LaidOut(s) : s \in Segments}

Label ==
  LET labelled == {line \in Lines : line.i.at # ""}
  IN  [l \in {line.i.at : line \in labelled} |->
         (CHOOSE line \in labelled : line.i.at = l).a] @@ <<>>
Resolved(line) ==
  LET i == line.i
      target == Label[i.to]
      n == CASE i.to = "" -> i.n
             [] i.op = "JR" -> (target - line.a - 2) % 256
             [] OTHER -> target
  IN  [op |-> i.op, x |-> i.x, y |-> i.y, n |-> n, cc |-> i.cc]

Assembled ==
  LET lineAt == [a \in {line.a : line \in Lines} |->
                   CHOOSE line \in Lines : line.a = a]
  IN  [a \in DOMAIN lineAt |-> Resolved(lineAt[a])] @@ <<>>
MCProgram == Assembled

-----------------------------------------------------------------------------
(* What the routines are given.                                            *)
Jobs(routine, xs, ys) == {[routine |-> routine, x |-> x, y |-> y] : x \in xs, y \in ys}

DecimalWords == {0, 69, 17817, 39321}   \* 0000, 0045, 4599 and 9999
AllJobs ==
  Jobs(AddAt, DecimalWords, DecimalWords)
    \cup Jobs(SubtractAt, DecimalWords, DecimalWords)
    \cup Jobs(MultiplyAt, {3, 4660, 65535}, {0, 11, 255})
    \cup Jobs(DivideAt, {7, 100, 255}, {1, 7, 100, 128})
    \cup Jobs(MirrorAt, {1, 78, 255}, {0})
    \cup Jobs(PackAt, {9, 2309}, {0})
    \cup Jobs(LargerAt, {255, 256, 33023}, {255, 256, 33023})
    \cup Jobs(HalveAt, {127, 32897, 65535}, {0})
    \cup Jobs(CountAt, {0}, {0}) \cup Jobs(WaitAt, {0}, {0}) \cup Jobs(StackAt, {0}, {0})

Ram == Routine..(Ticks + 1) \cup (OtherStack - 8)..(OtherStack - 1)
         \cup {CarryAt} \cup 65518..65533
MemoryOf(job) ==
  LET words == Routine :> job.routine @@ X :> job.x @@ Y :> job.y
                 @@ Ticks :> 255
      low == DOMAIN words
  IN  [a \in Ram |-> IF a \in low THEN words[a] % 256
                     ELSE IF a - 1 \in low THEN words[a - 1] \div 256
                     ELSE 0]
MCMemories == {MemoryOf(job) : job \in AllJobs}

-----------------------------------------------------------------------------
(* What they are to make of it.                                            *)
WordAt(m, a) == m[a] + 256 * m[a + 1]
DecimalAt(m, a) == Decimal(m[a]) + 100 * Decimal(m[a + 1])
Finished(routine) ==
  frames = <<>> /\ pc # Entry /\ WordAt(given, Routine) = routine

(* Numbers of four decimal digits are added and subtracted digit for digit *)
(* with the right carry, byte after byte, whenever interrupts come: DAA    *)
(* finds the flags of ADC and SBC, and the loop's counting keeps the carry *)
(* (adcAaHL, sbcAaHL, daa, decR8, incR16).                                 *)
DecimalResults ==
  LET x == DecimalAt(given, X)
      y == DecimalAt(given, Y)
      is(total) == /\ mem[X] \in BcdBytes /\ mem[X + 1] \in BcdBytes
                   /\ DecimalAt(mem, X) = total % 10000
                   /\ mem[CarryAt] = Bit(total \notin 0..9999)
  IN  /\ Finished(AddAt) => is(x + y)
      /\ Finished(SubtractAt) => is(x - y)

(* Multiplication and division by shifting, mirroring by rotating, packing *)
(* and unpacking of digits, a comparison of words passed on the stack,     *)
(* halving of a signed byte and a second stack come out right.             *)
BinaryResults ==
  LET x == WordAt(given, X)
      y == WordAt(given, Y)
      z == WordAt(mem, Z)
      mirror == FromBits([k \in 0..7 |-> BitOf(given[X], 7 - k)])
  IN  /\ Finished(MultiplyAt) => z = (x * given[Y]) % 65536
      /\ Finished(DivideAt) => mem[Z] = x \div y /\ mem[Z + 1] = x % y
      /\ Finished(MirrorAt) => mem[Z] = mirror /\ mem[Z + 1] = given[X]
      /\ Finished(PackAt) => /\ mem[Z] = 16 * given[X] + given[X + 1]
                             /\ WordAt(mem, Y) = x
      /\ Finished(LargerAt) => z = IF x >= y THEN x ELSE y
      /\ Finished(HalveAt) => /\ Signed(mem[X]) = Signed(given[X]) \div 2
                              /\ mem[X + 1] = (given[X + 1] + 128) % 256
      /\ Finished(StackAt) => z = 65532

(* Every register, flag and byte of memory stays in its range, no routine  *)
(* touches the return addresses on the stack, and every routine computes   *)
(* what it is to compute, whenever interrupts come.                        *)
RoutinesRight == TypeOK /\ Disciplined /\ DecimalResults /\ BinaryResults

(* A word that a routine counts up between DI and EI and that the          *)
(* interrupt's handler counts up too loses no count (di, ei,               *)
(* cpu_handle_interrupts).                                                 *)
TicksCounted ==
  frames = <<>> /\ pc # Entry =>
    WordAt(mem, Ticks) =
      WordAt(given, Ticks) + taken[0] + Bit(Finished(CountAt))
=============================================================================
