-------------------------------- MODULE Alu --------------------------------
(***************************************************************************)
(* The arithmetic of the emulated CPU's instructions (gbz80ops.c): what    *)
(* each makes of a byte or a word and of the flags.  The variants of an    *)
(* instruction for an immediate byte, a register and the byte at HL differ *)
(* in where the operand comes from, which is Cpu's.                        *)
(***************************************************************************)
EXTENDS Integers

Byte == 0..255
MaxWord == 65535
Word == 0..MaxWord

Bit(condition) == IF condition THEN 1 ELSE 0
Flags(z, n, h, c) == [Z |-> Bit(z), N |-> n, H |-> h, C |-> c]
FlagSet == [Z : 0..1, N : 0..1, H : 0..1, C : 0..1]

(* The two's complement of a byte read as an s8.                           *)
Signed(n) == IF n < 128 THEN n ELSE n - 256

(* Bits of bytes, and what is made of them.                                *)
BitOf(n, k) == (n \div 2 ^ k) % 2
FromBits(b) ==
  b[0] + 2 * b[1] + 4 * b[2] + 8 * b[3] + 16 * b[4] + 32 * b[5] + 64 * b[6]
    + 128 * b[7]

-----------------------------------------------------------------------------
(* ADD is ADC without carry.  The half carry is bit 4 of the exclusive or  *)
(* of both operands and the sum.                                           *)
Bit4(n) == (n \div 16) % 2

Adc(a, n, c) ==
  LET res == a + n + c
  IN  [value |-> res % 256,
       f |-> Flags(res % 256 = 0, 0, (Bit4(a) + Bit4(n) + Bit4(res)) % 2,
                   (res \div 256) % 2)]

(* SUB is SBC without carry.                                               *)
Sbc(a, n, c) ==
  LET res == (a - n - c) % 256
  IN  [value |-> res,
       f |-> Flags(res = 0, 1, Bit((a % 16) - (n % 16) - c < 0), Bit(a < n + c))]

(* CP compares and leaves A.                                               *)
Cp(a, n) ==
  [value |-> a, f |-> Flags(a = n, 1, Bit(a % 16 < n % 16), Bit(a < n))]

And(a, n) ==
  LET res == FromBits([k \in 0..7 |-> BitOf(a, k) * BitOf(n, k)])
  IN  [value |-> res, f |-> Flags(res = 0, 0, 1, 0)]

Or(a, n) ==
  LET res == FromBits([k \in 0..7 |-> Bit(BitOf(a, k) + BitOf(n, k) > 0)])
  IN  [value |-> res, f |-> Flags(res = 0, 0, 0, 0)]

Xor(a, n) ==
  LET res == FromBits([k \in 0..7 |-> (BitOf(a, k) + BitOf(n, k)) % 2])
  IN  [value |-> res, f |-> Flags(res = 0, 0, 0, 0)]

(* Counting leaves the carry.                                              *)
(* Mutant: counting down does not.                                         *)
DecCarrying(val, f) ==
  LET res == (val - 1) % 256
  IN  [value |-> res, f |-> Flags(res = 0, 1, Bit(res % 16 = 15), Bit(val = 0))]
Inc(val, f) ==
  LET res == (val + 1) % 256
  IN  [value |-> res, f |-> Flags(res = 0, 0, Bit(val % 16 = 15), f.C)]
Dec(val, f) ==
  LET res == (val - 1) % 256
  IN  [value |-> res, f |-> Flags(res = 0, 1, Bit(res % 16 = 15), f.C)]

(* Makes decimal digits of a sum or difference of decimal digits.          *)
Daa(a, f) ==
  LET low == (f.N = 0 /\ a % 16 > 9) \/ f.H = 1
      high == (f.N = 0 /\ a > 153) \/ f.C = 1
      add == 6 * Bit(low) + 96 * Bit(high)
      res == (IF f.N = 1 THEN a - add ELSE a + add) % 256
  IN  [value |-> res, f |-> Flags(res = 0, f.N, 0, Bit(high))]

(* CPL, CCF and SCF.                                                       *)
Cpl(a, f) == [value |-> 255 - a, f |-> [Z |-> f.Z, N |-> 1, H |-> 1, C |-> f.C]]
Ccf(f) == [Z |-> f.Z, N |-> 0, H |-> 0, C |-> 1 - f.C]
Scf(f) == [Z |-> f.Z, N |-> 0, H |-> 0, C |-> 1]

(* The bits that rotations and shifts leave, with the carry c before.      *)
Shifted(op, v, c) ==
  CASE op = "RLC" -> ((2 * v) % 256) + v \div 128
    [] op = "RRC" -> v \div 2 + 128 * (v % 2)
    [] op = "RL" -> ((2 * v) % 256) + c
    [] op = "RR" -> v \div 2 + 128 * c
    [] op = "SLA" -> (2 * v) % 256
    [] op = "SRA" -> v \div 2 + 128 * (v \div 128)
    [] op = "SRL" -> v \div 2
    [] op = "SWAP" -> 16 * (v % 16) + v \div 16

ShiftOps == {"RLC", "RRC", "RL", "RR", "SLA", "SRA", "SRL", "SWAP"}

CarryOut(op, v) ==
  CASE op \in {"RLC", "RL", "SLA"} -> v \div 128
    [] op \in {"RRC", "RR", "SRA", "SRL"} -> v % 2
    [] op = "SWAP" -> 0

Shift(op, v, f) ==
  LET res == Shifted(op, v, f.C)
  IN  [value |-> res, f |-> Flags(res = 0, 0, 0, CarryOut(op, v))]

(* RLCA, RLA, RRCA and RRA clear the zero flag.                            *)
ShiftA(op, v, f) ==
  [value |-> Shifted(op, v, f.C), f |-> Flags(FALSE, 0, 0, CarryOut(op, v))]

TestBit(k, v, f) == Flags(BitOf(v, k) = 0, 0, 1, f.C)
ResBit(k, v) == v - 2 ^ k * BitOf(v, k)
SetBit(k, v) == v + 2 ^ k * (1 - BitOf(v, k))

-----------------------------------------------------------------------------
(* Words.                                                                  *)
AddWord(hl, n, f) ==
  [value |-> (hl + n) % 65536,
   f |-> [Z |-> f.Z, N |-> 0, H |-> (((hl % 4096) + (n % 4096)) \div 4096) % 2,
          C |-> Bit(hl + n > 65535)]]

(* SP and a signed byte, for ADD SP and LD HL; the flags are those of the  *)
(* sum of the low bytes.                                                   *)
AddToSp(sp, n) ==
  [value |-> (sp + Signed(n)) % 65536,
   f |-> Flags(FALSE, 0, Bit((sp % 16) + (n % 16) > 15), Bit((sp % 256) + n > 255))]

-----------------------------------------------------------------------------
(* What they are for.                                                      *)
BcdBytes == {16 * x + y : x \in 0..9, y \in 0..9}
Decimal(n) == 10 * (n \div 16) + (n % 16)
AsBcd(n) == 16 * (n \div 10) + (n % 10)

(* ADC and DAA add decimal bytes.                                          *)
DecimalSum(a, n, c) ==
  LET sum == Adc(a, n, c)
      res == Daa(sum.value, sum.f)
      total == Decimal(a) + Decimal(n) + c
  IN  res.value = AsBcd(total % 100) /\ res.f.C = Bit(total > 99)

(* SBC and DAA subtract them.                                              *)
DecimalDifference(a, n, c) ==
  LET difference == Sbc(a, n, c)
      res == Daa(difference.value, difference.f)
      total == Decimal(a) - Decimal(n) - c
  IN  res.value = AsBcd(total % 100) /\ res.f.C = Bit(total < 0)

(* CP sets the flags that SUB sets.                                        *)
ComparesAsSubtracts(a, n) == Cp(a, n).f = Sbc(a, n, 0).f
=============================================================================
