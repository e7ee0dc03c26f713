------------------------------- MODULE PvmAlu -------------------------------
(***************************************************************************)
(* The arithmetic, logic and shift instructions of the PVM interpreter     *)
(* (polkavm/interpreter/mutations.go, dispatched by step.go).              *)
(*                                                                         *)
(* A register is W bits wide and the "32" instructions work on its low     *)
(* half, a byte is an eighth of it; the code has W = 64.  The instructions *)
(* use Go's integers: conversions wrap, shifts by the width or more give 0 *)
(* (or the sign), division truncates, and abs of the least integer is that *)
(* integer again.                                                          *)
(*                                                                         *)
(* One step decodes an instruction of two registers, of two registers and  *)
(* an immediate, or of three registers, computes its result from A, B and  *)
(* the immediate and writes it to D.  A LoadImm64 then makes the machine   *)
(* ready for the next.  What the comments of mutations.go promise is the   *)
(* section "Promised results", written with the integers of mathematics.   *)
(***************************************************************************)
EXTENDS Integers, FiniteSets, FiniteSetsExt

CONSTANTS
    W,          \* the width of a register in bits, 64 in the code
    Operand     \* the register contents that are tried

\* The provers know no law of powers: the second conjunct is the one they need.
ASSUME AluAssumption ==
    /\ W \in {8, 16, 32, 64}
    /\ \A k \in 0 .. (W - 1) : 2^(k + 1) = 2 * 2^k
    /\ Operand \subseteq 0 .. (2^W - 1)
    /\ 0 \in Operand

VARIABLES
    regA, regB, \* the source registers
    regD,       \* the destination register
    imm,        \* the decoded immediate of the last instruction
    instr       \* the last instruction executed, or "none"

aluVars == <<regA, regB, regD, imm, instr>>

H == W \div 2       \* "32"
Byte == W \div 8    \* "8"

-----------------------------------------------------------------------------
(* Go's conversions, shifts and divisions.                                 *)

Signed(x, n) == IF x % 2^n >= 2^(n - 1) THEN (x % 2^n) - 2^n ELSE x % 2^n
Unsigned(i) == i % 2^W

sext(x, n) == Unsigned(Signed(x, n))

Shl(x, k, n) == IF k >= n THEN 0 ELSE (x * 2^k) % 2^n
Shr(x, k, n) == IF k >= n THEN 0 ELSE x \div 2^k
Sar(i, k, n) == IF k >= n THEN (IF i < 0 THEN -1 ELSE 0) ELSE i \div 2^k

RotateLeft(x, k, n) ==
    LET s == k % n IN ((x * 2^s) % 2^n) + (x \div 2^(n - s))

Magnitude(i) == IF i < 0 THEN -i ELSE i
Quo(i, j) ==
    LET q == Magnitude(i) \div Magnitude(j)
    IN  IF (i < 0) = (j < 0) THEN q ELSE -q
Rem(i, j) ==
    LET r == Magnitude(i) % Magnitude(j) IN IF i < 0 THEN -r ELSE r

Bit(x, i) == (x \div 2^i) % 2
FromBits(n, f(_)) == MapThenSumSet(LAMBDA i : f(i) * 2^i, 0 .. (n - 1))
And(x, y) == FromBits(W, LAMBDA i : Bit(x, i) * Bit(y, i))
Xor(x, y) == FromBits(W, LAMBDA i : (Bit(x, i) + Bit(y, i)) % 2)
Or(x, y) == x + y - And(x, y)
Not(x) == 2^W - 1 - x

bool2uint64(v) == IF v THEN 1 ELSE 0

\* abs64 and abs32: two's complement, so the least integer is its own abs.
abs(i, n) == Signed(Magnitude(i), n)

smod(i, j, n) ==
    IF j = 0 THEN i
    ELSE IF i < 0 THEN -Rem(abs(i, n), abs(j, n)) ELSE Rem(abs(i, n), abs(j, n))

-----------------------------------------------------------------------------
(* The instructions of two registers.                                      *)

UnaryOps ==
    {"MoveReg", "CountSetBits64", "CountSetBits32", "LeadingZeroBits64",
     "LeadingZeroBits32", "TrailingZeroBits64", "TrailingZeroBits32",
     "SignExtend8", "SignExtend16", "ZeroExtend16", "ReverseBytes"}

OnesCount(x, n) == MapThenSumSet(LAMBDA i : Bit(x, i), 0 .. (n - 1))
LeadingZeros(x, n) == n - Cardinality({i \in 0 .. (n - 1) : x >= 2^i})
TrailingZeros(x, n) == Cardinality({i \in 0 .. (n - 1) : x % 2^(i + 1) = 0})

Unary(m, x) ==
    CASE m = "MoveReg"            -> x
      [] m = "CountSetBits64"     -> OnesCount(x, W)
      [] m = "CountSetBits32"     -> OnesCount(x % 2^H, H)
      [] m = "LeadingZeroBits64"  -> LeadingZeros(x, W)
      [] m = "LeadingZeroBits32"  -> LeadingZeros(x % 2^H, H)
      [] m = "TrailingZeroBits64" -> TrailingZeros(x, W)
      [] m = "TrailingZeroBits32" -> TrailingZeros(x % 2^H, H)
      [] m = "SignExtend8"        -> sext(x, Byte)
      [] m = "SignExtend16"       -> sext(x, 2 * Byte)
      [] m = "ZeroExtend16"       -> x % 2^(2 * Byte)
      [] m = "ReverseBytes"       ->
            MapThenSumSet(LAMBDA i : ((x \div 2^(Byte * i)) % 2^Byte)
                                        * 2^(Byte * (7 - i)), 0 .. 7)

-----------------------------------------------------------------------------
(* The instructions of two registers and an immediate: x is the register,  *)
(* v the immediate, old the destination's content.                         *)

Imm32Ops ==
    {"AddImm32", "AndImm", "XorImm", "OrImm", "MulImm32",
     "SetLessThanUnsignedImm", "SetLessThanSignedImm",
     "ShiftLogicalLeftImm32", "ShiftLogicalRightImm32",
     "ShiftArithmeticRightImm32", "NegateAndAddImm32",
     "SetGreaterThanUnsignedImm", "SetGreaterThanSignedImm",
     "ShiftLogicalLeftImmAlt32", "ShiftLogicalRightImmAlt32",
     "ShiftArithmeticRightImmAlt32", "CmovIfZeroImm", "CmovIfNotZeroImm"}

Imm64Ops ==
    {"AddImm64", "MulImm64", "ShiftLogicalLeftImm64",
     "ShiftLogicalRightImm64", "ShiftArithmeticRightImm64",
     "NegateAndAddImm64", "ShiftLogicalLeftImmAlt64",
     "ShiftLogicalRightImmAlt64", "ShiftArithmeticRightImmAlt64",
     "RotR64Imm", "RotR64ImmAlt", "RotR32Imm", "RotR32ImmAlt"}

Imm32(m, x, v, old) ==
    LET lo(y) == y % 2^H IN
    CASE m = "AddImm32"                  -> sext(x + v, H)
      [] m = "AndImm"                    -> And(x, v)
      [] m = "XorImm"                    -> Xor(x, v)
      [] m = "OrImm"                     -> Or(x, v)
      [] m = "MulImm32"                  -> sext(x * v, H)
      [] m = "SetLessThanUnsignedImm"    -> bool2uint64(x < v)
      [] m = "SetLessThanSignedImm"      -> bool2uint64(Signed(x, W) < Signed(v, W))
      [] m = "ShiftLogicalLeftImm32"     -> sext(Shl(lo(x), v, H), H)
      [] m = "ShiftLogicalRightImm32"    -> sext(Shr(lo(x), v, H), H)
      [] m = "ShiftArithmeticRightImm32" -> Unsigned(Sar(Signed(x, H), v, H))
      [] m = "NegateAndAddImm32"         -> sext(v - x, H)
      [] m = "SetGreaterThanUnsignedImm" -> bool2uint64(x > v)
      [] m = "SetGreaterThanSignedImm"   -> bool2uint64(Signed(x, W) > Signed(v, W))
      [] m = "ShiftLogicalLeftImmAlt32"  -> sext(Shl(v, x, W), H)
      [] m = "ShiftLogicalRightImmAlt32" -> sext(Shr(lo(v), lo(x), H), H)
      [] m = "ShiftArithmeticRightImmAlt32" -> Unsigned(Sar(Signed(v, H), lo(x), H))
      [] m = "CmovIfZeroImm"             -> IF x = 0 THEN v ELSE old
      [] m = "CmovIfNotZeroImm"          -> IF x # 0 THEN v ELSE old

Imm64(m, x, v) ==
    LET lo(y) == y % 2^H IN
    CASE m = "AddImm64"                  -> Unsigned(x + v)
      [] m = "MulImm64"                  -> Unsigned(x * v)
      [] m = "ShiftLogicalLeftImm64"     -> Shl(x, v, W)
      [] m = "ShiftLogicalRightImm64"    -> Shr(x, v, W)
      [] m = "ShiftArithmeticRightImm64" -> Unsigned(Sar(Signed(x, W), v, W))
      [] m = "NegateAndAddImm64"         -> Unsigned(v - x)
      [] m = "ShiftLogicalLeftImmAlt64"  -> Shl(v, x, W)
      [] m = "ShiftLogicalRightImmAlt64" -> Shr(v, x, W)
      [] m = "ShiftArithmeticRightImmAlt64" -> Unsigned(Sar(Signed(v, H), x, H))
      [] m = "RotR64Imm"                 -> RotateLeft(x, -v, W)
      [] m = "RotR64ImmAlt"              -> RotateLeft(v, -x, W)
      [] m = "RotR32Imm"                 -> sext(RotateLeft(lo(x), -v, H), H)
      [] m = "RotR32ImmAlt"              -> sext(RotateLeft(lo(v), -lo(x), H), H)

\* An instruction is named here after its mnemonic.  The constants of opcodes 145
\* (shlo_r_imm_alt_32) and 146 (shar_r_imm_alt_32) carry each other's names ...
OpcodeConstant(op) ==
    CASE op = "ShiftLogicalRightImmAlt32"    -> "ShiftArithmeticRightImmAlt32"
      [] op = "ShiftArithmeticRightImmAlt32" -> "ShiftLogicalRightImmAlt32"
      [] OTHER                               -> op

\* Mutant: step calls the method that has the name of the constant.
Reg2ImmMethod_SameName(const) == const

\* ... and step calls for each of these constants the method of the other.
Reg2ImmMethod(const) ==
    CASE const = "ShiftArithmeticRightImmAlt32" -> "ShiftLogicalRightImmAlt32"
      [] const = "ShiftLogicalRightImmAlt32"    -> "ShiftArithmeticRightImmAlt32"
      [] OTHER                                  -> const

-----------------------------------------------------------------------------
(* The instructions of three registers.                                    *)

Reg32Ops ==
    {"Add32", "Sub32", "Mul32", "DivUnsigned32", "DivSigned32",
     "RemUnsigned32", "RemSigned32", "ShiftLogicalLeft32",
     "ShiftLogicalRight32", "ShiftArithmeticRight32"}

Reg64Ops ==
    {"Add64", "Sub64", "Mul64", "DivUnsigned64", "DivSigned64",
     "RemUnsigned64", "RemSigned64", "ShiftLogicalLeft64",
     "ShiftLogicalRight64", "ShiftArithmeticRight64"}

WordOps ==
    {"And", "Xor", "Or", "MulUpperSignedSigned", "MulUpperUnsignedUnsigned",
     "MulUpperSignedUnsigned", "SetLessThanUnsigned", "SetLessThanSigned",
     "CmovIfZero", "CmovIfNotZero", "RotL64", "RotL32", "RotR64", "RotR32",
     "AndInv", "OrInv", "Xnor", "Max", "MaxU", "Min", "MinU"}

Reg32(m, x, y) ==
    LET lx == x % 2^H
        ly == y % 2^H
        sx == Signed(x, H)
        sy == Signed(y, H)
    IN
    CASE m = "Add32" -> sext(x + y, H)
      [] m = "Sub32" -> sext(x - y, H)
      [] m = "Mul32" -> sext(x * y, H)
      [] m = "DivUnsigned32" -> IF ly = 0 THEN 2^W - 1 ELSE sext(lx \div ly, H)
      [] m = "DivSigned32" ->
            IF sy = 0 THEN 2^W - 1
            ELSE IF sx = -2^(H - 1) /\ sy = -1 THEN Unsigned(sx)
            ELSE Unsigned(Quo(sx, sy))
      [] m = "RemUnsigned32" -> IF ly = 0 THEN sext(lx, H) ELSE sext(lx % ly, H)
      [] m = "RemSigned32" ->
            IF sy = 0 THEN Unsigned(sx)
            ELSE IF sx = -2^(H - 1) /\ sy = -1 THEN 0
            ELSE Unsigned(smod(sx, sy, H))
      [] m = "ShiftLogicalLeft32" -> sext(Shl(lx, ly % H, H), H)
      [] m = "ShiftLogicalRight32" -> sext(Shr(lx, ly % H, H), H)
      [] m = "ShiftArithmeticRight32" -> Unsigned(Sar(sx, ly % H, H))

\* RemSigned64 compares with the least 32-bit integer.
Reg64(m, x, y) ==
    LET sx == Signed(x, W)
        sy == Signed(y, W)
    IN
    CASE m = "Add64" -> Unsigned(x + y)
      [] m = "Sub64" -> Unsigned(x - y)
      [] m = "Mul64" -> Unsigned(x * y)
      [] m = "DivUnsigned64" -> IF y = 0 THEN 2^W - 1 ELSE x \div y
      [] m = "DivSigned64" ->
            IF sy = 0 THEN 2^W - 1
            ELSE IF sx = -2^(W - 1) /\ sy = -1 THEN Unsigned(sx)
            ELSE Unsigned(Quo(sx, sy))
      [] m = "RemUnsigned64" -> IF y = 0 THEN x ELSE x % y
      [] m = "RemSigned64" ->
            IF sy = 0 THEN Unsigned(sx)
            ELSE IF sx = -2^(H - 1) /\ sy = -1 THEN 0
            ELSE Unsigned(smod(sx, sy, W))
      [] m = "ShiftLogicalLeft64" -> Shl(x, y % W, W)
      [] m = "ShiftLogicalRight64" -> Shr(x, y % W, W)
      [] m = "ShiftArithmeticRight64" -> Unsigned(Sar(sx, y % W, W))

\* The product in a big.Int, shifted right and cut to a word.
MulUpper(i, j) == Unsigned((i * j) \div 2^W)

\* SetLessThanSigned compares the low halves.
Word(m, x, y, old) ==
    LET sx == Signed(x, W)
        sy == Signed(y, W)
    IN
    CASE m = "And" -> And(x, y)
      [] m = "Xor" -> Xor(x, y)
      [] m = "Or" -> Or(x, y)
      [] m = "MulUpperSignedSigned" -> MulUpper(sx, sy)
      [] m = "MulUpperUnsignedUnsigned" -> MulUpper(x, y)
      [] m = "MulUpperSignedUnsigned" -> MulUpper(sx, y)
      [] m = "SetLessThanUnsigned" -> bool2uint64(x < y)
      [] m = "SetLessThanSigned" -> bool2uint64(Signed(x, H) < Signed(y, H))
      [] m = "CmovIfZero" -> IF y = 0 THEN x ELSE old
      [] m = "CmovIfNotZero" -> IF y # 0 THEN x ELSE old
      [] m = "RotL64" -> RotateLeft(x, y, W)
      [] m = "RotL32" -> sext(RotateLeft(x % 2^H, y, H), H)
      [] m = "RotR64" -> RotateLeft(x, -y, W)
      [] m = "RotR32" -> sext(RotateLeft(x % 2^H, -y, H), H)
      [] m = "AndInv" -> And(x, Not(y))
      [] m = "OrInv" -> Or(x, Not(y))
      [] m = "Xnor" -> Not(Xor(x, y))
      [] m = "Max" -> IF sx > sy THEN x ELSE y
      [] m = "MaxU" -> IF x > y THEN x ELSE y
      [] m = "Min" -> IF sx < sy THEN x ELSE y
      [] m = "MinU" -> IF x < y THEN x ELSE y

-----------------------------------------------------------------------------
(* The steps.                                                              *)

\* An immediate has at most four bytes and is sign-extended when decoded.
Immediate == {v \in Operand : sext(v, H) = v}

Ready == instr = "none"

AluInit ==
    /\ regA \in Operand /\ regB \in Operand
    /\ regD = 2^W - 3
    /\ imm = 0
    /\ instr = "none"

RegReg ==
    \E op \in UnaryOps :
        /\ Ready
        /\ regD' = Unary(op, regA)
        /\ instr' = op
        /\ UNCHANGED <<regA, regB, imm>>

Reg2Imm ==
    \E op \in Imm32Ops \cup Imm64Ops, v \in Immediate :
        /\ Ready
        /\ LET m == Reg2ImmMethod(OpcodeConstant(op)) IN
           regD' = IF m \in Imm32Ops THEN Imm32(m, regA, v, regD) ELSE Imm64(m, regA, v)
        /\ imm' = v
        /\ instr' = op
        /\ UNCHANGED <<regA, regB>>

Reg3 ==
    \E op \in Reg32Ops \cup Reg64Ops \cup WordOps :
        /\ Ready
        /\ regD' = CASE op \in Reg32Ops -> Reg32(op, regA, regB)
                     [] op \in Reg64Ops -> Reg64(op, regA, regB)
                     [] op \in WordOps  -> Word(op, regA, regB, regD)
        /\ instr' = op
        /\ UNCHANGED <<regA, regB, imm>>

\* load_imm_64 puts a fixed value into D; the registers are compared no more.
LoadImm64 ==
    /\ ~Ready
    /\ regD' = 2^W - 3
    /\ imm' = 0
    /\ instr' = "none"
    /\ UNCHANGED <<regA, regB>>

AluNext == RegReg \/ Reg2Imm \/ Reg3 \/ LoadImm64

AluSpec == AluInit /\ [][AluNext]_aluVars

-----------------------------------------------------------------------------
(* Promised results.                                                       *)

\* Registers and results are words of W bits, whatever the instruction.
AluTypeOK ==
    /\ regA \in 0 .. (2^W - 1) /\ regB \in 0 .. (2^W - 1) /\ regD \in 0 .. (2^W - 1)
    /\ imm \in 0 .. (2^W - 1)
    /\ instr \in {"none"} \cup UnaryOps \cup Imm32Ops \cup Imm64Ops
                    \cup Reg32Ops \cup Reg64Ops \cup WordOps

HalfOps ==
    Reg32Ops \cup
    {"AddImm32", "MulImm32", "ShiftLogicalLeftImm32", "ShiftLogicalRightImm32",
     "ShiftArithmeticRightImm32", "NegateAndAddImm32",
     "ShiftLogicalLeftImmAlt32", "ShiftLogicalRightImmAlt32",
     "ShiftArithmeticRightImmAlt32", "RotR32Imm", "RotR32ImmAlt", "RotL32",
     "RotR32"}

\* Every 32-bit instruction leaves a sign-extended half word in its register
\* (the X4 and Z-1_8 of the comments of mutations.go), logical right shifts,
\* divisions by zero and rotations included: a program that mixes 32- and
\* 64-bit instructions never sees stale or missing upper bits.
HalfResultsExtended == instr \in HalfOps => regD = sext(regD, H)

\* Sums, differences and products of half words: the low half of the result is
\* "(ωA + ωB) mod 2^32" and the like (mutations.go 387-390, 407-410, 437-440
\* and 586-599).
HalfSums ==
    LET low(i) == regD % 2^H = i % 2^H IN
    /\ instr = "Add32" => low(regA + regB)
    /\ instr = "Sub32" => low(regA - regB)
    /\ instr = "Mul32" => low(regA * regB)
    /\ instr = "AddImm32" => low(regA + imm)
    /\ instr = "MulImm32" => low(regA * imm)
    /\ instr = "NegateAndAddImm32" => low(imm - regA)

Floor(i, j) == IF j > 0 THEN i \div j ELSE (-i) \div (-j)
Inexact(i, j) == (i < 0) # (j < 0) /\ i % Magnitude(j) # 0

\* Unsigned quotient and remainder belong together, a = q * b + r with r smaller
\* than b, at both widths.  The signed quotient is the promised floor, or one more
\* where the signs differ and the division is inexact: there the code departs from
\* its comments (QuotientFloor).  Division by zero gives all ones and least / -1
\* the dividend (mutations.go 601-628 and 691-717).
QuotientsPromised ==
    LET la == regA % 2^H
        lb == regB % 2^H
        quotient(i, j) == Floor(i, j) + (IF Inexact(i, j) THEN 1 ELSE 0)
        sa(n) == Signed(regA, n)
        sb(n) == Signed(regB, n)
    IN
    /\ instr = "DivUnsigned64" /\ regB # 0 =>
            LET r == Reg64("RemUnsigned64", regA, regB)
            IN  regA = regD * regB + r /\ r < regB
    /\ instr = "DivUnsigned32" /\ lb # 0 =>
            LET r == Reg32("RemUnsigned32", regA, regB) % 2^H
            IN  la = (regD % 2^H) * lb + r /\ r < lb
    /\ instr = "DivSigned64" /\ regB # 0 =>
            \/ Signed(regD, W) = quotient(sa(W), sb(W))
            \/ sa(W) = -2^(W - 1) /\ sb(W) = -1 /\ regD = regA
    /\ instr = "DivSigned32" /\ lb # 0 =>
            \/ Signed(regD, W) = quotient(sa(H), sb(H))
            \/ sa(H) = -2^(H - 1) /\ sb(H) = -1 /\ regD = sext(regA, H)
    /\ instr \in {"DivUnsigned64", "DivSigned64"} /\ regB = 0 => regD = 2^W - 1
    /\ instr \in {"DivUnsigned32", "DivSigned32"} /\ lb = 0 => regD = 2^W - 1

\* "sgn(a)(|a| mod |b|)", and a for b = 0.
SignedRemainder(i, j) ==
    IF j = 0 THEN i
    ELSE IF i < 0 THEN -(Magnitude(i) % Magnitude(j)) ELSE i % Magnitude(j)

\* The signed remainder is the promised one unless the dividend is the least integer,
\* whose abs is negative (RemainderSign; mutations.go 641-657, 730-744 and 892-924).
RemaindersPromised ==
    /\ instr = "RemSigned64" /\ Signed(regA, W) # -2^(W - 1) =>
            regD = Unsigned(SignedRemainder(Signed(regA, W), Signed(regB, W)))
    /\ instr = "RemSigned32" /\ Signed(regA, H) # -2^(H - 1) =>
            regD = Unsigned(SignedRemainder(Signed(regA, H), Signed(regB, H)))

\* mul_upper and mul_64 together are the exact double-width product, in the
\* three signedness variants (mutations.go computes the upper word by way of
\* a big.Int whose Int64 is taken).
WideProduct ==
    LET lower == Reg64("Mul64", regA, regB) IN
    /\ instr = "MulUpperUnsignedUnsigned" => regD * 2^W + lower = regA * regB
    /\ instr = "MulUpperSignedSigned" =>
            Signed(regD, W) * 2^W + lower = Signed(regA, W) * Signed(regB, W)
    /\ instr = "MulUpperSignedUnsigned" =>
            Signed(regD, W) * 2^W + lower = Signed(regA, W) * regB

\* Rotations move bits and lose none: B(d)_(i+b) = B(a)_i to the left and
\* B(d)_i = B(a)_(i+b) to the right, for amounts of any size and for the
\* immediate in either role.
RotationsPermuteBits ==
    LET left(x, k, n) == \A i \in 0 .. (n - 1) : Bit(regD, (i + k) % n) = Bit(x, i)
        right(x, k, n) == \A i \in 0 .. (n - 1) : Bit(regD, i) = Bit(x, (i + k) % n)
    IN
    /\ instr = "RotL64" => left(regA, regB, W)
    /\ instr = "RotL32" => left(regA, regB, H)
    /\ instr = "RotR64" => right(regA, regB, W)
    /\ instr = "RotR32" => right(regA, regB, H)
    /\ instr = "RotR64Imm" => right(regA, imm, W)
    /\ instr = "RotR64ImmAlt" => right(imm, regA, W)
    /\ instr = "RotR32Imm" => right(regA, imm, H)
    /\ instr = "RotR32ImmAlt" => right(imm, regA, H)

\* The shifts of three registers multiply or divide by 2^(amount mod width), as
\* the comments at mutations.go 659-674 and 746-763 say: an amount of the width
\* or more wraps around.
RegisterShiftsWrap ==
    /\ instr = "ShiftLogicalLeft32" => regD = sext(regA * 2^(regB % H), H)
    /\ instr = "ShiftLogicalRight32" => regD = sext((regA % 2^H) \div 2^(regB % H), H)
    /\ instr = "ShiftArithmeticRight32" => regD = Unsigned(Signed(regA, H) \div 2^(regB % H))
    /\ instr = "ShiftLogicalLeft64" => regD = (regA * 2^(regB % W)) % 2^W
    /\ instr = "ShiftLogicalRight64" => regD = regA \div 2^(regB % W)
    /\ instr = "ShiftArithmeticRight64" => regD = Unsigned(Signed(regA, W) \div 2^(regB % W))

ImmShifts32 ==
    {"ShiftLogicalLeftImm32", "ShiftLogicalRightImm32", "ShiftArithmeticRightImm32",
     "ShiftLogicalLeftImmAlt32", "ShiftLogicalRightImmAlt32",
     "ShiftArithmeticRightImmAlt32"}
AltShifts ==
    {"ShiftLogicalLeftImmAlt32", "ShiftLogicalRightImmAlt32",
     "ShiftArithmeticRightImmAlt32", "ShiftLogicalLeftImmAlt64",
     "ShiftLogicalRightImmAlt64", "ShiftArithmeticRightImmAlt64"}

\* The amount of a shift with an immediate, which the alternative ones shift by a
\* register, and the width of what is shifted.
ShiftAmount == IF instr \in AltShifts THEN regA ELSE imm
ShiftWidth == IF instr \in ImmShifts32 THEN H ELSE W

\* The shifts with an immediate wrap their amount too, "(ωB ⋅ 2^νX mod 32)" in the
\* comments at mutations.go 422-435, 452-465, 494-507 and 514-527: the code shifts
\* by the whole immediate or register.
ImmediateShiftsWrap ==
    LET k == ShiftAmount % ShiftWidth IN
    /\ instr = "ShiftLogicalLeftImm32" => regD = sext(regA * 2^k, H)
    /\ instr = "ShiftLogicalRightImm32" => regD = sext((regA % 2^H) \div 2^k, H)
    /\ instr = "ShiftArithmeticRightImm32" => regD = Unsigned(Signed(regA, H) \div 2^k)
    /\ instr = "ShiftLogicalLeftImm64" => regD = (regA * 2^k) % 2^W
    /\ instr = "ShiftLogicalRightImm64" => regD = regA \div 2^k
    /\ instr = "ShiftArithmeticRightImm64" => regD = Unsigned(Signed(regA, W) \div 2^k)
    /\ instr = "ShiftLogicalLeftImmAlt32" => regD = sext(imm * 2^k, H)
    /\ instr = "ShiftLogicalRightImmAlt32" => regD = sext((imm % 2^H) \div 2^k, H)
    /\ instr = "ShiftArithmeticRightImmAlt32" => regD = Unsigned(Signed(imm, H) \div 2^k)
    /\ instr = "ShiftLogicalLeftImmAlt64" => regD = (imm * 2^k) % 2^W
    /\ instr = "ShiftLogicalRightImmAlt64" => regD = imm \div 2^k
    /\ instr = "ShiftArithmeticRightImmAlt64" => regD = Unsigned(Signed(imm, W) \div 2^k)

\* Below the width they are right, each under its own mnemonic: the swapped names of
\* two opcode constants and the swapped calls of step.go 379-382 cancel out, and
\* shar_r_imm_alt_64 may work on the low half of a sign-extended immediate.
ImmediateShiftsInWidth == ShiftAmount < ShiftWidth => ImmediateShiftsWrap

\* What the comments of mutations.go promise of sums, differences and products of
\* half words, divisions, upper products, rotations and shifts is in D, with three
\* exceptions: signed quotients that are rounded, signed remainders of the least
\* integer, and shifts with an immediate by the width or more.  Every instruction of
\* 32 bits leaves a sign-extended half word.
ResultsPromised ==
    /\ HalfResultsExtended
    /\ HalfSums
    /\ QuotientsPromised
    /\ RemaindersPromised
    /\ WideProduct
    /\ RotationsPermuteBits
    /\ RegisterShiftsWrap
    /\ ImmediateShiftsInWidth

\* set_lt_s compares whole registers, "ω′D = Z8(ωA) < Z8(ωB)" at mutations.go
\* 809: the code compares the low halves.
SignedLessThan ==
    instr = "SetLessThanSigned" => regD = bool2uint64(Signed(regA, W) < Signed(regB, W))

\* rem_s takes its sign from the dividend and divides magnitudes, "sgn(a)(|a| mod
\* |b|)" at mutations.go 892: the code's abs leaves the least integer negative.
RemainderSign ==
    /\ instr = "RemSigned64" =>
            regD = Unsigned(SignedRemainder(Signed(regA, W), Signed(regB, W)))
    /\ instr = "RemSigned32" =>
            regD = Unsigned(SignedRemainder(Signed(regA, H), Signed(regB, H)))

\* div_s rounds down, "Z−1_8(⌊ Z8(ωA) ÷ Z8(ωB) ⌋)" at mutations.go 705 and "⌊ a ÷ b ⌋"
\* at 615: Go's division rounds towards zero.
QuotientFloor ==
    LET floors(i, j, n) ==
            j # 0 /\ ~(i = -2^(n - 1) /\ j = -1) => regD = Unsigned(Floor(i, j))
    IN  /\ instr = "DivSigned64" => floors(Signed(regA, W), Signed(regB, W), W)
        /\ instr = "DivSigned32" => floors(Signed(regA, H), Signed(regB, H), H)

=============================================================================
