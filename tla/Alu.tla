-------------------------------- MODULE Alu --------------------------------
(***************************************************************************)
(* The register file and the arithmetic, logic and comparison instructions *)
(* of the CPU as operators (include/SysdarftRegister.h, cpu/Operations/    *)
(* Arithmetic.cpp, LogicalAndBitwise.cpp and Helper.cpp).                  *)
(*                                                                         *)
(* Widths are in bytes: 1, 2, 4 and 8 stand for the prefixes _8bit to      *)
(* _64bit.  A byte has ByteBits bits (8 in the code); everything below is  *)
(* uniform in it, and a model checks it with smaller bytes.                *)
(***************************************************************************)
EXTENDS Integers

CONSTANTS ByteBits,     \* bits of a byte
          FerCount      \* 64-bit registers FER0 .. (16 in the code)

ASSUME AluAssumption == ByteBits \in Nat \ {0} /\ FerCount \in 4 .. 16

\* 2^n.
Pow2[n \in Nat] == IF n = 0 THEN 1 ELSE 2 * Pow2[n - 1]

Width    == {1, 2, 4, 8}
Bits(w)  == ByteBits * w
Span(w)  == Pow2[Bits(w)]      \* one more than the largest value
Word     == Span(8)
Values   == 0 .. (Word - 1)

\* Two's complement of w bytes.
Signed(w, x) == IF x >= Span(w) \div 2 THEN x - Span(w) ELSE x

-----------------------------------------------------------------------------
(***************************************************************************)
(* sysdarft_register_t: the registers of width w lie one after the other   *)
(* from the first byte of FER0 on, so R0..R7 are the bytes of FER0,        *)
(* EXR0..EXR7 the halves of HER0..HER3, and so on.                         *)
(***************************************************************************)
Home(w, i) == (w * i) \div 8
Shift(w, i) == Pow2[Bits((w * i) % 8)]

\* SysdarftRegister::load
Load(gp, w, i) == (gp[Home(w, i)] \div Shift(w, i)) % Span(w)

\* SysdarftRegister::store
Store(gp, w, i, x) ==
    [gp EXCEPT ![Home(w, i)] =
        @ + ((x % Span(w)) - Load(gp, w, i)) * Shift(w, i)]

\* The address of a memory operand: two parts as they are, the third signed
\* at its own width w, times the ratio.
EffectiveAddress(base, off1, w, off2, ratio) ==
    ((base + off1 + Signed(w, off2)) * ratio) % Word

-----------------------------------------------------------------------------
\* FlagRegister: carry, overflow, larger-than, less-than, equal, mask.
Flags == [c : 0 .. 1, o : 0 .. 1, bg : 0 .. 1, le : 0 .. 1, eq : 0 .. 1, im : 0 .. 1]

Bool(p) == IF p THEN 1 ELSE 0

ArithmeticFlags(fg, c, o) ==
    [fg EXCEPT !.c = c, !.o = o, !.bg = 0, !.le = 0, !.eq = 0]

\* An instruction's effect: the value, the flags it leaves.
Res(v, fg) == [v |-> v, fg |-> fg]

\* Mutant: the bit above the width is not looked at.
CheckOverflow_Silent(fg, w, x) ==
    Res((x % Word) % Span(w), ArithmeticFlags(fg, 0, 0))

(***************************************************************************)
(* check_overflow: x is the 64-bit result.  The operands are uint64_t, so  *)
(* the sum has already wrapped at 64 bits when it is widened: a carry out  *)
(* of a 64-bit operation is lost.                                          *)
(***************************************************************************)
CheckOverflow(fg, w, x) ==
    Res((x % Word) % Span(w), ArithmeticFlags(fg, Bool(x % Word >= Span(w)), 0))

\* check_overflow_signed, x a 64-bit two's complement number that is not positive.
CheckOverflowSigned(fg, w, x) ==
    Res(x % Span(w), ArithmeticFlags(fg, 0, Bool(x < -(Span(w) \div 2))))

\* imul and idiv choose between the two by the sign of the result.
CheckBySign(fg, w, x) == IF x > 0 THEN CheckOverflow(fg, w, x) ELSE CheckOverflowSigned(fg, w, x)

\* Division of C++: towards zero, the remainder has the sign of the dividend.
Abs(x) == IF x < 0 THEN -x ELSE x
Sign(x) == IF x < 0 THEN -1 ELSE 1
Quotient(x, y)  == Sign(x) * Sign(y) * (Abs(x) \div Abs(y))
Remainder(x, y) == Sign(x) * (Abs(x) % Abs(y))

\* The first register of imul and idiv: narrower ones get all upper bits set,
\* whatever their sign.
FilledUp(w, x) == Signed(8, (Word - Span(w)) + x)

\* factor * base, both int64_t; the build's multiplication wraps.
Product(x, y) == Signed(8, (Signed(8, x % Word) * Signed(8, y % Word)) % Word)

-----------------------------------------------------------------------------
Bit(x, k) == (x \div Pow2[k]) % 2

\* The number whose bit k is b[k].
FromBits(n, b) ==
    LET sum[k \in 0 .. n] == IF k = 0 THEN 0 ELSE sum[k - 1] + b[k - 1] * Pow2[k - 1]
    IN  sum[n]

And(x, y) == FromBits(Bits(8), [k \in 0 .. (Bits(8) - 1) |-> Bit(x, k) * Bit(y, k)])
Xor(x, y) == FromBits(Bits(8), [k \in 0 .. (Bits(8) - 1) |-> (Bit(x, k) + Bit(y, k)) % 2])
Or(x, y)  == And(x, y) + Xor(x, y)
Not(x)    == Word - 1 - x

\* shl, shr on 64 bits; a count of 64 or more is undefined in C++ and taken
\* modulo 64 by the processors this is built for.
ShiftLeft(x, n)  == (x * Pow2[n % Bits(8)]) % Word
ShiftRight(x, n) == x \div Pow2[n % Bits(8)]

\* rotate_left of w bytes; rotate_right is the rotation by the rest.
RotateLeft(w, x, n) ==
    LET k == n % Bits(w)
    IN  ((x * Pow2[k]) % Span(w)) + (x \div Pow2[Bits(w) - k])
RotateRight(w, x, n) ==
    LET k == n % Bits(w)
    IN  (x \div Pow2[k]) + (x % Pow2[k]) * Pow2[Bits(w) - k]

(***************************************************************************)
(* rcl and rcr move one bit at a time through the carry: a rotation of the *)
(* Bits(w) + 1 bits that carry and value make together.                    *)
(***************************************************************************)
RclSteps(w, x, c, n) ==
    LET step[i \in 0 .. Bits(w)] ==
            IF i = 0 THEN <<x, c>>
            ELSE LET s == step[i - 1]
                 IN  <<((2 * s[1]) % Span(w)) + s[2], s[1] \div (Span(w) \div 2)>>
    IN  step[n % (Bits(w) + 1)]

RcrSteps(w, x, c, n) ==
    LET step[i \in 0 .. Bits(w)] ==
            IF i = 0 THEN <<x, c>>
            ELSE LET s == step[i - 1]
                 IN  <<(s[1] \div 2) + s[2] * (Span(w) \div 2), s[1] % 2>>
    IN  step[n % (Bits(w) + 1)]

-----------------------------------------------------------------------------
(***************************************************************************)
(* The instructions that write their first operand: a and b are the values *)
(* of the operands (get_val extends them with zeros), fg the flags before. *)
(***************************************************************************)
ArithOps == {"add", "adc", "sub", "sbb", "inc", "dec", "neg"}
LogicOps == {"and", "or", "xor", "not", "shl", "shr", "rol", "ror", "rcl", "rcr"}
WriteOps == ArithOps \cup LogicOps

Arithmetic(op, w, a, b, fg) ==
    CASE op = "add" -> CheckOverflow(fg, w, a + b)
      [] op = "adc" -> CheckOverflow(fg, w, a + b + fg.c)
      [] op = "sub" -> CheckOverflow(fg, w, a - b)
      [] op = "sbb" -> CheckOverflow(fg, w, a - b - fg.c)
      [] op = "inc" -> CheckOverflow(fg, w, a + 1)
      [] op = "dec" -> CheckOverflow(fg, w, a - 1)
      [] op = "neg" -> Res((-a) % Span(w), ArithmeticFlags(fg, 0, 0))

Rotated(p, fg) == Res(p[1], [fg EXCEPT !.c = p[2]])

Logical(op, w, a, b, fg) ==
    CASE op = "and" -> Res(And(a, b), fg)
      [] op = "or"  -> Res(Or(a, b), fg)
      [] op = "xor" -> Res(Xor(a, b), fg)
      [] op = "not" -> Res(Not(a) % Span(w), fg)
      [] op = "shl" -> Res(ShiftLeft(a, b) % Span(w), fg)
      [] op = "shr" -> Res(ShiftRight(a, b), fg)
      [] op = "rol" -> Res(RotateLeft(w, a, b), fg)
      [] op = "ror" -> Res(RotateRight(w, a, b), fg)
      [] op = "rcl" -> Rotated(RclSteps(w, a, fg.c, b), fg)
      [] op = "rcr" -> Rotated(RcrSteps(w, a, fg.c, b), fg)

\* cmp stores the flags it loaded before the arithmetic ones were cleared:
\* carry and overflow survive it.
Compare(a, b, fg) == [fg EXCEPT !.bg = Bool(a > b), !.le = Bool(a < b), !.eq = Bool(a = b)]

(***************************************************************************)
(* mul, imul, div, idiv: first register x, operand y.  The result of a     *)
(* division is the pair for registers 0 and 1; the flags are those of the  *)
(* remainder, checked last.  y = 0 is interruption 0x01.                   *)
(***************************************************************************)
Multiply(op, w, x, y, fg) ==
    IF op = "mul" THEN CheckOverflow(fg, w, Product(x, y))
    ELSE CheckBySign(fg, w, Product(FilledUp(w, x), y))

Divide(op, w, x, y, fg) ==
    LET q == IF op = "div" THEN CheckOverflow(fg, w, x \div y)
             ELSE CheckBySign(fg, w, Quotient(FilledUp(w, x), Signed(8, y)))
        m == IF op = "div" THEN CheckOverflow(q.fg, w, x % y)
             ELSE CheckBySign(q.fg, w, Remainder(FilledUp(w, x), Signed(8, y)))
    IN  [q |-> q.v, m |-> m.v, fg |-> m.fg]

(***************************************************************************)
(* The conditions of the conditional jumps.  jc, jnc, jo and jno have      *)
(* procedures, but the constructor of the executor never registers them:   *)
(* ExecutorMap.at throws, Boot reports it, the next instruction runs.      *)
(***************************************************************************)
Jumps == {"je", "jne", "jb", "jl", "jbe", "jle", "jc", "jnc", "jo", "jno"}
Unregistered == {"jc", "jnc", "jo", "jno"}

Taken(op, fg) ==
    CASE op = "je"  -> fg.eq = 1
      [] op = "jne" -> fg.eq = 0
      [] op = "jb"  -> fg.bg = 1
      [] op = "jl"  -> fg.le = 1
      [] op = "jbe" -> fg.eq = 1 \/ fg.bg = 1
      [] op = "jle" -> fg.eq = 1 \/ fg.le = 1
      [] op \in Unregistered -> FALSE
=============================================================================
