------------------------------ MODULE Encoding ------------------------------
(***************************************************************************)
(* Machine code: how the assembler encodes an instruction, how the CPU     *)
(* decodes it and how the disassembler does (coding/EncodeInstruction.cpp, *)
(* EncodeTarget.cpp, OperandSanity.cpp, DecodeInstruction.cpp,             *)
(* DecodeTarget.cpp, cpu/SysdarftCPUDecoder.cpp and the table of           *)
(* include/InstructionSet.h).                                              *)
(*                                                                         *)
(* Code is a sequence of bytes 0 .. 255, a constant the sequence of its    *)
(* bytes, lowest first.  Text is parsed already: an operand is a record.   *)
(***************************************************************************)
EXTENDS Integers, Sequences, SequencesExt

\* instruction_map, by chapter: the opcodes.
ArithmeticOpcodes == [NOP |-> 0, ADD |-> 1, ADC |-> 2, SUB |-> 3, SBB |-> 4, IMUL |-> 5, MUL |-> 6,
                      IDIV |-> 7, DIV |-> 8, NEG |-> 9, CMP |-> 10, INC |-> 11, DEC |-> 12]
LogicOpcodes == [AND |-> 16, OR |-> 17, XOR |-> 18, NOT |-> 19, SHL |-> 20, SHR |-> 21, ROL |-> 22,
                 ROR |-> 23, RCL |-> 24, RCR |-> 25]
TransferOpcodes == [MOV |-> 32, XCHG |-> 33, PUSH |-> 34, POP |-> 35, PUSHALL |-> 36, POPALL |-> 37,
                    ENTER |-> 38, LEAVE |-> 39, MOVS |-> 40, LEA |-> 41]
ControlOpcodes == [JMP |-> 48, CALL |-> 49, RET |-> 50, JE |-> 51, JNE |-> 52, JB |-> 53, JL |-> 54,
                   JBE |-> 55, JLE |-> 56, INT |-> 57, INT3 |-> 58, IRET |-> 59, JC |-> 60,
                   JNC |-> 61, JO |-> 62, JNO |-> 63, LOOP |-> 96]
OtherOpcodes == ("IN" :> 80) @@ [HLT |-> 64, IGNI |-> 65, ALWI |-> 66, OUT |-> 81, INS |-> 82, OUTS |-> 83]

Opcode == ArithmeticOpcodes @@ LogicOpcodes @@ TransferOpcodes @@ ControlOpcodes @@ OtherOpcodes
Instructions == DOMAIN Opcode
WithOpcode == [c \in 0 .. 255 |-> {op \in Instructions : Opcode[op] = c}]

Bare   == {"NOP", "PUSHALL", "POPALL", "LEAVE", "MOVS", "RET", "INT3", "IRET", "HLT", "IGNI", "ALWI"}
Unary  == {"IMUL", "MUL", "IDIV", "DIV", "NEG", "INC", "DEC", "NOT", "PUSH", "POP", "ENTER", "INT",
           "INS", "OUTS"}
Flow   == {"JMP", "CALL", "JE", "JNE", "JB", "JL", "JBE", "JLE", "JC", "JNC", "JO", "JNO", "LOOP"}

ArgumentCount(op) == IF op \in Bare THEN 0 ELSE IF op \in Unary THEN 1 ELSE 2
NeedsWidth(op) == op \notin Bare \cup Flow \cup {"LEA", "INT"}

-----------------------------------------------------------------------------
\* Operands.  The registers with names have indices of their own here, Name + code; %FER takes
\* any number.
Special == [SB |-> 160, SP |-> 161, CB |-> 162, DB |-> 163, DP |-> 164, EB |-> 165, EP |-> 166]
Name == 1000
SpecialIndex(r) == Name + Special[r]

Reg(w, i) == [k |-> "reg", w |-> w, i |-> i]
Con(v)    == [k |-> "con", w |-> Len(v), v |-> v]
Mem(w, ratio, b, o1, o2) == [k |-> "mem", w |-> w, ratio |-> ratio, p |-> <<b, o1, o2>>]

Widths == {1, 2, 4, 8}
Ratios == {1, 2, 4, 8, 16}

\* Widths and ratios are binary coded decimals: bits 8, 16, 32, 64.
WidthCode(w) == CASE w = 1 -> 8 [] w = 2 -> 22 [] w = 4 -> 50 [] w = 8 -> 100
RatioCode(r) == IF r = 16 THEN 22 ELSE r

\* encode_register, encode_constant, encode_memory.
EncodeRegister(a) == <<1, WidthCode(a.w), (IF a.i >= Name THEN a.i - Name ELSE a.i) % 256>>
EncodeConstant(a) == <<2, WidthCode(a.w)>> \o a.v
EncodeSimple(a) == IF a.k = "reg" THEN EncodeRegister(a) ELSE EncodeConstant(a)
EncodeMemory(a) ==
    <<3, WidthCode(a.w)>> \o EncodeSimple(a.p[1]) \o EncodeSimple(a.p[2]) \o EncodeSimple(a.p[3])
        \o <<RatioCode(a.ratio)>>
EncodeTarget(a) == IF a.k = "mem" THEN EncodeMemory(a) ELSE EncodeSimple(a)

\* What encode_target refuses: registers narrower than 64 bits in an address.
Expressible(a) ==
    CASE a.k = "reg" -> TRUE
      [] a.k = "con" -> TRUE
      [] a.k = "mem" -> \A n \in 1 .. 3 : a.p[n].k = "con" \/ (a.p[n].k = "reg" /\ a.p[n].w = 8)
      [] OTHER -> FALSE         \* a name that no marker or definition replaced

\* isInvalid64BitOperand: a constant of any width passes.
Is64Bit(a) == a.k = "con" \/ a.w = 8

\* OperandSanityCheck
Sane(op, args) ==
    /\ op = "XCHG" => args[1].k # "con" /\ args[2].k # "con"
    /\ op = "IN" => args[2].k # "con"
    /\ op \in {"MOV", "POP", "AND", "OR", "XOR", "NOT", "SHL", "SHR", "ROL", "ROR", "RCL", "RCR",
               "ADD", "SUB", "ADC", "SBB", "NEG", "INC", "DEC"} => args[1].k # "con"
    /\ op = "LEA" => args[1].k # "con" /\ args[2].k = "mem" /\ Is64Bit(args[1])
    /\ op \in Flow => Is64Bit(args[1]) /\ Is64Bit(args[2])

\* The checks of encode_instruction; an instruction without operands ignores them.
Encodable(op, w, args) ==
    /\ op \in Instructions
    /\ NeedsWidth(op) => w \in Widths
    /\ ArgumentCount(op) > 0 =>
         /\ Len(args) = ArgumentCount(op)
         /\ \A n \in DOMAIN args : Expressible(args[n]) /\ (NeedsWidth(op) => args[n].w = w)
         /\ Sane(op, args)

Used(op, args) == IF ArgumentCount(op) = 0 THEN <<>> ELSE args

\* encode_instruction
EncodeInstruction(op, w, args) ==
    <<Opcode[op]>> \o (IF NeedsWidth(op) THEN <<WidthCode(w)>> ELSE <<>>)
        \o FlattenSeq([n \in DOMAIN Used(op, args) |-> EncodeTarget(args[n])])

-----------------------------------------------------------------------------
(***************************************************************************)
(* pop_instruction_from_ip_and_increase_ip.  A decoding state is the       *)
(* position p of the next byte, and ok while nothing illegal was met.      *)
(* Beyond the image the memory is zero.                                    *)
(***************************************************************************)
At(image, p) == IF p \in DOMAIN image THEN image[p] ELSE 0
Code(widths, c) == {w \in widths : WidthCode(w) = c}
The(S) == CHOOSE x \in S : TRUE
Illegal(p) == [ok |-> FALSE, p |-> p, a |-> Con(<<0>>)]

RegisterOf(w, c) ==
    IF c < (IF w = 8 THEN 16 ELSE 8) THEN {c}
    ELSE IF w = 8 /\ \E r \in DOMAIN Special : Special[r] = c THEN {Name + c} ELSE {}

\* do_decode_register_without_prefix and its access, p after the prefix.
DecodeRegister(image, p) ==
    LET w == Code(Widths, At(image, p))
    IN  IF w = {} \/ RegisterOf(The(w), At(image, p + 1)) = {} THEN Illegal(p + 2)
        ELSE [ok |-> TRUE, p |-> p + 2, a |-> Reg(The(w), The(RegisterOf(The(w), At(image, p + 1))))]

DecodeConstant(image, p) ==
    LET w == Code(Widths, At(image, p))
    IN  IF w = {} THEN Illegal(p + 1)
        ELSE [ok |-> TRUE, p |-> p + 1 + The(w), a |-> Con([n \in 1 .. The(w) |-> At(image, p + n)])]

DecodeSimple(image, p) ==
    CASE At(image, p) = 1 -> DecodeRegister(image, p + 1)
      [] At(image, p) = 2 -> DecodeConstant(image, p + 1)
      [] OTHER -> Illegal(p + 1)

DecodeMemory(image, p) ==
    LET w == Code(Widths, At(image, p))
        b == DecodeSimple(image, p + 1)
        o1 == DecodeSimple(image, b.p)
        o2 == DecodeSimple(image, o1.p)
        r == {x \in Ratios : RatioCode(x) = At(image, o2.p)}
    IN  IF w # {} /\ b.ok /\ o1.ok /\ o2.ok /\ r # {}
        THEN [ok |-> TRUE, p |-> o2.p + 1, a |-> Mem(The(w), The(r), b.a, o1.a, o2.a)]
        ELSE Illegal(o2.p + 1)

DecodeTarget(image, p) ==
    IF At(image, p) = 3 THEN DecodeMemory(image, p + 1) ELSE DecodeSimple(image, p)

Decode(image, p) ==
    LET ops == WithOpcode[At(image, p)]
        op == The(ops)
        w == Code(Widths, At(image, p + 1))
        q == IF NeedsWidth(op) THEN p + 2 ELSE p + 1
        x == DecodeTarget(image, q)
        y == DecodeTarget(image, x.p)
        n == ArgumentCount(op)
        ok == ops # {} /\ (NeedsWidth(op) => w # {}) /\ (n > 0 => x.ok) /\ (n > 1 => y.ok)
    IN  IF ~ok THEN [ok |-> FALSE]
        ELSE [ok |-> TRUE, op |-> op, w |-> IF NeedsWidth(op) THEN The(w) ELSE 0,
              args |-> SubSeq(<<x.a, y.a>>, 1, n),
              p |-> IF n = 0 THEN q ELSE IF n = 1 THEN x.p ELSE y.p]

-----------------------------------------------------------------------------
(***************************************************************************)
(* decode_instruction of the disassembler: the same bytes, but operands    *)
(* are not refused at the first illegal byte: it goes on after the byte,   *)
(* and marks the instruction as bad.  Popping from a buffer that ends      *)
(* drains it.                                                              *)
(***************************************************************************)
Popped(image, s, n) ==
    IF s.p + n > Len(image) + 1 THEN [p |-> Len(image) + 1, bad |-> TRUE, out |-> TRUE]
    ELSE [s EXCEPT !.p = @ + n]
Bad(s) == [s EXCEPT !.bad = TRUE]

ListRegister(image, s) ==
    LET w == Code(Widths, At(image, s.p))
        t == Popped(image, s, 2)
    IN  IF w = {} \/ (w = {8} /\ RegisterOf(8, At(image, s.p + 1)) = {}) THEN Bad(t) ELSE t

\* Mutant: every constant has eight bytes.
ListConstant_Wide(image, s) ==
    LET w == Code(Widths, At(image, s.p))
    IN  IF w = {} THEN Bad(Popped(image, s, 1)) ELSE Popped(image, s, 9)

ListConstant(image, s) ==
    LET w == Code(Widths, At(image, s.p))
    IN  IF w = {} THEN Bad(Popped(image, s, 1)) ELSE Popped(image, s, 1 + The(w))

ListSimple(image, s) ==
    LET c == At(image, s.p)
        t == Popped(image, s, 1)
    IN  CASE t.out -> t
          [] ~t.out /\ c = 1 -> ListRegister(image, t)
          [] ~t.out /\ c = 2 -> ListConstant(image, t)
          [] OTHER -> Bad(t)

\* decode_memory returns at the first byte that starts no operand, and the operand is then
\* printed empty and counts as good; a bad part alone does not stop it.
ListMemory(image, s) ==
    LET t == Popped(image, s, 1)
        prefixed(x) == ~x.out /\ At(image, x.p) \in {1, 2}
        empty(x) == IF x.out THEN x ELSE [x EXCEPT !.bad = s.bad]
        b == ListSimple(image, t)
        o1 == ListSimple(image, b)
        o2 == ListSimple(image, o1)
        last == Popped(image, o2, 1)
    IN  CASE t.out \/ Code(Widths, At(image, s.p)) = {} -> Bad(t)
          [] ~prefixed(t) -> empty(b)
          [] ~prefixed(b) -> empty(o1)
          [] ~prefixed(o1) -> empty(o2)
          [] OTHER -> IF o2.out \/ ~\E x \in Ratios : RatioCode(x) = At(image, o2.p) THEN Bad(last)
                      ELSE last

ListTarget(image, s) ==
    IF s.out THEN s
    ELSE IF At(image, s.p) = 3 /\ s.p \in DOMAIN image THEN ListMemory(image, [s EXCEPT !.p = @ + 1])
    ELSE ListSimple(image, s)

\* The position after the instruction at p, and whether it is listed as data.
List(image, p) ==
    LET ops == WithOpcode[At(image, p)]
        op == The(ops)
        s == [p |-> p + 1, bad |-> FALSE, out |-> FALSE]
        t == IF NeedsWidth(op) THEN Popped(image, s, 1) ELSE s
        x == ListTarget(image, t)
        n == ArgumentCount(op)
    IN  CASE ops = {} -> Bad(s)
          [] ops # {} /\ NeedsWidth(op) /\ (t.out \/ Code(Widths, At(image, p + 1)) = {}) -> Bad(t)
          [] OTHER -> IF n = 0 THEN t ELSE IF n = 1 \/ x.out THEN x ELSE ListTarget(image, x)
=============================================================================
