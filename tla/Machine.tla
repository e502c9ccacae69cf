------------------------------ MODULE Machine ------------------------------
(***************************************************************************)
(* A guest program on the CPU: every step is one instruction, decoded and  *)
(* executed by execute().  In mode "alu" the program computes in registers *)
(* of one width and jumps on the flags; in mode "stack" it calls, saves,   *)
(* raises interruptions and returns, popping what it pushed, until it runs *)
(* out of stack.                                                           *)
(*                                                                         *)
(* hist, frames, event and steps are history: the computations of mode     *)
(* "alu", what the program has on the stack in mode "stack", what the last  *)
(* step was and how many there were.                                       *)
(***************************************************************************)
EXTENDS GuestStack

CONSTANTS Words,        \* contents of the registers at the start, mode "alu"
          Stacks,       \* pairs of SB and SP at the start
          Spaces,       \* operands of enter
          Codes,        \* operands of int
          MaxOps,       \* bound: computations of mode "alu"
          MaxFrames,    \* bound: things on the stack
          MaxSteps      \* bound: instructions, mode "stack"

ASSUME MachineAssumption ==
    /\ Words \subseteq Values
    /\ Stacks \subseteq Nat \X Nat /\ \A s \in Stacks : s[1] + s[2] <= MemSize
    /\ Spaces \subseteq 0 .. (Word - MemSize - 1)   \* no negative amount is reserved
    /\ Codes \subseteq Nat /\ 16 <= MemSize
    /\ MaxOps \in Nat /\ MaxOps + 1 < Word

VARIABLES mode, r, mem, hist, frames, event, steps

vars == <<mode, r, mem, hist, frames, event, steps>>

\* The instruction was decoded; IP wraps at 64 bits.
Fetched == Out([r EXCEPT !.ip = (@ + 1) % Word], mem, "none")

Cleared == [c |-> 0, o |-> 0, bg |-> 0, le |-> 0, eq |-> 0, im |-> 0]

Start(x, y, b, t) ==
    [gp |-> [i \in 0 .. (FerCount - 1) |-> IF i % 2 = 0 THEN x ELSE y], fg |-> Cleared,
     sb |-> b, sp |-> t, cb |-> 0, ip |-> 0, cps |-> 0]

Init ==
    /\ mode \in {"alu", "stack"}
    /\ \/ mode = "alu" /\ \E x, y \in Words : r = Start(x, y, 0, MemSize)
       \/ mode = "stack" /\ \E s \in Stacks : r = Start(1, 8, s[1], s[2])
    /\ mem = [a \in {} |-> 0] /\ hist = <<>> /\ frames = <<>> /\ event = "start" /\ steps = 0

-----------------------------------------------------------------------------
(***************************************************************************)
(* Mode "alu".  A computation is recorded with its operands and the flags  *)
(* before and after it.                                                    *)
(***************************************************************************)
Computes(w) == mode = "alu" /\ Len(hist) < MaxOps /\ \A k \in DOMAIN hist : hist[k].w = w

\* The operand pairs: the low and the high half of two numbers of 2w bytes.
Operands == {<<0, 2>>, <<1, 3>>}

Record(op, w, i, a, b, v, fg) ==
    /\ hist' = Append(hist, [op |-> op, w |-> w, i |-> i, a |-> a, b |-> b,
                             fg |-> r.fg, v |-> v, after |-> fg])
    /\ UNCHANGED <<mode, frames, steps>>

Compute(op, w, i, j) ==
    LET a == Load(r.gp, w, i)
        b == Load(r.gp, w, j)
        x == IF op \in ArithOps THEN Arithmetic(op, w, a, b, r.fg) ELSE Logical(op, w, a, b, r.fg)
    IN  /\ Computes(w)
        /\ r' = [Fetched.r EXCEPT !.gp = Store(@, w, i, x.v), !.fg = x.fg]
        /\ Record(op, w, i, a, b, x.v, x.fg)
        /\ event' = "compute"
        /\ UNCHANGED mem

Cmp(w, i, j) ==
    LET a == Load(r.gp, w, i)
        b == Load(r.gp, w, j)
    IN  /\ Computes(w)
        /\ r' = [Fetched.r EXCEPT !.fg = Compare(a, b, @)]
        /\ Record("cmp", w, i, a, b, a, r'.fg)
        /\ event' = "compare"
        /\ UNCHANGED mem

\* mul and imul; the first factor and the product are register 0.
Mul(op, w, j) ==
    LET a == Load(r.gp, w, 0)
        b == Load(r.gp, w, j)
        x == Multiply(op, w, a, b, r.fg)
    IN  /\ Computes(w)
        /\ r' = [Fetched.r EXCEPT !.gp = Store(@, w, 0, x.v), !.fg = x.fg]
        /\ Record(op, w, 0, a, b, x.v, x.fg)
        /\ event' = "multiply"
        /\ UNCHANGED mem

\* The smallest 64-bit number divided by -1 is a trap of the host processor.
Traps(op, w, a, b) == op = "idiv" /\ w = 8 /\ a = Word \div 2 /\ b = Word - 1

\* div and idiv: quotient in register 0, remainder in register 1.
Div(op, w, j) ==
    LET a == Load(r.gp, w, 0)
        b == Load(r.gp, w, j)
        x == Divide(op, w, a, b, r.fg)
    IN  /\ Computes(w) /\ b # 0 /\ ~Traps(op, w, a, b)
        /\ r' = [Fetched.r EXCEPT !.gp = Store(Store(@, w, 0, x.q), w, 1, x.m), !.fg = x.fg]
        /\ Record(op, w, 0, a, b, x.q, x.fg)
        /\ event' = "divide"
        /\ UNCHANGED mem

\* xchg and mov between registers of one width.
Exchange(w, i, j) ==
    LET a == Load(r.gp, w, i)
        b == Load(r.gp, w, j)
    IN  /\ Computes(w)
        /\ r' = [Fetched.r EXCEPT !.gp = Store(Store(@, w, i, b), w, j, a)]
        /\ Record("xchg", w, i, a, b, b, r.fg)
        /\ event' = "exchange"
        /\ UNCHANGED mem

\* lea of the operand (FER0, FER1, a register of width w), into FER1.
Lea(w, ratio) ==
    LET off2 == Load(r.gp, w, 2)
        a == EffectiveAddress(r.gp[0], r.gp[1], w, off2, ratio)
    IN  /\ Computes(8)
        /\ r' = [Fetched.r EXCEPT !.gp = Store(@, 8, 1, a)]
        /\ Record("lea", 8, 1, r.gp[1], off2, a, r.fg)
        /\ event' = "compute"
        /\ UNCHANGED mem

\* A conditional jump after a comparison; the target is CB 9.
Branch(op) ==
    /\ mode = "alu" /\ event = "compare"
    /\ r' = IF Taken(op, r.fg) THEN [r EXCEPT !.cb = 9, !.ip = 0] ELSE Fetched.r
    /\ event' = IF Taken(op, r.fg) THEN "taken" ELSE "passed"
    /\ hist' = Append(hist, [Last(hist) EXCEPT !.op = op])
    /\ UNCHANGED <<mode, mem, frames, steps>>

\* loop, back to IP 0.
LoopBack ==
    LET o == DoLoop(Fetched, r.cb, 0)
    IN  /\ mode = "alu" /\ event = "compare"
        /\ r' = o.r
        /\ event' = IF o.r.ip = 0 THEN "taken" ELSE "passed"
        /\ hist' = Append(hist, [Last(hist) EXCEPT !.op = "loop", !.a = r.gp[3], !.b = 1])
        /\ UNCHANGED <<mode, mem, frames, steps>>

-----------------------------------------------------------------------------
(***************************************************************************)
(* Mode "stack".  A frame records SP before, the bytes on the stack and    *)
(* what they have to give back.                                            *)
(***************************************************************************)
Frame(kind, n, v) == [kind |-> kind, sp |-> r.sp, n |-> n, v |-> v]

Runs == mode = "stack" /\ steps < MaxSteps /\ r.cb # INT_STACKOVERFLOW

\* Whether the last thing on the stack is of this kind.
Holds(kind) == frames # <<>> /\ Last(frames).kind = kind

Faults == {INT_DIV_0, INT_BAD_INTR, INT_ILLEGAL_MEMORY_ACCESS}

\* The instruction's outcome, and what the stack holds when nothing was thrown.
Finish(o, kind, held) ==
    LET e == Executed(o)
    IN  /\ r' = e.r /\ mem' = e.mem
        /\ event' = IF e.r.cb = INT_STACKOVERFLOW THEN "overflow" ELSE kind
        /\ frames' = CASE o.thrown = "none" /\ e.r.cb # INT_STACKOVERFLOW -> held
                       [] o.thrown # "none" /\ e.r.cb \in Faults -> Append(frames, Frame("int", ImageSize, o.r))
                       [] OTHER -> frames
        /\ steps' = steps + 1
        /\ UNCHANGED <<mode, hist>>

PushReg(w) == Runs /\ Len(frames) < MaxFrames /\
    Finish(DoPush(Fetched, w, 0), "push", Append(frames, Frame("push", w, Load(r.gp, w, 0))))
PopReg(w) == Runs /\ Holds("push") /\ Last(frames).n = w /\
    Finish(DoPop(Fetched, w, 1), "pop", Front(frames))

PushAll == Runs /\ Len(frames) < MaxFrames /\
    Finish(DoPushAll(Fetched), "pushall", Append(frames, Frame("all", AllSize, Fetched.r)))
PopAll == Runs /\ Holds("all") /\ Finish(DoPopAll(Fetched), "popall", Front(frames))

\* One CPS: a routine that saved it may reserve again.
EnterSpace(x) == Runs /\ Len(frames) < MaxFrames /\ (r.cps = 0 \/ Holds("all") \/ Holds("int")) /\
    Finish(DoEnter(Fetched, x), "enter", Append(frames, Frame("enter", x, 0)))
LeaveSpace == Runs /\ Holds("enter") /\ Finish(DoLeave(Fetched), "leave", Front(frames))

Call == Runs /\ Len(frames) < MaxFrames /\
    Finish(DoCall(Fetched, 9, 0), "call", Append(frames, Frame("call", 16, Fetched.r)))
Ret == Runs /\ Holds("call") /\ Finish(DoRet(Fetched), "ret", Front(frames))

\* ret with an empty stack: memory never written, or the end of the memory.
\* One that leads to the handler of 0x07 by chance is left out.
StrayRet == Runs /\ frames = <<>> /\
    LET o == DoRet(Fetched)
    IN  /\ <<o.thrown, o.r.cb>> # <<"none", INT_STACKOVERFLOW>>
        /\ Finish(o, "stray", frames)

\* int; a masked interruption does nothing.
Interrupt(code) == Runs /\ Len(frames) < MaxFrames /\
    LET o == DoInterruption(Fetched, code)
    IN  Finish(o, "int", IF o.r.sp # r.sp
                         THEN Append(frames, Frame("int", ImageSize, Fetched.r)) ELSE frames)
DivideByZero == Runs /\ Len(frames) < MaxFrames /\
    Finish(Deliver(Fetched, INT_DIV_0), "int", Append(frames, Frame("int", ImageSize, Fetched.r)))
Iret == Runs /\ Holds("int") /\ Finish(DoIret(Fetched), "iret", Front(frames))

Alwi == Runs /\ r.fg.im = 1 /\ Finish(Out([Fetched.r EXCEPT !.fg.im = 0], mem, "none"), "mask", frames)
Igni == Runs /\ r.fg.im = 0 /\ Finish(Out([Fetched.r EXCEPT !.fg.im = 1], mem, "none"), "mask", frames)

\* Addresses at and past the end of the memory.  The program stores into none
\* of the things it has on the stack.
DataAddresses == {MemSize - 16, MemSize - 4}
Base(f) == (r.sb + f.sp - f.n) % Word
Spare(a) == \A k \in DOMAIN frames :
    frames[k].kind = "enter" \/ Disjoint(a, 8, Base(frames[k]), frames[k].n)

MovFrom(a) == Runs /\ Len(frames) < MaxFrames /\ Finish(DoLoad(Fetched, a, 0), "load", frames)
MovTo(a) == Runs /\ Len(frames) < MaxFrames /\ Spare(a) /\
    Finish(DoStore(Fetched, a, 0), "store", frames)
Movs(s, d) == Runs /\ Len(frames) < MaxFrames /\ Spare(d) /\
    Finish(DoMovs(Fetched, s, d, 8), "movs", frames)

\* The handler of 0x07 has no image to return to: it sets up a new stack.
NewStack ==
    /\ mode = "stack" /\ event = "overflow" /\ steps < MaxSteps
    /\ \E s \in Stacks : r' = [Start(1, 8, s[1], s[2]) EXCEPT !.fg.im = 1]
    /\ frames' = <<>> /\ event' = "start"
    /\ steps' = steps + 1
    /\ UNCHANGED <<mode, mem, hist>>

\* The bound on the instructions.
Done ==
    /\ \/ mode = "stack" /\ steps >= MaxSteps
       \/ mode = "alu" /\ Len(hist) >= MaxOps
    /\ UNCHANGED vars

Next ==
    \/ \E w \in Width, p \in Operands :
        \/ \E op \in WriteOps : Compute(op, w, p[1], p[2])
        \/ Cmp(w, p[1], p[2])
        \/ Exchange(w, p[1], p[2])
        \/ \E op \in {"mul", "imul"} : Mul(op, w, p[2])
        \/ \E op \in {"div", "idiv"} : Div(op, w, p[2])
    \/ \E w \in Width, ratio \in {1, 16} : Lea(w, ratio)
    \/ \E op \in Jumps : Branch(op)
    \/ \E w \in {1, 8} : PushReg(w) \/ PopReg(w)
    \/ PushAll \/ PopAll \/ LeaveSpace \/ Call \/ Ret \/ StrayRet
    \/ \E x \in Spaces : EnterSpace(x)
    \/ \E c \in Codes : Interrupt(c)
    \/ DivideByZero \/ Iret \/ Alwi \/ Igni
    \/ \E a \in DataAddresses : MovFrom(a) \/ MovTo(a)
    \/ \E s, d \in DataAddresses : s <= d /\ Movs(s, d)
    \/ LoopBack
    \/ NewStack
    \/ Done

Spec == Init /\ [][Next]_vars

-----------------------------------------------------------------------------
\* A number of two registers, the low one first.
Wide(w, lo, hi) == lo + hi * Span(w)

(***************************************************************************)
(* Multi-word arithmetic: add of the low halves followed by adc of the     *)
(* high ones is the addition of numbers of twice the width, carry out      *)
(* included, and sub followed by sbb the subtraction: check_overflow and   *)
(* the carry agree at every width below 64 bits.                           *)
(***************************************************************************)
WideArithmetic ==
    (Len(hist) = 2 /\ event = "compute" /\ hist[1].w <= 4 /\ hist[1].i = 0 /\ hist[2].i = 1) =>
        LET w == hist[1].w
            a == Wide(w, hist[1].a, hist[2].a)
            b == Wide(w, hist[1].b, hist[2].b)
            v == Wide(w, hist[1].v, hist[2].v)
            c == hist[2].after.c
        IN  /\ hist[1].op = "add" /\ hist[2].op = "adc" =>
                   v = (a + b) % (Span(w) * Span(w)) /\ (c = 1 <=> a + b >= Span(w) * Span(w))
            /\ hist[1].op = "sub" /\ hist[2].op = "sbb" =>
                   v = (a - b) % (Span(w) * Span(w)) /\ (c = 1 <=> a < b)

(***************************************************************************)
(* A rotation and the opposite rotation by the same count cancel, through  *)
(* the carry too, whatever the count is modulo the width.                  *)
(***************************************************************************)
RotationsInvert ==
    (Len(hist) = 2 /\ event = "compute" /\ hist[1].i = hist[2].i) =>
        /\ {hist[1].op, hist[2].op} = {"rol", "ror"} => hist[2].v = hist[1].a
        /\ {hist[1].op, hist[2].op} = {"rcl", "rcr"} =>
               hist[2].v = hist[1].a /\ hist[2].after.c = hist[1].fg.c

\* div leaves a quotient and a remainder that make up the dividend.
DivisionExact ==
    (event = "divide" /\ Last(hist).op = "div") =>
        LET h == Last(hist)
            m == Load(r.gp, h.w, 1)
        IN  h.v * h.b + m = h.a /\ m < h.b

(***************************************************************************)
(* A conditional jump directly after cmp is taken exactly when the         *)
(* relation it is named for holds of the compared values (JB: the first is *)
(* bigger), whatever the flags were before cmp; loop ends at a count of 1. *)
(***************************************************************************)
JumpsOnRelation ==
    (event \in {"taken", "passed"}) =>
        LET h == Last(hist)
        IN  /\ h.op = "je"  => (event = "taken" <=> h.a = h.b)
            /\ h.op = "jne" => (event = "taken" <=> h.a # h.b)
            /\ h.op = "jb"  => (event = "taken" <=> h.a > h.b)
            /\ h.op = "jl"  => (event = "taken" <=> h.a < h.b)
            /\ h.op = "jbe" => (event = "taken" <=> h.a >= h.b)
            /\ h.op = "jle" => (event = "taken" <=> h.a <= h.b)
            /\ h.op = "loop" => (event = "taken" <=> h.a # 1)

Byte(gp, k) == (gp[k \div 8] \div Pow2[Bits(k % 8)]) % Span(1)

(***************************************************************************)
(* The registers of the four widths share bytes; a computation changes     *)
(* those of its destination only.                                          *)
(***************************************************************************)
OnlyDestinationWritten ==
    [][hist' # hist /\ event' = "compute" =>
        LET h == Last(hist')
        IN  \A k \in (0 .. (8 * FerCount - 1)) \ ((h.w * h.i) .. (h.w * h.i + h.w - 1)) :
                Byte(r'.gp, k) = Byte(r.gp, k)]_vars

(***************************************************************************)
(* The arithmetic a program is built from is exact: sums and differences   *)
(* of two registers, rotations and their inverses, quotient and remainder, *)
(* and the jump that a comparison decides (add_, sub_, check_overflow,     *)
(* rcl_, rcr_, div_, cmp_ and the conditional jumps).                      *)
(***************************************************************************)
ArithmeticExact == WideArithmetic /\ RotationsInvert /\ DivisionExact /\ JumpsOnRelation

-----------------------------------------------------------------------------
Below(f, n) == Read(mem, (r.sb + f.sp - n) % Word, n)

(***************************************************************************)
(* What the program pushed and has not popped is still in memory as it was *)
(* pushed: nested calls, saved register files and interruption images      *)
(* never overwrite each other, even when a later one does not fit, and     *)
(* the registers hold words and nothing is stored beyond the memory.       *)
(***************************************************************************)
FramesIntact ==
    /\ r \in Registers
    /\ \A a \in DOMAIN mem : a + mem[a].n <= MemSize
    /\ \A k \in DOMAIN frames : LET f == frames[k] IN
          /\ f.kind \in {"push", "all", "int"} => Below(f, f.n) = f.v
          /\ f.kind = "call" =>
                 /\ Below(f, 8) = f.v.cb
                 /\ Read(mem, (r.sb + f.sp - 16) % Word, 8) = f.v.ip

(***************************************************************************)
(* Taking the last thing off the stack gives back SP and everything that   *)
(* was saved: the register, the routine that called, the register file     *)
(* without CB and IP, or the whole interrupted CPU state.                  *)
(***************************************************************************)
Restored ==
    [][frames # <<>> /\ frames' = Front(frames) /\ event' # "start" =>
        LET f == Last(frames)
        IN  /\ r'.sp = f.sp
            /\ f.kind = "push" => Load(r'.gp, f.n, 1) = f.v
            /\ f.kind = "call" => r'.cb = f.v.cb /\ r'.ip = f.v.ip
            /\ f.kind = "all"  => [r' EXCEPT !.cb = 0, !.ip = 0] = [f.v EXCEPT !.cb = 0, !.ip = 0]
            /\ f.kind = "int"  => r' = f.v]_vars

(***************************************************************************)
(* An instruction that runs out of stack is abandoned: the handler of 0x07 *)
(* finds the registers it needs, and SP where it was, or one word off when *)
(* call or ret failed between its two words.                               *)
(***************************************************************************)
OverflowAbandons ==
    [][event' = "overflow" /\ event # "overflow" =>
        /\ r'.gp = r.gp /\ r'.sb = r.sb /\ r'.cps = r.cps /\ r'.fg.im = 1
        /\ r'.sp \in {r.sp, r.sp - 8, r.sp + 8}
        /\ frames' = frames]_vars

(***************************************************************************)
(* No instruction changes what it does not name: a computation the other   *)
(* bytes of the registers that share them, an instruction that fails the   *)
(* state its handler needs.                                                *)
(***************************************************************************)
NothingElseTouched == OnlyDestinationWritten /\ OverflowAbandons
=============================================================================
