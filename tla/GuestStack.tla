----------------------------- MODULE GuestStack -----------------------------
(***************************************************************************)
(* The guest's stack: what push, pop, pushall, popall, enter, leave, call, *)
(* ret, int, iret, movs and the exceptions of execute() do to the          *)
(* registers and to memory (cpu/Operations/DataTransfer.cpp and            *)
(* ControlFlow.cpp, include/SysdarftInstructionExec.h, the delivery of     *)
(* cpu/SysdarftCPUInterruption.cpp and cpu/SysdarftInstructionExec.cpp).   *)
(*                                                                         *)
(* Addresses and sizes are bytes.  Memory is kept as the objects written   *)
(* to it, by start address; a write destroys the objects it overlaps, and  *)
(* an object is read back in the size it was written in (PagedMemory has   *)
(* the bytes).  Memory that was never written reads as zero.  Instructions *)
(* are one unit of IP long; decoding them is the subject of Toolchain.     *)
(***************************************************************************)
EXTENDS Alu, Sequences, SequencesExt

CONSTANTS MemSize,      \* TotalMemory
          ImageSize,    \* sizeof(sysdarft_register_t), 256 in the code
          AllSize       \* sizeof(pushall_data), 192 in the code

ASSUME StackAssumption ==
    /\ MemSize \in Nat /\ AllSize \in Nat /\ ImageSize \in Nat
    /\ 8 < AllSize /\ AllSize < ImageSize     \* an image holds CB and IP too
    /\ MemSize + ImageSize + AllSize < Word

INT_DIV_0 == 1
INT_BAD_INTR == 4
INT_STACKOVERFLOW == 7
INT_ILLEGAL_MEMORY_ACCESS == 8
MAX_INTERRUPTION_ENTRY == 256

\* The register file.  DB:DP and EB:EP are used by movs alone and are its
\* parameters.
Registers == [gp : [0 .. (FerCount - 1) -> Values], fg : Flags, sb : Values,
              sp : Values, cb : Values, ip : Values, cps : Values]

-----------------------------------------------------------------------------
\* Memory as a function from start addresses to [n: size, v: value].
Disjoint(a, n, b, k) == a + n <= b \/ b + k <= a

Written(mem, a, n, v) ==
    LET kept == {b \in DOMAIN mem : Disjoint(a, n, b, mem[b].n)}
    IN  [b \in kept \cup {a} |-> IF b = a THEN [n |-> n, v |-> v] ELSE mem[b]]

Read(mem, a, n) == IF a \in DOMAIN mem /\ mem[a].n = n THEN mem[a].v ELSE 0

\* The outcome of (a part of) an instruction.
Out(r, mem, thrown) == [r |-> r, mem |-> mem, thrown |-> thrown]

\* Mutant: SP is stored before the write that may fail.
Push_EarlyStore(o, n, v) ==
    LET a == (o.r.sp - n + o.r.sb) % Word
        low == [o.r EXCEPT !.sp = (@ - n) % Word]
    IN  CASE o.thrown # "none" -> o
          [] o.thrown = "none" /\ (o.r.sp < n \/ a + n > MemSize) ->
                Out(low, o.mem, "StackOverflow")
          [] OTHER -> Out(low, Written(o.mem, a, n, v), "none")

\* push_stack and push_memory_to: SP moves only when the write succeeded.
Push(o, n, v) ==
    LET a == (o.r.sp - n + o.r.sb) % Word
    IN  CASE o.thrown # "none" -> o
          [] o.thrown = "none" /\ (o.r.sp < n \/ a + n > MemSize) ->
                Out(o.r, o.mem, "StackOverflow")
          [] OTHER -> Out([o.r EXCEPT !.sp = @ - n], Written(o.mem, a, n, v), "none")

\* pop_stack: the value read is Top, the outcome Pop.
Top(o, n) == Read(o.mem, (o.r.sb + o.r.sp) % Word, n)
Pop(o, n) ==
    CASE o.thrown # "none" -> o
      [] o.thrown = "none" /\ ((o.r.sb + o.r.sp) % Word) + n > MemSize ->
            Out(o.r, o.mem, "StackOverflow")
      [] OTHER -> Out([o.r EXCEPT !.sp = (@ + n) % Word], o.mem, "none")

-----------------------------------------------------------------------------
\* set_mask and do_jump_table; the vector of code leads to code:0.
JumpTo(o, code) ==
    Out([o.r EXCEPT !.fg.im = 1, !.cb = code, !.ip = 0], o.mem, "none")

\* Mutant: the image is taken after SP was moved.
Preserve_After(o) == Push(o, ImageSize, [o.r EXCEPT !.sp = (@ - ImageSize) % Word])

\* do_preserve_cpu_state: the image holds SP as it was before the push.
Preserve(o) == Push(o, ImageSize, o.r)

\* The local lambda of do_interruption; without room it goes to 0x07.
Deliver(o, code) ==
    LET p == Preserve(o)
    IN  IF p.thrown = "none" THEN JumpTo(p, code) ELSE JumpTo(o, INT_STACKOVERFLOW)

\* do_interruption as int_ calls it (the services 0x10 to 0x19, the debug
\* interruption and the fatal one are in Interruption).  256 passes the first
\* test and has no entry in the vector table.
DoInterruption(o, code) ==
    CASE code > MAX_INTERRUPTION_ENTRY -> Out(o.r, o.mem, "BadInterruption")
      [] code = INT_STACKOVERFLOW      -> JumpTo(o, code)
      [] code \in 32 .. MAX_INTERRUPTION_ENTRY /\ o.r.fg.im = 1 -> o
      [] code = MAX_INTERRUPTION_ENTRY /\ o.r.fg.im = 0 -> Out(o.r, o.mem, "BadInterruption")
      [] OTHER -> Deliver(o, code)

\* The catch clauses of execute().
Executed(o) ==
    CASE o.thrown = "StackOverflow"   -> JumpTo(o, INT_STACKOVERFLOW)
      [] o.thrown = "BadInterruption" -> Deliver(Out(o.r, o.mem, "none"), INT_BAD_INTR)
      [] o.thrown = "IllegalMemory"   -> Deliver(Out(o.r, o.mem, "none"), INT_ILLEGAL_MEMORY_ACCESS)
      [] OTHER -> o

-----------------------------------------------------------------------------
\* The instructions, from the state after decoding.
DoCall(o, cb, ip) ==
    LET p == Push(Push(o, 8, o.r.cb), 8, o.r.ip)
    IN  IF p.thrown = "none" THEN Out([p.r EXCEPT !.cb = cb, !.ip = ip], p.mem, "none") ELSE p

\* Mutant: CB is popped before IP.
DoRet_Swapped(o) ==
    LET p == Pop(o, 8)
        q == Pop(p, 8)
    IN  IF q.thrown = "none"
        THEN Out([q.r EXCEPT !.cb = Top(o, 8), !.ip = Top(p, 8)], q.mem, "none") ELSE q

DoRet(o) ==
    LET p == Pop(o, 8)
        q == Pop(p, 8)
    IN  IF q.thrown = "none"
        THEN Out([q.r EXCEPT !.ip = Top(o, 8), !.cb = Top(p, 8)], q.mem, "none") ELSE q

DoPush(o, w, i) == Push(o, w, Load(o.r.gp, w, i))
DoPop(o, w, i) ==
    LET p == Pop(o, w)
    IN  IF p.thrown = "none"
        THEN Out([p.r EXCEPT !.gp = Store(@, w, i, Top(o, w))], p.mem, "none") ELSE p

\* pushall_data: every register but CB and IP, SP as it was before the push.
DoPushAll(o) == Push(o, AllSize, o.r)
\* popall stores SP from the image over the one the pop left.
DoPopAll(o) ==
    LET p == Pop(o, AllSize)
    IN  IF p.thrown = "none"
        THEN Out([Top(o, AllSize) EXCEPT !.cb = o.r.cb, !.ip = o.r.ip], p.mem, "none") ELSE p

\* enter and leave move SP without looking at its bounds.
DoEnter(o, x) == Out([o.r EXCEPT !.cps = x, !.sp = (@ - x) % Word], o.mem, "none")
DoLeave(o) == Out([o.r EXCEPT !.sp = (@ + o.r.cps) % Word, !.cps = 0], o.mem, "none")

DoIret(o) ==
    LET p == Pop(o, ImageSize)
    IN  IF p.thrown = "none" THEN Out(Top(o, ImageSize), o.mem, "none") ELSE p

\* mov between register i and memory: a read outside the memory goes through
\* pop_memory_from, which reports it as a stack overflow.
DoLoad(o, a, i) ==
    IF a + 8 > MemSize THEN Out(o.r, o.mem, "StackOverflow")
    ELSE Out([o.r EXCEPT !.gp[i] = Read(o.mem, a, 8)], o.mem, "none")
DoStore(o, a, i) ==
    IF a + 8 > MemSize THEN Out(o.r, o.mem, "IllegalMemory")
    ELSE Out(o.r, Written(o.mem, a, 8, o.r.gp[i]), "none")

\* movs reads n = FER3 bytes from EB:EP into a buffer and writes them
\* to DB:DP: overlapping areas copy right.
DoMovs(o, src, dest, n) ==
    LET from == {b \in DOMAIN o.mem : src <= b /\ b + o.mem[b].n <= src + n}
        to == {b - src + dest : b \in from}
        kept == {b \in DOMAIN o.mem : Disjoint(dest, n, b, o.mem[b].n)}
    IN  IF src + n > MemSize \/ dest + n > MemSize
        THEN Out(o.r, o.mem, "IllegalMemory")
        ELSE Out(o.r, [b \in kept \cup to |->
                         IF b \in to THEN o.mem[b - dest + src] ELSE o.mem[b]], "none")

\* loop counts FER3 down and leaves the loop when it reaches zero.
DoLoop(o, cb, ip) ==
    LET cx == (o.r.gp[3] - 1) % Word
    IN  Out([o.r EXCEPT !.gp[3] = cx, !.cb = IF cx # 0 THEN cb ELSE @,
                        !.ip = IF cx # 0 THEN ip ELSE @], o.mem, "none")
=============================================================================
