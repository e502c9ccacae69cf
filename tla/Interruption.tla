---------------------------- MODULE Interruption ----------------------------
(***************************************************************************)
(* Interruption delivery of the Sysdarft CPU                               *)
(* (cpu/SysdarftCPUInterruption.cpp): what do_interruption and do_iret do  *)
(* to the register file and to the stack.                                  *)
(*                                                                         *)
(* The register file keeps the registers delivery depends on:              *)
(*   im   the Interruption Mask bit of FG                                  *)
(*   sp   the stack pointer, in units of one saved register file: the      *)
(*        stack grows from StackFrames (empty) down to 0 (full)            *)
(*   rtn  which routine CB:IP lies in: the code of the interruption whose  *)
(*        vector was jumped to last, or Main                               *)
(*   rd   TRUE when IP points at an INT 0x14 that was reverted and is to   *)
(*        be executed again                                                *)
(* All other registers travel with these, unread, in the saved images.     *)
(***************************************************************************)
EXTENDS Integers

CONSTANT StackFrames    \* register files the guest's stack has room for

ASSUME StackFramesAssumption == StackFrames \in Nat \ {0}

INT_FATAL           == 0
INT_DEBUG           == 3
INT_BAD_INTR        == 4
INT_ABORT           == 5
INT_STACKOVERFLOW   == 7
INT_SYSTEM_SHUTDOWN == 9
INT_GET_INPUT       == 20

\* INTERRUPTION_VEC_LN / 16: one more than the last vector of the table.
MAX_INTERRUPTION_ENTRY == 256

\* do_interruption_lookup: vectors 0..255 lie below INTERRUPTION_VEC_ED.
HasVector(code) == 16 * code < 4095

Main     == -1
Routine  == Main .. (MAX_INTERRUPTION_ENTRY - 1)
Maskable(code) == code > 31

\* The interruptions served inside the CPU, without a vector.
Service == 16 .. 25

RegisterFile == [im : BOOLEAN, sp : 0 .. StackFrames, rtn : Routine, rd : BOOLEAN]
Stack        == [1 .. StackFrames -> RegisterFile]

ResetRegisters == [im |-> FALSE, sp |-> StackFrames, rtn |-> Main, rd |-> FALSE]

-----------------------------------------------------------------------------
(***************************************************************************)
(* The outcome of delivering an interruption: the registers and the stack  *)
(* it leaves, and what it throws to its caller ("none" when it returns).   *)
(***************************************************************************)
Thrown  == {"none", "Abort", "StackOverflow", "BadInterruption", "OutOfRange"}
Outcome == [regs : RegisterFile, stack : Stack, thrown : Thrown]

Out(r, s, t) == [regs |-> r, stack |-> s, thrown |-> t]

\* set_mask or mask_fg, then do_jump_table.
JumpTo(r, code) == [r EXCEPT !.im = TRUE, !.rtn = code, !.rd = FALSE]

\* Mutant: SP is stored before the registers are pushed.
Preserved_AfterStore(r, s) == [s EXCEPT ![r.sp] = [r EXCEPT !.sp = @ - 1]]

\* do_preserve_cpu_state: the image holds SP as it was before the push.
Preserved(r, s) == [s EXCEPT ![r.sp] = r]

\* Mask and jump after the state was preserved.
Enter(r, s, code) ==
    Out(JumpTo([r EXCEPT !.sp = @ - 1], code), Preserved(r, s), "none")

\* 0x00 and 0x07 preserve nothing.
EnterUnsaved(r, s, code) == Out(JumpTo(r, code), s, "none")

\* Mutant: the push does not look for room on the stack.
Deliver_NoRoomTest(r, s, code) ==
    IF ~HasVector(code) THEN Out(r, s, "OutOfRange") ELSE Enter(r, s, code)

\* The local lambda of do_interruption: a stack with no room for the state
\* redirects to the 0x07 vector and aborts whatever was being executed.
Deliver(r, s, code) ==
    CASE ~HasVector(code) -> Out(r, s, "OutOfRange")
      [] HasVector(code) /\ r.sp = 0 ->
            Out(JumpTo(r, INT_STACKOVERFLOW), s, "Abort")
      [] OTHER -> Enter(r, s, code)

\* do_interruption_debug_0x03 lets the StackOverflow out.
DeliverDebug(r, s) ==
    IF r.sp = 0 THEN Out(r, s, "StackOverflow") ELSE Enter(r, s, INT_DEBUG)

\* Mutant: the mask is not consulted for codes above 0x1F.
DoInterruption_Unmasked(r, s, code) ==
    CASE code > MAX_INTERRUPTION_ENTRY           -> Out(r, s, "BadInterruption")
      [] code \in {INT_FATAL, INT_STACKOVERFLOW} -> EnterUnsaved(r, s, code)
      [] code = INT_DEBUG                        -> DeliverDebug(r, s)
      [] code \in Service                        -> Out(r, s, "none")
      [] OTHER                                   -> Deliver(r, s, code)

(***************************************************************************)
(* do_interruption.  After an unmaskable delivery the code falls through   *)
(* to the test of fg.InterruptionMask, which mask_fg has just set, so the  *)
(* second delivery never happens; JumpTo sets im for that reason.          *)
(***************************************************************************)
DoInterruption(r, s, code) ==
    CASE code > MAX_INTERRUPTION_ENTRY           -> Out(r, s, "BadInterruption")
      [] code \in {INT_FATAL, INT_STACKOVERFLOW} -> EnterUnsaved(r, s, code)
      [] code = INT_DEBUG                        -> DeliverDebug(r, s)
      [] code \in Service                        -> Out(r, s, "none")
      [] Maskable(code) /\ code <= MAX_INTERRUPTION_ENTRY /\ r.im -> Out(r, s, "none")
      [] OTHER                                   -> Deliver(r, s, code)

\* execute(): what was thrown by an instruction becomes an interruption, and
\* an abort raised while delivering that one ends the instruction.
Caught(o) ==
    CASE o.thrown \in {"BadInterruption", "OutOfRange"} ->
            DoInterruption(o.regs, o.stack, INT_BAD_INTR)
      [] o.thrown = "StackOverflow" ->
            DoInterruption(o.regs, o.stack, INT_STACKOVERFLOW)
      [] OTHER -> o

\* do_iret: the whole register file, SP and IM included, comes back from the
\* stack; reading above the end of the memory is a StackOverflow.
Iret(r, s) ==
    IF r.sp = StackFrames
    THEN Out(r, s, "StackOverflow")
    ELSE Out(s[r.sp + 1], s, "none")

-----------------------------------------------------------------------------
\* The slots that hold images of suspended routines.
Active(r) == (r.sp + 1) .. StackFrames

\* The routine that runs on top of the image saved in slot i; for i one above
\* the last slot, the routine that everything else suspended.
RoutineAbove(r, s, i) == IF i = r.sp + 1 THEN r.rtn ELSE s[i - 1].rtn

\* Each image gives back the stack pointer that its push found.
Intact(r, s) == \A i \in Active(r) : s[i].sp = i

\* Maskable routines only suspended routines that ran with the mask clear.
MaskKept(r, s) ==
    /\ \A i \in Active(r) : Maskable(RoutineAbove(r, s, i)) => ~s[i].im
    /\ ~Maskable(RoutineAbove(r, s, StackFrames + 1))

\* Routine c is not running and not suspended.
Absent(r, s, c) ==
    \A i \in (r.sp + 1) .. (StackFrames + 1) : RoutineAbove(r, s, i) # c

\* Of the activations of routine c only the outermost one may have suspended
\* a routine that ran with the mask set.
OnceUntilUnmasked(r, s, c) ==
    \A i, j \in Active(r) :
        i < j /\ RoutineAbove(r, s, i) = c /\ RoutineAbove(r, s, j) = c => ~s[i].im
=============================================================================
