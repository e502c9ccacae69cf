--------------------------- MODULE BootLoopProofs ---------------------------
(***************************************************************************)
(* Proofs about interruption delivery and the Boot loop, for every stack   *)
(* size, guest, set of codes and number of key presses.                    *)
(***************************************************************************)
EXTENDS BootLoop, TLAPS

-----------------------------------------------------------------------------
(* What delivery does to the registers and the stack.                      *)

\* Preserving the state and jumping to a vector yields a well-typed outcome.
LEMMA EnterType ==
    ASSUME NEW r \in RegisterFile, NEW s \in Stack, NEW code \in 0 .. 255, r.sp # 0
    PROVE  Enter(r, s, code) \in Outcome
<1> DEFINE p == [r EXCEPT !.sp = @ - 1]
<1>1. code \in Routine
  BY DEF Routine, Main, MAX_INTERRUPTION_ENTRY
<1>2. p \in RegisterFile
  BY StackFramesAssumption DEF RegisterFile
<1>3. JumpTo(p, code) \in RegisterFile
  BY <1>1, <1>2 DEF JumpTo, RegisterFile
<1>4. Preserved(r, s) \in Stack
  BY DEF Preserved, Stack
<1> QED
  BY <1>3, <1>4 DEF Enter, Out, Outcome, Thrown

\* Jumping without preserving the state does too.
LEMMA JumpType ==
    ASSUME NEW r \in RegisterFile, NEW s \in Stack, NEW code \in 0 .. 255, NEW t \in Thrown
    PROVE  Out(JumpTo(r, code), s, t) \in Outcome
<1>1. code \in Routine
  BY DEF Routine, Main, MAX_INTERRUPTION_ENTRY
<1>2. JumpTo(r, code) \in RegisterFile
  BY <1>1 DEF JumpTo, RegisterFile
<1> QED
  BY <1>2 DEF Out, Outcome

\* do_interruption with any code leaves a register file and a stack.
LEMMA DoInterruptionType ==
    ASSUME NEW r \in RegisterFile, NEW s \in Stack, NEW code \in Nat
    PROVE  DoInterruption(r, s, code) \in Outcome
<1> DEFINE o == DoInterruption(r, s, code)
<1>1. ASSUME NEW t \in Thrown PROVE Out(r, s, t) \in Outcome
  BY DEF Out, Outcome
<1>2. CASE code > 256
  BY <1>1, <1>2 DEF DoInterruption, MAX_INTERRUPTION_ENTRY, INT_FATAL, INT_STACKOVERFLOW,
     INT_DEBUG, Service, Maskable, Thrown
<1>3. CASE code \in {0, 7}
  BY <1>3, JumpType DEF DoInterruption, MAX_INTERRUPTION_ENTRY, INT_FATAL, INT_STACKOVERFLOW,
     INT_DEBUG, Service, Maskable,
     EnterUnsaved, Thrown
<1>4. CASE code = 3
  <2>1. o = DeliverDebug(r, s)
    BY <1>4 DEF DoInterruption, MAX_INTERRUPTION_ENTRY, INT_FATAL, INT_STACKOVERFLOW,
       INT_DEBUG, Service, Maskable
  <2>2. DeliverDebug(r, s) \in Outcome
    BY <1>1, EnterType DEF DeliverDebug, Thrown, INT_DEBUG
  <2> QED BY <2>1, <2>2
<1>5. CASE code \in 16 .. 25
  BY <1>1, <1>5 DEF DoInterruption, MAX_INTERRUPTION_ENTRY, INT_FATAL, INT_STACKOVERFLOW,
     INT_DEBUG, Service, Maskable, Thrown
<1>6. CASE code > 31 /\ code <= 256 /\ r.im
  BY <1>1, <1>6 DEF DoInterruption, MAX_INTERRUPTION_ENTRY, INT_FATAL, INT_STACKOVERFLOW,
     INT_DEBUG, Service, Maskable, Thrown
<1>7. CASE /\ code \notin {0, 3, 7} /\ code \notin 16 .. 25 /\ code <= 256
           /\ ~(code > 31 /\ r.im)
  <2>1. o = Deliver(r, s, code)
    BY <1>7 DEF DoInterruption, MAX_INTERRUPTION_ENTRY, INT_FATAL, INT_STACKOVERFLOW,
       INT_DEBUG, Service, Maskable
  <2>2. CASE code = 256
    BY <1>1, <2>1, <2>2 DEF Deliver, HasVector, Thrown
  <2>3. CASE code # 256
    <3>1. code \in 0 .. 255 /\ HasVector(code)
      BY <1>7, <2>3 DEF HasVector
    <3>2. CASE r.sp = 0
      BY <2>1, <3>1, <3>2, JumpType DEF Deliver, Thrown, INT_STACKOVERFLOW
    <3>3. CASE r.sp # 0
      BY <2>1, <3>1, <3>3, EnterType DEF Deliver
    <3> QED BY <3>2, <3>3
  <2> QED BY <2>2, <2>3
<1> QED BY <1>2, <1>3, <1>4, <1>5, <1>6, <1>7

\* The three things do_interruption can do: nothing, jump without saving to
\* 0x00 or 0x07, or save the state and jump to the vector of the code, which
\* for a maskable code needs a clear mask.
LEMMA DoInterruptionCases ==
    ASSUME NEW r \in RegisterFile, NEW s \in Stack, NEW code \in Nat
    PROVE  LET o == DoInterruption(r, s, code) IN
           \/ o.regs = r /\ o.stack = s
           \/ \E c \in {0, 7} : o.regs = JumpTo(r, c) /\ o.stack = s
           \/ /\ code \in 0 .. 255 /\ r.sp # 0 /\ (Maskable(code) => ~r.im)
              /\ o.regs = JumpTo([r EXCEPT !.sp = @ - 1], code)
              /\ o.stack = Preserved(r, s)
<1> DEFINE o == DoInterruption(r, s, code)
<1>1. CASE code > 256 \/ code \in 16 .. 25 \/ (code > 31 /\ code <= 256 /\ r.im)
  <2>1. o = Out(r, s, "none") \/ o = Out(r, s, "BadInterruption")
    BY <1>1 DEF DoInterruption, MAX_INTERRUPTION_ENTRY, INT_FATAL, INT_STACKOVERFLOW,
     INT_DEBUG, Service, Maskable
  <2> QED BY <2>1 DEF Out
<1>2. CASE code \in {0, 7}
  <2>1. o = EnterUnsaved(r, s, code)
    BY <1>2 DEF DoInterruption, MAX_INTERRUPTION_ENTRY, INT_FATAL, INT_STACKOVERFLOW,
     INT_DEBUG, Service, Maskable
  <2> QED BY <1>2, <2>1 DEF EnterUnsaved, Out
<1>3. CASE code = 3
  <2>1. o = DeliverDebug(r, s)
    BY <1>3 DEF DoInterruption, MAX_INTERRUPTION_ENTRY, INT_FATAL, INT_STACKOVERFLOW,
     INT_DEBUG, Service, Maskable
  <2>2. CASE r.sp = 0
    BY <2>1, <2>2 DEF DeliverDebug, Out
  <2>3. CASE r.sp # 0
    BY <1>3, <2>1, <2>3 DEF DeliverDebug, Enter, Out, INT_DEBUG, Maskable
  <2> QED BY <2>2, <2>3
<1>4. CASE /\ code \notin {0, 3, 7} /\ code \notin 16 .. 25 /\ code <= 256
           /\ ~(code > 31 /\ r.im)
  <2>1. o = Deliver(r, s, code)
    BY <1>4 DEF DoInterruption, MAX_INTERRUPTION_ENTRY, INT_FATAL, INT_STACKOVERFLOW,
     INT_DEBUG, Service, Maskable
  <2>2. CASE ~HasVector(code)
    BY <2>1, <2>2 DEF Deliver, Out
  <2>3. CASE HasVector(code) /\ r.sp = 0
    BY <2>1, <2>3 DEF Deliver, Out, INT_STACKOVERFLOW
  <2>4. CASE HasVector(code) /\ r.sp # 0
    <3>1. code \in 0 .. 255
      BY <2>4 DEF HasVector
    <3>2. o = Enter(r, s, code)
      BY <2>1, <2>4 DEF Deliver
    <3>3. Maskable(code) => ~r.im
      BY <1>4 DEF Maskable
    <3> QED BY <2>4, <3>1, <3>2, <3>3 DEF Enter, Out
  <2> QED BY <2>2, <2>3, <2>4
<1> QED BY <1>1, <1>2, <1>3, <1>4

-----------------------------------------------------------------------------
(* The properties of nested interruptions, as one predicate of a register  *)
(* file, a stack and the Ctrl+Z latch.                                     *)
Nesting(r, s, latch) ==
    /\ Intact(r, s)
    /\ MaskKept(r, s)
    /\ OnceUntilUnmasked(r, s, INT_SYSTEM_SHUTDOWN)
    /\ ~latch => Absent(r, s, INT_SYSTEM_SHUTDOWN)

\* Changing registers other than SP and CB:IP changes nothing of it.
LEMMA SameRoutineKeeps ==
    ASSUME NEW r \in RegisterFile, NEW q \in RegisterFile, NEW s \in Stack, NEW latch \in BOOLEAN,
           Nesting(r, s, latch), q.sp = r.sp, q.rtn = r.rtn
    PROVE  Nesting(q, s, latch)
BY DEF Nesting, Intact, MaskKept, OnceUntilUnmasked, Absent, RoutineAbove, Active

\* Nor does jumping to 0x00 or 0x07 without saving the state.
LEMMA JumpKeeps ==
    ASSUME NEW r \in RegisterFile, NEW s \in Stack, NEW latch \in BOOLEAN, NEW c \in {0, 7},
           Nesting(r, s, latch)
    PROVE  Nesting(JumpTo(r, c), s, latch)
<1> DEFINE q == JumpTo(r, c)
<1>1. q.sp = r.sp /\ q.rtn = c /\ r.sp \in 0 .. StackFrames
  BY DEF JumpTo, RegisterFile
<1> HIDE DEF q
<1>2. Intact(q, s)
  BY <1>1 DEF Nesting, Intact, Active
<1>3. \A i : i \in (r.sp + 1) .. (StackFrames + 1) =>
          \/ RoutineAbove(q, s, i) = RoutineAbove(r, s, i)
          \/ i = r.sp + 1 /\ RoutineAbove(q, s, i) = c
  BY <1>1 DEF RoutineAbove
<1>4. Active(q) = Active(r) /\ Active(r) \subseteq (r.sp + 1) .. (StackFrames + 1)
  BY <1>1, StackFramesAssumption DEF Active
<1>5. StackFrames + 1 \in (r.sp + 1) .. (StackFrames + 1)
  BY <1>1, StackFramesAssumption
<1>6. MaskKept(q, s)
  BY <1>3, <1>4, <1>5 DEF Nesting, MaskKept, Maskable
<1>7. OnceUntilUnmasked(q, s, INT_SYSTEM_SHUTDOWN)
  BY <1>3, <1>4 DEF Nesting, OnceUntilUnmasked, INT_SYSTEM_SHUTDOWN
<1>8. ~latch => Absent(q, s, INT_SYSTEM_SHUTDOWN)
  <2>1. Absent(r, s, INT_SYSTEM_SHUTDOWN) => Absent(q, s, INT_SYSTEM_SHUTDOWN)
    <3> SUFFICES ASSUME Absent(r, s, INT_SYSTEM_SHUTDOWN),
                        NEW i \in (r.sp + 1) .. (StackFrames + 1)
                 PROVE  RoutineAbove(q, s, i) # INT_SYSTEM_SHUTDOWN
      BY <1>1 DEF Absent
    <3> QED BY <1>3 DEF Absent, INT_SYSTEM_SHUTDOWN
  <2> QED BY <2>1 DEF Nesting
<1> QED BY <1>2, <1>6, <1>7, <1>8 DEF Nesting, q

\* Saving the state and jumping keeps it, when the mask allows the code and,
\* for the shutdown code, when no shutdown routine is active or the mask is
\* clear.
LEMMA EnterKeeps ==
    ASSUME NEW r \in RegisterFile, NEW s \in Stack, NEW code \in 0 .. 255,
           NEW latch \in BOOLEAN, NEW latch2 \in BOOLEAN,
           Nesting(r, s, latch), r.sp # 0, Maskable(code) => ~r.im,
           \/ code # INT_SYSTEM_SHUTDOWN /\ latch2 = latch
           \/ code = INT_SYSTEM_SHUTDOWN /\ latch2 /\ (~latch \/ ~r.im)
    PROVE  Nesting(JumpTo([r EXCEPT !.sp = @ - 1], code), Preserved(r, s), latch2)
<1> DEFINE q == JumpTo([r EXCEPT !.sp = @ - 1], code)
           t == Preserved(r, s)
<1>1. r.sp \in 1 .. StackFrames /\ StackFrames \in Nat
  BY StackFramesAssumption DEF RegisterFile
<1>2. q.sp = r.sp - 1 /\ q.rtn = code
  BY DEF JumpTo, RegisterFile
<1>3. t[r.sp] = r /\ \A i \in 1 .. StackFrames : i # r.sp => t[i] = s[i]
  BY <1>1 DEF Preserved, Stack
<1> HIDE DEF q, t
<1>4. /\ Active(q) = {r.sp} \cup Active(r)
      /\ \A i \in Active(r) : i > r.sp /\ i <= StackFrames /\ i \in Nat
  BY <1>1, <1>2 DEF Active
<1>5. /\ RoutineAbove(q, t, r.sp) = code
      /\ \A i \in (r.sp + 1) .. (StackFrames + 1) : RoutineAbove(q, t, i) = RoutineAbove(r, s, i)
  BY <1>1, <1>2, <1>3 DEF RoutineAbove
<1>6. \A i \in Active(r) : t[i] = s[i] /\ RoutineAbove(q, t, i) = RoutineAbove(r, s, i)
  BY <1>1, <1>3, <1>4, <1>5 DEF Active
<1>7. Intact(q, t)
  BY <1>3, <1>4, <1>6 DEF Nesting, Intact
<1>8. MaskKept(q, t)
  <2>1. \A i \in Active(q) : Maskable(RoutineAbove(q, t, i)) => ~t[i].im
    BY <1>3, <1>4, <1>5, <1>6 DEF Nesting, MaskKept
  <2>2. StackFrames + 1 \in (r.sp + 1) .. (StackFrames + 1)
    BY <1>1
  <2> QED BY <1>5, <2>1, <2>2 DEF Nesting, MaskKept
<1>9. ASSUME NEW i \in Active(q), NEW j \in Active(q), i < j,
             RoutineAbove(q, t, i) = INT_SYSTEM_SHUTDOWN,
             RoutineAbove(q, t, j) = INT_SYSTEM_SHUTDOWN
      PROVE  ~t[i].im
  <2>1. j \in Active(r)
    BY <1>1, <1>4, <1>9
  <2>2. CASE i \in Active(r)
    BY <1>6, <1>9, <2>1, <2>2 DEF Nesting, OnceUntilUnmasked
  <2>3. CASE i = r.sp
    <3>1. code = INT_SYSTEM_SHUTDOWN
      BY <1>5, <1>9, <2>3
    <3>2. RoutineAbove(r, s, j) = INT_SYSTEM_SHUTDOWN
      BY <1>6, <1>9, <2>1
    <3>3. j \in (r.sp + 1) .. (StackFrames + 1)
      BY <1>1, <2>1 DEF Active
    <3>4. latch
      BY <3>2, <3>3 DEF Nesting, Absent
    <3> QED BY <1>3, <2>3, <3>1, <3>4
  <2> QED BY <1>4, <2>2, <2>3
<1>10. ~latch2 => Absent(q, t, INT_SYSTEM_SHUTDOWN)
  <2> SUFFICES ASSUME ~latch2, NEW i \in (q.sp + 1) .. (StackFrames + 1)
               PROVE  RoutineAbove(q, t, i) # INT_SYSTEM_SHUTDOWN
    BY DEF Absent
  <2>1. i = r.sp \/ i \in (r.sp + 1) .. (StackFrames + 1)
    BY <1>1, <1>2
  <2> QED BY <1>5, <2>1 DEF Nesting, Absent
<1> QED BY <1>7, <1>8, <1>9, <1>10 DEF Nesting, OnceUntilUnmasked, q, t

\* Returning from an interruption keeps it.
LEMMA IretKeeps ==
    ASSUME NEW r \in RegisterFile, NEW s \in Stack, NEW latch \in BOOLEAN, Nesting(r, s, latch)
    PROVE  /\ Iret(r, s) \in Outcome
           /\ Nesting(Iret(r, s).regs, Iret(r, s).stack, latch)
<1>1. CASE r.sp = StackFrames
  <2>1. Iret(r, s) = Out(r, s, "StackOverflow")
    BY <1>1 DEF Iret
  <2> QED BY <2>1 DEF Out, Outcome, Thrown
<1>2. CASE r.sp # StackFrames
  <2> DEFINE q == s[r.sp + 1]
  <2>1. r.sp \in 0 .. (StackFrames - 1) /\ StackFrames \in Nat
    BY <1>2, StackFramesAssumption DEF RegisterFile
  <2>2. r.sp + 1 \in Active(r) /\ r.sp + 1 \in 1 .. StackFrames
    BY <2>1 DEF Active
  <2>3. q \in RegisterFile /\ q.sp = r.sp + 1
    BY <2>2 DEF Stack, Nesting, Intact
  <2>4. Iret(r, s) = Out(q, s, "none")
    BY <1>2 DEF Iret
  <2> HIDE DEF q
  <2>5. Active(q) \subseteq Active(r)
    BY <2>1, <2>3 DEF Active
  <2>6. \A i \in (q.sp + 1) .. (StackFrames + 1) :
            RoutineAbove(q, s, i) = RoutineAbove(r, s, i)
    BY <2>1, <2>3 DEF RoutineAbove, q
  <2>7. \A i \in Active(q) : RoutineAbove(q, s, i) = RoutineAbove(r, s, i)
    BY <2>1, <2>3, <2>6 DEF Active
  <2>8. StackFrames + 1 \in (q.sp + 1) .. (StackFrames + 1)
    BY <2>1, <2>3
  <2>9. Intact(q, s)
    BY <2>5 DEF Nesting, Intact
  <2>10. MaskKept(q, s)
    BY <2>5, <2>6, <2>7, <2>8 DEF Nesting, MaskKept
  <2>11. OnceUntilUnmasked(q, s, INT_SYSTEM_SHUTDOWN)
    BY <2>5, <2>7 DEF Nesting, OnceUntilUnmasked
  <2>12. Absent(r, s, INT_SYSTEM_SHUTDOWN) => Absent(q, s, INT_SYSTEM_SHUTDOWN)
    <3> SUFFICES ASSUME Absent(r, s, INT_SYSTEM_SHUTDOWN),
                        NEW i \in (q.sp + 1) .. (StackFrames + 1)
                 PROVE  RoutineAbove(q, s, i) # INT_SYSTEM_SHUTDOWN
      BY DEF Absent
    <3>1. i \in (r.sp + 1) .. (StackFrames + 1)
      BY <2>1, <2>3
    <3> QED BY <2>6, <3>1 DEF Absent
  <2>13. Nesting(q, s, latch)
    BY <2>9, <2>10, <2>11, <2>12 DEF Nesting
  <2> QED BY <2>3, <2>4, <2>13 DEF Out, Outcome, Thrown
<1> QED BY <1>1, <1>2

\* do_interruption keeps it for every code but the shutdown code.
LEMMA DoInterruptionKeeps ==
    ASSUME NEW r \in RegisterFile, NEW s \in Stack, NEW latch \in BOOLEAN,
           NEW code \in Nat, code # INT_SYSTEM_SHUTDOWN, Nesting(r, s, latch)
    PROVE  /\ DoInterruption(r, s, code) \in Outcome
           /\ Nesting(DoInterruption(r, s, code).regs, DoInterruption(r, s, code).stack, latch)
<1> DEFINE o == DoInterruption(r, s, code)
<1>1. CASE o.regs = r /\ o.stack = s
  BY <1>1, DoInterruptionType
<1>2. CASE \E c \in {0, 7} : o.regs = JumpTo(r, c) /\ o.stack = s
  BY <1>2, DoInterruptionType, JumpKeeps
<1>3. CASE /\ code \in 0 .. 255 /\ r.sp # 0 /\ (Maskable(code) => ~r.im)
           /\ o.regs = JumpTo([r EXCEPT !.sp = @ - 1], code)
           /\ o.stack = Preserved(r, s)
  BY <1>3, DoInterruptionType, EnterKeeps
<1> QED BY <1>1, <1>2, <1>3, DoInterruptionCases

\* Delivering the shutdown code sets the latch, and keeps it when the latch
\* was clear or the mask is.
LEMMA ShutdownKeeps ==
    ASSUME NEW r \in RegisterFile, NEW s \in Stack, NEW latch \in BOOLEAN,
           Nesting(r, s, latch), ~latch \/ ~r.im
    PROVE  LET o == DoInterruption(r, s, INT_SYSTEM_SHUTDOWN) IN
           o \in Outcome /\ Nesting(o.regs, o.stack, TRUE)
<1> DEFINE o == DoInterruption(r, s, INT_SYSTEM_SHUTDOWN)
<1>1. INT_SYSTEM_SHUTDOWN \in Nat /\ INT_SYSTEM_SHUTDOWN \in 0 .. 255
  BY DEF INT_SYSTEM_SHUTDOWN
<1>2. Nesting(r, s, TRUE)
  BY DEF Nesting
<1>3. CASE o.regs = r /\ o.stack = s
  BY <1>1, <1>2, <1>3, DoInterruptionType
<1>4. CASE \E c \in {0, 7} : o.regs = JumpTo(r, c) /\ o.stack = s
  BY <1>1, <1>2, <1>4, DoInterruptionType, JumpKeeps
<1>5. CASE /\ r.sp # 0
           /\ Maskable(INT_SYSTEM_SHUTDOWN) => ~r.im
           /\ o.regs = JumpTo([r EXCEPT !.sp = @ - 1], INT_SYSTEM_SHUTDOWN)
           /\ o.stack = Preserved(r, s)
  <2>1. Nesting(JumpTo([r EXCEPT !.sp = @ - 1], INT_SYSTEM_SHUTDOWN), Preserved(r, s), TRUE)
    BY <1>1, <1>5, EnterKeeps
  <2> QED BY <1>1, <1>5, <2>1, DoInterruptionType
<1>6. \/ o.regs = r /\ o.stack = s
      \/ \E c \in {0, 7} : o.regs = JumpTo(r, c) /\ o.stack = s
      \/ /\ r.sp # 0
         /\ Maskable(INT_SYSTEM_SHUTDOWN) => ~r.im
         /\ o.regs = JumpTo([r EXCEPT !.sp = @ - 1], INT_SYSTEM_SHUTDOWN)
         /\ o.stack = Preserved(r, s)
  BY <1>1, DoInterruptionCases
<1> QED BY <1>3, <1>4, <1>5, <1>6, Zenon

\* So do the handlers of what an instruction throws, and Boot's own.
LEMMA CaughtKeeps ==
    ASSUME NEW o \in Outcome, NEW latch \in BOOLEAN, Nesting(o.regs, o.stack, latch)
    PROVE  /\ Caught(o) \in Outcome
           /\ Nesting(Caught(o).regs, Caught(o).stack, latch)
           /\ CaughtByBoot(o) \in Outcome
           /\ Nesting(CaughtByBoot(o).regs, CaughtByBoot(o).stack, latch)
<1> DEFINE bad  == DoInterruption(o.regs, o.stack, INT_BAD_INTR)
           over == DoInterruption(o.regs, o.stack, INT_STACKOVERFLOW)
<1>1. o.regs \in RegisterFile /\ o.stack \in Stack
  BY DEF Outcome
<1>2. INT_BAD_INTR \in Nat /\ INT_STACKOVERFLOW \in Nat
      /\ INT_BAD_INTR # INT_SYSTEM_SHUTDOWN /\ INT_STACKOVERFLOW # INT_SYSTEM_SHUTDOWN
  BY DEF INT_BAD_INTR, INT_STACKOVERFLOW, INT_SYSTEM_SHUTDOWN
<1>3. bad \in Outcome /\ Nesting(bad.regs, bad.stack, latch)
  BY <1>1, <1>2, DoInterruptionKeeps
<1>4. over \in Outcome /\ Nesting(over.regs, over.stack, latch)
  BY <1>1, <1>2, DoInterruptionKeeps
<1>5. Caught(o) \in {o, bad, over}
  BY DEF Caught
<1>6. CaughtByBoot(o) \in {o, over}
  BY DEF CaughtByBoot
<1> HIDE DEF bad, over
<1> QED BY <1>3, <1>4, <1>5, <1>6

-----------------------------------------------------------------------------
(* The Boot loop.                                                          *)

\* The inductive invariant: types, the mutex, the request flag, the nesting.
IInv ==
    /\ TypeOK
    /\ LockInv
    /\ RequestInv
    /\ Nesting(regs, stack, have_I_invoked_shutdown)

\* The initial state of Boot satisfies it.
LEMMA InitIInv == Init => IInv
<1> SUFFICES ASSUME Init PROVE IInv
  OBVIOUS
<1> USE DEF Init
<1>1. ResetRegisters \in RegisterFile
  BY StackFramesAssumption DEF ResetRegisters, RegisterFile, Routine, Main, MAX_INTERRUPTION_ENTRY
<1>2. stack \in Stack
  BY <1>1 DEF Stack
<1>3. interruption_requests \in Seq(DevCodes)
  OBVIOUS
<1>4. TypeOK
  BY <1>1, <1>2, <1>3 DEF TypeOK, CpuPc, DevPc
<1>5. LockInv
  BY DEF LockInv, CpuInCS, DevInCS
<1>6. RequestInv
  BY DEF RequestInv, CpuInCS
<1>7. regs.sp = StackFrames /\ regs.rtn = -1
  BY DEF ResetRegisters, Main
<1>8. Active(regs) = {}
  BY <1>7, StackFramesAssumption DEF Active
<1>9. \A i \in (regs.sp + 1) .. (StackFrames + 1) : RoutineAbove(regs, stack, i) = -1
  BY <1>7, StackFramesAssumption DEF RoutineAbove
<1>10. Nesting(regs, stack, have_I_invoked_shutdown)
  <2>1. StackFrames + 1 \in (regs.sp + 1) .. (StackFrames + 1)
    BY <1>7, StackFramesAssumption
  <2>2. RoutineAbove(regs, stack, StackFrames + 1) = -1
    BY <1>9, <2>1
  <2>3. Intact(regs, stack) /\ OnceUntilUnmasked(regs, stack, INT_SYSTEM_SHUTDOWN)
    BY <1>8 DEF Intact, OnceUntilUnmasked
  <2>4. MaskKept(regs, stack)
    BY <1>8, <2>2 DEF MaskKept, Maskable
  <2>5. Absent(regs, stack, INT_SYSTEM_SHUTDOWN)
    <3>1. INT_SYSTEM_SHUTDOWN # -1
      BY DEF INT_SYSTEM_SHUTDOWN
    <3> QED BY <1>9, <3>1 DEF Absent
  <2> QED BY <2>3, <2>4, <2>5 DEF Nesting
<1> QED BY <1>4, <1>5, <1>6, <1>10 DEF IInv

\* The actions that leave the registers and the stack alone.
NoDelivery ==
    \/ CheckHalted \/ LockRequests \/ ClearRequests \/ UnlockRequests
    \/ ExecHlt \/ ExecFlushInput \/ InputKey \/ Device \/ Console

\* The types are kept by them.
LEMMA NoDeliveryType ==
    ASSUME TypeOK, NoDelivery
    PROVE  TypeOK' /\ UNCHANGED <<regs, stack, have_I_invoked_shutdown>>
<1> USE DEF TypeOK, CpuPc, DevPc, guestVars, consoleVars, requestVars, devVars
<1>1. CASE CheckHalted
  BY <1>1 DEF CheckHalted
<1>2. CASE LockRequests
  BY <1>2 DEF LockRequests
<1>3. CASE ClearRequests
  BY <1>3 DEF ClearRequests
<1>4. CASE UnlockRequests
  BY <1>4 DEF UnlockRequests
<1>5. CASE ExecHlt
  BY <1>5 DEF ExecHlt
<1>6. CASE ExecFlushInput
  BY <1>6 DEF ExecFlushInput
<1>7. CASE InputKey
  BY <1>7 DEF InputKey
<1>8. CASE DevTryLock
  BY <1>8 DEF DevTryLock
<1>9. CASE DevEmplace
  BY <1>9 DEF DevEmplace
<1>10. CASE DevFlag
  BY <1>10 DEF DevFlag
<1>11. CASE DevUnlock
  BY <1>11 DEF DevUnlock
<1>12. CASE Console
  <2> USE DEF OtherThreadsIdle
  <2>1. ASSUME NEW k \in TypedKey, Press(k) PROVE typed' \in [TypedKey -> Nat]
    BY <2>1 DEF Press
  <2>2. {"CtrlC", "CtrlZ", "Escape", "Key", "Break"} \subseteq TypedKey
    BY DEF TypedKey
  <2>3. CASE PressCtrlC
    BY <2>1, <2>2, <2>3 DEF PressCtrlC
  <2>4. CASE PressCtrlZ
    BY <2>1, <2>2, <2>4 DEF PressCtrlZ
  <2>5. CASE PressEscape
    BY <2>1, <2>2, <2>5 DEF PressEscape
  <2>6. CASE PressKey
    BY <2>1, <2>2, <2>6 DEF PressKey
  <2>7. CASE DebuggerBreak
    BY <2>1, <2>2, <2>7 DEF DebuggerBreak
  <2> QED BY <1>12, <2>3, <2>4, <2>5, <2>6, <2>7 DEF Console
<1> QED BY <1>1, <1>2, <1>3, <1>4, <1>5, <1>6, <1>7, <1>8, <1>9, <1>10, <1>11, <1>12
        DEF NoDelivery, Device

\* Registers, stack and latch are well-typed and keep the nesting properties
\* in a step that applies a good outcome and leaves the latch alone.
LEMMA ApplyKeeps ==
    ASSUME NEW o \in Outcome, Apply(o), have_I_invoked_shutdown \in BOOLEAN,
           Nesting(o.regs, o.stack, have_I_invoked_shutdown),
           UNCHANGED have_I_invoked_shutdown
    PROVE  /\ regs' \in RegisterFile /\ stack' \in Stack
           /\ have_I_invoked_shutdown' \in BOOLEAN
           /\ Nesting(regs', stack', have_I_invoked_shutdown')
BY DEF Apply, Outcome

\* Every step of the system keeps the register file, the stack and the
\* nesting properties.
LEMMA DeliveryKept ==
    ASSUME TypeOK, Nesting(regs, stack, have_I_invoked_shutdown), Next
    PROVE  /\ regs' \in RegisterFile /\ stack' \in Stack
           /\ have_I_invoked_shutdown' \in BOOLEAN
           /\ Nesting(regs', stack', have_I_invoked_shutdown')
<1> DEFINE Goal == /\ regs' \in RegisterFile /\ stack' \in Stack
                   /\ have_I_invoked_shutdown' \in BOOLEAN
                   /\ Nesting(regs', stack', have_I_invoked_shutdown')
<1>1. /\ regs \in RegisterFile /\ stack \in Stack
      /\ have_I_invoked_shutdown \in BOOLEAN
  BY DEF TypeOK
<1>2. CASE NoDelivery
  BY <1>1, <1>2, NoDeliveryType
<1>3. ASSUME NEW code \in Nat, code # INT_SYSTEM_SHUTDOWN
      PROVE  LET o == DoInterruption(regs, stack, code) IN
             o \in Outcome /\ Nesting(o.regs, o.stack, have_I_invoked_shutdown)
  BY <1>1, <1>3, DoInterruptionKeeps
<1>4. ASSUME NEW o \in Outcome, Nesting(o.regs, o.stack, have_I_invoked_shutdown), Executes(o)
      PROVE  Goal
  <2>1. Caught(o) \in Outcome /\ Nesting(Caught(o).regs, Caught(o).stack, have_I_invoked_shutdown)
    BY <1>1, <1>4, CaughtKeeps
  <2>2. Apply(Caught(o)) /\ UNCHANGED have_I_invoked_shutdown
    BY <1>4 DEF Executes
  <2> QED BY <1>1, <2>1, <2>2, ApplyKeeps
<1>5. ASSUME NEW q \in RegisterFile, q.sp = regs.sp, q.rtn = regs.rtn
      PROVE  /\ Out(q, stack, "none") \in Outcome
             /\ Out(q, stack, "none").regs = q /\ Out(q, stack, "none").stack = stack
             /\ Nesting(q, stack, have_I_invoked_shutdown)
  BY <1>1, <1>5, SameRoutineKeeps DEF Out, Outcome, Thrown
<1>6. ASSUME NEW b \in BOOLEAN
      PROVE  /\ [regs EXCEPT !.im = b] \in RegisterFile
             /\ [regs EXCEPT !.im = b].sp = regs.sp /\ [regs EXCEPT !.im = b].rtn = regs.rtn
             /\ [regs EXCEPT !.rd = b] \in RegisterFile
             /\ [regs EXCEPT !.rd = b].sp = regs.sp /\ [regs EXCEPT !.rd = b].rtn = regs.rtn
  BY <1>1 DEF RegisterFile
<1>7. CASE CaptureKeyboardAbort
  <2> DEFINE o == DoInterruption(regs, stack, INT_ABORT)
  <2>1. INT_ABORT \in Nat /\ INT_ABORT # INT_SYSTEM_SHUTDOWN
    BY DEF INT_ABORT, INT_SYSTEM_SHUTDOWN
  <2>2. o \in Outcome /\ Nesting(o.regs, o.stack, have_I_invoked_shutdown)
    BY <1>3, <2>1
  <2>3. /\ CaughtByBoot(o) \in Outcome
        /\ Nesting(CaughtByBoot(o).regs, CaughtByBoot(o).stack, have_I_invoked_shutdown)
    BY <1>1, <2>2, CaughtKeeps
  <2>4. CASE KeyboardIntAbort
    <3>1. Apply(CaughtByBoot(o)) /\ UNCHANGED have_I_invoked_shutdown
      BY <1>7, <2>4 DEF CaptureKeyboardAbort
    <3> QED BY <1>1, <2>3, <3>1, ApplyKeeps
  <2>5. CASE ~KeyboardIntAbort
    BY <1>1, <1>7, <2>5 DEF CaptureKeyboardAbort, guestVars
  <2> QED BY <2>4, <2>5
<1>8. CASE ServeRequest
  <2> DEFINE code == interruption_requests[served + 1]
             o == DoInterruption(regs, stack, code)
  <2>1. CASE served < Len(interruption_requests)
    <3>1. code \in DevCodes
      BY <2>1 DEF TypeOK
    <3>2. code \in Nat /\ code # INT_SYSTEM_SHUTDOWN
      <4>1. DevCodes \subseteq 32 .. 255
        BY BootLoopAssumption DEF MAX_INTERRUPTION_ENTRY
      <4>2. \A c \in DevCodes : c \in Nat /\ c # 9
        BY <4>1
      <4> HIDE DEF code
      <4> QED BY <3>1, <4>2 DEF INT_SYSTEM_SHUTDOWN
    <3>3. o \in Outcome /\ Nesting(o.regs, o.stack, have_I_invoked_shutdown)
      BY <1>3, <3>2
    <3>4. /\ CaughtByBoot(o) \in Outcome
          /\ Nesting(CaughtByBoot(o).regs, CaughtByBoot(o).stack, have_I_invoked_shutdown)
      BY <1>1, <3>3, CaughtKeeps
    <3>5. Apply(CaughtByBoot(o)) /\ UNCHANGED have_I_invoked_shutdown
      BY <1>8, <2>1 DEF ServeRequest
    <3> QED BY <1>1, <3>4, <3>5, ApplyKeeps
  <2>2. CASE ~(served < Len(interruption_requests))
    BY <1>1, <1>8, <2>2 DEF ServeRequest, guestVars
  <2> QED BY <2>1, <2>2
<1>9. CASE CaptureShutdown
  <2> DEFINE o == DoInterruption(regs, stack, INT_SYSTEM_SHUTDOWN)
             due == CtrlZShutdownRequested /\ (~have_I_invoked_shutdown \/ ~regs.im)
  <2>1. CASE due
    <3>1. o \in Outcome /\ Nesting(o.regs, o.stack, TRUE)
      BY <1>1, <2>1, ShutdownKeeps
    <3>2. /\ CaughtByBoot(o) \in Outcome
          /\ Nesting(CaughtByBoot(o).regs, CaughtByBoot(o).stack, TRUE)
      BY <3>1, CaughtKeeps
    <3>3. Apply(CaughtByBoot(o)) /\ have_I_invoked_shutdown' = TRUE
      BY <1>9, <2>1 DEF CaptureShutdown, InvokeShutdown
    <3> QED BY <3>2, <3>3 DEF Apply, Outcome
  <2>2. CASE ~due
    BY <1>1, <1>9, <2>2 DEF CaptureShutdown, guestVars
  <2> QED BY <2>1, <2>2
<1>10. CASE ExecPlain
  <2>1. Executes(Out(regs, stack, "none"))
    BY <1>10 DEF ExecPlain
  <2> QED BY <1>1, <1>4, <1>5, <2>1
<1>11. CASE ExecInt
  <2>1. PICK c \in IntCodes : Executes(DoInterruption(regs, stack, c))
    BY <1>11 DEF ExecInt
  <2>2. c \in Nat /\ c # INT_SYSTEM_SHUTDOWN
    BY BootLoopAssumption
  <2> QED BY <1>3, <1>4, <2>1, <2>2
<1>12. CASE ExecFault
  <2>1. PICK c \in FaultCodes : Executes(DoInterruption(regs, stack, c))
    BY <1>12 DEF ExecFault
  <2>2. c \in Nat /\ c # INT_SYSTEM_SHUTDOWN
    BY BootLoopAssumption DEF INT_SYSTEM_SHUTDOWN
  <2> QED BY <1>3, <1>4, <2>1, <2>2
<1>13. CASE ExecIret
  <2>1. Executes(Iret(regs, stack))
    BY <1>13 DEF ExecIret
  <2> QED BY <1>1, <1>4, <2>1, IretKeeps
<1>14. CASE ExecAlwi
  <2>1. Executes(Out([regs EXCEPT !.im = FALSE], stack, "none"))
    BY <1>14 DEF ExecAlwi
  <2> QED BY <1>4, <1>5, <1>6, <2>1
<1>15. CASE ExecIgni
  <2>1. Executes(Out([regs EXCEPT !.im = TRUE], stack, "none"))
    BY <1>15 DEF ExecIgni
  <2> QED BY <1>4, <1>5, <1>6, <2>1
<1>16. CASE ExecGetInput
  BY <1>1, <1>5, <1>6, <1>16 DEF ExecGetInput
<1>17. CASE InputFlags
  BY <1>1, <1>5, <1>6, <1>17 DEF InputFlags
<1>18. CASE InputDevice
  <2> DEFINE q == [regs EXCEPT !.rd = TRUE, !.im = FALSE]
  <2>1. q \in RegisterFile /\ q.sp = regs.sp /\ q.rtn = regs.rtn
    BY <1>1 DEF RegisterFile
  <2>2. regs' \in {q, regs} /\ UNCHANGED <<stack, have_I_invoked_shutdown>>
    BY <1>18 DEF InputDevice
  <2> QED BY <1>1, <1>5, <2>1, <2>2
<1> QED
  BY <1>2, <1>7, <1>8, <1>9, <1>10, <1>11, <1>12, <1>13, <1>14, <1>15, <1>16, <1>17, <1>18
     DEF Next, Cpu, Execute, NoDelivery

\* Every step keeps the types.
LEMMA TypeKept ==
    ASSUME TypeOK, Nesting(regs, stack, have_I_invoked_shutdown), Next
    PROVE  TypeOK'
<1>1. /\ regs' \in RegisterFile /\ stack' \in Stack
      /\ have_I_invoked_shutdown' \in BOOLEAN
  BY DeliveryKept
<1> USE <1>1 DEF TypeOK, CpuPc, DevPc, guestVars, consoleVars, requestVars, devVars
<1>2. CASE NoDelivery
  BY <1>2, NoDeliveryType
<1>3. CASE CaptureKeyboardAbort
  BY <1>3 DEF CaptureKeyboardAbort
<1>4. CASE ServeRequest
  <2>1. UNCHANGED <<consoleVars, External_Int_Req_Vec_Protector, interruption_requests, devVars>>
    BY <1>4 DEF ServeRequest
  <2>2. pc' \in CpuPc /\ served' \in Nat
    BY <1>4 DEF ServeRequest
  <2>3. external_device_requested' \in BOOLEAN
    BY <1>4 DEF ServeRequest
  <2>4. aborted' \in {aborted, aborted \cup {"device"}}
    BY <1>4 DEF ServeRequest
  <2>5. aborted' \subseteq {"keyboard", "device"}
    BY <2>4
  <2> QED BY <2>1, <2>2, <2>3, <2>5
<1>5. CASE CaptureShutdown
  BY <1>5 DEF CaptureShutdown, InvokeShutdown
<1>6. ASSUME NEW o, Executes(o) PROVE TypeOK'
  BY <1>6 DEF Executes
<1>7. CASE ExecPlain \/ ExecInt \/ ExecFault \/ ExecIret \/ ExecAlwi \/ ExecIgni
  BY <1>6, <1>7 DEF ExecPlain, ExecInt, ExecFault, ExecIret, ExecAlwi, ExecIgni
<1>8. CASE ExecGetInput
  BY <1>8 DEF ExecGetInput
<1>9. CASE InputFlags
  BY <1>9 DEF InputFlags
<1>10. CASE InputDevice
  BY <1>10 DEF InputDevice
<1> QED
  BY <1>2, <1>3, <1>4, <1>5, <1>7, <1>8, <1>9, <1>10 DEF Next, Cpu, Execute, NoDelivery

\* The steps of the CPU thread from "shutdown?" through execute() back to the
\* head of the loop, and those of the console: they are outside the critical
\* section and leave the request vector alone.
Outside ==
    /\ UNCHANGED <<External_Int_Req_Vec_Protector, interruption_requests,
                   external_device_requested, served, dev, devCode, aborted>>
    /\ pc' # pc => ~CpuInCS /\ ~CpuInCS'

\* All steps but those of the critical sections are of that kind.
LEMMA OutsideSteps ==
    ASSUME TypeOK, Next
    PROVE  \/ Outside \/ CaptureKeyboardAbort \/ LockRequests \/ ServeRequest
           \/ ClearRequests \/ UnlockRequests \/ Device
<1> USE DEF Outside, CpuInCS, guestVars, consoleVars, requestVars, devVars
<1>1. CASE CheckHalted
  BY <1>1 DEF CheckHalted
<1>2. CASE CaptureShutdown
  BY <1>2 DEF CaptureShutdown
<1>3. ASSUME NEW o, NEW op, AtInstruction(op), Executes(o) PROVE Outside
  BY <1>3 DEF Executes, AtInstruction
<1>4. CASE ExecPlain \/ ExecInt \/ ExecFault \/ ExecIret \/ ExecAlwi \/ ExecIgni
  BY <1>3, <1>4 DEF ExecPlain, ExecInt, ExecFault, ExecIret, ExecAlwi, ExecIgni
<1>5. CASE ExecHlt \/ ExecFlushInput \/ ExecGetInput
  BY <1>5 DEF ExecHlt, ExecFlushInput, ExecGetInput, AtInstruction
<1>6. CASE InputFlags \/ InputKey \/ InputDevice
  BY <1>6 DEF InputFlags, InputKey, InputDevice
<1>7. CASE Console
  BY <1>7 DEF Console, PressCtrlC, PressCtrlZ, PressEscape, PressKey, DebuggerBreak,
              OtherThreadsIdle
<1> QED BY <1>1, <1>2, <1>4, <1>5, <1>6, <1>7 DEF Next, Cpu, Execute

\* The mutex stays with the thread that is in its critical section.
LEMMA LockKept ==
    ASSUME TypeOK, LockInv, Next
    PROVE  LockInv'
<1> USE DEF LockInv, CpuInCS, DevInCS, requestVars, devVars
<1>1. CASE Outside
  BY <1>1 DEF Outside
<1>2. CASE CaptureKeyboardAbort
  BY <1>2 DEF CaptureKeyboardAbort
<1>3. CASE LockRequests
  BY <1>3 DEF LockRequests
<1>4. CASE ServeRequest
  BY <1>4 DEF ServeRequest
<1>5. CASE ClearRequests
  BY <1>5 DEF ClearRequests
<1>6. CASE UnlockRequests
  BY <1>6 DEF UnlockRequests
<1>7. CASE Device
  BY <1>7 DEF Device, DevTryLock, DevEmplace, DevFlag, DevUnlock
<1> QED BY <1>1, <1>2, <1>3, <1>4, <1>5, <1>6, <1>7, OutsideSteps

\* The flag keeps saying what the vector holds.
LEMMA RequestKept ==
    ASSUME TypeOK, LockInv, RequestInv, Next
    PROVE  RequestInv'
<1> USE DEF RequestInv, LockInv, CpuInCS, DevInCS, requestVars, devVars
<1>1. CASE Outside
  BY <1>1 DEF Outside
<1>2. CASE CaptureKeyboardAbort
  BY <1>2 DEF CaptureKeyboardAbort
<1>3. CASE LockRequests
  BY <1>3 DEF LockRequests, TypeOK, DevPc
<1>4. CASE ServeRequest
  BY <1>4 DEF ServeRequest, TypeOK
<1>5. CASE ClearRequests
  BY <1>5 DEF ClearRequests
<1>6. CASE UnlockRequests
  BY <1>6 DEF UnlockRequests
<1>7. CASE Device
  BY <1>7 DEF Device, DevTryLock, DevEmplace, DevFlag, DevUnlock, TypeOK
<1> QED BY <1>1, <1>2, <1>3, <1>4, <1>5, <1>6, <1>7, OutsideSteps

\* The inductive invariant is kept by every step and by stuttering.
LEMMA NextIInv == IInv /\ [Next]_vars => IInv'
<1> SUFFICES ASSUME IInv, [Next]_vars PROVE IInv'
  OBVIOUS
<1>1. CASE Next
  <2>1. TypeOK'
    BY <1>1, TypeKept DEF IInv
  <2>2. LockInv' /\ RequestInv'
    BY <1>1, LockKept, RequestKept DEF IInv
  <2>3. Nesting(regs', stack', have_I_invoked_shutdown')
    BY <1>1, DeliveryKept DEF IInv
  <2> QED BY <2>1, <2>2, <2>3 DEF IInv
<1>2. CASE UNCHANGED vars
  BY <1>2 DEF IInv, vars, guestVars, consoleVars, requestVars, devVars, TypeOK,
              LockInv, RequestInv, CpuInCS, DevInCS
<1> QED BY <1>1, <1>2

\* Every reachable state satisfies the inductive invariant.
THEOREM Invariance == Spec => []IInv
BY InitIInv, NextIInv, PTL DEF Spec

\* The variables of Boot and of the threads around it keep their types; no
\* delivery moves SP below the guest's stack.
THEOREM TypeCorrect == Spec => []TypeOK
<1>1. IInv => TypeOK
  BY DEF IInv
<1> QED BY <1>1, Invariance, PTL

\* interruption_requests is used by one thread at a time, for every number of
\* requests and of device codes, as long as no 0x05 overflowed the stack.
THEOREM MutualExclusion == Spec => []RequestsExclusive
<1>1. IInv => RequestsExclusive
  BY DEF IInv, LockInv, RequestsExclusive
<1> QED BY <1>1, Invariance, PTL

\* Outside the critical sections the flag INT 0x14 reads tells exactly whether
\* a request is queued.
THEOREM FlagTellsTruth == Spec => []FlagMatchesQueue
<1>1. IInv => FlagMatchesQueue
  BY DEF IInv, TypeOK, DevPc, RequestInv, FlagMatchesQueue, DevInCS
<1> QED BY <1>1, Invariance, PTL

\* Every suspended routine gets back the stack pointer it was suspended with.
THEOREM ImagesStayIntact == Spec => []ImagesIntact
<1>1. IInv => ImagesIntact
  BY DEF IInv, Nesting, ImagesIntact
<1> QED BY <1>1, Invariance, PTL

\* No maskable routine ever suspended a routine that ran with the mask set.
THEOREM MaskIsRespected == Spec => []MaskRespected
<1>1. IInv => MaskRespected
  BY DEF IInv, Nesting, MaskRespected
<1> QED BY <1>1, Invariance, PTL

\* A second Ctrl+Z never interrupts a routine that runs with the mask set.
THEOREM ShutdownRunsOnce == Spec => []ShutdownOnce
<1>1. IInv => ShutdownOnce
  BY DEF IInv, Nesting, ShutdownOnce
<1> QED BY <1>1, Invariance, PTL
=============================================================================
