------------------------ MODULE RealTimeClockProofs -------------------------
(***************************************************************************)
(* The clock's worker loads two fields, one of them three times, that the  *)
(* CPU thread stores one by one: what it asks for was programmed at some   *)
(* time, and its period is steady, for every set of numbers and scales and *)
(* every bound.                                                            *)
(***************************************************************************)
EXTENDS RealTimeClock, TLAPS

\* What the proofs need to know of the types.
ClockType ==
    /\ interruption_scale \in Scales \cup {0}
    /\ interruption_number \in Numbers \cup {0}
    /\ store \in Numbers \cup {None}
    /\ scale_count \in Nat
    /\ gap \in 0 .. MaxGap
    /\ last \in 0 .. MaxGap \cup {None}
    /\ worker \in {"count", "above", "below", "ask"}
    /\ steady \in BOOLEAN

\* Where a number may be seen: half stored, stored, or in a request under way.
\* Once the first test has found a number, no later load can miss one.
NumbersAccepted ==
    /\ worker \in {"below", "ask"} => interruption_number > 31
    /\ store # None => store \in accepted /\ store > 31
    /\ interruption_number > 31 => interruption_number \in accepted
    /\ AsksOnlyProgrammed

\* The turns that have passed and those to come make up the scale that was
\* loaded, as long as it is still the scale that is programmed.
CountsUp == steady => gap + scale_count = interruption_scale

\* The interval before, if it was steady, was that long too.
LastKept == steady /\ last # None => last = interruption_scale

IInv == ClockType /\ NumbersAccepted /\ CountsUp /\ LastKept

\* The clock as RealTimeClock's constructor leaves it.
LEMMA InitIInv == Init => IInv
BY RealTimeClockAssumption DEF Init, IInv, ClockType, NumbersAccepted, CountsUp, LastKept, AsksOnlyProgrammed

\* The accesses of the CPU thread keep it.
LEMMA GuestKeeps == ASSUME IInv, Guest PROVE IInv'
<1> USE RealTimeClockAssumption
    DEF IInv, ClockType, NumbersAccepted, CountsUp, LastKept, AsksOnlyProgrammed, hostVars, workerVars
<1>1. CASE ReadTime
  BY <1>1 DEF ReadTime
<1>2. CASE WriteTime
  BY <1>2 DEF WriteTime
<1>3. CASE RefuseProgram
  BY <1>3 DEF RefuseProgram
<1>4. CASE Program
  <2>1. PICK n \in Numbers, s \in Scales :
           /\ n > 31
           /\ interruption_scale' = s /\ store' = n
           /\ accepted' = accepted \cup {n}
    BY <1>4 DEF Program, Acceptable
  <2>2. /\ steady' = FALSE
        /\ UNCHANGED <<interruption_number, scale_count, worker, gap, last, asked>>
    BY <1>4 DEF Program
  <2>3. ClockType'
    BY <2>1, <2>2
  <2>4. NumbersAccepted'
    BY <2>1, <2>2
  <2>5. CountsUp' /\ LastKept'
    BY <2>2
  <2> QED BY <2>3, <2>4, <2>5
<1>5. CASE StoreNumber
  BY <1>5 DEF StoreNumber
<1> QED BY <1>1, <1>2, <1>3, <1>4, <1>5 DEF Guest

\* So do the steps of the worker's turn: the countdown never reaches the
\* point where gap stops counting while nothing is programmed.
LEMMA WorkerKeeps == ASSUME IInv, Worker PROVE IInv'
<1> USE RealTimeClockAssumption
    DEF IInv, ClockType, NumbersAccepted, CountsUp, LastKept, AsksOnlyProgrammed, hostVars
<1>1. CASE CountDown
  <2>1. CASE scale_count # 0
    <3>1. /\ scale_count' = scale_count - 1 /\ gap' = Longer(gap)
          /\ UNCHANGED <<worker, last, steady, interruption_scale, interruption_number, store,
                         asked, accepted>>
      BY <1>1, <2>1 DEF CountDown
    <3>2. gap' \in 0 .. MaxGap
      BY <3>1 DEF Longer
    <3>3. steady => gap < MaxGap
      BY <2>1
    <3> QED BY <2>1, <3>1, <3>2, <3>3 DEF Longer
  <2>2. CASE scale_count = 0
    BY <1>1, <2>2 DEF CountDown
  <2> QED BY <2>1, <2>2
<1>2. CASE TestAbove \/ TestBelow
  BY <1>2 DEF TestAbove, TestBelow, Test, MAX_INTERRUPTION_ENTRY
<1>3. CASE Ask
  BY <1>3 DEF Ask
<1> QED BY <1>1, <1>2, <1>3 DEF Worker

\* Every step keeps the inductive invariant.
LEMMA NextIInv == IInv /\ [Next]_vars => IInv'
<1> SUFFICES ASSUME IInv, [Next]_vars PROVE IInv'
  OBVIOUS
<1>1. CASE Elapse
  BY <1>1 DEF Elapse, IInv, ClockType, NumbersAccepted, CountsUp, LastKept, AsksOnlyProgrammed, workerVars
<1>2. CASE UNCHANGED vars
  BY <1>2 DEF vars, workerVars, IInv, ClockType, NumbersAccepted, CountsUp, LastKept, AsksOnlyProgrammed
<1> QED BY <1>1, <1>2, GuestKeeps, WorkerKeeps DEF Next

\* So it holds in every reachable state.
LEMMA Invariance == Spec => []IInv
BY InitIInv, NextIInv, PTL DEF Spec

(***************************************************************************)
(* update_time only asks for interruptions that some OUT has programmed,   *)
(* and only for maskable ones, although it loads interruption_number once  *)
(* for each test and again for the call while request_write replaces it.   *)
(***************************************************************************)
THEOREM AsksProgrammed == Spec => []AsksOnlyProgrammed
<1>1. IInv => AsksOnlyProgrammed
  BY DEF IInv, NumbersAccepted
<1> QED BY <1>1, Invariance, PTL

(***************************************************************************)
(* While nothing is programmed the countdown of update_time takes the same *)
(* number of turns each time, at least interruption_scale of them.         *)
(***************************************************************************)
THEOREM PeriodIsSteady == Spec => PeriodSteady
<1>1. IInv /\ [Next]_vars
        => [RunsOutSteady => gap + 1 >= interruption_scale /\ last \in {None, gap}]_vars
  <2> SUFFICES ASSUME IInv, Next, RunsOutSteady
               PROVE  gap + 1 >= interruption_scale /\ last \in {None, gap}
    OBVIOUS
  <2>1. CountDown
    BY DEF RunsOutSteady, Next, Guest, Worker, ReadTime, WriteTime, RefuseProgram, Program,
           StoreNumber, TestAbove, TestBelow, Test, Ask, Elapse, workerVars
  <2>2. scale_count = 0
    BY <2>1 DEF CountDown, RunsOutSteady
  <2>3. gap = interruption_scale
    BY <2>2, RealTimeClockAssumption DEF IInv, ClockType, CountsUp, RunsOutSteady
  <2> QED BY <2>3, RealTimeClockAssumption DEF IInv, ClockType, LastKept, RunsOutSteady
<1> QED BY <1>1, Invariance, PTL DEF Spec, PeriodSteady
=============================================================================
