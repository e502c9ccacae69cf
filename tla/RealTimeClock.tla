--------------------------- MODULE RealTimeClock ----------------------------
(***************************************************************************)
(* The real-time clock (ext_dev/RealTimeClock.cpp): the CPU thread reads   *)
(* and writes its two ports while its worker thread counts down and asks   *)
(* for interruptions.  The worker reads interruption_scale and             *)
(* interruption_number without m_mutex, the number three times, so its     *)
(* reads fall anywhere among the two stores of request_write.              *)
(*                                                                         *)
(* The guest uses IN and OUT, which leave the streams of the two ports     *)
(* empty; what other instructions leave in a stream is in BlockDevice.     *)
(***************************************************************************)
EXTENDS Integers

CONSTANTS
    Numbers,       \* interruption numbers the guest writes (8 bits)
    Scales,        \* periodical scales it writes (30 bits)
    Times,         \* timestamps it writes
    MaxClock,      \* bound on the host's clock, in seconds
    MaxGap         \* where the history variable gap stops counting

MAX_INTERRUPTION_ENTRY == 256

ASSUME RealTimeClockAssumption ==
    /\ Numbers \subseteq 0 .. 255
    /\ Scales \subseteq Nat
    /\ Times \subseteq Nat
    /\ MaxClock \in Nat \ {0}
    /\ MaxGap \in Nat /\ \A s \in Scales : s < MaxGap

VARIABLES
    now,                   \* system_clock::now()
    m_startTime,
    m_machineTime,
    interruption_scale,
    interruption_number,
    store,                 \* the number request_write has still to store, or None
    reply,                 \* what the guest's last access of a port gave
    scale_count,           \* local to update_time
    worker,                \* "count", or what comes next after the countdown ran out
    gap,                   \* history: turns since the countdown last ran out
    last,                  \* history: gap when it ran out, or None if not steady
    steady,                \* history: nothing was programmed since then
    asked,                 \* history: the last code asked for, or None
    accepted               \* history: numbers request_write has taken

None == -1

hostVars   == <<now, m_startTime, m_machineTime>>
workerVars == <<scale_count, worker, gap, last, asked>>
vars == <<hostVars, interruption_scale, interruption_number, store, reply,
          workerVars, steady, accepted>>

\* The guest's accesses: what was done, on what value, with what result.
Access(op, value, result) == [op |-> op, value |-> value, result |-> result]

Init ==
    /\ now = 1
    /\ m_startTime = now
    /\ m_machineTime = now
    /\ interruption_scale = 0
    /\ interruption_number = 0
    /\ store = None
    /\ reply = Access("none", 0, 0)
    /\ scale_count = 0
    /\ worker = "count"
    /\ gap = 0
    /\ last = None
    /\ steady = TRUE
    /\ asked = None
    /\ accepted = {}

-----------------------------------------------------------------------------
(* The CPU thread.                                                         *)

\* IN from port 0x70.
RTCTime == m_startTime + (now - m_machineTime)

ReadTime ==
    /\ store = None
    /\ reply' = Access("read_time", 0, RTCTime)
    /\ UNCHANGED <<hostVars, interruption_scale, interruption_number, store,
                   workerVars, steady, accepted>>

\* OUT to port 0x70.
WriteTime ==
    /\ store = None
    /\ \E t \in Times : m_startTime' = t /\ reply' = Access("write_time", t, now)
    /\ UNCHANGED <<now, m_machineTime, interruption_scale, interruption_number, store,
                   workerVars, steady, accepted>>

Acceptable(n, s) == ~(n <= 31 \/ n > MAX_INTERRUPTION_ENTRY) /\ s # 0

\* OUT to port 0x71: refused, or the first of two stores.
RefuseProgram ==
    /\ store = None
    /\ \E n \in Numbers, s \in Scales : ~Acceptable(n, s)
    /\ reply' = Access("program", 0, "io_error")
    /\ UNCHANGED <<hostVars, interruption_scale, interruption_number, store,
                   workerVars, steady, accepted>>

\* Mutant: programming restarts the countdown.
Program_Restart ==
    /\ store = None
    /\ \E n \in Numbers, s \in Scales :
          /\ Acceptable(n, s)
          /\ interruption_scale' = s
          /\ store' = n
          /\ accepted' = accepted \cup {n}
          /\ scale_count' = s
    /\ reply' = Access("program", 0, "ok")
    /\ steady' = FALSE
    /\ UNCHANGED <<hostVars, interruption_number, worker, gap, last, asked>>

Program ==
    /\ store = None
    /\ \E n \in Numbers, s \in Scales :
          /\ Acceptable(n, s)
          /\ interruption_scale' = s
          /\ store' = n
          /\ accepted' = accepted \cup {n}
    /\ reply' = Access("program", 0, "ok")
    /\ steady' = FALSE
    /\ UNCHANGED <<hostVars, interruption_number, workerVars>>

StoreNumber ==
    /\ store # None
    /\ interruption_number' = store
    /\ store' = None
    /\ UNCHANGED <<hostVars, interruption_scale, reply, workerVars, steady, accepted>>

-----------------------------------------------------------------------------
(* The worker thread: one turn of the loop of update_time.                 *)

Longer(g) == IF g < MaxGap THEN g + 1 ELSE g

\* Mutant: the countdown is not reloaded.
CountDown_NoReload ==
    /\ worker = "count"
    /\ IF scale_count # 0
       THEN /\ scale_count' = scale_count - 1
            /\ gap' = Longer(gap)
            /\ UNCHANGED <<worker, last, steady>>
       ELSE /\ worker' = "above"
            /\ gap' = 0 /\ steady' = TRUE /\ last' = IF steady THEN gap ELSE None
            /\ UNCHANGED scale_count
    /\ UNCHANGED <<hostVars, interruption_scale, interruption_number, store, reply,
                   asked, accepted>>

\* A turn of the countdown, or the turn in which it has run out and is loaded
\* again.
CountDown ==
    /\ worker = "count"
    /\ IF scale_count # 0
       THEN /\ scale_count' = scale_count - 1
            /\ gap' = Longer(gap)
            /\ UNCHANGED <<worker, last, steady>>
       ELSE /\ scale_count' = interruption_scale
            /\ worker' = "above"
            /\ gap' = 0 /\ steady' = TRUE /\ last' = IF steady THEN gap ELSE None
    /\ UNCHANGED <<hostVars, interruption_scale, interruption_number, store, reply,
                   asked, accepted>>

\* One of the two loads of interruption_number that decide on the call.
Test(at, met, next) ==
    /\ worker = at
    /\ worker' = IF met THEN next ELSE "count"
    /\ UNCHANGED <<hostVars, interruption_scale, interruption_number, store, reply,
                   scale_count, gap, last, steady, asked, accepted>>

\* Mutant: every number is above 0x1F.
TestAbove_AnyNumber == Test("above", TRUE, "below")

TestAbove == Test("above", interruption_number > 31, "below")
TestBelow == Test("below", interruption_number < MAX_INTERRUPTION_ENTRY, "ask")

\* do_ext_dev_interruption is called with what a third load gives; module
\* BootLoop has what it does.
Ask ==
    /\ worker = "ask"
    /\ worker' = "count"
    /\ asked' = interruption_number
    /\ UNCHANGED <<hostVars, interruption_scale, interruption_number, store, reply,
                   scale_count, gap, last, steady, accepted>>

\* The host's clock.
Elapse ==
    /\ now < MaxClock
    /\ now' = now + 1
    /\ UNCHANGED <<m_startTime, m_machineTime, interruption_scale, interruption_number,
                   store, reply, workerVars, steady, accepted>>

Guest == ReadTime \/ WriteTime \/ RefuseProgram \/ Program \/ StoreNumber
Worker == CountDown \/ TestAbove \/ TestBelow \/ Ask
Next == Guest \/ Worker \/ Elapse

Spec == Init /\ [][Next]_vars

\* The worker sleeps between turns and is scheduled again; an OUT that has
\* begun ends.
FairSpec == Spec /\ WF_vars(Worker) /\ WF_vars(StoreNumber)

-----------------------------------------------------------------------------
\* The worker, whose tests and whose call each load the number while it is
\* replaced, only asks for codes that an OUT has set, and these are maskable:
\* no device request reaches do_interruption as an exception or a service.
AsksOnlyProgrammed == asked # None => asked \in accepted /\ asked \in 32 .. 255

\* The countdown of update_time runs out, and nothing was programmed while it
\* ran.
RunsOutSteady == worker = "count" /\ worker' = "above" /\ steady

\* As long as nothing is programmed the countdown takes the same number of
\* turns each time, and no fewer than interruption_scale, whenever between its
\* turns the last OUT came.
PeriodSteady ==
    [][RunsOutSteady => gap + 1 >= interruption_scale /\ last \in {None, gap}]_vars

\* A programmed interruption is asked for, even when the guest reprograms the
\* clock again and again before the countdown has run out.
ProgrammedFires ==
    interruption_number > 31 ~> (worker = "ask" /\ interruption_number > 31)

=============================================================================
