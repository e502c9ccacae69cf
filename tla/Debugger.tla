------------------------------ MODULE Debugger ------------------------------
(***************************************************************************)
(* The remote debug console (SysdarftConsole/): the callbacks if_breakpoint *)
(* and at_breakpoint that execute() makes on the CPU thread, raced by the  *)
(* handlers of the HTTP routes, which crow runs on threads of its own and  *)
(* which share nothing with the CPU thread but atomic flags (the lists of  *)
(* breakpoints and watches have a mutex).                                  *)
(*                                                                         *)
(* An address is a place in the guest's code; a breakpoint has a condition *)
(* that is met, is not met or cannot be evaluated ("throws"); there is at  *)
(* most one watch.  A client sends its next request when the last one is   *)
(* answered.                                                               *)
(***************************************************************************)
EXTENDS Integers, FiniteSets

CONSTANTS
    Client,        \* who talks to the server
    Address, BIOS_START,
    Spelling,      \* the pairs CB, IP with one sum, in the order of the map
    Condition,     \* the conditions a client attaches
    Routes,        \* the requests clients send
    GuestOps,      \* "plain", "int3", "getinput", "illegal"
    MayHalt        \* TRUE: the escape key is pressed at some time

ASSUME DebuggerAssumption ==
    /\ BIOS_START \in Address
    /\ Spelling \subseteq Nat /\ Spelling # {}
    /\ Condition \subseteq {"met", "unmet", "throws"}
    /\ Routes \subseteq {"continue", "break", "step", "run", "set", "context",
                         "breakpoint", "delete", "watch"}
    /\ GuestOps \subseteq {"plain", "int3", "getinput", "illegal"}
    /\ MayHalt \in BOOLEAN

NoCondition == "none"
NoWatch == "none"
Value == {"zero", "one"}

VARIABLES
    pc,                      \* the CPU thread: in Boot, execute and the callbacks
    at,                      \* CB + IP
    reached,                 \* breakpoint_reached of execute
    blocked,                 \* the guest waits in INT 0x14
    Int3DebugInterrupt,
    SystemHalted,
    debugger_pause_blocked_int_0x14,
    skip_bios_ip_check,
    breakpoint_triggered,
    manual_stop,
    stepi,
    args,                    \* TRUE: points at the operands of the instruction
    breakpoint_list,         \* spelling, address -> condition, or NoCondition
    watch_list,              \* the last value of the watched target, or NoWatch
    target,                  \* its value now; reading it may "fault"
    client,                  \* client[c]: the step of the handler that runs for c
    held,                    \* held[c]: what *args.load() gave c's handler
    saw,                     \* history: what became of the pause c's test saw
    owed,                    \* history: a Break was answered and not yet honoured
    stale,                   \* history: a Continue ended a pause it had no part in
    int3                     \* history: an INT3 was executed and not yet honoured

listVars  == <<breakpoint_list, watch_list>>
flagVars  == <<debugger_pause_blocked_int_0x14, breakpoint_triggered, manual_stop, stepi, args>>
guestVars == <<at, reached, blocked, Int3DebugInterrupt, skip_bios_ip_check, target>>
histVars  == <<saw, owed, stale, int3>>
vars == <<pc, guestVars, SystemHalted, flagVars, listVars, client, held, histVars>>

Init ==
    /\ pc = "head"
    /\ at = BIOS_START
    /\ reached = FALSE
    /\ blocked = FALSE
    /\ Int3DebugInterrupt = FALSE
    /\ SystemHalted = FALSE
    /\ debugger_pause_blocked_int_0x14 = FALSE
    /\ skip_bios_ip_check = FALSE
    /\ breakpoint_triggered = FALSE
    /\ manual_stop = FALSE
    /\ stepi = FALSE
    /\ args = FALSE
    /\ breakpoint_list = [k \in Spelling \X Address |-> NoCondition]
    /\ watch_list = NoWatch
    /\ target = "zero"
    /\ client = [c \in Client |-> "idle"]
    /\ held = [c \in Client |-> "none"]
    /\ saw = [c \in Client |-> "none"]
    /\ owed = FALSE
    /\ stale = FALSE
    /\ int3 = FALSE

-----------------------------------------------------------------------------
(* The CPU thread.                                                         *)

\* The pause that handlers saw is over, and this is how it ended.
PauseOver(how) == saw' = [c \in Client |-> IF saw[c] = "lasts" THEN how ELSE saw[c]]

\* execute() returns: the operands of its instruction are gone.
OperandsDie == held' = [c \in Client |-> IF held[c] = "operands" THEN "gone" ELSE held[c]]

CheckHalted ==
    /\ pc = "head"
    /\ pc' = IF SystemHalted THEN "returned" ELSE "reset"
    /\ UNCHANGED <<guestVars, SystemHalted, flagVars, listVars, client, held, histVars>>

\* if_breakpoint begins.  The flag is still up when the instruction to pause at
\* could not be decoded.
ResetTriggered ==
    /\ pc = "reset"
    /\ breakpoint_triggered' = FALSE
    /\ pc' = "flags"
    /\ PauseOver("undecoded")
    /\ UNCHANGED <<guestVars, SystemHalted, debugger_pause_blocked_int_0x14, manual_stop,
                   stepi, args, listVars, client, held, owed, stale, int3>>

\* A pause begins.
Trigger(next) ==
    /\ breakpoint_triggered' = TRUE
    /\ reached' = TRUE
    /\ pc' = next
    /\ PauseOver("none")

TestFlags ==
    /\ pc = "flags"
    /\ \/ /\ stepi
          /\ Trigger("decode")
          /\ UNCHANGED skip_bios_ip_check
       \/ /\ ~stepi /\ manual_stop
          /\ Trigger("consume")
          /\ UNCHANGED skip_bios_ip_check
       \/ /\ ~stepi /\ ~manual_stop /\ ~skip_bios_ip_check /\ at = BIOS_START
          /\ Trigger("decode")
          /\ skip_bios_ip_check' = TRUE
       \/ /\ ~stepi /\ ~manual_stop /\ (skip_bios_ip_check \/ at # BIOS_START)
          /\ pc' = "lists"
          /\ UNCHANGED <<breakpoint_triggered, reached, skip_bios_ip_check, saw>>
    /\ UNCHANGED <<at, blocked, Int3DebugInterrupt, target, SystemHalted,
                   debugger_pause_blocked_int_0x14, manual_stop, stepi, args, listVars, client,
                   held, owed, stale, int3>>

\* manual_stop is taken back in a store of its own.
ConsumeStop ==
    /\ pc = "consume"
    /\ manual_stop' = FALSE
    /\ pc' = "decode"
    /\ UNCHANGED <<guestVars, SystemHalted, debugger_pause_blocked_int_0x14,
                   breakpoint_triggered, stepi, args, listVars, client, held, histVars>>

\* The breakpoints at a that are not passed over, and the one that decides.
Hits(a) == {k \in Spelling : breakpoint_list[<<k, a>>] \in {"met", "throws"}}
First(S) == CHOOSE k \in S : \A j \in S : k <= j

WatchNow == IF watch_list = NoWatch \/ target = "fault" THEN watch_list ELSE target

\* The lists, under g_br_list_access_mutex.  A condition or a watch that cannot
\* be evaluated makes if_breakpoint return TRUE with breakpoint_triggered clear.
TestLists ==
    /\ pc = "lists"
    /\ \/ /\ Hits(at) # {}
          /\ breakpoint_list[<<First(Hits(at)), at>>] = "met"
          /\ Trigger("decode")
          /\ UNCHANGED watch_list
       \/ /\ Hits(at) # {}
          /\ breakpoint_list[<<First(Hits(at)), at>>] = "throws"
          /\ reached' = TRUE
          /\ pc' = "decode"
          /\ UNCHANGED <<breakpoint_triggered, saw, watch_list>>
       \/ /\ Hits(at) = {}
          /\ watch_list' = WatchNow
          /\ IF watch_list # WatchNow
             THEN Trigger("decode")
             ELSE /\ reached' = (watch_list # NoWatch /\ target = "fault")
                  /\ pc' = "decode"
                  /\ UNCHANGED <<breakpoint_triggered, saw>>
    /\ UNCHANGED <<at, blocked, Int3DebugInterrupt, skip_bios_ip_check, target, SystemHalted,
                   debugger_pause_blocked_int_0x14, manual_stop, stepi, args,
                   breakpoint_list, client, held, owed, stale, int3>>

\* pop_instruction_from_ip_and_increase_ip, then breakpoint_handler.
Decode ==
    /\ pc = "decode"
    /\ Int3DebugInterrupt' = FALSE
    /\ args' = (Int3DebugInterrupt \/ reached)
    /\ pc' = IF Int3DebugInterrupt \/ reached THEN "paused" ELSE "run"
    /\ UNCHANGED <<at, reached, blocked, skip_bios_ip_check, target, SystemHalted,
                   debugger_pause_blocked_int_0x14, breakpoint_triggered, manual_stop, stepi,
                   listVars, client, held, histVars>>

\* The instruction cannot be decoded: an exception, and the next instruction is
\* the one at the interruption's vector.
DecodeFails ==
    /\ pc = "decode"
    /\ "illegal" \in GuestOps /\ ~blocked
    /\ pc' = "head"
    /\ at' \in Address
    /\ UNCHANGED <<reached, blocked, Int3DebugInterrupt, skip_bios_ip_check, target,
                   SystemHalted, flagVars, listVars, client, held, histVars>>

\* One turn of the loop of at_breakpoint, or its end.
AtBreakpoint ==
    /\ pc = "paused"
    /\ IF breakpoint_triggered
       THEN owed' = FALSE /\ int3' = FALSE /\ UNCHANGED pc
       ELSE pc' = "leave" /\ UNCHANGED <<owed, int3>>
    /\ UNCHANGED <<guestVars, SystemHalted, flagVars, listVars, client, held, saw, stale>>

\* The pointer is taken back in a store of its own.
LeaveBreakpoint ==
    /\ pc = "leave"
    /\ args' = FALSE
    /\ pc' = "run"
    /\ UNCHANGED <<guestVars, SystemHalted, debugger_pause_blocked_int_0x14,
                   breakpoint_triggered, manual_stop, stepi, listVars, client, held, histVars>>

\* The instruction goes somewhere and may change the watched target.
ExecPlain ==
    /\ pc = "run" /\ "plain" \in GuestOps /\ ~blocked
    /\ at' \in Address
    /\ target' \in Value \cup {"fault"}
    /\ pc' = "head"
    /\ OperandsDie
    /\ UNCHANGED <<reached, blocked, Int3DebugInterrupt, skip_bios_ip_check, SystemHalted,
                   flagVars, listVars, client, histVars>>

\* INT3: Int3DebugInterrupt is raised by do_interruption_debug_0x03.
ExecInt3 ==
    /\ pc = "run" /\ "int3" \in GuestOps /\ ~blocked
    /\ Int3DebugInterrupt' = TRUE
    /\ int3' = TRUE
    /\ at' \in Address
    /\ pc' = "head"
    /\ OperandsDie
    /\ UNCHANGED <<reached, blocked, skip_bios_ip_check, target, SystemHalted,
                   flagVars, listVars, client, saw, owed, stale>>

\* INT 0x14 with no key typed.
ExecGetInput ==
    /\ pc = "run" /\ "getinput" \in GuestOps
    /\ blocked' = TRUE
    /\ pc' = "waiting"
    /\ UNCHANGED <<at, reached, Int3DebugInterrupt, skip_bios_ip_check, target, SystemHalted,
                   flagVars, listVars, client, held, histVars>>

\* The flags end the wait; a Break reverts IP so that INT 0x14 comes again.
InputInterrupted ==
    /\ pc = "waiting"
    /\ SystemHalted \/ debugger_pause_blocked_int_0x14
    /\ blocked' = ~SystemHalted
    /\ debugger_pause_blocked_int_0x14' =
          IF SystemHalted THEN debugger_pause_blocked_int_0x14 ELSE FALSE
    /\ pc' = "head"
    /\ OperandsDie
    /\ UNCHANGED <<at, reached, Int3DebugInterrupt, skip_bios_ip_check, target, SystemHalted,
                   breakpoint_triggered, manual_stop, stepi, args, listVars, client, histVars>>

InputTyped ==
    /\ pc = "waiting"
    /\ blocked' = FALSE
    /\ at' \in Address
    /\ pc' = "head"
    /\ OperandsDie
    /\ UNCHANGED <<reached, Int3DebugInterrupt, skip_bios_ip_check, target, SystemHalted,
                   flagVars, listVars, client, histVars>>

Cpu ==
    \/ CheckHalted \/ ResetTriggered \/ TestFlags \/ ConsumeStop \/ TestLists \/ Decode \/ DecodeFails
    \/ AtBreakpoint \/ LeaveBreakpoint \/ ExecPlain \/ ExecInt3 \/ ExecGetInput \/ InputInterrupted

-----------------------------------------------------------------------------
(* The handlers of the routes.                                             *)

Begins(c, route, step) ==
    /\ client[c] = "idle" /\ route \in Routes
    /\ client' = [client EXCEPT ![c] = step]

Goes(c, from, to) ==
    /\ client[c] = from
    /\ client' = [client EXCEPT ![c] = to]

CpuElsewhere == UNCHANGED <<pc, guestVars, SystemHalted>>

\* Mutant: the handler does not ask whether the system is paused.
ContinueBegins_NoTest(c) ==
    /\ Begins(c, "continue", "release")
    /\ saw' = [saw EXCEPT ![c] = IF breakpoint_triggered THEN "lasts" ELSE "none"]
    /\ CpuElsewhere
    /\ UNCHANGED <<flagVars, listVars, held, owed, stale, int3>>

\* /Continue and the "continue" message; otherwise "Already running".
ContinueBegins(c) ==
    /\ breakpoint_triggered
    /\ Begins(c, "continue", "release")
    /\ saw' = [saw EXCEPT ![c] = "lasts"]
    /\ CpuElsewhere
    /\ UNCHANGED <<flagVars, listVars, held, owed, stale, int3>>

ContinueReleases(c) ==
    /\ Goes(c, "release", "unstop")
    /\ breakpoint_triggered' = FALSE
    /\ stale' = (stale \/ (breakpoint_triggered /\ saw[c] = "none"))
    /\ PauseOver("continued")
    /\ CpuElsewhere
    /\ UNCHANGED <<debugger_pause_blocked_int_0x14, manual_stop, stepi, args, listVars,
                   held, owed, int3>>

ContinueUnstops(c) ==
    /\ Goes(c, "unstop", "idle")
    /\ manual_stop' = FALSE
    /\ owed' = FALSE
    /\ CpuElsewhere
    /\ UNCHANGED <<debugger_pause_blocked_int_0x14, breakpoint_triggered, stepi, args, listVars,
                   held, saw, stale, int3>>

\* /Action with B: two stores.
BreakStops(c) ==
    /\ Begins(c, "break", "wake")
    /\ manual_stop' = TRUE
    /\ owed' = TRUE
    /\ CpuElsewhere
    /\ UNCHANGED <<debugger_pause_blocked_int_0x14, breakpoint_triggered, stepi, args,
                   listVars, held, saw, stale, int3>>

\* Mutant: INT 0x14 is not interrupted.
BreakWakes_NoWake(c) ==
    /\ Goes(c, "wake", "idle")
    /\ CpuElsewhere
    /\ UNCHANGED <<flagVars, listVars, held, histVars>>

BreakWakes(c) ==
    /\ Goes(c, "wake", "idle")
    /\ debugger_pause_blocked_int_0x14' = TRUE
    /\ CpuElsewhere
    /\ UNCHANGED <<manual_stop, breakpoint_triggered, stepi, args, listVars, held, histVars>>

\* /Stepi.
SetStepi(c) ==
    /\ client[c] = "idle"
    /\ \/ "step" \in Routes /\ stepi' = TRUE
       \/ "run" \in Routes /\ stepi' = FALSE
    /\ CpuElsewhere
    /\ UNCHANGED <<debugger_pause_blocked_int_0x14, breakpoint_triggered, manual_stop, args,
                   listVars, client, held, histVars>>

\* /Action with S: a register or memory is written after the test.
SetBegins(c) ==
    /\ breakpoint_triggered
    /\ Begins(c, "set", "write")
    /\ CpuElsewhere
    /\ UNCHANGED <<flagVars, listVars, held, histVars>>

SetWrites(c) ==
    /\ Goes(c, "write", "idle")
    /\ target' \in Value \cup {"fault"}
    /\ UNCHANGED <<pc, at, reached, blocked, Int3DebugInterrupt, skip_bios_ip_check,
                   SystemHalted, flagVars, listVars, held, histVars>>

\* The "context" message and /ShowContext: the flag is tested, then args, each
\* with "Not Ready" as the other answer, and args is loaded again to be read.
ContextBegins(c) ==
    /\ breakpoint_triggered
    /\ Begins(c, "context", "args?")
    /\ saw' = [saw EXCEPT ![c] = "lasts"]
    /\ CpuElsewhere
    /\ UNCHANGED <<flagVars, listVars, held, owed, stale, int3>>

\* Mutant: args is not tested.
ContextTestsArgs_NoTest(c) ==
    /\ Goes(c, "args?", "load")
    /\ CpuElsewhere
    /\ UNCHANGED <<flagVars, listVars, held, histVars>>

ContextTestsArgs(c) ==
    /\ Goes(c, "args?", IF args THEN "load" ELSE "idle")
    /\ CpuElsewhere
    /\ UNCHANGED <<flagVars, listVars, held, histVars>>

ContextLoadsArgs(c) ==
    /\ Goes(c, "load", "show")
    /\ held' = [held EXCEPT ![c] = IF args THEN "operands" ELSE "null"]
    /\ CpuElsewhere
    /\ UNCHANGED <<flagVars, listVars, histVars>>

\* show_context reads through what was loaded.  (Through a null or a dangling
\* pointer that is undefined; the program may end, or the answer be wrong.)
ContextShows(c) ==
    /\ Goes(c, "show", "idle")
    /\ held' = [held EXCEPT ![c] = "none"]
    /\ CpuElsewhere
    /\ UNCHANGED <<flagVars, listVars, histVars>>

\* /SetBreakpoint and its DELETE, which erases one entry, and /Watcher, all
\* under the mutex.
SetBreakpoint(c) ==
    /\ client[c] = "idle" /\ "breakpoint" \in Routes
    /\ \E k \in Spelling \X Address, condition \in Condition :
          breakpoint_list' = [breakpoint_list EXCEPT ![k] = condition]
    /\ CpuElsewhere
    /\ UNCHANGED <<flagVars, watch_list, client, held, histVars>>

DeleteBreakpoint(c, a) ==
    LET here == {k \in Spelling : breakpoint_list[<<k, a>>] # NoCondition}
    IN  /\ client[c] = "idle" /\ "delete" \in Routes
        /\ here # {}
        /\ breakpoint_list' = [breakpoint_list EXCEPT ![<<First(here), a>>] = NoCondition]
        /\ CpuElsewhere
        /\ UNCHANGED <<flagVars, watch_list, client, held, histVars>>

Watcher(c) ==
    /\ client[c] = "idle" /\ "watch" \in Routes /\ watch_list = NoWatch
    /\ watch_list' = "zero"
    /\ CpuElsewhere
    /\ UNCHANGED <<flagVars, breakpoint_list, client, held, histVars>>

\* A handler that has begun.
Handler(c) ==
    \/ ContinueReleases(c) \/ ContinueUnstops(c) \/ BreakWakes(c) \/ SetWrites(c)
    \/ ContextTestsArgs(c) \/ ContextLoadsArgs(c) \/ ContextShows(c)

Request(c) ==
    \/ ContinueBegins(c) \/ BreakStops(c) \/ SetStepi(c) \/ SetBegins(c) \/ ContextBegins(c)
    \/ SetBreakpoint(c) \/ (\E a \in Address : DeleteBreakpoint(c, a)) \/ Watcher(c)

\* The escape key, as in module BootLoop.
PressEscape ==
    /\ MayHalt
    /\ SystemHalted' = TRUE
    /\ UNCHANGED <<pc, guestVars, flagVars, listVars, client, held, histVars>>

Next ==
    \/ Cpu \/ InputTyped \/ PressEscape
    \/ \E c \in Client : Request(c) \/ Handler(c)

Spec == Init /\ [][Next]_vars

\* The CPU thread and handlers that have begun are scheduled; clients and the
\* user need not do anything.
FairSpec == Spec /\ WF_vars(Cpu) /\ \A c \in Client : WF_vars(Handler(c))

-----------------------------------------------------------------------------
\* A pause is ended by no Continue that has not seen one: the test of
\* breakpoint_triggered in Continue.cpp and IntAlertSSE.cpp, a step before the
\* store.  A late store ends a pause that its test did not see only if another
\* connection continued the guest in between, or the instruction to pause at
\* could not be decoded.
PauseHolds == ~stale

\* show_context reads the operands of the paused instruction through args while
\* execute() keeps them alive, although the test of the flag, the test of args
\* and the load are three steps (IntAlertSSE.cpp, CrowShowContext.cpp), unless
\* the pause that the test saw has ended since: another connection continued
\* the guest, or the instruction to pause at could not be decoded.
ContextAlive ==
    \A c \in Client : client[c] = "show" /\ held[c] # "operands"
                        => saw[c] \in {"continued", "undecoded"}

\* A Break stops the guest at its next instruction, also out of an INT 0x14 that
\* waits for a key, unless a Continue comes first or the system halts.  The
\* two stores of Break race the CPU thread; pc = "consume" is the window of
\* DebugConsole.cpp:36 in which an earlier Break is taken back.
BreakPauses == (owed /\ manual_stop /\ pc # "consume") ~> (~owed \/ SystemHalted)

\* INT3 "is served as a breakpoint": the guest stops, or the system halts.
Int3Pauses == int3 ~> (~int3 \/ SystemHalted)
=============================================================================
