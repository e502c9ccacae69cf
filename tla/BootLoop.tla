------------------------------ MODULE BootLoop ------------------------------
(***************************************************************************)
(* The thread that runs SysdarftCPU::Boot, with the threads it races:      *)
(*   - the console (or GUI) input thread, which sets KeyboardIntAbort,     *)
(*     CtrlZShutdownRequested and SystemHalted and queues keys;            *)
(*   - the worker of an external device (the RTC is the only one in the    *)
(*     tree), which calls do_ext_dev_interruption;                         *)
(*   - the debugger's Break request, which only sets                       *)
(*     debugger_pause_blocked_int_0x14.                                    *)
(* The guest program is a choice of instructions made at every execute().  *)
(* No debugger callbacks are bound (default_is_break_here): module         *)
(* Debugger models the ones of the remote console.                         *)
(***************************************************************************)
EXTENDS Interruption, Sequences

CONSTANTS
    GuestOps,      \* the kinds of instruction the guest executes
    IntCodes,      \* the operands of its INT instructions
    FaultCodes,    \* the exceptions its instructions raise
    DevCodes,      \* the codes the device asks for
    MaxRequests,   \* bound on the length of interruption_requests
    MaxTyped       \* bounds, of which one is kept: how often each key (and Break) is pressed

Ops == {"plain", "int", "fault", "iret", "getinput", "flush", "alwi", "igni", "hlt"}
TypedKey == {"CtrlC", "CtrlZ", "Escape", "Key", "Break"}

ASSUME BootLoopAssumption ==
    /\ GuestOps \subseteq Ops
    /\ IntCodes \subseteq Nat \ (Service \cup {INT_SYSTEM_SHUTDOWN})
    /\ FaultCodes \subseteq {0, 1, 2, 4, 6, 7, 8}
    /\ DevCodes \subseteq 32 .. (MAX_INTERRUPTION_ENTRY - 1)
    /\ MaxRequests \in Nat
    /\ MaxTyped \subseteq [TypedKey -> Nat]

VARIABLES
    pc,                                \* where the CPU thread is in Boot
    regs,                              \* SysdarftRegister::Registers
    stack,                             \* the images on the guest's stack
    SystemHalted,
    KeyboardIntAbort,
    CtrlZShutdownRequested,
    have_I_invoked_shutdown,
    debugger_pause_blocked_int_0x14,
    captured_input,                    \* number of keys queued, not yet read
    External_Int_Req_Vec_Protector,    \* who holds the mutex
    interruption_requests,
    external_device_requested,
    served,                            \* requests the for loop has gone past
    dev,                               \* where the device thread is
    devCode,                           \* the code it is asking for
    typed,                             \* how often each key was pressed
    aborted                            \* history: capture stages that aborted

guestVars   == <<regs, stack>>
consoleVars == <<SystemHalted, KeyboardIntAbort, CtrlZShutdownRequested,
                 debugger_pause_blocked_int_0x14, captured_input, typed>>
requestVars == <<External_Int_Req_Vec_Protector, interruption_requests,
                 external_device_requested>>
devVars     == <<dev, devCode>>
vars == <<pc, guestVars, consoleVars, have_I_invoked_shutdown, requestVars,
          served, devVars, aborted>>

CpuPc == {"halted?", "abort?", "lock", "serve", "clear", "unlock", "shutdown?",
          "execute", "input_flags", "input_key", "input_dev", "returned"}
DevPc == {"idle", "emplace", "flag", "unlock"}

\* The variables of Boot, its flags, the request vector and the device thread
\* keep their types; a delivery never moves SP below the stack.
TypeOK ==
    /\ pc \in CpuPc
    /\ regs \in RegisterFile
    /\ stack \in Stack
    /\ SystemHalted \in BOOLEAN
    /\ KeyboardIntAbort \in BOOLEAN
    /\ CtrlZShutdownRequested \in BOOLEAN
    /\ have_I_invoked_shutdown \in BOOLEAN
    /\ debugger_pause_blocked_int_0x14 \in BOOLEAN
    /\ captured_input \in Nat
    /\ External_Int_Req_Vec_Protector \in {"free", "cpu", "dev"}
    /\ interruption_requests \in Seq(DevCodes)
    /\ external_device_requested \in BOOLEAN
    /\ served \in Nat
    /\ dev \in DevPc
    /\ devCode \in IF dev = "idle" THEN {-1} ELSE DevCodes
    /\ typed \in [TypedKey -> Nat]
    /\ aborted \subseteq {"keyboard", "device"}

\* Boot has reset its flags; the guest runs at Main with an empty stack.
Init ==
    /\ pc = "halted?"
    /\ regs = ResetRegisters
    /\ stack = [i \in 1 .. StackFrames |-> ResetRegisters]
    /\ SystemHalted = FALSE
    /\ KeyboardIntAbort = FALSE
    /\ CtrlZShutdownRequested = FALSE
    /\ have_I_invoked_shutdown = FALSE
    /\ debugger_pause_blocked_int_0x14 = FALSE
    /\ captured_input = 0
    /\ External_Int_Req_Vec_Protector = "free"
    /\ interruption_requests = << >>
    /\ external_device_requested = FALSE
    /\ served = 0
    /\ dev = "idle"
    /\ devCode = -1
    /\ typed = [k \in TypedKey |-> 0]
    /\ aborted = {}

-----------------------------------------------------------------------------
(* The stages of Boot before execute().                                    *)

\* The registers and the stack an outcome leaves.
Apply(o) == regs' = o.regs /\ stack' = o.stack

\* The catch blocks of Boot: an abort is followed by a 0x07 of their own,
\* which saves nothing and cannot throw.
CaughtByBoot(o) ==
    IF o.thrown = "Abort" THEN DoInterruption(o.regs, o.stack, INT_STACKOVERFLOW) ELSE o

\* while (!SystemHalted)
CheckHalted ==
    /\ pc = "halted?"
    /\ pc' = IF SystemHalted THEN "returned" ELSE "abort?"
    /\ UNCHANGED <<guestVars, consoleVars, have_I_invoked_shutdown, requestVars,
                   served, devVars, aborted>>

\* Ctrl+C becomes a 0x05.  If that aborts, the exception leaves the try block
\* before the mutex is locked: clear() and unlock() come next.
CaptureKeyboardAbort ==
    LET o == DoInterruption(regs, stack, INT_ABORT) IN
    /\ pc = "abort?"
    /\ IF KeyboardIntAbort
       THEN /\ KeyboardIntAbort' = FALSE
            /\ Apply(CaughtByBoot(o))
            /\ pc' = IF o.thrown = "Abort" THEN "clear" ELSE "lock"
            /\ aborted' = IF o.thrown = "Abort" THEN aborted \cup {"keyboard"} ELSE aborted
       ELSE /\ pc' = "lock"
            /\ UNCHANGED <<guestVars, KeyboardIntAbort, aborted>>
    /\ UNCHANGED <<SystemHalted, CtrlZShutdownRequested, debugger_pause_blocked_int_0x14,
                   captured_input, typed, have_I_invoked_shutdown, requestVars, served, devVars>>

\* Mutant: the mutex is taken whoever holds it.
LockRequests_NoWait ==
    /\ pc = "lock"
    /\ External_Int_Req_Vec_Protector' = "cpu"
    /\ served' = 0
    /\ pc' = "serve"
    /\ UNCHANGED <<guestVars, consoleVars, have_I_invoked_shutdown, interruption_requests,
                   external_device_requested, devVars, aborted>>

\* External_Int_Req_Vec_Protector.lock()
LockRequests ==
    /\ pc = "lock"
    /\ External_Int_Req_Vec_Protector = "free"
    /\ External_Int_Req_Vec_Protector' = "cpu"
    /\ served' = 0
    /\ pc' = "serve"
    /\ UNCHANGED <<guestVars, consoleVars, have_I_invoked_shutdown, interruption_requests,
                   external_device_requested, devVars, aborted>>

\* One round of the loop over interruption_requests.  A request that aborts
\* ends the loop without resetting external_device_requested.
ServeRequest ==
    LET o == DoInterruption(regs, stack, interruption_requests[served + 1]) IN
    /\ pc = "serve"
    /\ IF served < Len(interruption_requests)
       THEN /\ Apply(CaughtByBoot(o))
            /\ IF o.thrown = "Abort"
               THEN /\ pc' = "clear"
                    /\ aborted' = aborted \cup {"device"}
                    /\ UNCHANGED <<served, external_device_requested>>
               ELSE /\ external_device_requested' = FALSE
                    /\ served' = served + 1
                    /\ UNCHANGED <<pc, aborted>>
       ELSE /\ pc' = "clear"
            /\ UNCHANGED <<guestVars, served, external_device_requested, aborted>>
    /\ UNCHANGED <<consoleVars, have_I_invoked_shutdown, External_Int_Req_Vec_Protector,
                   interruption_requests, devVars>>

\* interruption_requests.clear(); the loop's iterator is gone.
ClearRequests ==
    /\ pc = "clear"
    /\ interruption_requests' = << >>
    /\ served' = 0
    /\ pc' = "unlock"
    /\ UNCHANGED <<guestVars, consoleVars, have_I_invoked_shutdown,
                   External_Int_Req_Vec_Protector, external_device_requested,
                   devVars, aborted>>

\* Mutant: the requests are cleared again after the mutex was released.
UnlockRequests_ClearLate ==
    /\ pc = "unlock"
    /\ \/ /\ External_Int_Req_Vec_Protector = "cpu"
          /\ External_Int_Req_Vec_Protector' = "free"
          /\ UNCHANGED <<pc, interruption_requests>>
       \/ /\ External_Int_Req_Vec_Protector # "cpu"
          /\ interruption_requests' = << >>
          /\ pc' = "shutdown?"
          /\ UNCHANGED External_Int_Req_Vec_Protector
    /\ UNCHANGED <<guestVars, consoleVars, have_I_invoked_shutdown,
                   external_device_requested, served, devVars, aborted>>

\* External_Int_Req_Vec_Protector.unlock().  After a 0x05 that aborted the
\* thread does not own the mutex; unlocking it is undefined in C++ and, with
\* the default mutex of the build, releases it from whoever holds it.
UnlockRequests ==
    /\ pc = "unlock"
    /\ External_Int_Req_Vec_Protector' = "free"
    /\ pc' = "shutdown?"
    /\ UNCHANGED <<guestVars, consoleVars, have_I_invoked_shutdown, interruption_requests,
                   external_device_requested, served, devVars, aborted>>

\* invoke_shutdown
InvokeShutdown ==
    /\ have_I_invoked_shutdown' = TRUE
    /\ CtrlZShutdownRequested' = FALSE
    /\ Apply(CaughtByBoot(DoInterruption(regs, stack, INT_SYSTEM_SHUTDOWN)))

\* Mutant: every Ctrl+Z is delivered.
CaptureShutdown_EveryTime ==
    /\ pc = "shutdown?"
    /\ pc' = "execute"
    /\ IF CtrlZShutdownRequested
       THEN InvokeShutdown
       ELSE UNCHANGED <<guestVars, have_I_invoked_shutdown, CtrlZShutdownRequested>>
    /\ UNCHANGED <<SystemHalted, KeyboardIntAbort, debugger_pause_blocked_int_0x14,
                   captured_input, typed, requestVars, served, devVars, aborted>>

\* A Ctrl+Z is delivered the first time, and again once the mask is clear.  In
\* between it is ignored, and stays requested.
CaptureShutdown ==
    /\ pc = "shutdown?"
    /\ pc' = "execute"
    /\ IF CtrlZShutdownRequested /\ (~have_I_invoked_shutdown \/ ~regs.im)
       THEN InvokeShutdown
       ELSE UNCHANGED <<guestVars, have_I_invoked_shutdown, CtrlZShutdownRequested>>
    /\ UNCHANGED <<SystemHalted, KeyboardIntAbort, debugger_pause_blocked_int_0x14,
                   captured_input, typed, requestVars, served, devVars, aborted>>

-----------------------------------------------------------------------------
(* execute(): one instruction of the guest.                                *)

\* The guest may execute op here; at a reverted INT 0x14 it executes nothing
\* else.
AtInstruction(op) ==
    /\ pc = "execute"
    /\ op \in GuestOps
    /\ regs.rd => op = "getinput"

\* An instruction with outcome o, through the catch blocks of execute().
Executes(o) ==
    /\ Apply(Caught(o))
    /\ pc' = "halted?"
    /\ UNCHANGED <<consoleVars, have_I_invoked_shutdown, requestVars, served, devVars, aborted>>

\* An instruction that neither interrupts nor changes the mask.
ExecPlain == AtInstruction("plain") /\ Executes(Out(regs, stack, "none"))

\* int_
ExecInt ==
    /\ AtInstruction("int")
    /\ \E c \in IntCodes : Executes(DoInterruption(regs, stack, c))

\* An instruction that raises one of the exceptions execute() turns into an
\* interruption.
ExecFault ==
    /\ AtInstruction("fault")
    /\ \E c \in FaultCodes : Executes(DoInterruption(regs, stack, c))

\* iret
ExecIret == AtInstruction("iret") /\ Executes(Iret(regs, stack))

\* alwi
ExecAlwi == AtInstruction("alwi") /\ Executes(Out([regs EXCEPT !.im = FALSE], stack, "none"))

\* igni
ExecIgni == AtInstruction("igni") /\ Executes(Out([regs EXCEPT !.im = TRUE], stack, "none"))

\* hlt
ExecHlt ==
    /\ AtInstruction("hlt")
    /\ SystemHalted' = TRUE
    /\ pc' = "halted?"
    /\ UNCHANGED <<guestVars, KeyboardIntAbort, CtrlZShutdownRequested,
                   debugger_pause_blocked_int_0x14, captured_input, typed,
                   have_I_invoked_shutdown, requestVars, served, devVars, aborted>>

\* INT 0x19: do_clear_user_input_stream_0x19 drops the queued keys.
ExecFlushInput ==
    /\ AtInstruction("flush")
    /\ captured_input' = 0
    /\ pc' = "halted?"
    /\ UNCHANGED <<guestVars, SystemHalted, KeyboardIntAbort, CtrlZShutdownRequested,
                   debugger_pause_blocked_int_0x14, typed, have_I_invoked_shutdown,
                   requestVars, served, devVars, aborted>>

\* INT 0x14: IP is past the instruction when the loop that waits begins.
ExecGetInput ==
    /\ AtInstruction("getinput")
    /\ regs' = [regs EXCEPT !.rd = FALSE]
    /\ pc' = "input_flags"
    /\ UNCHANGED <<stack, consoleVars, have_I_invoked_shutdown, requestVars,
                   served, devVars, aborted>>

Execute ==
    \/ ExecPlain \/ ExecInt \/ ExecFault \/ ExecIret \/ ExecAlwi \/ ExecIgni
    \/ ExecHlt \/ ExecFlushInput \/ ExecGetInput

-----------------------------------------------------------------------------
(* do_interruption_getInput_0x14, one action per thing it looks at.        *)

\* Mutant: the loop does not look at SystemHalted.
InputFlags_NoHalt ==
    /\ pc = "input_flags"
    /\ IF KeyboardIntAbort \/ debugger_pause_blocked_int_0x14 \/ CtrlZShutdownRequested
       THEN /\ debugger_pause_blocked_int_0x14' = FALSE
            /\ regs' = [regs EXCEPT !.rd = TRUE]
            /\ pc' = "halted?"
       ELSE pc' = "input_key" /\ UNCHANGED <<regs, debugger_pause_blocked_int_0x14>>
    /\ UNCHANGED <<stack, SystemHalted, KeyboardIntAbort, CtrlZShutdownRequested, captured_input,
                   typed, have_I_invoked_shutdown, requestVars, served, devVars, aborted>>

\* Mutant: the loop does not look at KeyboardIntAbort.
InputFlags_NoAbort ==
    /\ pc = "input_flags"
    /\ IF ~SystemHalted /\ (debugger_pause_blocked_int_0x14 \/ CtrlZShutdownRequested)
       THEN /\ debugger_pause_blocked_int_0x14' = FALSE
            /\ regs' = [regs EXCEPT !.rd = TRUE]
            /\ pc' = "halted?"
       ELSE /\ pc' = IF SystemHalted THEN "halted?" ELSE "input_key"
            /\ UNCHANGED <<regs, debugger_pause_blocked_int_0x14>>
    /\ UNCHANGED <<stack, SystemHalted, KeyboardIntAbort, CtrlZShutdownRequested, captured_input,
                   typed, have_I_invoked_shutdown, requestVars, served, devVars, aborted>>

\* Mutant: the Break is not consumed.
InputFlags_KeepBreak ==
    /\ pc = "input_flags"
    /\ IF SystemHalted
       THEN pc' = "halted?" /\ UNCHANGED regs
       ELSE IF KeyboardIntAbort \/ debugger_pause_blocked_int_0x14 \/ CtrlZShutdownRequested
       THEN regs' = [regs EXCEPT !.rd = TRUE] /\ pc' = "halted?"
       ELSE pc' = "input_key" /\ UNCHANGED regs
    /\ UNCHANGED <<stack, consoleVars, have_I_invoked_shutdown, requestVars, served, devVars,
                   aborted>>

\* A halt ends the wait; Ctrl+C, Ctrl+Z and Break end it with IP reverted, and
\* consume the Break.
InputFlags ==
    /\ pc = "input_flags"
    /\ \/ /\ SystemHalted
          /\ pc' = "halted?"
          /\ UNCHANGED <<regs, debugger_pause_blocked_int_0x14>>
       \/ /\ ~SystemHalted
          /\ KeyboardIntAbort \/ debugger_pause_blocked_int_0x14 \/ CtrlZShutdownRequested
          /\ debugger_pause_blocked_int_0x14' = FALSE
          /\ regs' = [regs EXCEPT !.rd = TRUE]
          /\ pc' = "halted?"
       \/ /\ ~SystemHalted
          /\ ~(KeyboardIntAbort \/ debugger_pause_blocked_int_0x14 \/ CtrlZShutdownRequested)
          /\ pc' = "input_key"
          /\ UNCHANGED <<regs, debugger_pause_blocked_int_0x14>>
    /\ UNCHANGED <<stack, SystemHalted, KeyboardIntAbort, CtrlZShutdownRequested, captured_input,
                   typed, have_I_invoked_shutdown, requestVars, served, devVars, aborted>>

\* get_input takes the oldest key, if there is one.
InputKey ==
    /\ pc = "input_key"
    /\ IF captured_input > 0
       THEN captured_input' = captured_input - 1 /\ pc' = "halted?"
       ELSE pc' = "input_dev" /\ UNCHANGED captured_input
    /\ UNCHANGED <<guestVars, SystemHalted, KeyboardIntAbort, CtrlZShutdownRequested,
                   debugger_pause_blocked_int_0x14, typed, have_I_invoked_shutdown,
                   requestVars, served, devVars, aborted>>

\* A device request ends the wait with IP reverted and the mask cleared; read
\* without the mutex.
InputDevice ==
    /\ pc = "input_dev"
    /\ IF external_device_requested
       THEN /\ regs' = [regs EXCEPT !.rd = TRUE, !.im = FALSE]
            /\ pc' = "halted?"
       ELSE pc' = "input_flags" /\ UNCHANGED regs
    /\ UNCHANGED <<stack, consoleVars, have_I_invoked_shutdown, requestVars,
                   served, devVars, aborted>>

Cpu ==
    \/ CheckHalted \/ CaptureKeyboardAbort \/ LockRequests \/ ServeRequest
    \/ ClearRequests \/ UnlockRequests \/ CaptureShutdown \/ Execute
    \/ InputFlags \/ InputKey \/ InputDevice

-----------------------------------------------------------------------------
(* The worker thread of a device: do_ext_dev_interruption.                 *)

\* try_lock; a request that finds the mutex taken is dropped and changes
\* nothing.  Codes outside 0x20..0xFF throw and change nothing either.
DevTryLock ==
    /\ dev = "idle"
    /\ Len(interruption_requests) < MaxRequests
    /\ External_Int_Req_Vec_Protector = "free"
    /\ External_Int_Req_Vec_Protector' = "dev"
    /\ devCode' \in DevCodes
    /\ dev' = "emplace"
    /\ UNCHANGED <<pc, guestVars, consoleVars, have_I_invoked_shutdown,
                   interruption_requests, external_device_requested, served, aborted>>

DevEmplace ==
    /\ dev = "emplace"
    /\ interruption_requests' = Append(interruption_requests, devCode)
    /\ dev' = "flag"
    /\ UNCHANGED <<pc, guestVars, consoleVars, have_I_invoked_shutdown, devCode,
                   External_Int_Req_Vec_Protector, external_device_requested, served, aborted>>

DevFlag ==
    /\ dev = "flag"
    /\ external_device_requested' = TRUE
    /\ dev' = "unlock"
    /\ UNCHANGED <<pc, guestVars, consoleVars, have_I_invoked_shutdown, devCode,
                   External_Int_Req_Vec_Protector, interruption_requests, served, aborted>>

DevUnlock ==
    /\ dev = "unlock"
    /\ External_Int_Req_Vec_Protector' = "free"
    /\ dev' = "idle"
    /\ devCode' = -1
    /\ UNCHANGED <<pc, guestVars, consoleVars, have_I_invoked_shutdown,
                   interruption_requests, external_device_requested, served, aborted>>

Device == DevTryLock \/ DevEmplace \/ DevFlag \/ DevUnlock

-----------------------------------------------------------------------------
(* The input thread of the console or the GUI, and the debugger's Break.   *)

Press(k) ==
    /\ pc # "returned"
    /\ typed' = [typed EXCEPT ![k] = @ + 1]
    /\ \E m \in MaxTyped : \A j \in TypedKey : typed'[j] <= m[j]

OtherThreadsIdle ==
    UNCHANGED <<pc, guestVars, have_I_invoked_shutdown, requestVars, served, devVars, aborted>>

PressCtrlC ==
    /\ Press("CtrlC")
    /\ KeyboardIntAbort' = TRUE
    /\ UNCHANGED <<SystemHalted, CtrlZShutdownRequested, debugger_pause_blocked_int_0x14,
                   captured_input>>
    /\ OtherThreadsIdle

PressCtrlZ ==
    /\ Press("CtrlZ")
    /\ CtrlZShutdownRequested' = TRUE
    /\ UNCHANGED <<SystemHalted, KeyboardIntAbort, debugger_pause_blocked_int_0x14,
                   captured_input>>
    /\ OtherThreadsIdle

\* Ctrl+]
PressEscape ==
    /\ Press("Escape")
    /\ SystemHalted' = TRUE
    /\ UNCHANGED <<KeyboardIntAbort, CtrlZShutdownRequested, debugger_pause_blocked_int_0x14,
                   captured_input>>
    /\ OtherThreadsIdle

PressKey ==
    /\ Press("Key")
    /\ captured_input' = captured_input + 1
    /\ UNCHANGED <<SystemHalted, KeyboardIntAbort, CtrlZShutdownRequested,
                   debugger_pause_blocked_int_0x14>>
    /\ OtherThreadsIdle

\* debugger_pause_0x14
DebuggerBreak ==
    /\ Press("Break")
    /\ debugger_pause_blocked_int_0x14' = TRUE
    /\ UNCHANGED <<SystemHalted, KeyboardIntAbort, CtrlZShutdownRequested, captured_input>>
    /\ OtherThreadsIdle

Console == PressCtrlC \/ PressCtrlZ \/ PressEscape \/ PressKey \/ DebuggerBreak

Next == Cpu \/ Device \/ Console

Spec == Init /\ [][Next]_vars

\* The CPU thread and a device thread inside do_ext_dev_interruption keep
\* running.  The mutex is free infinitely often while the CPU thread waits for
\* it, and a thread blocked in lock() gets it then.  Nobody has to press a key
\* and no device has to ask.
FairSpec ==
    /\ Spec
    /\ WF_vars(Cpu)
    /\ SF_vars(LockRequests)
    /\ WF_vars(DevEmplace \/ DevFlag \/ DevUnlock)

-----------------------------------------------------------------------------
(* Properties.                                                             *)

\* Boot works on the request vector from lock() to unlock().
CpuInCS == pc \in {"serve", "clear", "unlock"}

\* do_ext_dev_interruption works on it after its try_lock.
DevInCS == dev \in {"emplace", "flag", "unlock"}

\* interruption_requests is never used by Boot and by a device thread at the
\* same time, as long as no 0x05 of a Ctrl+C aborted on a full stack.
RequestsExclusive == "keyboard" \notin aborted => ~(CpuInCS /\ DevInCS)

\* When neither thread is in its critical section, the flag that INT 0x14
\* reads without the mutex says whether requests are queued, as long as no
\* delivery in Boot aborted.
FlagMatchesQueue ==
    aborted = {} /\ ~CpuInCS /\ ~DevInCS =>
        (external_device_requested <=> interruption_requests # << >>)

\* However interruptions nest, every image do_preserve_cpu_state pushed gives
\* iret the stack pointer that the suspended routine had.
ImagesIntact == Intact(regs, stack)

\* do_interruption never enters a maskable routine over one that runs with IM
\* set, though Boot, INT 0x14, iret, ALWI and IGNI all change IM.
MaskRespected == MaskKept(regs, stack)

\* Boot's latch on Ctrl+Z: of the active shutdown routines only the outermost
\* may have suspended a routine that ran with IM set.
ShutdownOnce == OnceUntilUnmasked(regs, stack, INT_SYSTEM_SHUTDOWN)

\* Halting, by Ctrl+] or by HLT, makes Boot return, also out of an INT 0x14
\* that waits for a key.
HaltReturns == SystemHalted ~> pc = "returned"

\* Boot takes up a Ctrl+C, also when the guest is blocked in INT 0x14.
KeyboardAbortServed == KeyboardIntAbort ~> (~KeyboardIntAbort \/ pc = "returned")

\* The guest is in the loop of INT 0x14.
WaitsForInput == pc \in {"input_flags", "input_key", "input_dev"}

\* A Ctrl+Z that Boot ignores, because one was delivered and IM is set again,
\* stays requested, and every INT 0x14 goes back to Boot at once.
ShutdownIgnored == CtrlZShutdownRequested /\ have_I_invoked_shutdown /\ regs.im

\* A guest that waits in INT 0x14 while a key is queued gets it in the end,
\* however often Ctrl+C, Ctrl+Z, Break and devices suspend the wait and an iret
\* resumes it (or a flush or a halt takes it away).  The exceptions: a device
\* that asks for ever, before every instruction; a routine without room for its
\* image, whose wait is lost; a Ctrl+Z that Boot ignores for ever.
KeyReachesGuest ==
    <>[](dev = "idle") =>
        (WaitsForInput /\ captured_input > 0
            ~> \/ pc = "returned" \/ captured_input = 0
               \/ regs.rtn = INT_STACKOVERFLOW
               \/ []ShutdownIgnored)

-----------------------------------------------------------------------------
(* The parts of the inductive invariant that RequestsExclusive and         *)
(* FlagMatchesQueue rest on.                                               *)

\* The mutex is held by the thread that is in its critical section.
LockInv ==
    "keyboard" \notin aborted =>
        /\ CpuInCS <=> External_Int_Req_Vec_Protector = "cpu"
        /\ DevInCS <=> External_Int_Req_Vec_Protector = "dev"

\* What the flag and the vector hold at each step of both critical sections.
RequestInv ==
    aborted = {} =>
        /\ (~CpuInCS /\ dev \in {"idle", "emplace"}) \/ (pc = "serve" /\ served = 0)
            => (external_device_requested <=> interruption_requests # << >>)
        /\ pc = "serve" /\ served > 0 => ~external_device_requested
        /\ pc \in {"clear", "unlock"} => ~external_device_requested
        /\ pc = "unlock" => interruption_requests = << >>
        /\ dev \in {"flag", "unlock"} => interruption_requests # << >>
        /\ dev = "unlock" => external_device_requested
=============================================================================
