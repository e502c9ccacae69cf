# A TLA+ model of Sysdarft

Sysdarft is an emulated 64-bit computer: a CPU with its own instruction set, a
paged memory, I/O ports with block devices and a real-time clock, an 80x25
teletype on curses (and an optional GUI), a debugger driven over HTTP, and an
assembler with preprocessor and linker that produces its firmware. The program
runs as one process with several threads: the thread of `SysdarftCPU::Boot`,
the input and display workers of the user interface, the worker of the real-time
clock, and the HTTP threads of the debug console.

Paths below are relative to the repository's `src/`.

## 1. Inventory

| Component | State it keeps | Operations | Talks to |
|---|---|---|---|
| Boot loop (`cpu/SysdarftCPU.cpp`) | position in the loop, `SystemHalted`, `KeyboardIntAbort`, `CtrlZShutdownRequested`, `have_I_invoked_shutdown` | capture Ctrl+C, capture device requests, capture Ctrl+Z, execute one instruction | everything: the flags are set by the input thread, the request vector by devices |
| Interruptions (`cpu/SysdarftCPUInterruption.cpp`) | register file, images on the guest's stack, `interruption_requests`, `external_device_requested` | `do_interruption`, `do_iret`, `do_ext_dev_interruption`, the services 0x10-0x19 | memory (vectors, stack), user interface, devices |
| Instruction execution (`cpu/SysdarftInstructionExec.cpp`, `cpu/Operations/`) | registers, flags, memory | one handler per opcode; exceptions become interruptions 0x00-0x08 | memory, I/O hub |
| Operand decoding (`cpu/SysdarftCPUDecoder.cpp`) | none (reads CB:IP) | fetch an operand, get and set its value | memory, registers |
| Memory (`cpu/SysdarftMemory.cpp`) | pages of 4096 bytes, one mutex | `read_memory`, `write_memory`, push and pop helpers | called by CPU, user interface and HTTP threads |
| I/O hub (`SysdarftIOHub.cpp`) | device list, a byte stream per port | `ins`, `outs` | devices |
| Block devices (`include/SysdarftDisks.inl`) | start sector, sector count, the image file | `request_read`, `request_write` | I/O hub, host file |
| Real-time clock (`ext_dev/RealTimeClock.cpp`) | start time, interruption number and scale, worker thread | read and set the time, program the interruption, tick | I/O hub, `do_ext_dev_interruption` |
| Teletype (`SysdarftCursesUI.cpp`) | cursor, video memory, captured keys, curses offsets | teletype, newline, set cursor, redraw, capture input, bells | Boot flags, window, SIGWINCH |
| GUI display (`gui/TerminalDisplay.cpp`), worker threads (`include/WorkerThread.h`) | frame, window, running flags | pull a frame, draw, take a key, close, start, stop, join | teletype (callbacks) |
| Keyboard (`KeyControl.c`, `convert_sfml_key`), command line (`SysdarftConsole/SysdarftMain.cpp`) | none | key to code, options to outcome | teletype, Boot, toolchain |
| Debugger (`SysdarftConsole/`) | breakpoints, conditions, watch list, `breakpoint_triggered`, `stepi`, `manual_stop` | if_breakpoint, at_breakpoint, the parser of conditions, the HTTP routes | Boot thread (callbacks), memory, registers |
| HTTP library (`include/crow/`, vendored) | parser state, routes, connections, deadlines, io_services | feed, route, answer, time out, start, stop | the routes of the debugger, asio |
| Preprocessor, assembler, linker (`coding/`) | lines, definitions, symbol tables, code, data expressions | preprocess, encode, patch, link, write | files |
| Encoding, decoding, disassembler (`coding/`, `SysdarftConsole/DisassembleAnArea.cpp`) | none | instruction to bytes, bytes to instruction or to text | CPU's decoder |
| Logging, global events, modules (`SysdarftDebug.cpp`, `GlobalEvents.cpp`) | log, handlers | diagnostics | - |

What is hard in this system: the Boot loop shares four flags and one vector with
threads that never take the same lock; a delivery can fail half way because the
guest's stack is full, and the exception leaves a block that still has to
unlock; INT 0x14 blocks the CPU thread and polls for every other event;
devices keep bytes in their port buffers after a failed request; the
debugger's pause is a spin on flags that HTTP threads set in any order; the
screen is written without the lock under which it is copied, and a signal handler
redraws it in the middle of a drawing; three programs (assembler, CPU,
disassembler) have to agree on the length of every operand; and the HTTP parser
sees a request in whatever pieces the network delivers.

Properties that make each part correct: the request vector is never shared and
its flag tells the truth; a suspended routine gets its registers back; the mask
is respected; the escape key and Ctrl+C are answered; a key reaches the guest;
an access of memory is atomic and in bounds; a transfer touches the sectors it
names; the clock asks for what was programmed, at a steady period; a pause of the
debugger begins when asked for and ends only when asked for; a condition means
what it spells; multi-word arithmetic is exact and what is pushed comes back; a
linked reference leads to its marker and the disassembler reads what the CPU
executes; the screen shows what was printed and the process ends; a request is
understood however it is cut, answered once, and an idle connection is closed.
`PROJECT.json`
lists the hazards behind them with the line where each one bites.

## 2. Plan

Modules, in the order they were worth having.

| Module | What it models | Built on |
|---|---|---|
| `Interruption` | `do_interruption`, `do_iret`, lookup, preserving the registers, as operators on registers and stack | - |
| `BootLoop` (`MCBootLoop`, `BootLoopProofs`) | the thread of `Boot`, the input thread and a device | extends `Interruption` |
| `FlatMemory`, `PagedMemory` (`MCPagedMemory`, `PagedMemoryProofs`) | what memory promises, and pages under a mutex that implement it | `PagedMemory` instantiates `FlatMemory` |
| `PortStream`, `BlockDevice` (`MCBlockDevice`, `BlockDeviceProofs`) | streams behind ports, and a disk driven through them | `BlockDevice` extends `PortStream` |
| `RealTimeClock` (`RealTimeClockProofs`) | the clock's ports and its worker | its requests are the device thread of `BootLoop` |
| `Debugger` (`DebuggerProofs`) | pause protocol between the CPU thread and HTTP threads | its Break is `DebuggerBreak` of `BootLoop` |
| `Alu` | the register file with its aliasing, results and flags of the arithmetic, logic and comparison instructions at a parametric byte width | - |
| `GuestStack` | push, pop, call, ret, enter, leave, pushall, int, iret and the exceptions of `execute()` in bytes of memory | extends `Alu` |
| `Machine` | guest programs: computations and jumps, or the stack | extends `GuestStack` |
| `Inspection` | conditions and watches of the debugger, evaluated on the registers and memory of `Machine` | extends `Machine` |
| `MachineProofs` | the theorems about `Machine` and `Inspection` | extends `Inspection` and `NumberFacts` |
| `NumberFacts` | quotients, remainders, induction and recursion, for the proofs | - |
| `Encoding` | instructions as bytes: encoder, the CPU's decoder, the disassembler's | - |
| `Toolchain` (`MCToolchain`) | preprocessor, assembler, linker, file, reading back, disassembler | extends `Encoding` |
| `Keyboard`, `CommandLine` | key to code; options to what `main` does | - |
| `Console` (`MCConsole`, `ConsoleProofs`) | teletype, curses, window, input and bell threads from `main` to the destructors | extends both |
| `Router`, `HttpParser` | crow's trie of routes; crow's request parser, byte by byte | `HttpParser` extends `Router` |
| `DebugServer` (`MCDebugServer`) | server, connections, deadlines, start and stop | extends `HttpParser` |

Left in the plan: web socket frames and messages, the pipes of `exec_command`.
What the prover cannot do for the rest is in section 6.

## 3. The modules and the code

**Interruption.** A register image is one stack frame; of the registers it keeps
IM, SP in frames, the routine that runs (`rtn`) and whether IP was reverted to an
INT 0x14 that is to be executed again (`rd`). `DoInterruption` is `do_interruption` with the test of the range, the
vector lookup, the mask, the services and the overflow redirection; it returns
registers, stack and the exception that leaves it. `Iret` is `do_iret`.

**BootLoop.** `pc` is the CPU thread's place in `Boot`; one action per stage
(`CheckHalted`, `CaptureKeyboardAbort`, `LockRequests`, `ServeRequest`,
`ClearRequests`, `UnlockRequests`, `CaptureShutdown`) and per kind of
instruction (`ExecInt`, `ExecIret`, ...). INT 0x14 is a loop of three steps
(`InputFlags`, `InputKey`, `InputDevice`), so every flag can change between two
tests. `DevTryLock` ... `DevUnlock` are the four steps of
`do_ext_dev_interruption` on the device's thread, `PressCtrlC` ... `PressKey` the
input thread. An exception out of a capture stage goes on at the statement after
its block, as the code does (`CaughtByBoot`); `aborted` records that it happened.
The guest never executes INT 0x09 itself (`BootLoopAssumption`): the latch on Ctrl+Z
knows only the shutdowns that Boot delivers. `MaxTyped` is a set of bounds on the keys, of which a
behaviour keeps one. Of the services 0x10 to 0x19 the two
that touch the queue of keys have actions; the others leave this state alone. A
device request that finds the mutex taken is dropped and is no step.

**FlatMemory / PagedMemory.** `Chunks` is the split of an access that both
`read_memory` and `write_memory` compute; each chunk is copied in a step of its
own under the mutex. The refinement lets a write take effect with its first
chunk: the bytes still to be copied are taken from the writer's buffer. Page
size, memory size and the width of addresses are constants, so that additions
wrap within reach.

**PortStream / BlockDevice.** A stream is a sequence of words of eight bytes.
`ReadPort` and `WritePort` are the hub, `RequestRead`, `SetRegister` and
`WriteSectors` the device, with products and sums taken modulo `Wrap` as
`uint64_t` does, `lseek64` refusing negative offsets, and `read`/`write` of the
host falling short when `HostFails`. The guest's buffer of INS and OUTS is taken
to be in range: a fault on it is the memory's business.

**RealTimeClock.** `Program` and `StoreNumber` are the two stores of
`request_write`; `CountDown`, `TestAbove`, `TestBelow` and `Ask` are the worker's turn: the two
comparisons and the call each load the number again, without the mutex, so a store may
come between any two of them. `gap`, `last` and `steady` are history: the turns since the countdown last ran
out, the length of the interval before, and whether nothing was programmed in this one. The host's clock
counts seconds up to `MaxClock`. `do_ext_dev_interruption` throws only for codes
that the worker's own test excludes, so the worker's `catch` has no step.

**Debugger.** The CPU thread goes through `CheckHalted`, `if_breakpoint` in four
steps (`ResetTriggered`, `TestFlags`, `ConsumeStop`, `TestLists`), `Decode`, the
loop of `AtBreakpoint`, its last store (`LeaveBreakpoint`) and one instruction, after which the
operands that `args` pointed at are gone (`OperandsDie`). Each route is one action, or several where
it tests and then stores or loads (`ContinueBegins`/`ContinueReleases`/`ContinueUnstops`,
`BreakStops`/`BreakWakes`, `SetBegins`/`SetWrites`, `ContextBegins`/`ContextTestsArgs`/
`ContextLoadsArgs`/`ContextShows`). The server is multithreaded: `Client` has any number of
connections. `held` is what a handler's load of `args` gave it; `saw` is history, what became of the pause
that its test saw, and so are `owed`, `stale` and `int3`. A breakpoint's key is a linear address and one of the `Spelling`s, the
pairs CB, IP with that sum. Routes that only read are left out. A condition is
met, unmet or throws; what it is made of is in `Inspection`.

**Alu, GuestStack, Machine.** A byte has `ByteBits` bits and everything is uniform
in it, so the run uses bytes of two bits: a 64-bit register has 16. The register
file is the 64-bit registers, and a narrow register a slice of one. Memory is
kept as objects by start address; a write destroys what it overlaps. Every
handler of `cpu/Operations/` is an operator that returns registers, memory and
the exception; `Executed` is the `catch` of `execute()`. `Machine` has an action
per instruction and two modes, computing and using the stack; `hist` and `frames`
are history. Powers of two are the recursive function `Pow2`, about which an
induction can be done. IP, as every register, wraps at 64 bits.

The programs of mode "stack" are restricted in three ways, each because an unrestricted guest
may destroy its own stack by right: they store into no part of the stack that is in
use (`Spare`), they reserve no amount that wraps around into the memory (`MachineAssumption`,
`Spaces`), and a RET without a CALL that happens to lead to the handler of 0x07 is
left out (`StrayRet`): CB in that handler is how the model knows an overflow. A program whose
instruction overflowed ends there.

**Inspection.** A condition is a sequence of tokens, the parser's keywords and
signs each one token. `IsConditionMet` is the recursive descent of
`ConditionalExpression.cpp` as a recursive function on positions; its value is
computed along with the parse, which is the same because nothing is
short-circuited and every exception ends in the same `catch`. Constants of a
target are truncated to 16 bits and reading memory adds DB, as in
`debugger_operand`. `Look` is `if_breakpoint` from the breakpoint list on; the
guest's next instruction and the client's Set follow it.

**Encoding, Toolchain.** Code is a sequence of bytes; source lines and operands are
records, so the regular expressions that recognise them are taken as done. The
stages are those of `compile_to_binary`: `HeadProcess` on every file, `PreProcess` with
its recursion into headers as a stack of `frames`, assembling line by line with
the shared origin, linking by patching recorded offsets, the file with its
symbol table, reading it back and listing it. Names are sequences of letters because
`replace_all` knows no word boundaries. An error message ends the build (`phase`).

**Console.** The CPU thread runs a service as a list of statements, one per step;
the window thread copies the screen row by row under the mutex; SIGWINCH puts the
statements of its handler in front of the list of the thread it interrupts. A `mvaddch` is five
steps (`StepDraw`): its place is computed from the offsets, the pen of curses moves there, `video_at`
takes the mutex and releases it, and the character goes where the pen is by then; the handler, which
clears, draws everything and moves the pen, may run before each of them. `stray` is history: the
places to which a character of another place went. The first call of `read_keyControl` may
find that standard input is no terminal, and the process exits (`RawModeFails`). `argv`
goes through `CommandLine` first, so which of terminal and window exist is what `main`
decides. `paper` and `place` are what was printed, independently of the screen.

**Router, HttpParser, DebugServer.** `http_parser_execute` is one operator per state on
a record that survives between reads; the callbacks of `parser.h` are in it. Characters are
kept here, against the habit of the other modules: a read may end behind any byte, and what
`RequestsIntact` is about is that no state of the parser depends on where. The
routes are those the debugger registers, each with the codes its handler may
answer. A connection is a record of the flags of `http_connection.h`; asio is a queue
of completions that the workers run. `run()` makes the io_services one by one (`MakeService`) before it
starts their threads, so `stop()` may find some of them. Deadlines have the ids of `task_timer`.

## 4. The runs

Passing runs (where parts are named in parentheses, the property is their conjunction):

| Run | Shows | Bounds |
|---|---|---|
| `boot_safety` | `TypeOK`, `RequestsExclusive`, `FlagMatchesQueue`, `ImagesIntact`, `MaskRespected`, `ShutdownOnce` | two frames, two queued requests, every kind of instruction, codes on both sides of each limit (3, 32, 256, 257), a fault, Ctrl+Z twice |
| `boot_live` | `HaltReturns`, `KeyboardAbortServed`, `KeyReachesGuest` | two frames; the guest and its routines wait for keys and return, and can overflow the stack; a device; Ctrl+Z twice with a key and the escape key, or Ctrl+C, Break, a key and the escape key, or Ctrl+C and Ctrl+Z with a key; liveness |
| `paged_memory` | `CopiesInside`, `CallsReturn`, `ImplementsFlatMemory` | three pages of two bytes, accesses of 0 to 6 bytes at every kind of place, addresses that wrap at 16; a second thread reads across a boundary |
| `disk` | `NothingLeftOver` (`ReadsCurrentSectors`, `ParametersTakeEffect`), `WritesStayInWindow` | two sectors of two words and a remainder, streams up to two sectors, a register value whose sums wrap, host calls that fail half way |
| `clock` | `AsksOnlyProgrammed`, `PeriodSteady`, `ProgrammedFires` | numbers below, at the start and at the end of the maskable range, scales 0, 1 and 3 |
| `debugger_context` | `ContextAlive`, `PauseHolds` | two connections, all routes that matter to a pause, breakpoints with conditions that hold or fail to evaluate, guests that run, wait, execute INT3 and fail to decode; symmetric in the connections |
| `debugger_break` | `BreakPauses` | one client, breakpoints at two addresses with conditions that hold or fail to evaluate, stepping, Break, a guest that runs or blocks in INT 0x14, the escape key; liveness |
| `machine` | `ArithmeticExact` (`WideArithmetic`, `RotationsInvert`, `DivisionExact`, `JumpsOnRelation`), `FramesIntact`, `Restored`, `NothingElseTouched` (`OnlyDestinationWritten`, `OverflowAbandons`), `ConditionMeans`, `WatchFires` | bytes of two bits, four registers, five words at the edges of the widths, two computations and a jump; six stack instructions on a stack of 12 bytes at the bottom of memory and one that holds an image, a register file and 12 bytes; 50 conditions in three spellings, six watches, two instructions, one Set |
| `toolchain` | `AddressesResolve` (`ReferencesResolve`, `DataHoldsAddress`), `ListingTrue` (`AgreesWithCpu`, `ListingComplete`), `BranchesSelected`, `SymbolsReadBack`, `BuildEnds` | 13480 programs: every instruction with operands of every kind and width, two files that refer to each other, sections and sub-markers, conditionals in any order, headers with and without guards |
| `console` | `ScreenIsPaper`, `TerminalCurrent`, `CursorInFrame`, `WindowCatchesUp`, `HaltEnds` | a screen of two rows and columns, three services, keys (the escape key among them), resizes or closings in any order, terminal or window; liveness |
| `web` | `RequestsIntact`, `AnswersMatch` (`AnswersInOrder`, `NothingOwed`), `IdleCloses`, `StopEnds` | two workers; one client with one or two requests of 20 kinds, cut at any byte; two clients of which one may leave or reset while the server is stopped at any time; lengths overflow at 255, headers at 200 bytes, a deadline is one tick; liveness |

Two frames are enough for nesting because an image is saved, overflows and is
taken back with at most one other below it; two sectors are enough to tell
whether a transfer strays; two addresses tell a breakpoint from its
neighbour. Bytes of two bits have every carry and sign the real ones have, and
make every word enumerable near its edges. Two rows and two columns are enough for a
line to end, the screen to scroll and a frame to mix two screens, and three events for a
cursor in the last row, a line that ends there and a resize within its drawing. The requests of
`web` take the parser through methods, paths with a query, versions 1.0 and 1.1, headers that are
empty or folded, lengths, chunks with extensions, upgrades, and lengths that overflow or contradict the
encoding; they never reach its states for a schema and a server in the target, for HTTP/0.9, for ICE
and for trailing headers. One cut of a request meets every pair of
adjacent bytes. Deadlock checking is off where the system may stop: after HLT, after
the escape key, and when client, user and clock have used up their bounds.

One run shows a disagreement between the code and what its manual and comments
say (`findings` in `PROJECT.json` quotes both sides): `debugger_int3` refutes
`Int3Pauses`, because INT3 calls at_breakpoint with `breakpoint_triggered` clear, which
returns at once.

Where the code breaks a promise that a passing property is about, the property names the case as an
exception, and the run contains it:

| Property | Exception | What the code does there |
|---|---|---|
| `RequestsExclusive`, `FlagMatchesQueue` | a delivery that overflows the stack (`aborted`) | clear and unlock run without the lock; the flag stays set |
| `KeyReachesGuest` | a Ctrl+Z that is masked for ever (`ShutdownIgnored`); a wait whose routine overflows the stack; a device that never stops asking | INT 0x14 is reverted and retried without looking at the keys |
| `PauseHolds`, `ContextAlive` | the pause that the handler's test saw was ended by another connection, or its instruction could not be decoded (`saw`) | the late store ends another pause; `args` is null or points at operands that are gone |
| `BreakPauses` | the Break is stored between the two stores of `if_breakpoint` (`pc = "consume"`) | it is taken back |
| `TerminalCurrent` | the one place where a character went that SIGWINCH found in `mvaddch` (`stray`) | nothing takes the character away |
| `HaltEnds` | the halt comes before Boot; SIGWINCH finds the CPU thread holding the mutex its handler needs (`SelfLocked`) | Boot clears it; the thread waits for itself |
| `AnswersMatch` | an error or a file as the answer to a HEAD, and the answers after a HEAD without Host (`SkipBodyFails`) | the body is written, or left out |
| `RequestsIntact` | pieces that end within the target; headers without a value | they are routed as they are; they are dropped |
| `IdleCloses` | another connection has cancelled the deadline (`robbed`) | the connection stays open |
| `StopEnds` | a stop before the pool is complete | `run()` never returns |
| `AddressesResolve` | `@@` in a file after the first; a name in a data expression that contains an earlier marker, or is undeclared; a raw image that begins like an EXE file | it is that file's start; the text is replaced in the middle of the name, or reads as zero; it is read as one |
| `SymbolsReadBack` | two markers at one address | the table keeps one of the names |

Some properties are about less than the code accepts: `BranchesSelected` is about conditionals that do
not nest and have no `%else` after a taken branch, `BuildEnds` about guarded headers, `ConditionMeans` about conditions
whose parts are all recognised, `WritesStayInWindow` about sectors below the alias at 2^55.

Other disagreements met while modelling, for which no run is kept.

CPU and interruptions:

- a second Ctrl+Z is ignored but leaves `CtrlZShutdownRequested` set, and the shutdown
  routine's INT 0x14 is abandoned and retried for as long as IM stays set (`SysdarftCPU.cpp:139`; the manual at
  `doc/Sysdarft.md:986`, `:991`): a key that was typed is not delivered. `KeyReachesGuest` names this
  state (`ShutdownIgnored`);
- a 0x05 that overflows the stack leaves its block before the lock, and clear and unlock still
  run (`SysdarftCPU.cpp:125`, `SysdarftCPUInterruption.cpp:241`);
- a device delivery that overflows the stack leaves `external_device_requested` set
  with an empty vector, and INT 0x14 goes on reverting itself (`SysdarftCPU.cpp:111`);
- INT 0x14 inside a routine clears IM when a device asks, so maskable routines nest
  without ALWI (`SysdarftCPUInterruption.cpp:382`);
- JC, JNC, JO and JNO are missing from `ExecutorMap` (manual `:1814`); 64-bit additions never
  set Carry (`:1270`); IMUL and IDIV fill the upper bits whatever the sign is (`:1387`);
  IDIV of the smallest 64-bit number by -1 is a trap of the host; CMP keeps Carry;
  an ENTER that wraps SP with SB above zero lets PUSH write below SB (`:471`); an operand out of
  bounds is reported as 0x07 where the manual says 0x08 (`:985`);
- `fdb` is opened with the path of `fda` (`SysdarftCPU.cpp:53`).

Devices:

- after one INS of the wrong length every correct INS fails, because the sectors stay in the
  stream (`IOH.cpp:49`; manual `:1033`);
- a start sector of 2^55 is an alias of sector 0 (`SysdarftDisks.inl:149`);
- an OUT to the read-only SIZE port stays in its stream and is what the next IN
  returns (`SysdarftIOHub.cpp:58`);
- the time read back is the time written plus the uptime (`RealTimeClock.cpp:58`; manual `:1085`);
- a clock number up to 0x1F is refused instead of disabling the interruption, and the
  period is scale + 1 turns (`RealTimeClock.cpp:68`, `:101`) where the manual at `:1103` and
  `RealTimeClock.h:26` say the interval times the scale. `PeriodSteady` says only that the period is
  the same each time and no shorter than the scale.

Debugger:

- the escape key does nothing during a pause (`DebugAction.cpp:32`); a Break is lost in
  front of an instruction that cannot be decoded, and between the two stores of
  `if_breakpoint` (`DebugConsole.cpp:36`); with two connections, or across such an
  instruction, a Continue can end a later pause (`Continue.cpp:43`), and with two
  connections one reads through `args` after the other has continued
  (`IntAlertSSE.cpp:78`); a Set is accepted while the CPU still decodes
  (`Action.cpp:92`); deleting a breakpoint erases one of several with the same sum and
  answers 400 (`SetBreakpoint.cpp:82`); the buffer of the web socket's VideoMemory answer is
  static and shared by all connections (`IntAlertSSE.cpp:56`); closing the web socket halts nothing;
- a part of a condition that is no keyword counts as met (`ConditionalExpression.cpp:44`); a
  constant or a memory target needs its angle brackets, and a space in front of the comma makes
  the target unreadable (`processTgExp`); constants of 32 and 64 bits are truncated to
  16 (`debugger_operand.h:41`); reading a memory target adds DB, storing does not;
- `exec_command` has one global set of pipes for the CPU thread and all HTTP threads, and stops for
  ever when its input does not fit into a pipe.

Toolchain:

- `%else` after a taken branch is not disregarded (`HeadersAndDefinitions.cpp:149`; manual
  `:737`); `%ifdef` does not nest, and definitions of a header are not seen by the file that
  includes it; a `%warning` line is not taken out and the assembler rejects it; a header is looked
  for in the working directory or in exactly one include path; a header that includes itself
  without a guard recurses until the host's stack ends;
- `@@` in a second file is that file's start (manual `:645`); a name inside a data expression is replaced
  without word boundaries, and an undeclared one reads as zero; `%FER` takes any number;
- a raw image that begins with "EXE" or "SYS" is read as one; bad bytes at the very end
  are never printed; a part of a memory operand without its prefix is listed as an empty
  operand.

Console:

- the handler of SIGWINCH takes `MemoryAccessMutex`, which the statement it interrupted may
  hold: the process then waits for itself (`SysdarftCursesUI.cpp:245`), and the escape key does not
  end it (manual `:998`). `HaltEnds` names this state (`SelfLocked`) as an exception;
- the input thread runs from the constructor on, and an escape key that comes before Boot is lost,
  because Boot clears `SystemHalted` (`SysdarftCPU.cpp:65`): the other exception of `HaltEnds`;
- the same handler inside a `mvaddch` leaves the interrupted character at the old place, or behind the cursor
  (`SysdarftCursesUI.cpp:284`, whose comment at `:281` says "using current offsets"): the exception of
  `TerminalCurrent`;
- the same signal between `endwin` and `is_inited = false` puts the terminal back into curses
  mode; the model takes the two statements as one.

HTTP library (no documentation of this repository speaks of these; the properties of `web`
name them as exceptions where they matter):

- a URL that is cut between two reads gives a 404 and closes the connection; bytes after the
  body of a request are dropped or call `handle()` again; a byte behind the end of a read is
  looked at after `Upgrade: h`;
- a timer id from before the ids began again cancels another connection's deadline
  (`task_timer.h:123`); HEAD without Host leaves `skip_body` set for the next request, and
  the answer of a HEAD with an error or a static file has a body (`http_response.h:47` calls
  `skip_body` "Whether this is a response to a HEAD request"); a header with an empty value is dropped; `Connection:
  close` of HTTP/1.1 is answered with Keep-Alive; an upgrade of a route that is no web socket
  is closed without an answer; an unusable body of `/PullData`, or fields of the wrong type in
  `/SetBreakpoint`, are a 500; `task_queue_length` is never decremented;
- a stop before the server exists is not seen, and one before its pool is complete stops only the
  io_services that are there (`http_server.h:182`, which says "Close all io_services"): the destructor
  waits for ever (`main` is then "joining early").

Every property of a passing run has a mutant, defined in front of the operator it
changes and marked `Mutant:`, under which the run fails.

## 5. Fairness

- `BootLoop`: weak fairness of the CPU thread and of a device that is inside its
  critical section: threads are scheduled. Strong fairness of `LockRequests`: the
  device holds the mutex for three statements and then sleeps until its next
  tick, so a waiting `lock()` is let in. Users, devices that are idle and guests
  owe nothing.
- `PagedMemory`: weak fairness inside a call and strong fairness of `Lock`,
  because no holder keeps the mutex and callers do other work between calls.
- `RealTimeClock`: weak fairness of the worker and of an OUT that has begun.
- `Debugger`: weak fairness of the CPU thread and of handlers that have begun.
  Nothing obliges a client to send, so nothing obliges a pause to end.
- `Machine`, `Inspection`: none, the run has no liveness.
- `Toolchain`: weak fairness of each stage: one thread that does nothing else.
- `Console`: strong fairness of the CPU thread's statements, because the window thread, with which it
  shares the mutex, sleeps without it in every round (`TerminalDisplay.cpp:246`, `:394`), so that a
  waiting `lock()` is let in; weak fairness of the window thread, of the input
  thread once it is told to end, of bells that play, and of the destructors. Guests, users and
  the window system owe nothing.
- `DebugServer`: weak fairness of each kind of completion the worker runs (written out as
  `WorkerFair`), of each worker's exit, of the server's thread, of the timer's ticks, of `join`, and of
  asio reporting what a socket has (`Ready`). Clients owe nothing.

## 6. What is proved

`BootLoopProofs` proves, for every stack size, guest, set of device codes and
bound, from the named assumptions `StackFramesAssumption` and
`BootLoopAssumption`, that `Spec` keeps

    IInv == TypeOK /\ LockInv /\ RequestInv /\ Nesting(regs, stack, have_I_invoked_shutdown)

and hence `TypeCorrect`, `MutualExclusion` (`RequestsExclusive`), `FlagTellsTruth`
(`FlagMatchesQueue`), `ImagesStayIntact`, `MaskIsRespected` and `ShutdownRunsOnce`. The strengthening is needed in each part: `RequestsExclusive`
follows from knowing who owns the mutex in every stage (`LockInv`); that the flag
agrees with the vector outside the critical sections needs to know what it is
inside them (`RequestInv`); and an IRET gives back the right registers only if
every image on the stack is known to be well-formed and to belong to the frame
below it (`Nesting`). `LockInv` holds until a 0x05 overflows the stack and
`RequestInv` until any delivery does; the unlock without a lock and the stale flag
of section 4 are why neither condition can be dropped.

The proof has a lemma per operator of `Interruption` (what it does to types and to
the nesting) and one step per action under each part of the invariant.

`NumberFacts` has the arithmetic of quotients and remainders that the proofs about
memory, disk, screen and CPU share: what `\div` and `%` are, that they are the only such pair, and how they
are ordered. It also has induction on the naturals and the existence of functions defined by
recursion, both stated with sets instead of operators as parameters (a set of numbers that
contains 0 and with each number the next; a step that is a function), because in this form the
provers can use them. That is what the powers of two and the rotations through the
carry, step by step, are reasoned with.

`PagedMemoryProofs` proves, for every page size, number of pages, width of addresses
and set of threads, from `PagedMemoryAssumption` (the sizes are positive, the memory is whole pages,
requests name an address, a length and that many bytes, and no length is so near 2^64 that an
access wraps around into the memory again: every caller holds a buffer of that length):

- `CopiesStayInside` (`CopiesInside`): every copy names a page that exists and stays in
  it and in the caller's buffer;
- `Refinement` (`ImplementsFlatMemory`): every step of the paged memory is one of
  `FlatMemory` or changes nothing that it sees.

The invariant is `TypeOK /\ Locking /\ Progress`: who owns the mutex in each place of a
call, that a call which has begun to copy was accepted by `InRange`, and that a reader's buffer is
what memory holds now at the places of the chunks it has taken. The sum that `InRange`
compares may wrap; that it bounds the access follows from both of its comparisons and not
from one of them. The refinement rests on
one lemma about `Chunks`: each byte of an access lies in exactly one chunk, at the page and
the place that quotient and remainder of its address name. With it a write takes
effect with its first chunk, because the bytes that are still missing are taken from the
writer's buffer and each later chunk moves bytes from buffer to page without changing
their sum; a read collects what the flat memory held at its first chunk, because
nobody else writes before it unlocks.

`BlockDeviceProofs` proves for every image size, sector size and register width

- `WritesInWindow` (`WritesStayInWindow`), from the types of the device's state alone: whatever
  is left in the streams, wherever `write()` stops and although the sums of the size tests wrap;
- `ReadsAreCurrent` (`ReadsCurrentSectors`), with any use or misuse of the ports;
- `NothingIsLeftOver` (`NothingLeftOver`) under the hypothesis `RegistersByOut`: the guest writes the
  two registers with OUT. It cannot be dropped: an OUTS of two words to a register leaves the
  second in front of the next parameter. The invariant adds that the register streams are
  empty between instructions (`RegistersDrained`).

`RealTimeClockProofs` proves `AsksProgrammed` (`AsksOnlyProgrammed`) and `PeriodIsSteady`
(`PeriodSteady`) from `ClockType /\ NumbersAccepted /\ CountsUp /\ LastKept`: whatever number any of the
worker's three loads reads was accepted by `request_write` at some time, also between its two
stores, and once the first test has met a number no later load can miss one, because a number
is never taken back; the turns that have passed and those to come make up the scale, unless that was
changed in between, and so did those of the interval before. That the number is the one last
programmed is not said, and is not so: it may be replaced between the loads.

`DebuggerProofs` proves for every program, address, spelling and bound

- `ContextStaysAlive` (`ContextAlive`): `args` points at operands of `execute()` when a handler looks
  through it, unless the pause its test saw was ended by another connection or by an
  instruction that could not be decoded;
- `PausesHold` (`PauseHolds`): no Continue ends a pause without having seen one.

Nothing is assumed of the number of connections, and instructions may fail to decode: what the code does not
keep then is in the statements, by way of `saw`. The invariant `DebugInv` says that the flag is up only
between the test that raised it and the end of its pause (or the next `if_breakpoint`, when the
instruction could not be decoded), that a pause which a handler saw lasts no longer than the
flag is up, and that behind the test of `args`, while that pause lasts, the guest is in
`at_breakpoint` and its operands are alive.

`ConsoleProofs` proves for every width and height of the screen, every bound and every command
line, from `ConsoleAssumption`,

- `ScreenHoldsPaper` (`ScreenIsPaper`): video memory and cursor are what was printed;
- `TerminalStaysCurrent` (`TerminalCurrent`): the terminal shows video memory at the offsets in force,
  except at one place at most, where the character went that SIGWINCH found being put;
- `CursorStaysInFrame` (`CursorInFrame`): what the window reads of the cursor is a place on the screen.

These are statements about the moments between services, and inside one they are false: a
service is a list of statements, and SIGWINCH may put another list in front of it at any
point, also into the five steps of a `mvaddch`. `IInv == ScreenType /\ ScreenInv /\ TerminalInv /\
HalfwayInv` therefore speaks about the pending
statements. `ScreenInv`: they are in the order the code runs them in, and the screen they will leave behind is
the paper. `TerminalInv`: each place of the terminal is right, is stray, or belongs to a cell that is
still to be drawn, by a `mvaddch` that has not begun or by one that has and whose offsets and pen are still
those of its cell; or a redraw of everything is pending; and curses is never
started without one. `HalfwayInv` is why there is at most one stray place: a `mvaddch` that has begun is at the
head of the list or right behind the return of a handler, there is one handler at a time, and it
clears the terminal before it returns, so what was stray before it is gone by the time the
interrupted character is put. One lemma per action shows that taking a statement
off the list leaves all of it as it was, and that the handler of SIGWINCH only
adds statements after which it holds again.

`MachineProofs` proves, for every width of a byte, size of the memory and of the images, set of
stacks, codes and amounts, and every length of a program, from `AluAssumption`, `StackAssumption` and
`MachineAssumption`,

- `ArithmeticCorrect` (`ArithmeticExact`): add with adc, and sub with sbb, are the arithmetic of twice the
  width, carry included; a rotation and its inverse cancel; quotient and remainder make up the dividend;
  a jump after cmp is taken when its relation holds;
- `StackCorrect` (`FramesIntact`): what is on the stack is in memory as it was pushed;
- `ReturnsCorrect` (`Restored`): pop, popall, leave, ret and iret give back SP and what was saved;
- `StepsContained` (`NothingElseTouched`): a computation changes the bytes of its destination and no
  other, and an instruction that runs out of stack leaves what its handler needs;
- `WatchesFire` (`WatchFires`): a watched register is reported exactly when one of its bytes has changed;
- `DebuggedMachine`: the first four are about `Spec` of `Machine`, the guest alone; this one says
  the same of `ISpec`, the specification that the run checks, with a debugger that looks and sets.

The registers come first: a narrow register is a field of digits of a 64-bit one, `Store` puts
a field in place and leaves every field beside it, and a number is determined by its bytes
(`PutField`, `StoreField`, `StoreBytes`, `LoadBytes`). All of it follows from the power law of `Pow2` and the
uniqueness of quotients.

`AluInv` says that the history follows the registers: each entry is what its instruction computes from the
operands and flags recorded in it, and the flags before an entry are those after the one in front of it. Without
this chain an adc says nothing of the add before it. A rotation through the carry is a loop of the code;
its trace is a recursive function, and the two traces are shown to be each other's reverse.

`StackInv` says that the frames form a chain: SP is where the last one ends, each begins where the one
before it ends, all of them lie above SP and inside the memory, the memory holds each as
one object (or as two words, for call), and CPS belongs to the ENTER that is in force. What
`FramesIntact` says of memory is not inductive without the order of the frames: a
push is harmless only because it writes below every frame. What ENTER reserves is not written and may
lie outside the memory, with SP; a push then fails. `Clear`, `InForce` and the second case of `Standing` allow for it.
After an overflow SP may be one word off, so where SP stands is said only of a program that
goes on. Each
instruction has a lemma that it keeps `StackInv`, returns what the last frame saved, or is abandoned
(`StepOk`), and the failing paths of `push_stack` and `pop_stack` are among them.

`WatchInv` says that the value kept with a watch is what the register held at the last look, and
`InspectionInv` that a guest under the debugger has an empty stack, words in its registers and nothing beyond the memory.

TLC finds every one of these inductive invariants true on the instance of the component's run, that of
the console on a shorter one (two events).

Only model-checked, and why:

- liveness everywhere (`boot_live`, `CallsReturn`, `ProgrammedFires`, `BreakPauses`, `BuildEnds`,
  `WindowCatchesUp`, `HaltEnds`, `IdleCloses`, `StopEnds`): the prover does not reason about fairness;
- `ConditionMeans` of `Inspection`: the parser is a recursive function over the positions of a text and
  the meaning one over trees; that they agree is an induction over trees and their texts;
- `Toolchain`: preprocessing, encoding and linking are recursive functions and folds over
  sequences, for the same reason;
- `DebugServer`: parser and router are written with recursive operators, of
  which the prover's solver knows nothing.

## 7. What is not modelled

- Logging, global events and the module registry: diagnostics the emulator's behaviour does not
  depend on, and registers nothing uses. The text of dumps and of the context page
  (`ShowContext.cpp`, `OutputCurrentContext.cpp`) is layout.
- Of the debugger: the web socket's key input (`I`), which does what `PressKey` of
  `BootLoop` does, and its copy of the video memory; several watches at once.
- Of the HTTP library: frames of web sockets and their closing by `stop`, TLS, compression,
  multipart bodies, cookies, sessions, middlewares, blueprints, templates, its own JSON and the
  choice of a worker for a connection. The debugger does not use them, except for the web
  socket; JSON bodies are usable, of the wrong type or unusable.
- Of the toolchain: `.equ` as a regular expression, arithmetic in expressions (done by
  the external `bc`), the recognition of lines and operands by regular expressions.
- Of the console: fonts, colours, the view of the window, sound.
- Characters, layout and wording everywhere.
