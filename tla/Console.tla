------------------------------ MODULE Console -------------------------------
(***************************************************************************)
(* The console of the emulator: video memory and cursor, the curses        *)
(* terminal, the window thread, the input thread, the bell threads, and    *)
(* their start and end around Boot.                                        *)
(*                                                                         *)
(* The CPU thread runs a service as a list of statements (todo), one per   *)
(* step; the other threads run between any two of them, and SIGWINCH puts  *)
(* the statements of its handler in front of the list.                     *)
(***************************************************************************)
EXTENDS Keyboard, CommandLine

CONSTANTS Width, Height,        \* V_WIDTH and V_HEIGHT
          Chars,                \* characters the guest prints
          TerminalKeys,         \* codes typed at the terminal
          PressedKeys,          \* <<key, shift, control>> pressed in the window
          MaxEvents,            \* bound: services, keys, closing and changes of size together
          BlinkFrames,          \* cursor_update_count
          CommandLines          \* command lines the emulator is started with

ASSUME ConsoleAssumption ==
  Width \in Nat \ {0} /\ Height \in Nat \ {0} /\ BlinkFrames \in Nat \ {0}

Blank == " "
Columns == 0 .. Width - 1
Rows == 0 .. Height - 1
Cells == Rows \X Columns
Margin == 1                                      \* a large terminal has this margin
Places == (0 .. Height + 2 * Margin - 1) \X (0 .. Width + 2 * Margin - 1)

VARIABLES
  argv,           \* the command line
  life,           \* how far the object has come
  todo,           \* statements the CPU thread has still to run
  video,          \* video_memory
  cursor,         \* <<cursor_y, cursor_x>>
  mutex,          \* holder of MemoryAccessMutex
  inited,         \* is_inited of the curses terminal
  terminal,       \* what the curses terminal shows, by place
  pen,            \* where curses puts the next character
  stray,          \* history: the places where drawings put characters of other places
  offset,         \* offset_y = offset_x
  large,          \* whether the terminal is larger than the screen
  handled,        \* resize_handler is installed for this object
  events,         \* how many services, keys, closing and changes of size there were
  stored,         \* the guest has stored into video memory since the last drawing
  gui,            \* the window thread: pc, row, running, open, ticks, hidden
  guiCursor,      \* GUIDisplay.cursor_y, cursor_x, cursor_visible
  frame,          \* the buffer the window thread draws
  captured,       \* captured_input
  requests,       \* KeyboardIntAbort, CtrlZShutdownRequested, SystemHalted
  input,          \* the input thread: pc, running, and raw_mode_set
  bell,           \* the bell threads: pool size, number playing, running
  paper, place    \* what was printed, line after line, and where printing goes on

screenVars == <<video, cursor, paper, place>>
terminalVars == <<inited, terminal, pen, stray, offset, large, handled>>
guiVars == <<gui, guiCursor, frame>>
inputVars == <<captured, requests, input>>
vars == <<argv, life, todo, screenVars, mutex, terminalVars, stored, guiVars, inputVars, bell, events>>

Linear(y, x) == y * Width + x

(* ----------------------- statements of the CPU thread ------------------ *)

At(what, y, x) == [do |-> what, row |-> y, column |-> x, ch |-> Blank, off |-> 0]

Do(what) == At(what, 0, 0)

PutAt(y, x, c) == [do |-> "put", row |-> y, column |-> x, ch |-> c, off |-> 0]

Overrun(n, low, high) == IF n < low THEN low ELSE IF n > high THEN high ELSE n

(* set_cursor: the member cursor is clamped, the window is given the       *)
(* coordinates as they came, one after the other.                          *)
SetCursor(y, x) ==
  <<At("cursor", Overrun(y, 0, Height - 1), Overrun(x, 0, Width - 1)),
    At("window_x", y, x), At("window_y", y, x)>> \o
  (IF inited THEN <<Do("move")>> ELSE <<>>)

(* The loops of render_screen, a character at a time.                      *)
DrawCells ==
  [k \in 1 .. Width * Height |-> At("mvaddch", (k - 1) \div Width, (k - 1) % Width)]

\* Mutant: what an earlier drawing left is not cleared.
RenderScreen_NoClear ==
  IF ~inited THEN <<>>
  ELSE DrawCells \o <<Do("move")>>

(* render_screen.                                                          *)
RenderScreen ==
  IF ~inited THEN <<>>
  ELSE <<Do("clear")>> \o DrawCells \o <<Do("move")>>

\* Mutant: the last row keeps its characters after the scroll.
Newline_NoBlank(y) ==
  IF y = Height - 1
  THEN [i \in 1 .. Height - 1 |-> At("scroll", i - 1, 0)] \o SetCursor(y, 0) \o RenderScreen
  ELSE SetCursor(y + 1, 0)

(* newline: at the last line the rows move up one by one and the cursor    *)
(* goes to the start of the row.                                           *)
Newline(y) ==
  IF y = Height - 1
  THEN [i \in 1 .. Height - 1 |-> At("scroll", i - 1, 0)] \o <<Do("blank")>> \o
       SetCursor(y, 0) \o RenderScreen
  ELSE SetCursor(y + 1, 0)

(* teletype: the reference to the character is taken under the mutex, the  *)
(* character is stored through it after the mutex was released.            *)
Teletype(ch) ==
  LET y == cursor[1] x == cursor[2]
  IN <<Do("lock"), Do("unlock"), PutAt(y, x, ch)>> \o
     (IF x + 1 >= Width THEN Newline(y) ELSE SetCursor(y, x + 1)) \o
     RenderScreen

HandleResize ==
  IF ~inited THEN <<>>
  ELSE <<Do("recalc")>> \o RenderScreen \o <<Do("move")>>

Cleanup == IF inited THEN <<Do("endwin")>> ELSE <<>>

(* initialize and start_again: is_inited is set first, so that the drawing *)
(* that follows is not skipped.                                            *)
StartAgain ==
  <<Do("initscr"), Do("recalc"), Do("clear")>> \o DrawCells \o <<Do("move"), Do("signal")>>

opt == ConsoleOptions(argv)

(* do_interruption announces a hardware interruption when verbose: the     *)
(* terminal is left and, if it was in use, taken again.                    *)
Announce == IF opt.verbose /\ inited THEN Cleanup \o StartAgain ELSE <<>>

(* ------------------------------ printing ------------------------------- *)

(* The reference: a roll of paper of which the last Width * Height places  *)
(* are seen.                                                               *)
FeedPast(roll, at) ==
  IF at < Len(roll) THEN [roll |-> roll, at |-> at]
  ELSE [roll |-> SubSeq(roll, Width + 1, Len(roll)) \o [i \in 1 .. Width |-> Blank],
        at |-> at - Width]

Printed(ch) == FeedPast([paper EXCEPT ![place + 1] = ch], place + 1)

Fed == FeedPast(paper, (place \div Width + 1) * Width)

Init ==
  /\ argv \in CommandLines
  /\ life = "main"
  /\ todo = <<>>
  /\ video = [c \in Cells |-> Blank]
  /\ cursor = <<0, 0>>
  /\ mutex = "free"
  /\ inited = FALSE
  /\ terminal = [p \in Places |-> Blank]
  /\ pen = <<0, 0>>
  /\ stray = {}
  /\ offset = 0
  /\ large \in BOOLEAN
  /\ handled = FALSE
  /\ events = 0
  /\ stored = FALSE
  /\ gui = [pc |-> "off", row |-> 0, running |-> FALSE, open |-> TRUE, ticks |-> 0,
            hidden |-> TRUE]
  /\ guiCursor = [row |-> 0, column |-> 0, visible |-> TRUE]
  /\ frame = [c \in Cells |-> Blank]
  /\ captured = <<>>
  /\ requests = {}
  /\ input = [pc |-> "looping", running |-> TRUE, raw |-> FALSE]
  /\ bell = [pool |-> 0, playing |-> 0, running |-> FALSE]
  /\ paper = [i \in 1 .. Width * Height |-> Blank]
  /\ place = 0

(* main either ends or constructs the CPU, whose input thread then runs.   *)
Main ==
  /\ life = "main"
  /\ life' = IF MainOutcome(argv) = "boot" THEN "constructed" ELSE "exited"
  /\ UNCHANGED <<argv, todo, screenVars, mutex, terminalVars, stored, events, guiVars,
                 inputVars, bell>>

(* Boot: what was asked for before is forgotten, but for Ctrl+Z; curses     *)
(* unless headless, the window when asked for.                             *)
Boot ==
  /\ life = "constructed"
  /\ life' = "running"
  /\ requests' = requests \ {"halt", "abort"}
  /\ todo' = IF opt.curses THEN StartAgain ELSE <<>>
  /\ gui' = IF opt.gui THEN [gui EXCEPT !.pc = "starting", !.running = TRUE] ELSE gui
  /\ UNCHANGED <<argv, screenVars, mutex, terminalVars, stored, events, guiCursor, frame,
                 captured, input, bell>>

(* What comes from outside is bounded as a whole.                          *)
Event == events < MaxEvents /\ events' = events + 1 /\ life # "terminated"

Idle == life = "running" /\ todo = <<>>

Serving == Idle /\ "halt" \notin requests

ServiceKeeps == UNCHANGED <<argv, life, video, cursor, mutex, terminalVars, guiVars, input>>

Int10Teletype(ch) ==
  /\ Serving /\ Event
  /\ todo' = Teletype(ch)
  /\ paper' = Printed(ch).roll
  /\ place' = Printed(ch).at
  /\ UNCHANGED <<stored, captured, requests, bell>>
  /\ ServiceKeeps

\* Mutant: the first position behind the screen is accepted.
Int11SetCursor_OffByOne(linear) ==
  /\ Serving /\ Event
  /\ linear <= Width * Height
  /\ todo' = SetCursor(linear \div Width, linear % Width)
  /\ place' = linear
  /\ UNCHANGED <<paper, stored, captured, requests, bell>>
  /\ ServiceKeeps

(* 0x11: a position outside the screen is refused.                         *)
Int11SetCursor(linear) ==
  /\ Serving /\ Event
  /\ linear <= Width * Height - 1
  /\ todo' = SetCursor(linear \div Width, linear % Width)
  /\ place' = linear
  /\ UNCHANGED <<paper, stored, captured, requests, bell>>
  /\ ServiceKeeps

Int12SetVisibility(visible) ==
  /\ Serving /\ Event
  /\ guiCursor' = [guiCursor EXCEPT !.visible = visible]
  /\ UNCHANGED <<argv, life, todo, screenVars, mutex, terminalVars, stored, gui, frame,
                 inputVars, bell>>

Int13Newline ==
  /\ Serving /\ Event
  /\ todo' = Newline(cursor[1])
  /\ paper' = Fed.roll
  /\ place' = Fed.at
  /\ UNCHANGED <<stored, captured, requests, bell>>
  /\ ServiceKeeps

Int14GetInput ==
  /\ Serving /\ Event
  /\ captured # <<>>
  /\ captured' = Tail(captured)
  /\ UNCHANGED <<todo, paper, place, stored, requests, bell>>
  /\ ServiceKeeps

(* 0x17: a thread of its own plays the bell; the pool only grows.          *)
Int17RingBell ==
  /\ Serving
  /\ Event
  /\ bell' = [pool |-> bell.pool + 1, playing |-> bell.playing + 1, running |-> TRUE]
  /\ UNCHANGED <<todo, paper, place, stored, captured, requests>>
  /\ ServiceKeeps

Int18Refresh ==
  /\ Serving /\ Event
  /\ todo' = RenderScreen
  /\ stored' = FALSE
  /\ UNCHANGED <<paper, place, captured, requests, bell>>
  /\ ServiceKeeps

Int19Flush ==
  /\ Serving /\ Event
  /\ captured # <<>>
  /\ captured' = <<>>
  /\ UNCHANGED <<todo, paper, place, stored, requests, bell>>
  /\ ServiceKeeps

(* The guest stores into video memory with an ordinary instruction.        *)
GuestStore(ch) ==
  /\ Serving /\ Event
  /\ todo' = <<Do("lock"), PutAt(0, 0, ch), Do("unlock")>>
  /\ paper' = [paper EXCEPT ![1] = ch]
  /\ stored' = TRUE
  /\ UNCHANGED <<place, captured, requests, bell>>
  /\ ServiceKeeps

(* The boot loop takes a request: abort and shutdown are interruptions.    *)
TakeRequest ==
  /\ Serving
  /\ \E r \in requests \ {"halt"} :
        /\ requests' = requests \ {r}
        /\ todo' = Announce
  /\ UNCHANGED <<paper, place, stored, events, captured, bell>>
  /\ ServiceKeeps

GuestHalts ==
  /\ Serving
  /\ requests' = requests \cup {"halt"}
  /\ UNCHANGED <<todo, paper, place, stored, events, captured, bell>>
  /\ ServiceKeeps

(* ------------------- one statement of the CPU thread ------------------- *)

Next1 == life # "terminated" /\ todo' = Tail(todo)

StepKeeps == UNCHANGED <<argv, life, paper, place, stored, inputVars, bell, frame, gui, large, events>>

StepLock ==
  /\ todo # <<>> /\ Head(todo).do = "lock"
  /\ mutex = "free"
  /\ mutex' = "cpu"
  /\ Next1
  /\ UNCHANGED <<video, cursor, inited, terminal, pen, stray, offset, handled, guiCursor>>
  /\ StepKeeps

StepUnlock ==
  /\ todo # <<>> /\ Head(todo).do = "unlock"
  /\ mutex' = "free"
  /\ Next1
  /\ UNCHANGED <<video, cursor, inited, terminal, pen, stray, offset, handled, guiCursor>>
  /\ StepKeeps

StepVideo ==
  /\ todo # <<>>
  /\ LET s == Head(todo) IN
       \/ /\ s.do = "put"
          /\ video' = [video EXCEPT ![<<s.row, s.column>>] = s.ch]
       \/ /\ s.do = "scroll"
          /\ video' = [c \in Cells |->
                         IF c[1] = s.row THEN video[<<s.row + 1, c[2]>>] ELSE video[c]]
       \/ /\ s.do = "blank"
          /\ video' = [c \in Cells |-> IF c[1] = Height - 1 THEN Blank ELSE video[c]]
  /\ Next1
  /\ UNCHANGED <<mutex, cursor, inited, terminal, pen, stray, offset, handled, guiCursor>>
  /\ StepKeeps

StepCursor ==
  /\ todo # <<>>
  /\ LET s == Head(todo) IN
       \/ s.do = "cursor" /\ cursor' = <<s.row, s.column>> /\ UNCHANGED guiCursor
       \/ s.do = "window_x" /\ guiCursor' = [guiCursor EXCEPT !.column = s.column] /\ UNCHANGED cursor
       \/ s.do = "window_y" /\ guiCursor' = [guiCursor EXCEPT !.row = s.row] /\ UNCHANGED cursor
  /\ Next1
  /\ UNCHANGED <<mutex, video, inited, terminal, pen, stray, offset, handled>>
  /\ StepKeeps

RecalcOffset == IF large THEN Margin ELSE 0

(* The place of a cell at the offsets given.                               *)
PlaceOf(y, x, o) == <<o + y, o + x>>

(* mvaddch of one character, which SIGWINCH may come into at four places:  *)
(* its place is computed, the pen goes there, video_at takes the mutex and *)
(* releases it, and the character goes where the pen is by then.  The head *)
(* of the list becomes what is left of it.                                 *)
BecomesStep(what, o) ==
  /\ life # "terminated"
  /\ todo' = [todo EXCEPT ![1] = [@ EXCEPT !.do = what, !.off = o]]

StepDraw ==
  /\ todo # <<>>
  /\ LET s == Head(todo) IN
       \/ /\ s.do = "mvaddch"
          /\ BecomesStep("wmove", offset)
          /\ UNCHANGED <<mutex, terminal, pen, stray>>
       \/ /\ s.do = "wmove"
          /\ BecomesStep("video_at", s.off)
          /\ pen' = PlaceOf(s.row, s.column, s.off)
          /\ UNCHANGED <<mutex, terminal, stray>>
       \/ /\ s.do = "video_at"
          /\ mutex = "free" /\ mutex' = "cpu"
          /\ BecomesStep("fetched", s.off)
          /\ UNCHANGED <<terminal, pen, stray>>
       \/ /\ s.do = "fetched"
          /\ mutex' = "free"
          /\ BecomesStep("waddch", s.off)
          /\ UNCHANGED <<terminal, pen, stray>>
       \/ /\ s.do = "waddch"
          /\ terminal' = [terminal EXCEPT ![pen] = video[<<s.row, s.column>>]]
          /\ stray' = IF pen = PlaceOf(s.row, s.column, offset)
                      THEN stray \ {pen} ELSE stray \cup {pen}
          /\ Next1
          /\ UNCHANGED <<mutex, pen>>
  /\ UNCHANGED <<video, cursor, inited, offset, handled, guiCursor>>
  /\ StepKeeps

StepTerminal ==
  /\ todo # <<>>
  /\ LET s == Head(todo) IN
       \/ /\ s.do = "clear"
          /\ terminal' = [p \in Places |-> Blank]
          /\ stray' = {}
          /\ pen' = <<0, 0>>
          /\ UNCHANGED <<inited, offset, handled>>
       \/ /\ s.do = "move"
          /\ pen' = PlaceOf(cursor[1], cursor[2], offset)
          /\ UNCHANGED <<inited, terminal, stray, offset, handled>>
       \/ /\ s.do = "recalc"
          /\ offset' = RecalcOffset
          /\ UNCHANGED <<inited, terminal, pen, stray, handled>>
       \/ /\ s.do \in {"initscr", "endwin"}
          /\ inited' = (s.do = "initscr")
          /\ UNCHANGED <<terminal, pen, stray, offset, handled>>
       \/ /\ s.do = "signal"
          /\ handled' = TRUE
          /\ UNCHANGED <<inited, terminal, pen, stray, offset>>
  /\ Next1
  /\ UNCHANGED <<mutex, video, cursor, guiCursor>>
  /\ StepKeeps

(* The end of the handler, after which another SIGWINCH may come.          *)
StepReturn ==
  /\ todo # <<>> /\ Head(todo).do = "return"
  /\ Next1
  /\ UNCHANGED <<mutex, video, cursor, inited, terminal, pen, stray, offset, handled, guiCursor>>
  /\ StepKeeps

StatementStep == StepLock \/ StepUnlock \/ StepVideo \/ StepCursor \/ StepDraw \/ StepTerminal \/ StepReturn

InHandler == \E i \in DOMAIN todo : todo[i].do = "return"

(* SIGWINCH arrives between two statements of the CPU thread.              *)
Resize ==
  /\ life \in {"running", "leaving"}
  /\ ~InHandler
  /\ Event
  /\ large' = ~large
  /\ todo' = (IF handled /\ inited THEN Append(HandleResize, Do("return")) ELSE <<>>) \o todo
  /\ UNCHANGED <<argv, life, screenVars, mutex, inited, terminal, pen, stray, offset, handled,
                 stored, guiVars, inputVars, bell>>

(* The handler waits for the mutex the interrupted statement holds.        *)
SelfLocked == InHandler /\ mutex = "cpu" /\ Head(todo).do = "video_at"

(* --------------------------- the window thread ------------------------- *)

GuiKeeps == UNCHANGED <<argv, life, todo, screenVars, terminalVars, stored, guiCursor, input, bell>>

(* mainLoop begins by loading the font; its exception ends the process.    *)
GuiStart ==
  /\ gui.pc = "starting" /\ opt.font = "good"
  /\ gui' = [gui EXCEPT !.pc = "top"]
  /\ UNCHANGED <<frame, captured, requests, mutex>>
  /\ UNCHANGED events /\ GuiKeeps

FontFails ==
  /\ gui.pc = "starting" /\ opt.font = "bad"
  /\ life' = "terminated"
  /\ gui' = [gui EXCEPT !.pc = "ended"]
  /\ UNCHANGED <<argv, todo, screenVars, mutex, terminalVars, stored, events, guiCursor, frame,
                 inputVars, bell>>

GuiTop ==
  /\ gui.pc = "top"
  /\ gui' = IF gui.running /\ gui.open
            THEN [gui EXCEPT !.pc = "events", !.ticks = @ + 1]
            ELSE [gui EXCEPT !.pc = "ended"]
  /\ UNCHANGED <<frame, captured, requests, mutex>>
  /\ UNCHANGED events /\ GuiKeeps

(* gui_input_handler and monitor_console_input do the same with a code.    *)
Received(code) ==
  IF code \in DOMAIN Request
  THEN requests' = requests \cup {Request[code]} /\ UNCHANGED captured
  ELSE captured' = Append(captured, code) /\ UNCHANGED requests

GuiKey(press) ==
  /\ gui.pc = "events" /\ gui.open
  /\ Event
  /\ LET code == ConvertSfmlKey(press[1], press[2], press[3])
     IN code # NoKey /\ Received(code)
  /\ UNCHANGED <<gui, frame, mutex>>
  /\ GuiKeeps

(* The events behind it are dropped and the rest of the round is run.      *)
GuiClose ==
  /\ gui.pc = "events" /\ gui.open
  /\ Event
  /\ gui' = [gui EXCEPT !.open = FALSE]
  /\ UNCHANGED <<frame, captured, requests, mutex>>
  /\ GuiKeeps

\* Mutant: the mutex is not released after the last row.
GuiCopyRow_KeepsLock ==
  /\ gui.pc = "copy"
  /\ frame' = [c \in Cells |-> IF c[1] = gui.row THEN video[c] ELSE frame[c]]
  /\ gui' = IF gui.row = Height - 1 THEN [gui EXCEPT !.pc = "show", !.row = 0]
                                    ELSE [gui EXCEPT !.row = @ + 1]
  /\ UNCHANGED <<captured, requests, mutex, events>>
  /\ GuiKeeps

(* video_memory_puller: the rows are copied under the mutex.               *)
GuiLock ==
  /\ gui.pc = "events"
  /\ mutex = "free"
  /\ mutex' = "gui"
  /\ gui' = [gui EXCEPT !.pc = "copy", !.row = 0]
  /\ UNCHANGED <<frame, captured, requests>>
  /\ UNCHANGED events /\ GuiKeeps

GuiCopyRow ==
  /\ gui.pc = "copy"
  /\ frame' = [c \in Cells |-> IF c[1] = gui.row THEN video[c] ELSE frame[c]]
  /\ IF gui.row = Height - 1
     THEN gui' = [gui EXCEPT !.pc = "show", !.row = 0] /\ mutex' = "free"
     ELSE gui' = [gui EXCEPT !.row = @ + 1] /\ UNCHANGED mutex
  /\ UNCHANGED <<captured, requests>>
  /\ UNCHANGED events /\ GuiKeeps

CursorChar == "_"

GuiShow ==
  /\ gui.pc = "show"
  /\ LET blinks == gui.ticks = BlinkFrames
         hidden == IF blinks THEN ~guiCursor.visible \/ ~gui.hidden ELSE gui.hidden
     IN /\ gui' = [gui EXCEPT !.pc = "top", !.hidden = hidden, !.ticks = IF blinks THEN 0 ELSE @]
        /\ frame' = IF hidden THEN frame
                    ELSE [frame EXCEPT ![<<guiCursor.row, guiCursor.column>>] = CursorChar]
  /\ UNCHANGED <<captured, requests, mutex>>
  /\ UNCHANGED events /\ GuiKeeps

GuiStep ==
  life # "terminated" /\ (GuiStart \/ FontFails \/ GuiTop \/ GuiLock \/ GuiCopyRow \/ GuiShow)

(* ------------------- the input thread and the bells -------------------- *)

(* monitor_console_input calls read_keyControl again and again.            *)
Reading == input.pc = "looping" /\ input.running /\ life \notin {"main", "exited", "terminated"}

(* The first call puts the terminal into raw mode; when it cannot, because *)
(* standard input is no terminal, the process exits.                       *)
RawModeFails ==
  /\ Reading /\ ~input.raw
  /\ life' = "terminated"
  /\ UNCHANGED <<argv, todo, screenVars, mutex, terminalVars, stored, events, guiVars, inputVars,
                 bell>>

TerminalKey(code) ==
  /\ Reading
  /\ Event
  /\ Received(ReadKeyControl(code))
  /\ input' = [input EXCEPT !.raw = TRUE]
  /\ UNCHANGED <<argv, life, todo, screenVars, mutex, terminalVars, stored, guiVars, bell>>

InputEnds ==
  /\ input.pc = "looping" /\ ~input.running
  /\ input' = [input EXCEPT !.pc = "ended"]
  /\ UNCHANGED <<argv, life, todo, screenVars, mutex, terminalVars, stored, events, guiVars, captured,
                 requests, bell>>

BellEnds ==
  /\ bell.playing > 0 /\ life # "terminated"
  /\ bell' = [bell EXCEPT !.playing = @ - 1]
  /\ UNCHANGED <<argv, life, todo, screenVars, mutex, terminalVars, stored, events, guiVars, inputVars>>

(* ------------------------------ the end -------------------------------- *)

(* Boot returns.                                                           *)
Leave ==
  /\ Idle /\ "halt" \in requests
  /\ life' = "leaving"
  /\ todo' = Cleanup
  /\ UNCHANGED <<argv, screenVars, mutex, terminalVars, stored, events, guiVars, inputVars, bell>>

(* The destructor: no handler any more, then each kind of thread in turn.  *)
Destroy ==
  /\ life = "leaving" /\ todo = <<>>
  /\ life' = "joining_bells"
  /\ handled' = FALSE
  /\ bell' = [bell EXCEPT !.running = FALSE]
  /\ UNCHANGED <<argv, todo, screenVars, mutex, inited, terminal, pen, stray, offset, large, stored, events,
                 guiVars, inputVars>>

\* Mutant: the input thread is joined without being told to stop.
StopInput_NoFlag ==
  /\ life = "joining_bells" /\ bell.playing = 0
  /\ life' = "stopping_input"
  /\ UNCHANGED <<argv, todo, screenVars, mutex, terminalVars, stored, events, guiVars, inputVars,
                 bell>>

StopInput ==
  /\ life = "joining_bells" /\ bell.playing = 0
  /\ life' = "stopping_input"
  /\ input' = [input EXCEPT !.running = FALSE]
  /\ UNCHANGED <<argv, todo, screenVars, mutex, terminalVars, stored, events, guiVars, captured,
                 requests, bell>>

StopGui ==
  /\ life = "stopping_input" /\ input.pc = "ended"
  /\ life' = "stopping_gui"
  /\ gui' = [gui EXCEPT !.running = FALSE]
  /\ UNCHANGED <<argv, todo, screenVars, mutex, terminalVars, stored, events, guiCursor, frame,
                 inputVars, bell>>

Gone ==
  /\ life = "stopping_gui" /\ gui.pc \in {"off", "ended"}
  /\ life' = "gone"
  /\ UNCHANGED <<argv, todo, screenVars, mutex, terminalVars, stored, events, guiVars, inputVars, bell>>

Ending == Main \/ Boot \/ Leave \/ Destroy \/ StopInput \/ StopGui \/ Gone

Next ==
  \/ \E ch \in Chars : Int10Teletype(ch) \/ GuestStore(ch)
  \/ \E linear \in 0 .. Width * Height + 1 : Int11SetCursor(linear)
  \/ \E visible \in BOOLEAN : Int12SetVisibility(visible)
  \/ Int13Newline \/ Int14GetInput \/ Int17RingBell \/ Int18Refresh \/ Int19Flush
  \/ TakeRequest \/ GuestHalts
  \/ StatementStep \/ Resize
  \/ GuiStep \/ GuiClose \/ \E press \in PressedKeys : GuiKey(press)
  \/ \E code \in TerminalKeys : TerminalKey(code)
  \/ RawModeFails \/ InputEnds \/ BellEnds
  \/ Ending

(* The threads run whenever they can, and a bell ends by itself.  The      *)
(* window thread sleeps at the end of a round, without the mutex, so that  *)
(* the CPU thread gets the mutex it waits for.                             *)
Fairness ==
  /\ SF_vars(StatementStep) /\ WF_vars(GuiStep) /\ WF_vars(InputEnds) /\ WF_vars(BellEnds)
  /\ WF_vars(Ending)

Spec == Init /\ [][Next]_vars /\ Fairness

(* ------------------------------ properties ----------------------------- *)

(* What the guest printed is what video memory holds: through wrapping at  *)
(* the right margin, the newline service, the scrolling by rows and the    *)
(* cursor services, the screen is the end of the roll of paper, and the    *)
(* cursor is where printing goes on (teletype, newline, set_cursor).       *)
ScreenIsPaper ==
  todo = <<>> =>
    /\ \A c \in Cells : video[c] = paper[Linear(c[1], c[2]) + 1]
    /\ Linear(cursor[1], cursor[2]) = place

(* What the terminal should show at a place.                               *)
Shows(p) ==
  terminal[p] = IF <<p[1] - offset, p[2] - offset>> \in Cells
                THEN video[<<p[1] - offset, p[2] - offset>>] ELSE Blank

(* Between services the curses terminal shows video memory at the offsets  *)
(* in force and nothing else, whatever the order of drawings, changes of   *)
(* the terminal's size and announcements (render_screen, handle_resize,    *)
(* start_again); stores of the guest appear with the next drawing.  One    *)
(* place is excepted: where a character went that SIGWINCH found between   *)
(* the computation of its place and its putting.                           *)
TerminalCurrent ==
  todo = <<>> /\ inited /\ ~stored =>
    /\ \A p \in Places \ stray : Shows(p)
    /\ \A p, q \in stray : p = q

(* The index the window thread writes the cursor to is inside its buffer,  *)
(* although the two coordinates are stored unclamped and one by one while  *)
(* the thread reads them (set_cursor, mainLoop).                           *)
CursorInFrame == Linear(guiCursor.row, guiCursor.column) \in 0 .. Width * Height - 1

(* The next frame of the window is video memory, with the cursor over it.  *)
ShowsVideo ==
  \A c \in Cells : \/ frame[c] = video[c]
                   \/ ~gui.hidden /\ frame[c] = CursorChar /\ c = cursor

Quiet == life = "running" /\ todo = <<>> /\ gui.pc # "off" /\ gui.open

(* Frames may be torn while the guest prints, because the stores are made  *)
(* outside the mutex; once the guest has stopped printing the window goes  *)
(* on drawing and every frame is the screen (video_memory_puller).         *)
WindowCatchesUp ==
  <>[]Quiet => []<>(gui.pc = "top") /\ <>[](gui.pc = "top" => ShowsVideo)

(* After a halt the destructor joins every thread and ends.  Two halts are *)
(* excepted: one that comes before Boot, which clears it, and one after    *)
(* which SIGWINCH finds the CPU thread holding the mutex its handler needs.*)
HaltEnds ==
  "halt" \in requests /\ life # "constructed" ~> (life \in {"gone", "terminated"} \/ SelfLocked)

=============================================================================
