---------------------------- MODULE ConsoleProofs ----------------------------
(***************************************************************************)
(* The console for screens of every size: what the guest printed is what   *)
(* video memory holds, the terminal shows it, and the window writes its    *)
(* cursor inside its buffer, while the CPU thread runs its services one    *)
(* statement at a time and SIGWINCH puts others in front of them.          *)
(***************************************************************************)
EXTENDS Console, NumberFacts, SequenceTheorems

Glyphs == Chars \cup {Blank}

\* Statements without and with coordinates, and what is left of a mvaddch.
Plain == {"lock", "unlock", "move", "clear", "recalc", "endwin", "initscr", "signal", "return", "blank"}
Placed == {"put", "cursor", "window_x", "window_y", "mvaddch", "scroll"}
Halves == {"wmove", "video_at", "fetched", "waddch"}

\* The statements of the CPU thread: where they write is on the screen.
Statement ==
  {s \in [do : Plain \cup Placed \cup Halves, row : Int, column : Int, ch : Glyphs, off : Int] :
     /\ s.do \in {"put", "cursor", "window_x", "window_y", "mvaddch"} \cup Halves =>
          s.row \in Rows /\ s.column \in Columns
     /\ s.do = "scroll" => s.row \in 0 .. Height - 2}

\* The statements that change what video memory and the cursor hold.
Matters(s) == s.do \in {"put", "scroll", "blank", "cursor"}

\* The order in which a service runs them.
Before(s, u) ==
  \/ s.do = "put" /\ u.do \in {"scroll", "blank", "cursor"}
  \/ s.do = "scroll" /\ (u.do \in {"blank", "cursor"} \/ (u.do = "scroll" /\ s.row < u.row))
  \/ s.do = "blank" /\ u.do = "cursor"

Sorted(t) ==
  \A i, j \in DOMAIN t : i < j /\ Matters(t[i]) /\ Matters(t[j]) => Before(t[i], t[j])

Pending(t) == {s \in Statement : Matters(s) /\ \E i \in DOMAIN t : t[i] = s}

\* No statement has begun, and no handler is running.
Whole(t) == \A i \in DOMAIN t : t[i].do \notin Halves \cup {"return"}

\* A list of statements that makes exactly these changes, in order.
Plan(t, changes) == t \in Seq(Statement) /\ Whole(t) /\ Sorted(t) /\ Pending(t) = changes

\* The statements after which an earlier drawing is no longer right.
Spoils(s) == s.do \in {"clear", "recalc", "put", "scroll", "blank", "initscr"}

Calm(t) == \A i \in DOMAIN t : ~Spoils(t[i])

\* The statement draws a cell.
Draws(s, c) == s.do = "mvaddch" /\ <<s.row, s.column>> = c

\* The list clears the terminal and then draws every cell, undisturbed.
Redraws(t) ==
  \E i \in DOMAIN t :
    /\ t[i].do = "clear"
    /\ \A j \in DOMAIN t : j > i => ~Spoils(t[j])
    /\ \A c \in Cells : \E j \in DOMAIN t : j > i /\ Draws(t[j], c)

NoStart(t) == \A i \in DOMAIN t : t[i].do # "initscr"

-----------------------------------------------------------------------------
\* What a concatenation holds.
LEMMA Joined ==
  ASSUME NEW a \in Seq(Statement), NEW b \in Seq(Statement)
  PROVE  /\ a \o b \in Seq(Statement)
         /\ DOMAIN (a \o b) = 1 .. Len(a) + Len(b) /\ Len(a \o b) = Len(a) + Len(b)
         /\ DOMAIN a = 1 .. Len(a) /\ DOMAIN b = 1 .. Len(b)
         /\ Len(a) \in Nat /\ Len(b) \in Nat
         /\ \A i \in DOMAIN a : i \in DOMAIN (a \o b) /\ (a \o b)[i] = a[i]
         /\ \A i \in DOMAIN b : Len(a) + i \in DOMAIN (a \o b) /\ (a \o b)[Len(a) + i] = b[i]
         /\ \A i \in DOMAIN (a \o b) :
               \/ i \in DOMAIN a /\ (a \o b)[i] = a[i]
               \/ i > Len(a) /\ i - Len(a) \in DOMAIN b /\ (a \o b)[i] = b[i - Len(a)]
OBVIOUS

\* The changes of a list come before those of the list behind it.
LEMMA ChangesJoin ==
  ASSUME NEW a \in Seq(Statement), NEW b \in Seq(Statement), Sorted(a), Sorted(b),
         \A s \in Pending(a), u \in Pending(b) : Before(s, u)
  PROVE  /\ a \o b \in Seq(Statement) /\ Sorted(a \o b)
         /\ Pending(a \o b) = Pending(a) \cup Pending(b)
<1> DEFINE R == Pending(a)
           Q == Pending(b)
<1>1. a \o b \in Seq(Statement)
  BY Joined
<1>2. \A i \in DOMAIN a : a[i] \in Statement /\ (Matters(a[i]) => a[i] \in R)
  BY DEF Pending
<1>3. \A i \in DOMAIN b : b[i] \in Statement /\ (Matters(b[i]) => b[i] \in Q)
  BY DEF Pending
<1>4. Sorted(a \o b)
  <2> SUFFICES ASSUME NEW i \in DOMAIN (a \o b), NEW j \in DOMAIN (a \o b), i < j,
                      Matters((a \o b)[i]), Matters((a \o b)[j])
               PROVE  Before((a \o b)[i], (a \o b)[j])
    BY DEF Sorted
  <2>1. CASE i \in DOMAIN a /\ j \in DOMAIN a
    BY <2>1, Joined DEF Sorted
  <2>2. CASE i \in DOMAIN a /\ j \notin DOMAIN a
    BY <2>2, Joined, <1>2, <1>3
  <2>3. CASE i \notin DOMAIN a
    <3>1. /\ i - Len(a) \in DOMAIN b /\ (a \o b)[i] = b[i - Len(a)]
          /\ j - Len(a) \in DOMAIN b /\ (a \o b)[j] = b[j - Len(a)]
          /\ i - Len(a) < j - Len(a)
      BY <2>3, Joined
    <3> QED BY <3>1 DEF Sorted
  <2> QED BY <2>1, <2>2, <2>3
<1>5. Pending(a \o b) = R \cup Q
  <2>1. ASSUME NEW s \in Pending(a \o b) PROVE s \in R \cup Q
    <3>1. PICK i \in DOMAIN (a \o b) : (a \o b)[i] = s
      BY DEF Pending
    <3>2. Matters(s)
      BY DEF Pending
    <3>3. \/ i \in DOMAIN a /\ s = a[i]
          \/ i - Len(a) \in DOMAIN b /\ s = b[i - Len(a)]
      BY <3>1, Joined
    <3> QED BY <3>2, <3>3, <1>2, <1>3
  <2>2. ASSUME NEW s \in R PROVE s \in Pending(a \o b)
    <3>1. PICK i \in DOMAIN a : a[i] = s /\ s \in Statement /\ Matters(s)
      BY DEF Pending
    <3>2. i \in DOMAIN (a \o b) /\ (a \o b)[i] = s
      BY <3>1, Joined
    <3> QED BY <3>1, <3>2 DEF Pending
  <2>3. ASSUME NEW s \in Q PROVE s \in Pending(a \o b)
    <3>1. PICK i \in DOMAIN b : b[i] = s /\ s \in Statement /\ Matters(s)
      BY DEF Pending
    <3>2. Len(a) + i \in DOMAIN (a \o b) /\ (a \o b)[Len(a) + i] = s
      BY <3>1, Joined
    <3> QED BY <3>1, <3>2 DEF Pending
  <2> QED BY <2>1, <2>2, <2>3
<1> QED BY <1>1, <1>4, <1>5

\* Plans follow each other when their changes do.
LEMMA PlansJoin ==
  ASSUME NEW a, NEW b, NEW R, NEW Q, Plan(a, R), Plan(b, Q),
         \A s \in R, u \in Q : Before(s, u)
  PROVE  Plan(a \o b, R \cup Q)
<1>1. /\ a \in Seq(Statement) /\ b \in Seq(Statement) /\ Sorted(a) /\ Sorted(b)
      /\ Whole(a) /\ Whole(b) /\ Pending(a) = R /\ Pending(b) = Q
  BY DEF Plan
<1>2. Whole(a \o b)
  BY <1>1, Joined DEF Whole
<1> QED BY <1>1, <1>2, ChangesJoin DEF Plan

\* A drawing stays right behind anything and before what does not spoil it.
LEMMA RedrawsJoin ==
  ASSUME NEW a \in Seq(Statement), NEW b \in Seq(Statement)
  PROVE  /\ Redraws(b) => Redraws(a \o b)
         /\ Redraws(a) /\ Calm(b) => Redraws(a \o b)
         /\ Calm(a) /\ Calm(b) => Calm(a \o b)
         /\ NoStart(a) /\ NoStart(b) => NoStart(a \o b)
<1>1. ASSUME Redraws(b) PROVE Redraws(a \o b)
  <2>1. PICK i \in DOMAIN b :
          /\ b[i].do = "clear"
          /\ \A j \in DOMAIN b : j > i => ~Spoils(b[j])
          /\ \A c \in Cells : \E j \in DOMAIN b : j > i /\ Draws(b[j], c)
    BY <1>1 DEF Redraws
  <2> DEFINE k == Len(a) + i
  <2>2. k \in DOMAIN (a \o b) /\ (a \o b)[k].do = "clear"
    BY <2>1, Joined
  <2>3. \A j \in DOMAIN (a \o b) : j > k => ~Spoils((a \o b)[j])
    <3> TAKE j \in DOMAIN (a \o b)
    <3> HAVE j > k
    <3>1. j - Len(a) \in DOMAIN b /\ j - Len(a) > i /\ (a \o b)[j] = b[j - Len(a)]
      BY Joined
    <3> QED BY <3>1, <2>1
  <2>4. \A c \in Cells : \E j \in DOMAIN (a \o b) : j > k /\ Draws((a \o b)[j], c)
    <3> TAKE c \in Cells
    <3>1. PICK j \in DOMAIN b : j > i /\ Draws(b[j], c)
      BY <2>1
    <3>2. Len(a) + j \in DOMAIN (a \o b) /\ Len(a) + j > k /\ (a \o b)[Len(a) + j] = b[j]
      BY <3>1, Joined
    <3> QED BY <3>1, <3>2
  <2> QED BY <2>2, <2>3, <2>4 DEF Redraws
<1>2. ASSUME Redraws(a), Calm(b) PROVE Redraws(a \o b)
  <2>1. PICK i \in DOMAIN a :
          /\ a[i].do = "clear"
          /\ \A j \in DOMAIN a : j > i => ~Spoils(a[j])
          /\ \A c \in Cells : \E j \in DOMAIN a : j > i /\ Draws(a[j], c)
    BY <1>2 DEF Redraws
  <2>2. i \in DOMAIN (a \o b) /\ (a \o b)[i].do = "clear"
    BY <2>1, Joined
  <2>3. \A j \in DOMAIN (a \o b) : j > i => ~Spoils((a \o b)[j])
    BY <1>2, <2>1, Joined DEF Calm
  <2>4. \A c \in Cells : \E j \in DOMAIN (a \o b) : j > i /\ Draws((a \o b)[j], c)
    BY <2>1, Joined
  <2> QED BY <2>2, <2>3, <2>4 DEF Redraws
<1>3. ASSUME Calm(a), Calm(b) PROVE Calm(a \o b)
  BY <1>3, Joined DEF Calm
<1>4. ASSUME NoStart(a), NoStart(b) PROVE NoStart(a \o b)
  BY <1>4, Joined DEF NoStart
<1> QED BY <1>1, <1>2, <1>3, <1>4

-----------------------------------------------------------------------------
Size == Width * Height

\* Positions on the screen and their numbers.
LEMMA LinearCell ==
  ASSUME NEW y \in Rows, NEW x \in Columns
  PROVE  /\ Linear(y, x) \in 0 .. Size - 1 /\ Size \in Nat \ {0}
         /\ Linear(y, x) = y * Width + x
         /\ Linear(y + 1, x) = Linear(y, x) + Width
         /\ y = Height - 1 <=> Linear(y, x) + Width >= Size
         /\ Linear(y, x) \div Width = y /\ Linear(y, x) % Width = x
<1> USE ConsoleAssumption
<1>1. y \in Nat /\ x \in Nat /\ y <= Height - 1 /\ x < Width
  BY DEF Rows, Columns
<1>2. y * Width \in Nat /\ Height * Width \in Nat \ {0} /\ (Height - 1) * Width \in Nat
  BY <1>1, Products
<1>3. y * Width <= (Height - 1) * Width /\ Height * Width = (Height - 1) * Width + Width
      /\ (y + 1) * Width = y * Width + Width
  BY <1>1
<1>4. y # Height - 1 => y * Width + Width <= (Height - 1) * Width
  BY <1>1
<1>5. Size = Height * Width
  BY DEF Size
<1>6. (y * Width + x) \div Width = y /\ (y * Width + x) % Width = x
  BY <1>1, <1>2, DivisionUnique
<1> QED BY <1>1, <1>2, <1>3, <1>4, <1>5, <1>6 DEF Linear

\* The changes of the services.
CursorAt(y, x) == At("cursor", y, x)
Scrolls == {At("scroll", y, 0) : y \in 0 .. Height - 2}

\* Statements without coordinates.
LEMMA PlainStatement ==
  ASSUME NEW what \in Plain
  PROVE  Do(what) \in Statement /\ Do(what).do = what
<1>1. /\ Do(what) \in [do : Plain \cup Placed \cup Halves, row : Int, column : Int, ch : Glyphs, off : Int]
      /\ Do(what).do = what
  BY DEF Do, At, Glyphs
<1>2. what \notin Placed \cup Halves
  BY DEF Plain, Placed, Halves
<1>3. {"put", "cursor", "window_x", "window_y", "mvaddch", "scroll"} = Placed
  BY DEF Placed
<1> QED BY <1>1, <1>2, <1>3 DEF Statement

\* Statements with coordinates on the screen.
LEMMA PlacedStatement ==
  ASSUME NEW what \in {"cursor", "window_x", "window_y", "mvaddch"}, NEW y \in Rows, NEW x \in Columns
  PROVE  /\ At(what, y, x) \in Statement /\ At(what, y, x).do = what
         /\ At(what, y, x).row = y /\ At(what, y, x).column = x
<1>0. what \in Placed
  BY DEF Placed
<1>1. y \in Int /\ x \in Int /\ Blank \in Glyphs
  BY DEF Rows, Columns, Glyphs
<1>2. At(what, y, x) = [do |-> what, row |-> y, column |-> x, ch |-> Blank, off |-> 0]
  BY DEF At
<1>3. At(what, y, x) \in [do : Plain \cup Placed \cup Halves, row : Int, column : Int, ch : Glyphs, off : Int]
  BY <1>0, <1>1, <1>2
<1> QED BY <1>2, <1>3 DEF Statement

\* Lists without changes are plans.
LEMMA Changeless ==
  ASSUME NEW t \in Seq(Statement), Whole(t), \A i \in DOMAIN t : ~Matters(t[i])
  PROVE  Plan(t, {})
BY DEF Plan, Sorted, Pending

\* The loops of the drawing.
LEMMA DrawCellsPlan ==
  /\ DrawCells \in Seq(Statement) /\ Plan(DrawCells, {}) /\ Calm(DrawCells) /\ NoStart(DrawCells)
  /\ \A c \in Cells : \E j \in DOMAIN DrawCells : Draws(DrawCells[j], c)
<1> USE ConsoleAssumption
<1>0. DOMAIN DrawCells = 1 .. Size /\ Size \in Nat \ {0}
  BY LinearCell DEF DrawCells, Size, Rows, Columns
<1>1. ASSUME NEW k \in 1 .. Size
      PROVE  /\ DrawCells[k] = At("mvaddch", (k - 1) \div Width, (k - 1) % Width)
             /\ DrawCells[k] \in Statement /\ DrawCells[k].do = "mvaddch"
             /\ DrawCells[k].row = (k - 1) \div Width /\ DrawCells[k].column = (k - 1) % Width
  <2> DEFINE n == k - 1
  <2>1. n \in Nat /\ n < Height * Width
    BY <1>0 DEF Size
  <2>2. DrawCells[k] = At("mvaddch", n \div Width, n % Width)
    BY <1>0 DEF DrawCells, Size
  <2>3. n \div Width \in Nat /\ n % Width \in 0 .. Width - 1
    BY <2>1, Division
  <2>4. n \div Width < Height
    BY <2>1, QuotientBound
  <2>5. n \div Width \in Rows /\ n % Width \in Columns
    BY <2>3, <2>4 DEF Rows, Columns
  <2> HIDE DEF n
  <2>6. /\ DrawCells[k] \in Statement /\ DrawCells[k].do = "mvaddch"
        /\ DrawCells[k].row = n \div Width /\ DrawCells[k].column = n % Width
    BY <2>2, <2>5, PlacedStatement
  <2> QED BY <2>2, <2>6 DEF n
<1>2. DrawCells \in Seq(Statement)
  <2>1. DrawCells \in [1 .. Size -> Statement]
    BY <1>0, <1>1 DEF DrawCells, Size
  <2> QED BY <1>0, <2>1
<1>3. Plan(DrawCells, {})
  <2>1. Whole(DrawCells) /\ \A i \in DOMAIN DrawCells : ~Matters(DrawCells[i])
    BY <1>0, <1>1 DEF Whole, Halves, Matters
  <2> QED BY <1>2, <2>1, Changeless
<1>4. Calm(DrawCells) /\ NoStart(DrawCells)
  BY <1>0, <1>1 DEF Calm, Spoils, NoStart
<1>5. ASSUME NEW c \in Cells PROVE \E j \in DOMAIN DrawCells : Draws(DrawCells[j], c)
  <2>1. PICK y \in Rows, x \in Columns : c = <<y, x>>
    BY DEF Cells
  <2> DEFINE n == Linear(y, x)
  <2>2. n \in 0 .. Size - 1 /\ n \div Width = y /\ n % Width = x
    BY LinearCell
  <2> HIDE DEF n
  <2>3. n + 1 \in 1 .. Size /\ (n + 1) - 1 = n
    BY <1>0, <2>2
  <2>4. DrawCells[n + 1].do = "mvaddch" /\ DrawCells[n + 1].row = y /\ DrawCells[n + 1].column = x
    BY <1>1, <2>2, <2>3
  <2> QED BY <1>0, <2>1, <2>3, <2>4 DEF Draws
<1> QED BY <1>2, <1>3, <1>4, <1>5

\* A list of one statement without coordinates.
LEMMA OneStatement ==
  ASSUME NEW what \in Plain, what \notin {"blank", "return"}
  PROVE  /\ <<Do(what)>> \in Seq(Statement) /\ Plan(<<Do(what)>>, {})
         /\ DOMAIN <<Do(what)>> = {1} /\ <<Do(what)>>[1].do = what
<1>1. Do(what) \in Statement /\ Do(what).do = what
  BY PlainStatement
<1>2. <<Do(what)>> \in Seq(Statement) /\ DOMAIN <<Do(what)>> = {1} /\ <<Do(what)>>[1].do = what
  BY <1>1
<1>3. Whole(<<Do(what)>>) /\ \A i \in DOMAIN <<Do(what)>> : ~Matters(<<Do(what)>>[i])
  BY <1>2 DEF Whole, Halves, Matters, Plain
<1> QED BY <1>2, <1>3, Changeless

\* render_screen draws the screen when curses is in use, and changes nothing.
LEMMA RenderPlan ==
  /\ RenderScreen \in Seq(Statement) /\ Plan(RenderScreen, {}) /\ NoStart(RenderScreen)
  /\ inited => Redraws(RenderScreen)
  /\ ~inited => RenderScreen = <<>>
<1>1. CASE ~inited
  <2>1. RenderScreen = <<>> /\ <<>> \in Seq(Statement)
    BY <1>1 DEF RenderScreen
  <2>2. Plan(<<>>, {})
    BY DEF Plan, Whole, Sorted, Pending
  <2> QED BY <1>1, <2>1, <2>2 DEF NoStart
<1>2. CASE inited
  <2> DEFINE c == <<Do("clear")>>
             m == <<Do("move")>>
  <2>1. RenderScreen = (c \o DrawCells) \o m
    BY <1>2 DEF RenderScreen
  <2>2. /\ c \in Seq(Statement) /\ m \in Seq(Statement) /\ Plan(c, {}) /\ Plan(m, {})
        /\ DOMAIN c = {1} /\ DOMAIN m = {1} /\ c[1].do = "clear" /\ m[1].do = "move"
    BY OneStatement DEF Plain
  <2> HIDE DEF c, m
  <2>3. Len(c) = 1
    BY <2>2
  <2>4. c \o DrawCells \in Seq(Statement) /\ NoStart(c \o DrawCells) /\ Plan(c \o DrawCells, {})
    <3>1. NoStart(c)
      BY <2>2 DEF NoStart
    <3>2. Plan(c \o DrawCells, {} \cup {})
      BY <2>2, DrawCellsPlan, PlansJoin
    <3> QED BY <3>1, <3>2, <2>2, DrawCellsPlan, RedrawsJoin, Joined
  <2>5. Redraws(c \o DrawCells)
    <3>1. 1 \in DOMAIN (c \o DrawCells) /\ (c \o DrawCells)[1].do = "clear"
      BY <2>2, DrawCellsPlan, Joined
    <3>2. \A j \in DOMAIN (c \o DrawCells) : j > 1 => ~Spoils((c \o DrawCells)[j])
      BY <2>2, <2>3, DrawCellsPlan, Joined DEF Calm
    <3>3. \A d \in Cells : \E j \in DOMAIN (c \o DrawCells) : j > 1 /\ Draws((c \o DrawCells)[j], d)
      <4> TAKE d \in Cells
      <4>1. PICK j \in DOMAIN DrawCells : Draws(DrawCells[j], d)
        BY DrawCellsPlan
      <4>2. j \in Nat \ {0}
        BY <4>1, DrawCellsPlan
      <4>3. Len(c) + j \in DOMAIN (c \o DrawCells) /\ (c \o DrawCells)[Len(c) + j] = DrawCells[j]
        BY <2>2, <4>1, DrawCellsPlan, Joined
      <4> QED BY <2>3, <4>1, <4>2, <4>3
    <3> QED BY <3>1, <3>2, <3>3 DEF Redraws
  <2>6. Calm(m) /\ NoStart(m)
    BY <2>2 DEF Calm, NoStart, Spoils
  <2>7. Plan(RenderScreen, {} \cup {})
    BY <2>1, <2>2, <2>4, PlansJoin
  <2>8. RenderScreen \in Seq(Statement) /\ Redraws(RenderScreen) /\ NoStart(RenderScreen)
    BY <2>1, <2>2, <2>4, <2>5, <2>6, RedrawsJoin, Joined
  <2> QED BY <1>2, <2>7, <2>8
<1> QED BY <1>1, <1>2

-----------------------------------------------------------------------------
\* What a service may leave to do: it does not start curses, and the terminal
\* is right in the end.
Service(t, changes) ==
  Plan(t, changes) /\ NoStart(t) /\ (inited => Redraws(t) \/ Calm(t))

\* A service that ends with a drawing.
LEMMA DrawnService ==
  ASSUME NEW a, NEW R, Plan(a, R), NoStart(a)
  PROVE  Service(a \o RenderScreen, R)
<1>1. Plan(a \o RenderScreen, R \cup {})
  BY RenderPlan, PlansJoin
<1>2. a \in Seq(Statement)
  BY DEF Plan
<1>3. NoStart(a \o RenderScreen) /\ (inited => Redraws(a \o RenderScreen))
  BY <1>2, RenderPlan, RedrawsJoin
<1> QED BY <1>1, <1>3 DEF Service

\* set_cursor, for a position on the screen.
LEMMA SetCursorPlan ==
  ASSUME NEW y \in Rows, NEW x \in Columns
  PROVE  /\ SetCursor(y, x) \in Seq(Statement) /\ Plan(SetCursor(y, x), {CursorAt(y, x)})
         /\ Calm(SetCursor(y, x)) /\ NoStart(SetCursor(y, x))
<1> DEFINE a == <<At("cursor", y, x), At("window_x", y, x), At("window_y", y, x)>>
           m == IF inited THEN <<Do("move")>> ELSE <<>>
<1>1. SetCursor(y, x) = a \o m
  <2>1. Overrun(y, 0, Height - 1) = y /\ Overrun(x, 0, Width - 1) = x
    BY ConsoleAssumption DEF Overrun, Rows, Columns
  <2> QED BY <2>1 DEF SetCursor
<1>2. /\ At("cursor", y, x) \in Statement /\ At("cursor", y, x).do = "cursor"
      /\ At("window_x", y, x) \in Statement /\ At("window_x", y, x).do = "window_x"
      /\ At("window_y", y, x) \in Statement /\ At("window_y", y, x).do = "window_y"
  BY PlacedStatement
<1>3. /\ a \in Seq(Statement) /\ DOMAIN a = {1, 2, 3}
      /\ a[1] = CursorAt(y, x) /\ a[1].do = "cursor" /\ a[2].do = "window_x" /\ a[3].do = "window_y"
  BY <1>2 DEF CursorAt
<1>4. CursorAt(y, x) \in Statement
  BY <1>2 DEF CursorAt
<1> HIDE DEF a
<1>5. Plan(a, {CursorAt(y, x)})
  <2>1. Sorted(a)
    BY <1>3 DEF Sorted, Matters
  <2>2. Pending(a) = {CursorAt(y, x)}
    BY <1>3, <1>4 DEF Pending, Matters
  <2>3. Whole(a)
    BY <1>3 DEF Whole, Halves
  <2> QED BY <1>3, <2>1, <2>2, <2>3 DEF Plan
<1>6. Calm(a) /\ NoStart(a)
  BY <1>3 DEF Calm, NoStart, Spoils
<1>7. m \in Seq(Statement) /\ Plan(m, {}) /\ Calm(m) /\ NoStart(m)
  <2>1. CASE inited
    <3>1. m = <<Do("move")>>
      BY <2>1
    <3>2. Calm(m) /\ NoStart(m)
      BY <3>1, OneStatement DEF Calm, NoStart, Spoils, Plain
    <3> QED BY <3>1, <3>2, OneStatement DEF Plain
  <2>2. CASE ~inited
    <3>1. m = <<>>
      BY <2>2
    <3> QED BY <3>1 DEF Plan, Whole, Sorted, Pending, Calm, NoStart
  <2> QED BY <2>1, <2>2
<1> HIDE DEF m
<1>8. Plan(a \o m, {CursorAt(y, x)} \cup {})
  BY <1>5, <1>7, PlansJoin
<1> QED BY <1>1, <1>3, <1>6, <1>7, <1>8, RedrawsJoin, Joined

\* The loop of newline that moves the rows up.
LEMMA ScrollPlan ==
  ASSUME NEW t, t = [i \in 1 .. Height - 1 |-> At("scroll", i - 1, 0)]
  PROVE  Plan(t, Scrolls) /\ NoStart(t)
<1> USE ConsoleAssumption
<1>1. ASSUME NEW y \in 0 .. Height - 2
      PROVE  At("scroll", y, 0) \in Statement /\ At("scroll", y, 0).do = "scroll" /\ At("scroll", y, 0).row = y
  <2>1. At("scroll", y, 0) = [do |-> "scroll", row |-> y, column |-> 0, ch |-> Blank, off |-> 0]
    BY DEF At
  <2>2. "scroll" \in Placed /\ Blank \in Glyphs
    BY DEF Placed, Glyphs
  <2>3. At("scroll", y, 0) \in [do : Plain \cup Placed \cup Halves, row : Int, column : Int, ch : Glyphs, off : Int]
    BY <2>1, <2>2
  <2> QED BY <2>1, <2>3 DEF Statement, Halves
<1>2. DOMAIN t = 1 .. Height - 1 /\ Height - 1 \in Nat
  OBVIOUS
<1>3. ASSUME NEW i \in 1 .. Height - 1
      PROVE  t[i] \in Statement /\ t[i].do = "scroll" /\ t[i].row = i - 1 /\ t[i] = At("scroll", i - 1, 0)
  <2>1. i - 1 \in 0 .. Height - 2
    OBVIOUS
  <2> QED BY <2>1, <1>1
<1>4. t \in Seq(Statement)
  <2>1. t \in [1 .. Height - 1 -> Statement]
    BY <1>3
  <2> QED BY <1>2, <2>1
<1>5. Sorted(t)
  BY <1>2, <1>3 DEF Sorted, Before
<1>6. Pending(t) = Scrolls
  <2>1. ASSUME NEW s \in Pending(t) PROVE s \in Scrolls
    <3>1. PICK i \in DOMAIN t : t[i] = s
      BY DEF Pending
    <3>2. i - 1 \in 0 .. Height - 2
      BY <1>2
    <3> QED BY <1>2, <1>3, <3>1, <3>2 DEF Scrolls
  <2>2. ASSUME NEW s \in Scrolls PROVE s \in Pending(t)
    <3>1. PICK y \in 0 .. Height - 2 : s = At("scroll", y, 0)
      BY DEF Scrolls
    <3>2. y + 1 \in 1 .. Height - 1 /\ (y + 1) - 1 = y
      BY <3>1
    <3>3. t[y + 1] = s
      BY <1>3, <3>1, <3>2
    <3> QED BY <1>1, <1>2, <3>1, <3>2, <3>3 DEF Pending, Matters
  <2> QED BY <2>1, <2>2
<1>7. NoStart(t) /\ Whole(t)
  BY <1>2, <1>3 DEF NoStart, Whole, Halves
<1> QED BY <1>4, <1>5, <1>6, <1>7 DEF Plan

NewlineChanges(y) ==
  IF y = Height - 1 THEN Scrolls \cup {Do("blank")} \cup {CursorAt(y, 0)} ELSE {CursorAt(y + 1, 0)}

\* newline.
LEMMA NewlineService ==
  ASSUME NEW y \in Rows
  PROVE  /\ Plan(Newline(y), NewlineChanges(y)) /\ NoStart(Newline(y))
         /\ Service(Newline(y), NewlineChanges(y))
<1> USE ConsoleAssumption
<1>0. 0 \in Columns /\ y \in Int
  BY DEF Columns, Rows
<1>1. CASE y # Height - 1
  <2>1. y + 1 \in Rows
    BY <1>1 DEF Rows
  <2>2. Newline(y) = SetCursor(y + 1, 0) /\ NewlineChanges(y) = {CursorAt(y + 1, 0)}
    BY <1>1 DEF Newline, NewlineChanges
  <2> QED BY <1>0, <2>1, <2>2, SetCursorPlan DEF Service
<1>2. CASE y = Height - 1
  <2> DEFINE t == [i \in 1 .. Height - 1 |-> At("scroll", i - 1, 0)]
             b == <<Do("blank")>>
             c == SetCursor(y, 0)
  <2>1. Newline(y) = ((t \o b) \o c) \o RenderScreen
    BY <1>2 DEF Newline
  <2>2. Plan(t, Scrolls) /\ NoStart(t)
    BY ScrollPlan
  <2>3. Do("blank") \in Statement /\ Do("blank").do = "blank"
    BY PlainStatement DEF Plain
  <2>4. Plan(b, {Do("blank")}) /\ NoStart(b)
    <3>1. b \in Seq(Statement) /\ DOMAIN b = {1} /\ b[1] = Do("blank")
      BY <2>3
    <3>2. Sorted(b) /\ Pending(b) = {Do("blank")} /\ NoStart(b)
      BY <2>3, <3>1 DEF Sorted, Pending, Matters, NoStart
    <3>3. Whole(b)
      BY <2>3, <3>1 DEF Whole, Halves
    <3> QED BY <3>1, <3>2, <3>3 DEF Plan
  <2>5. c \in Seq(Statement) /\ Plan(c, {CursorAt(y, 0)}) /\ NoStart(c)
    BY <1>0, SetCursorPlan
  <2>6. \A s \in Scrolls : s.do = "scroll"
    BY DEF Scrolls, At
  <2>7. CursorAt(y, 0).do = "cursor"
    BY DEF CursorAt, At
  <2> HIDE DEF t, b, c
  <2>8. Plan(t \o b, Scrolls \cup {Do("blank")})
    <3>1. \A s \in Scrolls, u \in {Do("blank")} : Before(s, u)
      <4> TAKE s \in Scrolls, u \in {Do("blank")}
      <4>1. s.do = "scroll" /\ u.do = "blank"
        BY <2>3, <2>6
      <4> QED BY <4>1 DEF Before
    <3> QED BY <2>2, <2>4, <3>1, PlansJoin
  <2>9. Plan((t \o b) \o c, Scrolls \cup {Do("blank")} \cup {CursorAt(y, 0)})
    <3>1. \A s \in Scrolls \cup {Do("blank")}, u \in {CursorAt(y, 0)} : Before(s, u)
      <4> TAKE s \in Scrolls \cup {Do("blank")}, u \in {CursorAt(y, 0)}
      <4>1. s.do \in {"scroll", "blank"} /\ u.do = "cursor"
        BY <2>3, <2>6, <2>7
      <4> QED BY <4>1 DEF Before
    <3> QED BY <2>5, <2>8, <3>1, PlansJoin
  <2>10. t \in Seq(Statement) /\ b \in Seq(Statement) /\ t \o b \in Seq(Statement)
    BY <2>2, <2>4, <2>8 DEF Plan
  <2>11. NoStart((t \o b) \o c)
    BY <2>2, <2>4, <2>5, <2>10, RedrawsJoin
  <2>12. Service(Newline(y), NewlineChanges(y))
    BY <1>2, <2>1, <2>9, <2>11, DrawnService DEF NewlineChanges
  <2> QED BY <2>12 DEF Service
<1> QED BY <1>1, <1>2

TeletypeChanges(y, x, ch) ==
  {PutAt(y, x, ch)} \cup (IF x + 1 >= Width THEN NewlineChanges(y) ELSE {CursorAt(y, x + 1)})

\* The kinds of the changes.
LEMMA ChangeKinds ==
  ASSUME NEW y, NEW x, NEW ch
  PROVE  /\ PutAt(y, x, ch).do = "put"
         /\ \A u \in NewlineChanges(y) : u.do \in {"scroll", "blank", "cursor"}
         /\ \A u \in TeletypeChanges(y, x, ch) : u = PutAt(y, x, ch) \/ u.do \in {"scroll", "blank", "cursor"}
<1>1. \A u \in Scrolls : u.do = "scroll"
  BY DEF Scrolls, At
<1>2. Do("blank").do = "blank"
  BY DEF Do, At
<1>3. \A b, a : CursorAt(b, a).do = "cursor"
  BY DEF CursorAt, At
<1>4. \A u \in NewlineChanges(y) : u.do \in {"scroll", "blank", "cursor"}
  BY <1>1, <1>2, <1>3 DEF NewlineChanges
<1>5. PutAt(y, x, ch).do = "put"
  BY DEF PutAt
<1> QED BY <1>3, <1>4, <1>5 DEF TeletypeChanges

\* The store of a character.
LEMMA PutStatement ==
  ASSUME NEW y \in Rows, NEW x \in Columns, NEW ch \in Chars
  PROVE  /\ PutAt(y, x, ch) \in Statement
         /\ PutAt(y, x, ch) = [do |-> "put", row |-> y, column |-> x, ch |-> ch, off |-> 0]
<1>1. y \in Int /\ x \in Int /\ ch \in Glyphs /\ "put" \in Placed
  BY DEF Rows, Columns, Glyphs, Placed
<1>2. PutAt(y, x, ch) = [do |-> "put", row |-> y, column |-> x, ch |-> ch, off |-> 0]
  BY DEF PutAt
<1>3. PutAt(y, x, ch) \in [do : Plain \cup Placed \cup Halves, row : Int, column : Int, ch : Glyphs, off : Int]
  BY <1>1, <1>2
<1> QED BY <1>2, <1>3 DEF Statement

\* teletype, with the cursor on the screen.
LEMMA TeletypeService ==
  ASSUME NEW y \in Rows, NEW x \in Columns, cursor = <<y, x>>, NEW ch \in Chars
  PROVE  Service(Teletype(ch), TeletypeChanges(y, x, ch))
<1> USE ConsoleAssumption
<1> DEFINE p == <<Do("lock"), Do("unlock"), PutAt(y, x, ch)>>
           n == IF x + 1 >= Width THEN Newline(y) ELSE SetCursor(y, x + 1)
           Q == IF x + 1 >= Width THEN NewlineChanges(y) ELSE {CursorAt(y, x + 1)}
<1>1. Teletype(ch) = (p \o n) \o RenderScreen
  BY DEF Teletype
<1>2. Plan(p, {PutAt(y, x, ch)}) /\ NoStart(p)
  <2>1. /\ Do("lock") \in Statement /\ Do("lock").do = "lock"
        /\ Do("unlock") \in Statement /\ Do("unlock").do = "unlock"
    BY PlainStatement DEF Plain
  <2>2. PutAt(y, x, ch) \in Statement /\ PutAt(y, x, ch).do = "put"
    BY PutStatement
  <2>3. p \in Seq(Statement) /\ DOMAIN p = {1, 2, 3} /\ p[3] = PutAt(y, x, ch)
        /\ p[1].do = "lock" /\ p[2].do = "unlock" /\ p[3].do = "put"
    BY <2>1, <2>2
  <2> HIDE DEF p
  <2>4. Sorted(p) /\ NoStart(p) /\ Whole(p)
    BY <2>3 DEF Sorted, Matters, NoStart, Whole, Halves
  <2>5. Pending(p) = {PutAt(y, x, ch)}
    BY <2>2, <2>3 DEF Pending, Matters
  <2> QED BY <2>3, <2>4, <2>5 DEF Plan
<1>3. Plan(n, Q) /\ NoStart(n) /\ \A u \in Q : u.do \in {"scroll", "blank", "cursor"}
  <2>0. \A r, c : CursorAt(r, c).do = "cursor"
    BY DEF CursorAt, At
  <2>1. CASE x + 1 >= Width
    <3>1. n = Newline(y) /\ Q = NewlineChanges(y)
      BY <2>1
    <3> QED BY <3>1, ChangeKinds, NewlineService
  <2>2. CASE ~(x + 1 >= Width)
    <3>1. n = SetCursor(y, x + 1) /\ Q = {CursorAt(y, x + 1)} /\ x + 1 \in Columns
      BY <2>2 DEF Columns
    <3> QED BY <2>0, <3>1, SetCursorPlan
  <2> QED BY <2>1, <2>2
<1> HIDE DEF p, n, Q
<1>4. Plan(p \o n, {PutAt(y, x, ch)} \cup Q)
  <2>1. PutAt(y, x, ch).do = "put"
    BY PutStatement
  <2>2. \A s \in {PutAt(y, x, ch)}, u \in Q : Before(s, u)
    <3> TAKE s \in {PutAt(y, x, ch)}, u \in Q
    <3>1. s.do = "put" /\ u.do \in {"scroll", "blank", "cursor"}
      BY <1>3, <2>1
    <3> QED BY <3>1 DEF Before
  <2> QED BY <1>2, <1>3, <2>2, PlansJoin
<1>5. p \in Seq(Statement) /\ n \in Seq(Statement)
  BY <1>2, <1>3 DEF Plan
<1>6. NoStart(p \o n)
  BY <1>2, <1>3, <1>5, RedrawsJoin
<1>7. {PutAt(y, x, ch)} \cup Q = TeletypeChanges(y, x, ch)
  BY DEF Q, TeletypeChanges
<1> QED BY <1>1, <1>4, <1>6, <1>7, DrawnService

\* A store of the guest.
LEMMA StorePlan ==
  ASSUME NEW ch \in Chars, NEW t, t = <<Do("lock"), PutAt(0, 0, ch), Do("unlock")>>
  PROVE  Plan(t, {PutAt(0, 0, ch)}) /\ NoStart(t)
<1>1. /\ Do("lock") \in Statement /\ Do("lock").do = "lock"
      /\ Do("unlock") \in Statement /\ Do("unlock").do = "unlock"
  BY PlainStatement DEF Plain
<1>2. 0 \in Rows /\ 0 \in Columns
  BY ConsoleAssumption DEF Rows, Columns
<1>3. PutAt(0, 0, ch) \in Statement /\ PutAt(0, 0, ch).do = "put"
  BY <1>2, PutStatement
<1>4. t \in Seq(Statement) /\ DOMAIN t = {1, 2, 3} /\ t[2] = PutAt(0, 0, ch)
      /\ t[1].do = "lock" /\ t[2].do = "put" /\ t[3].do = "unlock"
  BY <1>1, <1>3
<1>5. Sorted(t) /\ NoStart(t) /\ Whole(t)
  BY <1>4 DEF Sorted, Matters, NoStart, Whole, Halves
<1>6. Pending(t) = {PutAt(0, 0, ch)}
  BY <1>3, <1>4 DEF Pending, Matters
<1> QED BY <1>4, <1>5, <1>6 DEF Plan

\* initialize and start_again.
LEMMA StartPlan == Plan(StartAgain, {}) /\ Redraws(StartAgain)
<1> DEFINE a == <<Do("initscr"), Do("recalc"), Do("clear")>>
           m == <<Do("move"), Do("signal")>>
<1>1. StartAgain = (a \o DrawCells) \o m
  BY DEF StartAgain
<1>2. /\ Do("initscr") \in Statement /\ Do("initscr").do = "initscr"
      /\ Do("recalc") \in Statement /\ Do("recalc").do = "recalc"
      /\ Do("clear") \in Statement /\ Do("clear").do = "clear"
      /\ Do("move") \in Statement /\ Do("move").do = "move"
      /\ Do("signal") \in Statement /\ Do("signal").do = "signal"
  BY PlainStatement DEF Plain
<1>3. /\ a \in Seq(Statement) /\ DOMAIN a = {1, 2, 3} /\ Len(a) = 3
      /\ a[1].do = "initscr" /\ a[2].do = "recalc" /\ a[3].do = "clear"
  BY <1>2
<1>4. m \in Seq(Statement) /\ DOMAIN m = {1, 2} /\ m[1].do = "move" /\ m[2].do = "signal"
  BY <1>2
<1> HIDE DEF a, m
<1>5. Plan(a, {}) /\ Plan(m, {}) /\ Calm(m)
  <2>1. Whole(a) /\ \A i \in DOMAIN a : ~Matters(a[i])
    BY <1>3 DEF Whole, Halves, Matters
  <2>2. Whole(m) /\ Calm(m) /\ \A i \in DOMAIN m : ~Matters(m[i])
    BY <1>4 DEF Whole, Halves, Matters, Calm, Spoils
  <2> QED BY <1>3, <1>4, <2>1, <2>2, Changeless
<1>6. Plan(a \o DrawCells, {} \cup {})
  BY <1>5, DrawCellsPlan, PlansJoin
<1>7. a \o DrawCells \in Seq(Statement)
  BY <1>6 DEF Plan
<1>8. Redraws(a \o DrawCells)
  <2>1. 3 \in DOMAIN (a \o DrawCells) /\ (a \o DrawCells)[3].do = "clear"
    BY <1>3, DrawCellsPlan, Joined
  <2>2. \A j \in DOMAIN (a \o DrawCells) : j > 3 => ~Spoils((a \o DrawCells)[j])
    BY <1>3, DrawCellsPlan, Joined DEF Calm
  <2>3. \A d \in Cells : \E j \in DOMAIN (a \o DrawCells) : j > 3 /\ Draws((a \o DrawCells)[j], d)
    <3> TAKE d \in Cells
    <3>1. PICK j \in DOMAIN DrawCells : Draws(DrawCells[j], d)
      BY DrawCellsPlan
    <3>2. j \in Nat \ {0}
      BY <3>1, DrawCellsPlan
    <3>3. Len(a) + j \in DOMAIN (a \o DrawCells) /\ (a \o DrawCells)[Len(a) + j] = DrawCells[j]
      BY <1>3, <3>1, DrawCellsPlan, Joined
    <3> QED BY <1>3, <3>1, <3>2, <3>3
  <2> QED BY <2>1, <2>2, <2>3 DEF Redraws
<1>9. Plan((a \o DrawCells) \o m, ({} \cup {}) \cup {})
  BY <1>5, <1>6, PlansJoin
<1> QED BY <1>1, <1>4, <1>5, <1>7, <1>8, <1>9, RedrawsJoin

\* handle_resize with the return to the interrupted statement, its last one.
LEMMA ResizePlan ==
  ASSUME inited, NEW t, t = Append(HandleResize, Do("return"))
  PROVE  /\ t \in Seq(Statement) /\ Sorted(t) /\ Pending(t) = {} /\ Redraws(t) /\ NoStart(t)
         /\ Len(t) \in Nat \ {0} /\ DOMAIN t = 1 .. Len(t) /\ t[Len(t)].do = "return"
         /\ \A i \in DOMAIN t : i # Len(t) => t[i].do \notin Halves \cup {"return"}
<1> DEFINE a == <<Do("recalc")>>
           m == <<Do("move")>>
           e == <<Do("return")>>
           h == (a \o RenderScreen) \o m
<1>1. HandleResize = h
  BY DEF HandleResize
<1>2. /\ a \in Seq(Statement) /\ Plan(a, {}) /\ DOMAIN a = {1} /\ a[1].do = "recalc"
      /\ m \in Seq(Statement) /\ Plan(m, {}) /\ DOMAIN m = {1} /\ m[1].do = "move"
  BY OneStatement DEF Plain
<1>3. e \in Seq(Statement) /\ Len(e) = 1 /\ DOMAIN e = {1} /\ e[1].do = "return"
  <2>1. Do("return") \in Statement /\ Do("return").do = "return"
    BY PlainStatement DEF Plain
  <2> QED BY <2>1
<1>4. t = h \o e
  <2>1. h \in Seq(Statement)
    BY <1>2, RenderPlan, Joined
  <2>2. Do("return") \in Statement
    BY PlainStatement DEF Plain
  <2> HIDE DEF h
  <2> QED BY <1>1, <2>1, <2>2, AppendIsConcat
<1> HIDE DEF a, m, e
<1>5. Calm(m) /\ Calm(e) /\ NoStart(a) /\ NoStart(m) /\ NoStart(e)
  BY <1>2, <1>3 DEF Calm, NoStart, Spoils
<1>6. Sorted(e) /\ Pending(e) = {}
  BY <1>3 DEF Sorted, Pending, Matters
<1>7. /\ Plan(a \o RenderScreen, {}) /\ Redraws(a \o RenderScreen) /\ NoStart(a \o RenderScreen)
      /\ a \o RenderScreen \in Seq(Statement)
  <2>1. Plan(a \o RenderScreen, {} \cup {})
    BY <1>2, RenderPlan, PlansJoin
  <2> QED BY <2>1, <1>2, <1>5, RenderPlan, RedrawsJoin, Joined
<1>8. Plan(h, {}) /\ Redraws(h) /\ NoStart(h) /\ h \in Seq(Statement)
  <2>1. Plan(h, {} \cup {})
    BY <1>2, <1>7, PlansJoin
  <2>2. Redraws(h) /\ NoStart(h)
    BY <1>2, <1>5, <1>7, RedrawsJoin
  <2>3. h \in Seq(Statement)
    BY <1>2, <1>7, Joined
  <2> QED BY <2>1, <2>2, <2>3
<1> HIDE DEF h
<1>9. t \in Seq(Statement) /\ Sorted(t) /\ Pending(t) = {}
  <2>1. Sorted(h) /\ Pending(h) = {}
    BY <1>8 DEF Plan
  <2> QED BY <1>3, <1>4, <1>6, <1>8, <2>1, ChangesJoin
<1>10. Redraws(t) /\ NoStart(t)
  BY <1>3, <1>4, <1>5, <1>8, RedrawsJoin
<1>11. Len(t) = Len(h) + 1 /\ Len(h) \in Nat /\ DOMAIN t = 1 .. Len(t)
  <2>1. Len(h \o e) = Len(h) + Len(e) /\ Len(h) \in Nat /\ DOMAIN (h \o e) = 1 .. Len(h) + Len(e)
    BY <1>3, <1>8, Joined
  <2> QED BY <1>3, <1>4, <2>1
<1>12. t[Len(t)].do = "return"
  <2>1. (h \o e)[Len(h) + 1] = e[1]
    BY <1>3, <1>8, Joined
  <2> QED BY <1>3, <1>4, <1>11, <2>1
<1>13. ASSUME NEW i \in DOMAIN t, i # Len(t) PROVE t[i].do \notin Halves \cup {"return"}
  <2>1. i \in DOMAIN h /\ t[i] = h[i]
    BY <1>3, <1>4, <1>8, <1>11, <1>13, Joined
  <2> QED BY <1>8, <2>1 DEF Plan, Whole
<1> QED BY <1>9, <1>10, <1>11, <1>12, <1>13

\* cleanup, and the announcement of an interruption.
LEMMA CleanupPlan == Plan(Cleanup, {}) /\ Calm(Cleanup) /\ NoStart(Cleanup)
<1>1. CASE inited
  <2>1. Cleanup = <<Do("endwin")>>
    BY <1>1 DEF Cleanup
  <2> QED BY <2>1, OneStatement DEF Calm, NoStart, Spoils, Plain
<1>2. CASE ~inited
  <2>1. Cleanup = <<>>
    BY <1>2 DEF Cleanup
  <2> QED BY <2>1 DEF Plan, Whole, Sorted, Pending, Calm, NoStart
<1> QED BY <1>1, <1>2

\* It leaves curses and draws everything anew.
LEMMA AnnouncePlan == Plan(Announce, {}) /\ (Announce = <<>> \/ Redraws(Announce))
<1>1. CASE opt.verbose /\ inited
  <2>1. Announce = Cleanup \o StartAgain
    BY <1>1 DEF Announce
  <2>2. Plan(Cleanup \o StartAgain, {} \cup {})
    BY CleanupPlan, StartPlan, PlansJoin
  <2>3. Cleanup \in Seq(Statement) /\ StartAgain \in Seq(Statement)
    BY CleanupPlan, StartPlan DEF Plan
  <2> QED BY <2>1, <2>2, <2>3, StartPlan, RedrawsJoin
<1>2. CASE ~(opt.verbose /\ inited)
  <2>1. Announce = <<>>
    BY <1>2 DEF Announce
  <2> QED BY <2>1 DEF Plan, Whole, Sorted, Pending
<1> QED BY <1>1, <1>2

\* The first statement of a plan, and the rest of it.
LEMMA TailPlan ==
  ASSUME NEW t \in Seq(Statement), Sorted(t), t # <<>>
  PROVE  /\ Head(t) \in Statement
         /\ Tail(t) \in Seq(Statement) /\ Sorted(Tail(t))
         /\ ~Matters(Head(t)) => Pending(Tail(t)) = Pending(t)
         /\ Matters(Head(t)) =>
              /\ Head(t) \in Pending(t)
              /\ Pending(Tail(t)) = Pending(t) \ {Head(t)}
              /\ \A u \in Pending(Tail(t)) : Before(Head(t), u)
<1>1. /\ Len(t) \in Nat \ {0} /\ DOMAIN t = 1 .. Len(t)
      /\ Head(t) = t[1] /\ t[1] \in Statement
      /\ Tail(t) \in Seq(Statement) /\ DOMAIN Tail(t) = 1 .. (Len(t) - 1)
      /\ \A i \in DOMAIN Tail(t) : i + 1 \in DOMAIN t /\ i + 1 > 1 /\ Tail(t)[i] = t[i + 1]
      /\ \A i \in DOMAIN t : i # 1 => i - 1 \in DOMAIN Tail(t) /\ Tail(t)[i - 1] = t[i]
  OBVIOUS
<1>2. Sorted(Tail(t))
  <2> SUFFICES ASSUME NEW i \in DOMAIN Tail(t), NEW j \in DOMAIN Tail(t), i < j,
                      Matters(Tail(t)[i]), Matters(Tail(t)[j])
               PROVE  Before(Tail(t)[i], Tail(t)[j])
    BY DEF Sorted
  <2>1. i + 1 \in DOMAIN t /\ j + 1 \in DOMAIN t /\ i + 1 < j + 1
    BY <1>1
  <2>2. Tail(t)[i] = t[i + 1] /\ Tail(t)[j] = t[j + 1]
    BY <1>1
  <2> QED BY <2>1, <2>2 DEF Sorted
<1>3. ASSUME NEW u \in Pending(Tail(t))
      PROVE  u \in Pending(t) /\ (Matters(Head(t)) => Before(Head(t), u))
  <2>1. PICK i \in DOMAIN Tail(t) : Tail(t)[i] = u /\ u \in Statement /\ Matters(u)
    BY DEF Pending
  <2>2. i + 1 \in DOMAIN t /\ i + 1 > 1 /\ t[i + 1] = u /\ 1 \in DOMAIN t /\ Head(t) = t[1]
    BY <1>1, <2>1
  <2> QED BY <2>1, <2>2 DEF Pending, Sorted
<1>4. ASSUME NEW u \in Pending(t), u # Head(t) PROVE u \in Pending(Tail(t))
  <2>1. PICK i \in DOMAIN t : t[i] = u /\ u \in Statement /\ Matters(u)
    BY DEF Pending
  <2>2. i - 1 \in DOMAIN Tail(t) /\ Tail(t)[i - 1] = u
    BY <1>1, <1>4, <2>1
  <2> QED BY <2>1, <2>2 DEF Pending
<1>5. ASSUME Matters(Head(t)) PROVE Head(t) \in Pending(t) /\ Head(t) \notin Pending(Tail(t))
  <2>1. Head(t) \in Pending(t)
    BY <1>1, <1>5 DEF Pending
  <2>2. ~Before(Head(t), Head(t))
    <3>1. Head(t).do = "scroll" => Head(t).row \in Int
      BY <1>1 DEF Statement
    <3> QED BY <3>1 DEF Before
  <2> QED BY <1>3, <1>5, <2>1, <2>2
<1>6. ~Matters(Head(t)) => Head(t) \notin Pending(t)
  BY DEF Pending
<1> QED BY <1>1, <1>2, <1>3, <1>4, <1>5, <1>6

-----------------------------------------------------------------------------
ScreenType ==
  /\ video \in [Cells -> Glyphs]
  /\ paper \in [1 .. Size -> Glyphs]
  /\ place \in 0 .. Size - 1
  /\ cursor \in Cells
  /\ guiCursor \in [row : Rows, column : Columns, visible : BOOLEAN]
  /\ inited \in BOOLEAN
  /\ offset \in Nat
  /\ terminal \in [Places -> Glyphs]
  /\ todo \in Seq(Statement)
  /\ life \in {"main", "constructed"} => todo = <<>>

(***************************************************************************)
(* What the screen will hold when the pending changes R are made to v: the *)
(* last row is blank if that is still to be done, a row that is still to   *)
(* move up comes from the row below it, and a character still to be stored *)
(* is already part of it.                                                  *)
(***************************************************************************)
Ink(R, v, c, g) ==
  \/ \E s \in R : s.do = "put" /\ <<s.row, s.column>> = c /\ g = s.ch
  \/ (\A s \in R : s.do = "put" => <<s.row, s.column>> # c) /\ g = v[c]

Origin(R, c) == IF \E s \in R : s.do = "scroll" /\ s.row = c[1] THEN <<c[1] + 1, c[2]>> ELSE c

WillBe(R, v, c, g) ==
  IF c[1] = Height - 1 /\ (\E s \in R : s.do = "blank") THEN g = Blank
  ELSE Ink(R, v, Origin(R, c), g)

Prints(R, v, roll) == \A c \in Cells : WillBe(R, v, c, roll[Linear(c[1], c[2]) + 1])

\* The cursor will be where printing goes on.
Arrives(R, cur, at) ==
  \/ \E s \in R : s.do = "cursor" /\ Linear(s.row, s.column) = at
  \/ (\A s \in R : s.do # "cursor") /\ Linear(cur[1], cur[2]) = at

ScreenInv ==
  /\ Sorted(todo)
  /\ Prints(Pending(todo), video, paper)
  /\ Arrives(Pending(todo), cursor, place)

(***************************************************************************)
(* A mvaddch that has begun puts its character at the place of its cell,   *)
(* unless the handler has run in it: then the offsets or the pen are       *)
(* others.                                                                 *)
(***************************************************************************)
Aligned(s, pn, off) ==
  IF s.do = "wmove" THEN s.off = off ELSE pn = PlaceOf(s.row, s.column, off)

\* The cell is still to be drawn.
Due(t, pn, off, c) ==
  \/ \E i \in DOMAIN t : Draws(t[i], c)
  \/ t # <<>> /\ t[1].do \in Halves /\ <<t[1].row, t[1].column>> = c /\ Aligned(t[1], pn, off)

(***************************************************************************)
(* The terminal is right except for stray characters and for the cells     *)
(* that are still to be drawn, or everything will be drawn again; curses   *)
(* is not started without that.                                            *)
(***************************************************************************)
Shown(t, term, pn, off, v, str) ==
  /\ Calm(t)
  /\ \A p \in Places \ str :
       IF <<p[1] - off, p[2] - off>> \in Cells
       THEN Due(t, pn, off, <<p[1] - off, p[2] - off>>) \/ term[p] = v[<<p[1] - off, p[2] - off>>]
       ELSE term[p] = Blank

TerminalInv ==
  /\ NoStart(todo) \/ Redraws(todo)
  /\ inited /\ ~stored => Redraws(todo) \/ Shown(todo, terminal, pen, offset, video, stray)

(***************************************************************************)
(* Why there is at most one stray character: only the statement that the   *)
(* one handler interrupted can be misplaced, it waits behind the handler's *)
(* return, and the handler clears the terminal before that.                *)
(***************************************************************************)
Nested(t) ==
  /\ \A i \in DOMAIN t : t[i].do \in Halves => i = 1 \/ t[i - 1].do = "return"
  /\ \A i, j \in DOMAIN t : t[i].do = "return" /\ t[j].do = "return" => i = j

Swept(t, str) ==
  \A i \in DOMAIN t :
    t[i].do = "return" /\ (\A j \in DOMAIN t : j < i => t[j].do # "clear") => str = {}

Misplaces(t, pn, off) == t # <<>> /\ t[1].do \in Halves /\ ~Aligned(t[1], pn, off)

Halfway(t, pn, off, str) ==
  /\ Nested(t)
  /\ Swept(t, str)
  /\ Misplaces(t, pn, off) => str = {} /\ \A i \in DOMAIN t : t[i].do # "return"
  /\ \A p, q \in str : p = q

HalfwayInv == Halfway(todo, pen, offset, stray)

IInv == ScreenType /\ ScreenInv /\ TerminalInv /\ HalfwayInv

-----------------------------------------------------------------------------
\* Different positions have different numbers.
LEMMA LinearInjective ==
  ASSUME NEW y \in Rows, NEW x \in Columns, NEW b \in Rows, NEW a \in Columns,
         Linear(y, x) = Linear(b, a)
  PROVE  y = b /\ x = a
<1>1. Linear(y, x) \div Width = y /\ Linear(y, x) % Width = x
  BY LinearCell
<1>2. Linear(b, a) \div Width = b /\ Linear(b, a) % Width = a
  BY LinearCell
<1> QED BY <1>1, <1>2

\* The end of the paper.
LEMMA FeedPastRoll ==
  ASSUME NEW roll \in [1 .. Size -> Glyphs], NEW at \in Nat, at < Size + Width
  PROVE  /\ at < Size => FeedPast(roll, at) = [roll |-> roll, at |-> at]
         /\ at >= Size =>
              /\ FeedPast(roll, at).at = at - Width
              /\ FeedPast(roll, at).roll \in [1 .. Size -> Glyphs]
              /\ \A i \in 1 .. Size : FeedPast(roll, at).roll[i] =
                                        IF i + Width <= Size THEN roll[i + Width] ELSE Blank
<1> USE ConsoleAssumption
<1>1. Size \in Nat \ {0} /\ Width <= Size
  BY LinearCell DEF Size, Rows, Columns
<1>2. roll \in Seq(Glyphs) /\ Len(roll) = Size
  BY <1>1
<1>3. at < Size => FeedPast(roll, at) = [roll |-> roll, at |-> at]
  BY <1>2 DEF FeedPast
<1>4. ASSUME at >= Size
      PROVE  /\ FeedPast(roll, at).at = at - Width
             /\ FeedPast(roll, at).roll \in [1 .. Size -> Glyphs]
             /\ \A i \in 1 .. Size : FeedPast(roll, at).roll[i] =
                                       IF i + Width <= Size THEN roll[i + Width] ELSE Blank
  <2> DEFINE a == SubSeq(roll, Width + 1, Len(roll))
             b == [i \in 1 .. Width |-> Blank]
  <2>1. FeedPast(roll, at) = [roll |-> a \o b, at |-> at - Width]
    BY <1>2, <1>4 DEF FeedPast
  <2>2. a \in Seq(Glyphs) /\ Len(a) = Size - Width /\ \A i \in 1 .. Size - Width : a[i] = roll[i + Width]
    <3>1. /\ a \in Seq(Glyphs)
          /\ Len(a) = Len(roll) - (Width + 1) + 1
          /\ \A i \in 1 .. Len(roll) - (Width + 1) + 1 : a[i] = roll[(Width + 1) + i - 1]
      <4>1. Width + 1 \in 1 .. Len(roll) + 1 /\ Len(roll) \in Width .. Len(roll)
        BY <1>1, <1>2
      <4> QED BY <1>1, <1>2, <4>1
    <3> QED BY <1>1, <1>2, <3>1
  <2>3. b \in Seq(Glyphs) /\ Len(b) = Width /\ \A i \in 1 .. Width : b[i] = Blank
    BY DEF Glyphs
  <2> HIDE DEF a, b
  <2>4. a \o b \in Seq(Glyphs) /\ Len(a \o b) = Size
        /\ \A i \in 1 .. Size : (a \o b)[i] = IF i <= Size - Width THEN a[i] ELSE b[i - (Size - Width)]
    BY <1>1, <2>2, <2>3
  <2>5. \A i \in 1 .. Size : (a \o b)[i] = IF i + Width <= Size THEN roll[i + Width] ELSE Blank
    BY <1>1, <2>2, <2>3, <2>4
  <2>6. a \o b \in [1 .. Size -> Glyphs]
    <3> DEFINE r == a \o b
    <3>1. r \in Seq(Glyphs) /\ Len(r) = Size
      BY <2>4
    <3> HIDE DEF r
    <3>2. r \in [1 .. Len(r) -> Glyphs]
      BY <3>1, LenProperties
    <3>3. r \in [1 .. Size -> Glyphs]
      BY <3>1, <3>2
    <3> QED BY <3>3 DEF r
  <2> DEFINE r == a \o b
  <2>7. FeedPast(roll, at).roll = r /\ FeedPast(roll, at).at = at - Width
    BY <2>1
  <2>8. r \in [1 .. Size -> Glyphs]
        /\ \A i \in 1 .. Size : r[i] = IF i + Width <= Size THEN roll[i + Width] ELSE Blank
    BY <2>5, <2>6
  <2> HIDE DEF r
  <2> QED BY <2>7, <2>8
<1> QED BY <1>3, <1>4

-----------------------------------------------------------------------------
\* Cells are pairs, and come from cells.
LEMMA OriginCell ==
  ASSUME NEW R \in SUBSET Statement, NEW c \in Cells
  PROVE  /\ c[1] \in Rows /\ c[2] \in Columns /\ c = <<c[1], c[2]>>
         /\ Origin(R, c) \in Cells
<1>1. c[1] \in Rows /\ c[2] \in Columns /\ c = <<c[1], c[2]>>
  BY DEF Cells
<1>2. ASSUME \E s \in R : s.do = "scroll" /\ s.row = c[1] PROVE c[1] + 1 \in Rows
  BY <1>2, ConsoleAssumption DEF Statement, Rows
<1> QED BY <1>1, <1>2 DEF Origin, Cells

\* The store of a character that was pending.
LEMMA PutStep ==
  ASSUME NEW R \in SUBSET Statement, NEW s \in R, s.do = "put", \A u \in R \ {s} : u.do # "put",
         NEW v \in [Cells -> Glyphs], NEW roll, Prints(R, v, roll)
  PROVE  Prints(R \ {s}, [v EXCEPT ![<<s.row, s.column>>] = s.ch], roll)
<1> DEFINE Q == R \ {s}
           w == [v EXCEPT ![<<s.row, s.column>>] = s.ch]
<1> SUFFICES ASSUME NEW c \in Cells PROVE WillBe(Q, w, c, roll[Linear(c[1], c[2]) + 1])
  BY DEF Prints
<1> DEFINE g == roll[Linear(c[1], c[2]) + 1]
           d == Origin(R, c)
<1>1. WillBe(R, v, c, g)
  BY DEF Prints
<1>2. (\E u \in R : u.do = "blank") <=> (\E u \in Q : u.do = "blank")
  OBVIOUS
<1>3. Origin(Q, c) = d
  BY DEF Origin
<1>4. d \in Cells
  BY OriginCell
<1>5. <<s.row, s.column>> \in Cells
  BY DEF Statement, Cells
<1>6. ASSUME Ink(R, v, d, g) PROVE Ink(Q, w, d, g)
  <2>1. \A u \in Q : u.do # "put"
    OBVIOUS
  <2>2. g = w[d]
    <3>1. CASE d = <<s.row, s.column>>
      BY <1>4, <1>6, <3>1 DEF Ink
    <3>2. CASE d # <<s.row, s.column>>
      BY <1>4, <1>6, <3>2 DEF Ink
    <3> QED BY <3>1, <3>2
  <2> QED BY <2>1, <2>2 DEF Ink
<1> QED BY <1>1, <1>2, <1>3, <1>6 DEF WillBe

\* A row moves up; those below it are still to move.
LEMMA ScrollStep ==
  ASSUME NEW R \in SUBSET Statement, NEW s \in R, s.do = "scroll", \A u \in R \ {s} : Before(s, u),
         NEW v \in [Cells -> Glyphs], NEW roll, Prints(R, v, roll)
  PROVE  Prints(R \ {s}, [c \in Cells |-> IF c[1] = s.row THEN v[<<s.row + 1, c[2]>>] ELSE v[c]], roll)
<1> DEFINE Q == R \ {s}
           w == [c \in Cells |-> IF c[1] = s.row THEN v[<<s.row + 1, c[2]>>] ELSE v[c]]
<1> SUFFICES ASSUME NEW c \in Cells PROVE WillBe(Q, w, c, roll[Linear(c[1], c[2]) + 1])
  BY DEF Prints
<1> DEFINE g == roll[Linear(c[1], c[2]) + 1]
<1>1. WillBe(R, v, c, g)
  BY DEF Prints
<1>2. (\E u \in R : u.do = "blank") <=> (\E u \in Q : u.do = "blank")
  OBVIOUS
<1>3. \A u \in R : u.do # "put"
  BY DEF Before
<1>4. \A u \in Q : u.do = "scroll" => s.row < u.row
  BY DEF Before
<1>5. s.row \in 0 .. Height - 2 /\ \A u \in Q : u.do = "scroll" => u.row \in 0 .. Height - 2
  BY DEF Statement
<1>6. c[1] \in Rows /\ Origin(R, c) \in Cells /\ Origin(Q, c) \in Cells /\ c = <<c[1], c[2]>>
  BY OriginCell
<1>7. w[Origin(Q, c)] = v[Origin(R, c)]
  <2>1. CASE c[1] = s.row
    <3>1. Origin(R, c) = <<c[1] + 1, c[2]>> /\ Origin(Q, c) = c
      BY <1>4, <1>5, <2>1 DEF Origin
    <3> QED BY <3>1, <2>1
  <2>2. CASE c[1] # s.row /\ \E u \in Q : u.do = "scroll" /\ u.row = c[1]
    <3>1. Origin(R, c) = <<c[1] + 1, c[2]>> /\ Origin(Q, c) = <<c[1] + 1, c[2]>>
      BY <2>2 DEF Origin
    <3>2. c[1] + 1 # s.row
      BY <1>4, <1>5, <2>2
    <3> QED BY <1>6, <3>1, <3>2
  <2>3. CASE c[1] # s.row /\ ~\E u \in Q : u.do = "scroll" /\ u.row = c[1]
    <3>1. Origin(R, c) = c /\ Origin(Q, c) = c
      BY <2>3 DEF Origin
    <3> QED BY <3>1, <2>3
  <2> QED BY <2>1, <2>2, <2>3
<1>8. Ink(R, v, Origin(R, c), g) => Ink(Q, w, Origin(Q, c), g)
  BY <1>3, <1>7 DEF Ink
<1> QED BY <1>1, <1>2, <1>8 DEF WillBe

\* The last row is blanked.
LEMMA BlankStep ==
  ASSUME NEW R \in SUBSET Statement, NEW s \in R, s.do = "blank", \A u \in R \ {s} : Before(s, u),
         NEW v \in [Cells -> Glyphs], NEW roll, Prints(R, v, roll)
  PROVE  Prints(R \ {s}, [c \in Cells |-> IF c[1] = Height - 1 THEN Blank ELSE v[c]], roll)
<1> DEFINE Q == R \ {s}
           w == [c \in Cells |-> IF c[1] = Height - 1 THEN Blank ELSE v[c]]
<1> SUFFICES ASSUME NEW c \in Cells PROVE WillBe(Q, w, c, roll[Linear(c[1], c[2]) + 1])
  BY DEF Prints
<1> DEFINE g == roll[Linear(c[1], c[2]) + 1]
<1>1. WillBe(R, v, c, g)
  BY DEF Prints
<1>2. (\A u \in Q : u.do = "cursor") /\ (\A u \in R : u.do \in {"blank", "cursor"})
  BY DEF Before
<1>3. Origin(R, c) = c /\ Origin(Q, c) = c
  BY <1>2 DEF Origin
<1>4. g = w[c]
  BY <1>1, <1>2, <1>3 DEF WillBe, Ink
<1>5. Ink(Q, w, c, g)
  BY <1>2, <1>4 DEF Ink
<1> QED BY <1>2, <1>3, <1>5 DEF WillBe

\* The cursor does not matter to what is printed.
LEMMA CursorStep ==
  ASSUME NEW R \in SUBSET Statement, NEW s \in R, s.do = "cursor", NEW v, NEW roll, Prints(R, v, roll)
  PROVE  Prints(R \ {s}, v, roll)
<1> SUFFICES ASSUME NEW c \in Cells PROVE WillBe(R \ {s}, v, c, roll[Linear(c[1], c[2]) + 1])
  BY DEF Prints
<1> DEFINE Q == R \ {s}
           g == roll[Linear(c[1], c[2]) + 1]
<1>1. WillBe(R, v, c, g)
  BY DEF Prints
<1>2. Origin(Q, c) = Origin(R, c)
  BY DEF Origin
<1>3. Ink(R, v, Origin(R, c), g) => Ink(Q, v, Origin(R, c), g)
  BY DEF Ink
<1> QED BY <1>1, <1>2, <1>3 DEF WillBe

-----------------------------------------------------------------------------
\* The screen but for characters that are still to be stored.
Inked(R, v, roll) == \A c \in Cells : Ink(R, v, c, roll[Linear(c[1], c[2]) + 1])

\* Between services the screen is the paper and the cursor where printing goes on.
LEMMA AtRest ==
  ASSUME NEW v, NEW roll, NEW cur, NEW at
  PROVE  /\ Prints({}, v, roll) <=> \A c \in Cells : v[c] = roll[Linear(c[1], c[2]) + 1]
         /\ Arrives({}, cur, at) <=> Linear(cur[1], cur[2]) = at
<1>1. \A c : Origin({}, c) = c
  BY DEF Origin
<1>2. \A c, g : Ink({}, v, c, g) <=> g = v[c]
  BY DEF Ink
<1>3. \A c, g : WillBe({}, v, c, g) <=> g = v[c]
  BY <1>1, <1>2 DEF WillBe
<1>4. Prints({}, v, roll) <=> \A c \in Cells : v[c] = roll[Linear(c[1], c[2]) + 1]
  BY <1>3 DEF Prints
<1> QED BY <1>4 DEF Arrives

\* A service that stores nothing.
LEMMA InkedNone ==
  ASSUME NEW R, \A u \in R : u.do # "put", NEW v, NEW roll, Prints({}, v, roll)
  PROVE  Inked(R, v, roll)
<1>1. \A c \in Cells : v[c] = roll[Linear(c[1], c[2]) + 1]
  BY AtRest
<1> QED BY <1>1 DEF Inked, Ink

\* A service that stores one character.
LEMMA InkedPut ==
  ASSUME NEW y \in Rows, NEW x \in Columns, NEW ch \in Chars,
         NEW R, PutAt(y, x, ch) \in R, \A u \in R : u.do = "put" => u = PutAt(y, x, ch),
         NEW v, NEW roll \in [1 .. Size -> Glyphs], Prints({}, v, roll)
  PROVE  /\ [roll EXCEPT ![Linear(y, x) + 1] = ch] \in [1 .. Size -> Glyphs]
         /\ Inked(R, v, [roll EXCEPT ![Linear(y, x) + 1] = ch])
<1> DEFINE new == [roll EXCEPT ![Linear(y, x) + 1] = ch]
<1>0. /\ PutAt(y, x, ch).do = "put" /\ PutAt(y, x, ch).row = y
      /\ PutAt(y, x, ch).column = x /\ PutAt(y, x, ch).ch = ch
  BY DEF PutAt
<1>a. \A c \in Cells : v[c] = roll[Linear(c[1], c[2]) + 1]
  BY AtRest
<1>1. Linear(y, x) + 1 \in 1 .. Size /\ ch \in Glyphs
  BY LinearCell DEF Glyphs
<1>2. new \in [1 .. Size -> Glyphs]
  BY <1>1
<1>3. ASSUME NEW c \in Cells PROVE Ink(R, v, c, new[Linear(c[1], c[2]) + 1])
  <2>1. c[1] \in Rows /\ c[2] \in Columns /\ c = <<c[1], c[2]>>
    BY DEF Cells
  <2>2. Linear(c[1], c[2]) + 1 \in 1 .. Size
    BY <2>1, LinearCell
  <2>3. CASE c = <<y, x>>
    <3>1. new[Linear(c[1], c[2]) + 1] = ch
      BY <1>1, <2>3
    <3> QED BY <1>0, <2>3, <3>1 DEF Ink
  <2>4. CASE c # <<y, x>>
    <3>1. Linear(c[1], c[2]) # Linear(y, x)
      BY <2>1, <2>4, LinearInjective
    <3>2. Linear(c[1], c[2]) \in Int /\ Linear(y, x) \in Int
      BY <2>1, LinearCell
    <3>3. new[Linear(c[1], c[2]) + 1] = roll[Linear(c[1], c[2]) + 1]
      BY <1>1, <2>2, <3>1, <3>2
    <3>4. roll[Linear(c[1], c[2]) + 1] = v[c]
      BY <1>a
    <3>5. \A u \in R : u.do = "put" => <<u.row, u.column>> # c
      BY <1>0, <2>4
    <3> QED BY <3>3, <3>4, <3>5 DEF Ink
  <2> QED BY <2>3, <2>4
<1> QED BY <1>2, <1>3 DEF Inked

\* A service that does not scroll.
LEMMA UnscrolledPrints ==
  ASSUME NEW R, \A u \in R : u.do \in {"put", "cursor"}, NEW v, NEW roll, Inked(R, v, roll)
  PROVE  Prints(R, v, roll)
<1>1. \A c : Origin(R, c) = c
  BY DEF Origin
<1> QED BY <1>1 DEF Prints, WillBe, Inked

\* A service that scrolls: the paper has moved by a line.
LEMMA ScrolledPrints ==
  ASSUME NEW R \in SUBSET Statement, Scrolls \subseteq R, \E u \in R : u.do = "blank",
         NEW v, NEW roll, NEW fed, Inked(R, v, roll),
         \A i \in 1 .. Size : fed[i] = IF i + Width <= Size THEN roll[i + Width] ELSE Blank
  PROVE  Prints(R, v, fed)
<1> SUFFICES ASSUME NEW c \in Cells PROVE WillBe(R, v, c, fed[Linear(c[1], c[2]) + 1])
  BY DEF Prints
<1> DEFINE n == Linear(c[1], c[2])
<1>1. c[1] \in Rows /\ c[2] \in Columns /\ c = <<c[1], c[2]>>
  BY DEF Cells
<1>2. /\ n \in 0 .. Size - 1 /\ Size \in Nat \ {0} /\ Linear(c[1] + 1, c[2]) = n + Width
      /\ (c[1] = Height - 1 <=> n + Width >= Size)
  BY <1>1, LinearCell
<1> HIDE DEF n
<1>3. CASE c[1] = Height - 1
  <2>1. fed[n + 1] = Blank
    BY <1>2, <1>3, ConsoleAssumption
  <2> QED BY <1>3, <2>1 DEF WillBe, n
<1>4. CASE c[1] # Height - 1
  <2>1. fed[n + 1] = roll[Linear(c[1] + 1, c[2]) + 1]
    BY <1>2, <1>4, ConsoleAssumption
  <2>2. c[1] \in 0 .. Height - 2 /\ c[1] + 1 \in Rows
    BY <1>1, <1>4, ConsoleAssumption DEF Rows
  <2>3. Origin(R, c) = <<c[1] + 1, c[2]>>
    <3>1. At("scroll", c[1], 0) \in R
      BY <2>2 DEF Scrolls
    <3>2. At("scroll", c[1], 0).do = "scroll" /\ At("scroll", c[1], 0).row = c[1]
      BY DEF At
    <3> QED BY <3>1, <3>2 DEF Origin
  <2>4. <<c[1] + 1, c[2]>> \in Cells
    BY <1>1, <2>2 DEF Cells
  <2>5. Ink(R, v, <<c[1] + 1, c[2]>>, roll[Linear(c[1] + 1, c[2]) + 1])
    BY <2>4 DEF Inked
  <2> QED BY <1>4, <2>1, <2>3, <2>5 DEF WillBe, n
<1> QED BY <1>3, <1>4

\* A line is ended, by newline or by the last character of it.
LEMMA LineEnds ==
  ASSUME NEW y \in Rows, NEW at, at = (y + 1) * Width, NEW cur, NEW v,
         NEW P, \A u \in P : u.do = "put", NEW R \in SUBSET Statement, R = P \cup NewlineChanges(y),
         NEW roll \in [1 .. Size -> Glyphs], Inked(R, v, roll)
  PROVE  /\ Prints(R, v, FeedPast(roll, at).roll)
         /\ Arrives(R, cur, FeedPast(roll, at).at)
         /\ FeedPast(roll, at).roll \in [1 .. Size -> Glyphs]
         /\ FeedPast(roll, at).at \in 0 .. Size - 1
<1> USE ConsoleAssumption
<1>0. 0 \in Columns /\ Size \in Nat \ {0} /\ Width \in Nat \ {0}
  BY LinearCell DEF Columns
<1>1. /\ Linear(y, 0) \in 0 .. Size - 1 /\ Linear(y + 1, 0) = Linear(y, 0) + Width
      /\ (y = Height - 1 <=> Linear(y, 0) + Width >= Size)
  BY <1>0, LinearCell
<1>2. at = Linear(y, 0) + Width /\ at \in Nat /\ at < Size + Width
  <2>1. y \in Nat
    BY DEF Rows
  <2>2. Linear(y + 1, 0) = at
    BY <2>1 DEF Linear
  <2> QED BY <1>0, <1>1, <2>2
<1>3. \A b, a : CursorAt(b, a).do = "cursor" /\ CursorAt(b, a).row = b /\ CursorAt(b, a).column = a
  BY DEF CursorAt, At
<1>4. CASE y # Height - 1
  <2>1. FeedPast(roll, at).roll = roll /\ FeedPast(roll, at).at = at /\ at < Size
    <3>1. at < Size
      BY <1>0, <1>1, <1>2, <1>4
    <3>2. FeedPast(roll, at) = [roll |-> roll, at |-> at]
      BY <1>2, <3>1, FeedPastRoll
    <3> QED BY <3>1, <3>2
  <2>2. R = P \cup {CursorAt(y + 1, 0)}
    BY <1>4 DEF NewlineChanges
  <2>3. Prints(R, v, roll)
    BY <1>3, <2>2, UnscrolledPrints
  <2>4. Arrives(R, cur, at)
    BY <1>1, <1>2, <1>3, <2>2 DEF Arrives
  <2> QED BY <1>0, <1>2, <2>1, <2>3, <2>4
<1>5. CASE y = Height - 1
  <2>1. /\ FeedPast(roll, at).at = at - Width /\ FeedPast(roll, at).roll \in [1 .. Size -> Glyphs]
        /\ \A i \in 1 .. Size : FeedPast(roll, at).roll[i] =
                                  IF i + Width <= Size THEN roll[i + Width] ELSE Blank
    BY <1>1, <1>2, <1>5, FeedPastRoll
  <2>2. R = P \cup (Scrolls \cup {Do("blank")} \cup {CursorAt(y, 0)})
    BY <1>5 DEF NewlineChanges
  <2>3. Scrolls \subseteq R /\ \E u \in R : u.do = "blank"
    <3>1. Do("blank").do = "blank"
      BY DEF Do, At
    <3> QED BY <2>2, <3>1
  <2>4. Prints(R, v, FeedPast(roll, at).roll)
    BY <2>1, <2>3, ScrolledPrints
  <2>5. at - Width = Linear(y, 0)
    BY <1>0, <1>1, <1>2
  <2>6. Arrives(R, cur, at - Width)
    BY <1>3, <2>2, <2>5 DEF Arrives
  <2> QED BY <1>1, <2>1, <2>4, <2>5, <2>6
<1> QED BY <1>4, <1>5

-----------------------------------------------------------------------------
\* Drawings after the first statement.
LEMMA TailRedraws ==
  ASSUME NEW t \in Seq(Statement), t # <<>>
  PROVE  /\ NoStart(t) => NoStart(Tail(t))
         /\ Calm(t) => Calm(Tail(t)) /\ ~Spoils(Head(t))
         /\ Redraws(t) => \/ Redraws(Tail(t))
                          \/ /\ Head(t).do = "clear" /\ Calm(Tail(t))
                             /\ \A c \in Cells : \E j \in DOMAIN Tail(t) : Draws(Tail(t)[j], c)
<1>1. /\ Len(t) \in Nat \ {0} /\ DOMAIN t = 1 .. Len(t) /\ 1 \in DOMAIN t /\ Head(t) = t[1]
      /\ \A i \in DOMAIN Tail(t) : i + 1 \in DOMAIN t /\ i + 1 > 1 /\ i \in Nat /\ Tail(t)[i] = t[i + 1]
      /\ \A i \in DOMAIN t : i # 1 => i > 1 /\ i - 1 \in DOMAIN Tail(t) /\ Tail(t)[i - 1] = t[i]
  OBVIOUS
<1>2. NoStart(t) => NoStart(Tail(t))
  BY <1>1 DEF NoStart
<1>3. Calm(t) => Calm(Tail(t)) /\ ~Spoils(Head(t))
  BY <1>1 DEF Calm
<1>4. ASSUME Redraws(t)
      PROVE  \/ Redraws(Tail(t))
             \/ /\ Head(t).do = "clear" /\ Calm(Tail(t))
                /\ \A c \in Cells : \E j \in DOMAIN Tail(t) : Draws(Tail(t)[j], c)
  <2>1. PICK i \in DOMAIN t :
          /\ t[i].do = "clear"
          /\ \A j \in DOMAIN t : j > i => ~Spoils(t[j])
          /\ \A c \in Cells : \E j \in DOMAIN t : j > i /\ Draws(t[j], c)
    BY <1>4 DEF Redraws
  <2>2. \A c \in Cells : \E j \in DOMAIN Tail(t) : j > i - 1 /\ Draws(Tail(t)[j], c)
    <3> TAKE c \in Cells
    <3>1. PICK j \in DOMAIN t : j > i /\ Draws(t[j], c)
      BY <2>1
    <3>2. j - 1 \in DOMAIN Tail(t) /\ j - 1 > i - 1 /\ Tail(t)[j - 1] = t[j]
      BY <1>1, <3>1
    <3> QED BY <3>1, <3>2
  <2>3. \A j \in DOMAIN Tail(t) : j > i - 1 => ~Spoils(Tail(t)[j])
    <3> TAKE j \in DOMAIN Tail(t)
    <3> HAVE j > i - 1
    <3>1. j + 1 \in DOMAIN t /\ j + 1 > i /\ Tail(t)[j] = t[j + 1]
      BY <1>1
    <3> QED BY <2>1, <3>1
  <2>4. CASE i = 1
    <3>1. \A j \in DOMAIN Tail(t) : j > i - 1
      BY <1>1, <2>4
    <3> QED BY <1>1, <2>1, <2>2, <2>3, <2>4, <3>1 DEF Calm
  <2>5. CASE i # 1
    <3>1. i - 1 \in DOMAIN Tail(t) /\ Tail(t)[i - 1].do = "clear"
      BY <1>1, <2>1, <2>5
    <3> QED BY <2>2, <2>3, <3>1 DEF Redraws
  <2> QED BY <2>4, <2>5
<1> QED BY <1>2, <1>3, <1>4

\* Every other statement leaves the terminal right, or a drawing to be done.
LEMMA TerminalStep ==
  ASSUME ScreenType, TerminalInv, todo # <<>>, todo' = Tail(todo), stored' = stored,
         Head(todo).do \notin Halves \cup {"mvaddch"},
         Head(todo).do = "clear" => terminal' = [p \in Places |-> Blank],
         Head(todo).do # "clear" => terminal' = terminal /\ stray' = stray,
         Head(todo).do # "recalc" => offset' = offset,
         Head(todo).do \notin {"put", "scroll", "blank"} => video' = video,
         Head(todo).do \notin {"initscr", "endwin"} => inited' = inited,
         Head(todo).do = "endwin" => inited' = FALSE
  PROVE  TerminalInv'
<1> DEFINE s == Head(todo)
           t == Tail(todo)
<1>0. /\ todo \in Seq(Statement) /\ s \in Statement /\ DOMAIN todo = 1 .. Len(todo)
      /\ \A i \in DOMAIN todo : i # 1 => i - 1 \in DOMAIN t /\ t[i - 1] = todo[i]
      /\ s = todo[1]
  BY DEF ScreenType
<1>1. /\ NoStart(todo) => NoStart(t)
      /\ Calm(todo) => Calm(t) /\ ~Spoils(s)
      /\ Redraws(todo) => \/ Redraws(t)
                          \/ /\ s.do = "clear" /\ Calm(t)
                             /\ \A c \in Cells : \E j \in DOMAIN t : Draws(t[j], c)
  BY <1>0, TailRedraws
<1> HIDE DEF s, t
<1>2. NoStart(t) \/ Redraws(t)
  <2>1. Calm(t) => NoStart(t)
    BY DEF Calm, NoStart, Spoils
  <2> QED BY <1>1, <2>1 DEF TerminalInv
<1>3. ASSUME inited', ~stored' PROVE Redraws(t) \/ Shown(t, terminal', pen', offset', video', stray')
  <2>1. CASE Redraws(todo) /\ ~Redraws(t)
    <3>1. /\ s.do = "clear" /\ Calm(t)
          /\ \A c \in Cells : \E j \in DOMAIN t : Draws(t[j], c)
      BY <1>1, <2>1
    <3>2. terminal' = [p \in Places |-> Blank]
      BY <3>1 DEF s
    <3>3. \A c \in Cells : Due(t, pen', offset', c)
      BY <3>1 DEF Due
    <3>4. Shown(t, terminal', pen', offset', video', stray')
      BY <3>1, <3>2, <3>3 DEF Shown
    <3> QED BY <3>4
  <2>2. CASE ~Redraws(todo)
    <3>1. NoStart(todo) /\ s.do # "initscr"
      BY <1>0, <2>2 DEF TerminalInv, NoStart, ScreenType
    <3>2. s.do # "endwin" /\ inited
      BY <1>3, <3>1 DEF s
    <3>3. Shown(todo, terminal, pen, offset, video, stray)
      BY <1>3, <2>2, <3>2 DEF TerminalInv
    <3>4. Calm(t) /\ ~Spoils(s)
      BY <1>1, <3>3 DEF Shown
    <3>5. offset' = offset /\ video' = video /\ terminal' = terminal /\ stray' = stray
      BY <3>4 DEF Spoils, s
    <3>6. ASSUME NEW c, Due(todo, pen, offset, c) PROVE Due(t, pen', offset, c)
      <4>1. PICK i \in DOMAIN todo : Draws(todo[i], c)
        BY <1>0, <3>6 DEF Due, s
      <4>2. i # 1
        BY <1>0, <4>1 DEF Draws, s
      <4> QED BY <1>0, <4>1, <4>2 DEF Due
    <3>7. Shown(t, terminal', pen', offset', video', stray')
      BY <3>3, <3>4, <3>5, <3>6 DEF Shown
    <3> QED BY <3>7
  <2> QED BY <2>1, <2>2
<1> QED BY <1>2, <1>3 DEF TerminalInv, t

\* The list without its first statement, where the interrupted one may be next.
LEMMA HalfwayPop ==
  ASSUME NEW t \in Seq(Statement), t # <<>>, NEW str, NEW new, NEW pn, NEW off, NEW pm, NEW om,
         Halfway(t, pn, off, str), new \subseteq str, Head(t).do = "clear" => new = {}
  PROVE  Halfway(Tail(t), pm, om, new)
<1> DEFINE u == Tail(t)
<1>1. /\ Len(t) \in Nat \ {0} /\ DOMAIN t = 1 .. Len(t) /\ 1 \in DOMAIN t /\ Head(t) = t[1]
      /\ \A i \in DOMAIN u : i \in Nat \ {0} /\ i + 1 \in DOMAIN t /\ u[i] = t[i + 1]
      /\ \A i \in DOMAIN t : i # 1 => i > 1 /\ i - 1 \in DOMAIN u /\ u[i - 1] = t[i]
      /\ u # <<>> => 1 \in DOMAIN u /\ 2 \in DOMAIN t /\ u[1] = t[2]
  OBVIOUS
<1> HIDE DEF u
<1>2. Nested(u)
  <2>1. ASSUME NEW i \in DOMAIN u, u[i].do \in Halves, i # 1 PROVE u[i - 1].do = "return"
    <3>1. i + 1 \in DOMAIN t /\ t[i + 1].do \in Halves /\ i + 1 # 1 /\ (i + 1) - 1 = i
      BY <1>1, <2>1
    <3>2. t[i].do = "return"
      BY <3>1 DEF Halfway, Nested
    <3>3. i \in DOMAIN t /\ u[i - 1] = t[i]
      BY <1>1, <2>1
    <3> QED BY <3>2, <3>3
  <2>2. ASSUME NEW i \in DOMAIN u, NEW j \in DOMAIN u, u[i].do = "return", u[j].do = "return"
        PROVE  i = j
    <3>1. i + 1 \in DOMAIN t /\ t[i + 1].do = "return" /\ j + 1 \in DOMAIN t /\ t[j + 1].do = "return"
      BY <1>1, <2>2
    <3>2. i + 1 = j + 1
      BY <3>1 DEF Halfway, Nested
    <3> QED BY <1>1, <3>2
  <2> QED BY <2>1, <2>2 DEF Nested
<1>3. Swept(u, new)
  <2> SUFFICES ASSUME NEW i \in DOMAIN u, u[i].do = "return",
                      \A j \in DOMAIN u : j < i => u[j].do # "clear", new # {}
               PROVE  FALSE
    BY DEF Swept
  <2>1. i + 1 \in DOMAIN t /\ t[i + 1].do = "return"
    BY <1>1
  <2>2. ASSUME NEW j \in DOMAIN t, j < i + 1 PROVE t[j].do # "clear"
    <3>1. CASE j = 1
      BY <1>1, <3>1
    <3>2. CASE j # 1
      <4>1. j - 1 \in DOMAIN u /\ j - 1 < i /\ u[j - 1] = t[j]
        BY <1>1, <2>2, <3>2
      <4> QED BY <4>1
    <3> QED BY <3>1, <3>2
  <2>3. str = {}
    BY <2>1, <2>2 DEF Halfway, Swept
  <2> QED BY <2>3
<1>4. ASSUME Misplaces(u, pm, om) PROVE new = {} /\ \A i \in DOMAIN u : u[i].do # "return"
  <2>1. 2 \in DOMAIN t /\ t[2].do \in Halves
    BY <1>1, <1>4 DEF Misplaces
  <2>2. t[1].do = "return"
    <3>1. t[2 - 1].do = "return"
      BY <2>1 DEF Halfway, Nested
    <3> QED BY <3>1
  <2>3. str = {}
    BY <1>1, <2>2 DEF Halfway, Swept
  <2>4. ASSUME NEW i \in DOMAIN u PROVE u[i].do # "return"
    BY <1>1, <2>2 DEF Halfway, Nested
  <2> QED BY <2>3, <2>4
<1>5. \A p, q \in new : p = q
  BY DEF Halfway
<1> QED BY <1>2, <1>3, <1>4, <1>5 DEF Halfway, u

\* No statement has begun.
LEMMA HalfwayWhole ==
  ASSUME NEW t \in Seq(Statement), Whole(t), NEW pn, NEW off, NEW str, \A p, q \in str : p = q
  PROVE  Halfway(t, pn, off, str)
<1>1. t # <<>> => 1 \in DOMAIN t
  OBVIOUS
<1> QED BY <1>1 DEF Halfway, Whole, Nested, Swept, Misplaces

\* What is left of a drawing takes its place in the list.
LEMMA Replaced ==
  ASSUME NEW t \in Seq(Statement), t # <<>>, t[1].do \in Halves \cup {"mvaddch"},
         NEW s \in Statement, s.do \in Halves, NEW u, u = [t EXCEPT ![1] = s]
  PROVE  /\ u \in Seq(Statement) /\ DOMAIN u = DOMAIN t /\ DOMAIN t = 1 .. Len(t)
         /\ 1 \in DOMAIN t /\ u # <<>>
         /\ u[1] = s /\ \A i \in DOMAIN t : i # 1 => u[i] = t[i]
         /\ Sorted(t) => Sorted(u)
         /\ Pending(u) = Pending(t)
         /\ NoStart(t) => NoStart(u)
         /\ Calm(t) => Calm(u)
         /\ Redraws(t) => Redraws(u)
<1>1. /\ Len(t) \in Nat \ {0} /\ DOMAIN t = 1 .. Len(t) /\ 1 \in DOMAIN t /\ DOMAIN u = DOMAIN t
      /\ u[1] = s /\ (\A i \in DOMAIN t : i # 1 => u[i] = t[i]) /\ \A i \in DOMAIN t : t[i] \in Statement
  OBVIOUS
<1>2. u \in Seq(Statement) /\ u # <<>>
  <2>1. u \in [1 .. Len(t) -> Statement]
    BY <1>1
  <2> QED BY <1>1, <2>1
<1>3. /\ ~Matters(s) /\ ~Matters(t[1]) /\ ~Spoils(s) /\ s.do # "initscr" /\ t[1].do # "clear"
      /\ s.do # "clear"
  BY DEF Matters, Spoils, Halves
<1>4. Sorted(t) => Sorted(u)
  BY <1>1, <1>3 DEF Sorted
<1>5. Pending(u) = Pending(t)
  BY <1>1, <1>3 DEF Pending
<1>6. (NoStart(t) => NoStart(u)) /\ (Calm(t) => Calm(u))
  BY <1>1, <1>3 DEF NoStart, Calm
<1>7. ASSUME Redraws(t) PROVE Redraws(u)
  <2>1. PICK i \in DOMAIN t :
          /\ t[i].do = "clear"
          /\ \A j \in DOMAIN t : j > i => ~Spoils(t[j])
          /\ \A c \in Cells : \E j \in DOMAIN t : j > i /\ Draws(t[j], c)
    BY <1>7 DEF Redraws
  <2>2. i # 1 /\ \A j \in DOMAIN t : j > i => u[j] = t[j]
    BY <1>1, <1>3, <2>1
  <2> QED BY <1>1, <2>1, <2>2 DEF Redraws
<1> QED BY <1>1, <1>2, <1>4, <1>5, <1>6, <1>7

\* A statement that changes neither video memory nor the member cursor.
LEMMA ScreenStep ==
  ASSUME ScreenType, ScreenInv, todo # <<>>, todo' = Tail(todo), ~Matters(Head(todo)),
         UNCHANGED <<video, cursor, paper, place>>
  PROVE  ScreenInv'
<1>1. Sorted(Tail(todo)) /\ Pending(Tail(todo)) = Pending(todo)
  BY TailPlan DEF ScreenType, ScreenInv
<1> QED BY <1>1 DEF ScreenInv

\* The statements of the terminal and of the mutex.
LEMMA TerminalKeeps ==
  ASSUME IInv, StepLock \/ StepUnlock \/ StepTerminal \/ StepReturn
  PROVE  IInv'
<1> USE DEF StepKeeps, Next1
<1> DEFINE s == Head(todo)
<1>1. /\ ScreenType /\ ScreenInv /\ TerminalInv /\ HalfwayInv
      /\ todo # <<>> /\ todo \in Seq(Statement) /\ Sorted(todo)
      /\ todo' = Tail(todo) /\ UNCHANGED <<life, stored, video, cursor, paper, place, guiCursor>>
  BY DEF IInv, ScreenType, ScreenInv, StepLock, StepUnlock, StepTerminal, StepReturn, inputVars
<1>2. s.do \in Plain /\ s.do # "blank"
  BY DEF StepLock, StepUnlock, StepTerminal, StepReturn, Plain
<1>3. /\ s.do = "clear" => terminal' = [p \in Places |-> Blank] /\ stray' = {}
      /\ s.do # "clear" => terminal' = terminal /\ stray' = stray
      /\ s.do # "recalc" => offset' = offset
      /\ s.do = "recalc" => offset' = RecalcOffset
      /\ s.do \notin {"initscr", "endwin"} => inited' = inited
      /\ s.do \in {"initscr", "endwin"} => inited' = (s.do = "initscr")
  <2>1. CASE StepLock \/ StepUnlock \/ StepReturn
    BY <2>1 DEF StepLock, StepUnlock, StepReturn
  <2>2. CASE StepTerminal
    BY <2>2 DEF StepTerminal
  <2> QED BY <2>1, <2>2
<1>4. TerminalInv'
  <2>1. s.do \notin Halves \cup {"mvaddch"}
    BY <1>2 DEF Plain, Halves
  <2> QED BY <1>1, <1>3, <2>1, TerminalStep
<1>5. ~Matters(s)
  BY <1>2 DEF Matters, Plain
<1>6. ScreenInv'
  BY <1>1, <1>5, ScreenStep
<1>7. ScreenType'
  <2>1. Tail(todo) \in Seq(Statement)
    BY <1>1, TailPlan
  <2>2. offset' \in Nat
    BY <1>1, <1>3 DEF RecalcOffset, Margin, ScreenType
  <2>3. inited' \in BOOLEAN
    BY <1>1, <1>3 DEF ScreenType
  <2>4. terminal' \in [Places -> Glyphs]
    BY <1>1, <1>3 DEF ScreenType, Glyphs
  <2>5. life \notin {"main", "constructed"}
    BY <1>1 DEF ScreenType
  <2> HIDE DEF s
  <2> QED BY <1>1, <2>1, <2>2, <2>3, <2>4, <2>5 DEF ScreenType
<1>8. HalfwayInv'
  <2>1. stray' \subseteq stray /\ (s.do = "clear" => stray' = {})
    BY <1>3
  <2>2. Halfway(Tail(todo), pen', offset', stray')
    BY <1>1, <2>1, HalfwayPop DEF HalfwayInv
  <2> QED BY <1>1, <2>2 DEF HalfwayInv
<1> QED BY <1>4, <1>6, <1>7, <1>8 DEF IInv

\* A place and the place of a cell.
LEMMA PlaceIsCell ==
  ASSUME NEW p \in Places, NEW y \in Int, NEW x \in Int, NEW off \in Int
  PROVE  p = PlaceOf(y, x, off) <=> <<p[1] - off, p[2] - off>> = <<y, x>>
<1>1. p = <<p[1], p[2]>> /\ p[1] \in Int /\ p[2] \in Int
  BY DEF Places
<1>2. p = PlaceOf(y, x, off) <=> p[1] = off + y /\ p[2] = off + x
  BY <1>1 DEF PlaceOf
<1>3. <<p[1] - off, p[2] - off>> = <<y, x>> <=> p[1] - off = y /\ p[2] - off = x
  OBVIOUS
<1> QED BY <1>1, <1>2, <1>3

\* mvaddch up to its last step.
LEMMA DrawGoesOn ==
  ASSUME IInv, StepDraw, Head(todo).do # "waddch"
  PROVE  IInv'
<1> DEFINE s == Head(todo)
<1>1. /\ ScreenType /\ ScreenInv /\ TerminalInv /\ HalfwayInv
      /\ todo # <<>> /\ todo \in Seq(Statement) /\ Sorted(todo) /\ offset \in Nat
      /\ s = todo[1] /\ s \in Statement
      /\ UNCHANGED <<life, stored, video, cursor, paper, place, guiCursor, inited, offset, terminal, stray>>
  <2>1. todo # <<>> /\ UNCHANGED <<life, stored, video, cursor, paper, place, guiCursor, inited, offset, terminal, stray>>
    BY DEF StepDraw, StepKeeps
  <2>2. ScreenType /\ ScreenInv /\ TerminalInv /\ HalfwayInv /\ todo \in Seq(Statement) /\ Sorted(todo) /\ offset \in Nat
    BY DEF IInv, ScreenType, ScreenInv
  <2>3. s = todo[1] /\ s \in Statement
    BY <2>1, <2>2
  <2> QED BY <2>1, <2>2, <2>3
<1>2. PICK what \in Halves, o \in {offset, s.off} :
        /\ todo' = [todo EXCEPT ![1] = [s EXCEPT !.do = what, !.off = o]]
        /\ s.do \in Halves \cup {"mvaddch"}
        /\ s.do = "mvaddch" => what = "wmove" /\ o = offset
        /\ s.do = "wmove" => what = "video_at" /\ pen' = PlaceOf(s.row, s.column, s.off)
        /\ s.do \notin {"mvaddch", "wmove"} => what # "wmove" /\ pen' = pen
  BY <1>1 DEF StepDraw, BecomesStep, Halves
<1> DEFINE n == [s EXCEPT !.do = what, !.off = o]
<1>3. s.row \in Rows /\ s.column \in Columns /\ s.off \in Int /\ s.row \in Int /\ s.column \in Int
  BY <1>1, <1>2 DEF Statement, Rows, Columns
<1>4. n \in Statement /\ n.do = what /\ n.row = s.row /\ n.column = s.column /\ n.off = o
  <2>1. s \in [do : Plain \cup Placed \cup Halves, row : Int, column : Int, ch : Glyphs, off : Int]
    BY <1>1 DEF Statement
  <2>2. o \in Int /\ what \in Plain \cup Placed \cup Halves /\ what # "scroll"
    BY <1>1, <1>3 DEF Halves
  <2>3. /\ n \in [do : Plain \cup Placed \cup Halves, row : Int, column : Int, ch : Glyphs, off : Int]
        /\ n.do = what /\ n.row = s.row /\ n.column = s.column /\ n.off = o
    BY <2>1, <2>2
  <2> HIDE DEF n, s
  <2> QED BY <1>3, <2>2, <2>3 DEF Statement
<1>5. todo' = [todo EXCEPT ![1] = n]
  BY <1>2
<1>6. Aligned(s, pen, offset) \/ s.do = "mvaddch" => Aligned(n, pen', offset)
  BY <1>2, <1>4 DEF Aligned
<1> HIDE DEF n, s
<1>7. /\ todo' \in Seq(Statement) /\ DOMAIN todo' = DOMAIN todo /\ DOMAIN todo = 1 .. Len(todo)
      /\ 1 \in DOMAIN todo /\ todo' # <<>>
      /\ todo'[1] = n /\ \A i \in DOMAIN todo : i # 1 => todo'[i] = todo[i]
      /\ Sorted(todo) => Sorted(todo')
      /\ Pending(todo') = Pending(todo)
      /\ NoStart(todo) => NoStart(todo')
      /\ Calm(todo) => Calm(todo')
      /\ Redraws(todo) => Redraws(todo')
  BY <1>1, <1>2, <1>4, <1>5, Replaced
<1>8. ScreenType'
  BY <1>1, <1>7 DEF ScreenType
<1>9. ScreenInv'
  BY <1>1, <1>7 DEF ScreenInv
<1>10. ASSUME NEW c, Due(todo, pen, offset, c) PROVE Due(todo', pen', offset, c)
  <2>1. CASE <<s.row, s.column>> = c /\ (Aligned(s, pen, offset) \/ s.do = "mvaddch")
    BY <1>4, <1>6, <1>7, <2>1 DEF Due
  <2>2. CASE ~(<<s.row, s.column>> = c /\ (Aligned(s, pen, offset) \/ s.do = "mvaddch"))
    <3>1. PICK i \in DOMAIN todo : Draws(todo[i], c)
      BY <1>1, <1>10, <2>2 DEF Due
    <3>2. i # 1
      BY <1>1, <2>2, <3>1 DEF Draws
    <3> QED BY <1>7, <3>1, <3>2 DEF Due
  <2> QED BY <2>1, <2>2
<1>11. TerminalInv'
  <2>1. ASSUME Shown(todo, terminal, pen, offset, video, stray)
        PROVE  Shown(todo', terminal, pen', offset, video, stray)
    BY <1>7, <1>10, <2>1 DEF Shown
  <2> QED BY <1>1, <1>7, <2>1 DEF TerminalInv
<1>12. HalfwayInv'
  <2>0. Halfway(todo, pen, offset, stray)
    BY <1>1 DEF HalfwayInv
  <2>a. /\ n.do \in Halves /\ n.do \notin {"return", "clear"}
        /\ s.do \notin {"return", "clear"}
    BY <1>2, <1>4 DEF Halves
  <2>1. Nested(todo')
    <3>1. ASSUME NEW i \in DOMAIN todo, todo'[i].do \in Halves, i # 1 PROVE todo'[i - 1].do = "return"
      <4>1. todo[i - 1].do = "return" /\ i - 1 \in DOMAIN todo
        BY <1>7, <2>0, <3>1 DEF Halfway, Nested
      <4>2. i - 1 # 1
        BY <1>1, <2>a, <4>1
      <4> QED BY <1>7, <4>1, <4>2
    <3>2. ASSUME NEW i \in DOMAIN todo, NEW j \in DOMAIN todo, todo'[i].do = "return", todo'[j].do = "return"
          PROVE  i = j
      <4>1. i # 1 /\ j # 1
        BY <1>7, <2>a, <3>2
      <4> QED BY <1>7, <2>0, <3>2, <4>1 DEF Halfway, Nested
    <3> QED BY <1>7, <3>1, <3>2 DEF Nested
  <2>2. Swept(todo', stray)
    <3> SUFFICES ASSUME NEW i \in DOMAIN todo', todo'[i].do = "return",
                        \A j \in DOMAIN todo' : j < i => todo'[j].do # "clear"
                 PROVE  stray = {}
      BY DEF Swept
    <3>1. i \in DOMAIN todo /\ todo[i].do = "return"
      BY <1>7, <2>a
    <3>2. \A j \in DOMAIN todo : j < i => todo[j].do # "clear"
      BY <1>1, <1>7, <2>a
    <3> QED BY <2>0, <3>1, <3>2 DEF Halfway, Swept
  <2>3. ASSUME Misplaces(todo', pen', offset)
        PROVE  stray = {} /\ \A i \in DOMAIN todo' : todo'[i].do # "return"
    <3>1. s.do \in Halves /\ ~Aligned(s, pen, offset)
      BY <1>2, <1>6, <1>7, <2>3 DEF Misplaces
    <3>2. Misplaces(todo, pen, offset)
      BY <1>1, <3>1 DEF Misplaces
    <3>3. stray = {} /\ \A i \in DOMAIN todo : todo[i].do # "return"
      BY <2>0, <3>2 DEF Halfway
    <3> QED BY <1>7, <2>a, <3>3
  <2>4. \A p, q \in stray : p = q
    BY <2>0 DEF Halfway
  <2>5. Halfway(todo', pen', offset, stray)
    BY <2>1, <2>2, <2>3, <2>4 DEF Halfway
  <2> QED BY <1>1, <2>5 DEF HalfwayInv
<1> QED BY <1>8, <1>9, <1>11, <1>12 DEF IInv

\* Its last step: the character goes to the place of its cell, or astray.
LEMMA DrawEnds ==
  ASSUME IInv, StepDraw, Head(todo).do = "waddch"
  PROVE  IInv'
<1> DEFINE s == Head(todo)
           t == Tail(todo)
           c == <<s.row, s.column>>
           at == PlaceOf(s.row, s.column, offset)
<1>1. /\ todo # <<>> /\ todo' = t
      /\ UNCHANGED <<life, stored, video, cursor, paper, place, guiCursor, inited, offset, pen>>
      /\ terminal' = [terminal EXCEPT ![pen] = video[c]]
      /\ stray' = IF pen = at THEN stray \ {pen} ELSE stray \cup {pen}
  BY DEF StepDraw, StepKeeps, Next1
<1>2. /\ ScreenType /\ ScreenInv /\ TerminalInv /\ HalfwayInv /\ todo \in Seq(Statement) /\ Sorted(todo)
      /\ offset \in Nat /\ terminal \in [Places -> Glyphs] /\ video \in [Cells -> Glyphs]
  BY DEF IInv, ScreenType, ScreenInv
<1>3. /\ s = todo[1] /\ s \in Statement /\ DOMAIN todo = 1 .. Len(todo) /\ 1 \in DOMAIN todo
      /\ t \in Seq(Statement)
      /\ \A i \in DOMAIN todo : i # 1 => i - 1 \in DOMAIN t /\ t[i - 1] = todo[i]
  BY <1>1, <1>2
<1>4. s.row \in Rows /\ s.column \in Columns /\ s.row \in Int /\ s.column \in Int /\ c \in Cells
  BY <1>3 DEF Statement, Halves, Rows, Columns, Cells
<1>5. \A p \in Places : terminal'[p] = IF p = pen THEN video[c] ELSE terminal[p]
  BY <1>1, <1>2
<1>6. Halfway(todo, pen, offset, stray) /\ (pen # at => Misplaces(todo, pen, offset))
  BY <1>1, <1>2, <1>3 DEF HalfwayInv, Misplaces, Aligned, Halves
<1>7. pen # at => stray = {} /\ \A i \in DOMAIN todo : todo[i].do # "return"
  BY <1>6 DEF Halfway
<1>8. ScreenType'
  <2>1. terminal' \in [Places -> Glyphs]
    BY <1>1, <1>2, <1>4
  <2>2. life \notin {"main", "constructed"}
    BY <1>1, <1>2 DEF ScreenType
  <2> HIDE DEF s, t, c, at
  <2> QED BY <1>1, <1>2, <1>3, <2>1, <2>2 DEF ScreenType
<1>9. ScreenInv'
  <2>1. ~Matters(Head(todo))
    BY DEF Matters
  <2> QED BY <1>1, <1>2, <2>1, ScreenStep
<1>10. /\ NoStart(todo) => NoStart(t)
       /\ Calm(todo) => Calm(t)
       /\ Redraws(todo) => Redraws(t)
  BY <1>1, <1>2, TailRedraws
<1>11. ASSUME Shown(todo, terminal, pen, offset, video, stray)
       PROVE  Shown(t, terminal', pen, offset, video, stray')
  <2>1. ASSUME NEW d, Due(todo, pen, offset, d), ~(d = c /\ pen = at) PROVE Due(t, pen, offset, d)
    <3>1. PICK i \in DOMAIN todo : Draws(todo[i], d)
      BY <1>3, <2>1 DEF Due, Aligned
    <3>2. i # 1
      BY <1>3, <3>1 DEF Draws
    <3> QED BY <1>3, <3>1, <3>2 DEF Due
  <2> SUFFICES ASSUME NEW p \in Places \ stray'
               PROVE  IF <<p[1] - offset, p[2] - offset>> \in Cells
                      THEN \/ Due(t, pen, offset, <<p[1] - offset, p[2] - offset>>)
                           \/ terminal'[p] = video[<<p[1] - offset, p[2] - offset>>]
                      ELSE terminal'[p] = Blank
    BY <1>10, <1>11 DEF Shown
  <2>2. p = at <=> <<p[1] - offset, p[2] - offset>> = c
    BY <1>2, <1>4, PlaceIsCell
  <2>3. CASE p = pen
    <3>1. pen = at
      BY <1>1, <2>3
    <3> QED BY <1>4, <1>5, <2>2, <2>3, <3>1
  <2>4. CASE p # pen
    <3>1. p \in Places \ stray /\ terminal'[p] = terminal[p]
      BY <1>1, <1>5, <2>4
    <3>2. ~(<<p[1] - offset, p[2] - offset>> = c /\ pen = at)
      BY <2>2, <2>4
    <3> HIDE DEF c, at, s, t
    <3> QED BY <1>11, <2>1, <3>1, <3>2 DEF Shown
  <2> QED BY <2>3, <2>4
<1>12. TerminalInv'
  <2> HIDE DEF c, at, s, t
  <2> QED BY <1>1, <1>2, <1>10, <1>11 DEF TerminalInv
<1>13. HalfwayInv'
  <2>1. CASE pen = at
    <3>1. stray' \subseteq stray /\ Head(todo).do # "clear"
      BY <1>1, <2>1
    <3>2. Halfway(t, pen', offset', stray')
      BY <1>1, <1>2, <1>6, <3>1, HalfwayPop
    <3> QED BY <1>1, <3>2 DEF HalfwayInv
  <2>2. CASE pen # at
    <3>1. stray = {} /\ stray' = {pen} /\ \A i \in DOMAIN todo : todo[i].do # "return"
      BY <1>1, <1>7, <2>2
    <3>3. \A i \in DOMAIN t : t[i].do # "return"
      BY <1>3, <3>1
    <3>4. Whole(t)
      <4> SUFFICES ASSUME NEW i \in DOMAIN t, t[i].do \in Halves PROVE FALSE
        BY <3>3 DEF Whole
      <4>1. i + 1 \in DOMAIN todo /\ todo[i + 1] = t[i] /\ i + 1 # 1 /\ (i + 1) - 1 = i /\ i \in DOMAIN todo
        BY <1>3
      <4>2. todo[i].do = "return"
        BY <1>6, <4>1 DEF Halfway, Nested
      <4> QED BY <3>1, <4>1, <4>2
    <3>5. Halfway(t, pen', offset', stray')
      BY <1>3, <3>1, <3>4, HalfwayWhole
    <3> QED BY <1>1, <3>5 DEF HalfwayInv
  <2> QED BY <2>1, <2>2
<1> QED BY <1>8, <1>9, <1>12, <1>13 DEF IInv

\* The statements of video memory.
LEMMA VideoKeeps == ASSUME IInv, StepVideo PROVE IInv'
<1> DEFINE s == Head(todo)
           R == Pending(todo)
<1>1. /\ ScreenType /\ ScreenInv /\ TerminalInv /\ HalfwayInv /\ todo # <<>> /\ todo \in Seq(Statement) /\ Sorted(todo)
      /\ todo' = Tail(todo) /\ s.do \in {"put", "scroll", "blank"}
      /\ UNCHANGED <<life, stored, cursor, paper, place, guiCursor, inited, terminal, pen, stray, offset>>
  BY DEF IInv, ScreenType, ScreenInv, StepVideo, StepKeeps, Next1
<1>2. /\ s \in Statement /\ s \in R /\ Tail(todo) \in Seq(Statement) /\ Sorted(Tail(todo))
      /\ Pending(Tail(todo)) = R \ {s} /\ \A u \in R \ {s} : Before(s, u)
  <2>1. Matters(Head(todo))
    BY <1>1 DEF Matters
  <2> QED BY <1>1, <2>1, TailPlan
<1>3. R \in SUBSET Statement /\ Prints(R, video, paper) /\ Arrives(R, cursor, place)
      /\ video \in [Cells -> Glyphs]
  BY <1>1 DEF Pending, ScreenInv, ScreenType
<1>4. \/ s.do = "put" /\ video' = [video EXCEPT ![<<s.row, s.column>>] = s.ch]
      \/ s.do = "scroll" /\ video' = [c \in Cells |-> IF c[1] = s.row THEN video[<<s.row + 1, c[2]>>] ELSE video[c]]
      \/ s.do = "blank" /\ video' = [c \in Cells |-> IF c[1] = Height - 1 THEN Blank ELSE video[c]]
  BY DEF StepVideo
<1>5. TerminalInv' /\ HalfwayInv'
  <2>1. Head(todo).do \notin Halves \cup {"mvaddch"}
    BY <1>1 DEF Halves
  <2>2. Halfway(Tail(todo), pen', offset', stray')
    BY <1>1, HalfwayPop DEF HalfwayInv
  <2> QED BY <1>1, <2>1, <2>2, TerminalStep DEF HalfwayInv
<1> HIDE DEF s, R
<1>6. Prints(R \ {s}, video', paper) /\ video' \in [Cells -> Glyphs]
  <2>1. CASE s.do = "put" /\ video' = [video EXCEPT ![<<s.row, s.column>>] = s.ch]
    <3>1. \A u \in R \ {s} : u.do # "put"
      BY <1>2, <2>1 DEF Before
    <3>2. s.ch \in Glyphs
      BY <1>2 DEF Statement
    <3> QED BY <1>2, <1>3, <2>1, <3>1, <3>2, PutStep
  <2>2. CASE s.do = "scroll" /\ video' = [c \in Cells |-> IF c[1] = s.row THEN video[<<s.row + 1, c[2]>>] ELSE video[c]]
    <3>1. s.row + 1 \in Rows
      BY <1>2, <2>2, ConsoleAssumption DEF Statement, Rows
    <3>2. \A c \in Cells : video[<<s.row + 1, c[2]>>] \in Glyphs /\ video[c] \in Glyphs
      BY <1>3, <3>1 DEF Cells
    <3>3. video' \in [Cells -> Glyphs]
      BY <2>2, <3>2
    <3> QED BY <1>2, <1>3, <2>2, <3>3, ScrollStep
  <2>3. CASE s.do = "blank" /\ video' = [c \in Cells |-> IF c[1] = Height - 1 THEN Blank ELSE video[c]]
    <3>1. video' \in [Cells -> Glyphs]
      BY <1>3, <2>3 DEF Glyphs
    <3> QED BY <1>2, <1>3, <2>3, <3>1, BlankStep
  <2> QED BY <1>4, <2>1, <2>2, <2>3
<1>7. Arrives(R \ {s}, cursor, place)
  BY <1>1, <1>2, <1>3 DEF Arrives
<1>8. ScreenInv'
  BY <1>1, <1>2, <1>6, <1>7 DEF ScreenInv
<1>9. ScreenType'
  BY <1>1, <1>2, <1>6 DEF ScreenType
<1> QED BY <1>5, <1>8, <1>9 DEF IInv

\* The statements of set_cursor.
LEMMA CursorKeeps == ASSUME IInv, StepCursor PROVE IInv'
<1> DEFINE s == Head(todo)
           R == Pending(todo)
<1>1. /\ ScreenType /\ ScreenInv /\ TerminalInv /\ HalfwayInv /\ todo # <<>> /\ todo \in Seq(Statement) /\ Sorted(todo)
      /\ todo' = Tail(todo) /\ s.do \in {"cursor", "window_x", "window_y"}
      /\ UNCHANGED <<life, stored, video, paper, place, inited, terminal, pen, stray, offset>>
  BY DEF IInv, ScreenType, ScreenInv, StepCursor, StepKeeps, Next1
<1>2. s \in Statement /\ Tail(todo) \in Seq(Statement) /\ Sorted(Tail(todo))
  BY <1>1, TailPlan
<1>3. s.row \in Rows /\ s.column \in Columns
  BY <1>1, <1>2 DEF Statement
<1>4. \/ s.do = "cursor" /\ cursor' = <<s.row, s.column>> /\ UNCHANGED guiCursor
      \/ s.do = "window_x" /\ guiCursor' = [guiCursor EXCEPT !.column = s.column] /\ UNCHANGED cursor
      \/ s.do = "window_y" /\ guiCursor' = [guiCursor EXCEPT !.row = s.row] /\ UNCHANGED cursor
  BY DEF StepCursor
<1>5. TerminalInv' /\ HalfwayInv'
  <2>1. Head(todo).do \notin Halves \cup {"mvaddch"}
    BY <1>1 DEF Halves
  <2>2. Halfway(Tail(todo), pen', offset', stray')
    BY <1>1, HalfwayPop DEF HalfwayInv
  <2> QED BY <1>1, <2>1, <2>2, TerminalStep DEF HalfwayInv
<1>6. ScreenInv'
  <2>1. CASE s.do = "cursor"
    <3>1. Matters(s) /\ cursor' = <<s.row, s.column>>
      BY <1>4, <2>1 DEF Matters
    <3>2. /\ s \in R /\ Pending(Tail(todo)) = R \ {s} /\ \A u \in R \ {s} : Before(s, u)
      BY <1>1, <3>1, TailPlan
    <3>3. \A u \in R \ {s} : u.do # "cursor"
      BY <2>1, <3>2 DEF Before
    <3>4. R \in SUBSET Statement /\ Prints(R, video, paper) /\ Arrives(R, cursor, place)
      BY <1>1 DEF Pending, ScreenInv
    <3> HIDE DEF s, R
    <3>5. Prints(R \ {s}, video, paper)
      BY <2>1, <3>2, <3>4, CursorStep
    <3>6. Linear(s.row, s.column) = place
      BY <2>1, <3>2, <3>3, <3>4 DEF Arrives
    <3>7. Arrives(R \ {s}, cursor', place)
      BY <3>1, <3>3, <3>6 DEF Arrives
    <3> QED BY <1>1, <1>2, <3>2, <3>5, <3>7 DEF ScreenInv
  <2>2. CASE s.do # "cursor"
    <3>1. ~Matters(Head(todo)) /\ UNCHANGED cursor
      BY <1>1, <1>4, <2>2 DEF Matters
    <3> QED BY <1>1, <3>1, ScreenStep
  <2> QED BY <2>1, <2>2
<1>7. ScreenType'
  <2>1. cursor' \in Cells
    BY <1>1, <1>3, <1>4 DEF Cells, ScreenType
  <2>2. guiCursor' \in [row : Rows, column : Columns, visible : BOOLEAN]
    <3> HIDE DEF s
    <3> QED BY <1>1, <1>3, <1>4 DEF ScreenType
  <2> HIDE DEF s
  <2> QED BY <1>1, <1>2, <2>1, <2>2 DEF ScreenType
<1> QED BY <1>5, <1>6, <1>7 DEF IInv

-----------------------------------------------------------------------------
\* Nothing is pending between services.
LEMMA Resting ==
  ASSUME IInv, todo = <<>>
  PROVE  /\ Pending(todo) = {} /\ Prints({}, video, paper) /\ Arrives({}, cursor, place)
         /\ ~Redraws(todo)
<1>1. Pending(todo) = {} /\ ~Redraws(todo)
  BY DEF Pending, Redraws
<1> QED BY <1>1 DEF IInv, ScreenInv

\* What the terminal shows between services it shows when one begins.
LEMMA ShownAtRest ==
  ASSUME NEW t, Calm(t), NEW term, NEW pn, NEW off, NEW v, NEW str, Shown(<<>>, term, pn, off, v, str)
  PROVE  Shown(t, term, pn, off, v, str)
<1>1. \A c : ~Due(<<>>, pn, off, c)
  BY DEF Due
<1> QED BY <1>1 DEF Shown

\* A list in which no statement has begun.
LEMMA RestHalfway ==
  ASSUME IInv, todo = <<>>, NEW R, Plan(todo', R), UNCHANGED stray
  PROVE  HalfwayInv'
<1>1. \A p, q \in stray : p = q
  BY DEF IInv, HalfwayInv, Halfway
<1>2. Halfway(todo', pen', offset', stray')
  BY <1>1, HalfwayWhole DEF Plan
<1> QED BY <1>2 DEF HalfwayInv

\* What a service has to show when it begins.
LEMMA ServiceBegins ==
  ASSUME IInv, Idle, NEW R, Service(todo', R),
         Prints(R, video, paper'), Arrives(R, cursor, place'),
         paper' \in [1 .. Size -> Glyphs], place' \in 0 .. Size - 1,
         UNCHANGED <<life, video, cursor, guiCursor, inited, offset, terminal, pen, stray>>,
         stored' \/ ~inited \/ Redraws(todo') \/ stored' = stored
  PROVE  IInv'
<1>1. todo' \in Seq(Statement) /\ Sorted(todo') /\ Pending(todo') = R /\ NoStart(todo')
      /\ (inited => Redraws(todo') \/ Calm(todo'))
  BY DEF Service, Plan
<1>2. ScreenType'
  BY <1>1 DEF IInv, ScreenType, Idle
<1>3. ScreenInv'
  BY <1>1 DEF ScreenInv
<1>4. ASSUME inited, ~stored', ~Redraws(todo') PROVE Shown(todo', terminal, pen, offset, video, stray)
  <2>1. Shown(todo, terminal, pen, offset, video, stray)
    BY <1>4, Resting DEF IInv, TerminalInv, Idle
  <2> QED BY <1>1, <1>4, <2>1, ShownAtRest DEF Idle
<1>5. TerminalInv'
  BY <1>1, <1>4 DEF TerminalInv
<1>6. HalfwayInv'
  BY RestHalfway DEF Service, Idle
<1> QED BY <1>2, <1>3, <1>5, <1>6 DEF IInv

\* Every service of the guest begins so.
LEMMA ServicesKeep ==
  ASSUME IInv,
         \/ \E ch \in Chars : Int10Teletype(ch) \/ GuestStore(ch)
         \/ \E linear \in 0 .. Width * Height + 1 : Int11SetCursor(linear)
         \/ Int13Newline \/ Int18Refresh \/ TakeRequest
  PROVE  IInv'
<1> USE ConsoleAssumption DEF ServiceKeeps, terminalVars, guiVars
<1>0. Idle => /\ Prints({}, video, paper) /\ Arrives({}, cursor, place)
              /\ \A c \in Cells : video[c] = paper[Linear(c[1], c[2]) + 1]
              /\ Linear(cursor[1], cursor[2]) = place
  BY Resting, AtRest DEF Idle
<1>a. PICK y \in Rows, x \in Columns : cursor = <<y, x>>
  BY DEF IInv, ScreenType, Cells
<1>b. paper \in [1 .. Size -> Glyphs] /\ place \in 0 .. Size - 1 /\ Size \in Nat \ {0}
  BY LinearCell DEF IInv, ScreenType
<1>c. Idle => place = Linear(y, x) /\ place = y * Width + x /\ place \div Width = y
  BY <1>0, <1>a, LinearCell
<1>1. ASSUME NEW ch \in Chars, Int10Teletype(ch) PROVE IInv'
  <2>1. /\ Idle /\ todo' = Teletype(ch) /\ paper' = Printed(ch).roll /\ place' = Printed(ch).at
        /\ UNCHANGED <<stored, life, video, cursor, guiCursor, inited, offset, terminal, pen, stray>>
    BY <1>1 DEF Int10Teletype, Serving
  <2> DEFINE R == TeletypeChanges(y, x, ch)
             new == [paper EXCEPT ![place + 1] = ch]
             P == {PutAt(y, x, ch)}
  <2>2. Service(todo', R)
    BY <1>a, <2>1, TeletypeService
  <2>3. R \in SUBSET Statement
    BY <2>2 DEF Service, Plan, Pending
  <2>4. /\ PutAt(y, x, ch) \in R /\ PutAt(y, x, ch).do = "put"
        /\ \A u \in R : u.do = "put" => u = PutAt(y, x, ch)
    <3>1. PutAt(y, x, ch) \in R
      BY DEF TeletypeChanges
    <3> HIDE DEF R
    <3>2. \A u \in R : u = PutAt(y, x, ch) \/ u.do \in {"scroll", "blank", "cursor"}
      BY ChangeKinds DEF R
    <3>3. PutAt(y, x, ch).do = "put"
      BY ChangeKinds
    <3> QED BY <3>1, <3>2, <3>3
  <2>5. new \in [1 .. Size -> Glyphs] /\ Inked(R, video, new)
    BY <1>0, <1>b, <1>c, <2>1, <2>4, InkedPut
  <2>6. Printed(ch) = FeedPast(new, place + 1)
    BY DEF Printed
  <2> HIDE DEF new
  <2>7. /\ Prints(R, video, paper') /\ Arrives(R, cursor, place')
        /\ paper' \in [1 .. Size -> Glyphs] /\ place' \in 0 .. Size - 1
    <3>0. y \in Nat /\ x \in Nat /\ x < Width /\ y * Width \in Nat /\ (y + 1) * Width = y * Width + Width
      BY DEF Rows, Columns
    <3>1. CASE x + 1 >= Width
      <4>1. R = P \cup NewlineChanges(y) /\ \A u \in P : u.do = "put"
        BY <2>4, <3>1 DEF TeletypeChanges
      <4>2. place + 1 = (y + 1) * Width
        BY <1>c, <2>1, <3>0, <3>1
      <4> HIDE DEF R, P
      <4> QED BY <2>1, <2>3, <2>5, <2>6, <4>1, <4>2, LineEnds
    <3>2. CASE ~(x + 1 >= Width)
      <4>1. R = P \cup {CursorAt(y, x + 1)} /\ x + 1 \in Columns
        BY <3>2 DEF TeletypeChanges, Columns
      <4>2. Linear(y, x + 1) = place + 1 /\ place + 1 \in 0 .. Size - 1
        <5>1. Linear(y, x + 1) \in 0 .. Size - 1 /\ Linear(y, x + 1) = y * Width + (x + 1)
          BY <4>1, LinearCell
        <5> QED BY <1>c, <2>1, <3>0, <5>1
      <4>3. FeedPast(new, place + 1) = [roll |-> new, at |-> place + 1]
        BY <1>b, <2>5, <4>2, FeedPastRoll
      <4>4. paper' = new /\ place' = place + 1
        BY <2>1, <2>6, <4>3
      <4>5. /\ CursorAt(y, x + 1).do = "cursor" /\ CursorAt(y, x + 1).row = y
            /\ CursorAt(y, x + 1).column = x + 1
        BY DEF CursorAt, At
      <4>6. Prints(R, video, new)
        <5>1. \A u \in R : u.do \in {"put", "cursor"}
          BY <2>4, <4>1, <4>5
        <5> HIDE DEF R
        <5> QED BY <2>5, <5>1, UnscrolledPrints
      <4>7. Arrives(R, cursor, place + 1)
        BY <4>1, <4>2, <4>5 DEF Arrives
      <4> QED BY <2>5, <4>2, <4>4, <4>6, <4>7
    <3> QED BY <3>1, <3>2
  <2> HIDE DEF R
  <2> QED BY <2>1, <2>2, <2>7, ServiceBegins
<1>2. ASSUME NEW ch \in Chars, GuestStore(ch) PROVE IInv'
  <2>1. /\ Idle /\ todo' = <<Do("lock"), PutAt(0, 0, ch), Do("unlock")>> /\ stored' = TRUE
        /\ paper' = [paper EXCEPT ![1] = ch]
        /\ UNCHANGED <<place, life, video, cursor, guiCursor, inited, offset, terminal, pen, stray>>
    BY <1>2 DEF GuestStore, Serving
  <2> DEFINE R == {PutAt(0, 0, ch)}
  <2>2. Plan(todo', R) /\ NoStart(todo')
    BY <2>1, StorePlan
  <2>3. 0 \in Rows /\ 0 \in Columns /\ Linear(0, 0) + 1 = 1
    BY DEF Rows, Columns, Linear
  <2>4. PutAt(0, 0, ch).do = "put"
    BY DEF PutAt
  <2>5. paper' \in [1 .. Size -> Glyphs] /\ Inked(R, video, paper')
    <3>1. /\ [paper EXCEPT ![Linear(0, 0) + 1] = ch] \in [1 .. Size -> Glyphs]
          /\ Inked(R, video, [paper EXCEPT ![Linear(0, 0) + 1] = ch])
      BY <1>0, <1>b, <2>1, <2>3, InkedPut
    <3> QED BY <2>1, <2>3, <3>1
  <2>6. Prints(R, video, paper')
    BY <2>4, <2>5, UnscrolledPrints
  <2>7. Arrives(R, cursor, place)
    BY <1>0, <2>1, <2>4 DEF Arrives
  <2> HIDE DEF R
  <2>8. ScreenType'
    BY <2>1, <2>2, <2>5 DEF IInv, ScreenType, Idle, Plan
  <2>9. ScreenInv'
    BY <2>1, <2>2, <2>6, <2>7 DEF ScreenInv, Plan
  <2>10. TerminalInv'
    BY <2>1, <2>2 DEF TerminalInv
  <2>11. HalfwayInv'
    BY <2>1, <2>2, RestHalfway DEF Idle
  <2> QED BY <2>8, <2>9, <2>10, <2>11 DEF IInv
<1>3. ASSUME NEW linear \in 0 .. Width * Height + 1, Int11SetCursor(linear) PROVE IInv'
  <2> DEFINE b == linear \div Width
             a == linear % Width
             R == {CursorAt(b, a)}
  <2>1. /\ Idle /\ linear <= Width * Height - 1 /\ todo' = SetCursor(b, a) /\ place' = linear
        /\ UNCHANGED <<paper, stored, life, video, cursor, guiCursor, inited, offset, terminal, pen, stray>>
    BY <1>3 DEF Int11SetCursor, Serving
  <2>2. linear \in 0 .. Size - 1
    BY <1>b, <2>1 DEF Size
  <2>3. b \in Rows /\ a \in Columns /\ Linear(b, a) = linear
    <3>1. b \in Nat /\ a \in 0 .. Width - 1 /\ linear = b * Width + a
      <4>1. linear \in Nat /\ Width \in Nat \ {0}
        BY <2>2
      <4>2. /\ linear \div Width \in Nat /\ (linear % Width) \in 0 .. (Width - 1)
            /\ linear = (linear \div Width) * Width + (linear % Width)
        BY <4>1, Division
      <4> QED BY <4>2
    <3>2. b < Height
      <4>1. linear < Height * Width
        BY <2>2 DEF Size
      <4> QED BY <2>2, <4>1, QuotientBound
    <3> QED BY <3>1, <3>2 DEF Rows, Columns, Linear
  <2> HIDE DEF a, b
  <2>4. Plan(todo', R) /\ Calm(todo') /\ NoStart(todo')
    BY <2>1, <2>3, SetCursorPlan
  <2>5. Service(todo', R)
    BY <2>4 DEF Service
  <2>6. CursorAt(b, a).do = "cursor" /\ CursorAt(b, a).row = b /\ CursorAt(b, a).column = a
    BY DEF CursorAt, At
  <2>7. Prints(R, video, paper)
    <3>1. Inked(R, video, paper)
      BY <1>0, <2>1, <2>6, InkedNone
    <3> QED BY <2>6, <3>1, UnscrolledPrints
  <2>8. Arrives(R, cursor, linear)
    BY <2>3, <2>6 DEF Arrives
  <2> HIDE DEF R
  <2> QED BY <1>b, <2>1, <2>2, <2>5, <2>7, <2>8, ServiceBegins
<1>4. ASSUME Int13Newline PROVE IInv'
  <2>1. /\ Idle /\ todo' = Newline(y) /\ paper' = Fed.roll /\ place' = Fed.at
        /\ UNCHANGED <<stored, life, video, cursor, guiCursor, inited, offset, terminal, pen, stray>>
    BY <1>4, <1>a DEF Int13Newline, Serving
  <2> DEFINE R == NewlineChanges(y)
             at == (y + 1) * Width
             P == {}
  <2>2. Service(todo', R)
    BY <2>1, NewlineService
  <2>3. R \in SUBSET Statement
    BY <2>2 DEF Service, Plan, Pending
  <2>4. Fed = FeedPast(paper, at)
    BY <1>c, <2>1 DEF Fed
  <2>5. Inked(R, video, paper)
    <3>1. \A u \in R : u.do # "put"
      BY ChangeKinds
    <3> HIDE DEF R
    <3> QED BY <1>0, <2>1, <3>1, InkedNone
  <2>6. R = P \cup NewlineChanges(y) /\ \A u \in P : u.do = "put"
    OBVIOUS
  <2>7. at = (y + 1) * Width
    OBVIOUS
  <2> HIDE DEF R, at, P
  <2>8. /\ Prints(R, video, FeedPast(paper, at).roll) /\ Arrives(R, cursor, FeedPast(paper, at).at)
        /\ FeedPast(paper, at).roll \in [1 .. Size -> Glyphs] /\ FeedPast(paper, at).at \in 0 .. Size - 1
    BY <1>b, <2>3, <2>5, <2>6, <2>7, LineEnds
  <2> QED BY <2>1, <2>2, <2>4, <2>8, ServiceBegins
<1>5. ASSUME Int18Refresh PROVE IInv'
  <2>1. /\ Idle /\ todo' = RenderScreen
        /\ UNCHANGED <<paper, place, life, video, cursor, guiCursor, inited, offset, terminal, pen, stray>>
    BY <1>5 DEF Int18Refresh, Serving
  <2>2. Service(todo', {}) /\ (~inited \/ Redraws(todo'))
    BY <2>1, RenderPlan DEF Service, Calm
  <2> QED BY <1>0, <1>b, <2>1, <2>2, ServiceBegins
<1>6. ASSUME TakeRequest PROVE IInv'
  <2>1. /\ Idle /\ todo' = Announce
        /\ UNCHANGED <<paper, place, stored, life, video, cursor, guiCursor, inited, offset, terminal, pen, stray>>
    BY <1>6 DEF TakeRequest, Serving
  <2>2. Plan(todo', {}) /\ (todo' = <<>> \/ Redraws(todo'))
    BY <2>1, AnnouncePlan
  <2>3. ScreenType'
    BY <2>1, <2>2 DEF IInv, ScreenType, Idle, Plan
  <2>4. ScreenInv'
    BY <1>0, <2>1, <2>2 DEF ScreenInv, Plan
  <2>5. TerminalInv'
    <3>1. CASE Redraws(todo')
      BY <3>1 DEF TerminalInv
    <3>2. CASE todo' = <<>>
      BY <2>1, <3>2 DEF IInv, TerminalInv, Idle
    <3> QED BY <2>2, <3>1, <3>2
  <2>6. HalfwayInv'
    BY <2>1, <2>2, RestHalfway DEF Idle
  <2> QED BY <2>3, <2>4, <2>5, <2>6 DEF IInv
<1> QED BY <1>1, <1>2, <1>3, <1>4, <1>5, <1>6

\* SIGWINCH puts its handler in front of everything.
LEMMA ResizeKeeps == ASSUME IInv, Resize PROVE IInv'
<1> DEFINE h == Append(HandleResize, Do("return"))
<1>1. /\ UNCHANGED <<life, video, cursor, paper, place, inited, terminal, pen, stray, offset, stored, guiCursor>>
      /\ life \in {"running", "leaving"} /\ \A i \in DOMAIN todo : todo[i].do # "return"
  BY DEF Resize, InHandler, screenVars, guiVars
<1>2. todo \in Seq(Statement) /\ Sorted(todo) /\ Halfway(todo, pen, offset, stray)
  BY DEF IInv, ScreenType, ScreenInv, HalfwayInv
<1>3. CASE ~(handled /\ inited)
  <2>1. todo' = todo
    BY <1>2, <1>3 DEF Resize
  <2> QED BY <1>1, <2>1 DEF IInv, ScreenType, ScreenInv, TerminalInv, HalfwayInv
<1>4. CASE handled /\ inited
  <2>1. todo' = h \o todo
    BY <1>4 DEF Resize
  <2>2. /\ h \in Seq(Statement) /\ Sorted(h) /\ Pending(h) = {} /\ Redraws(h) /\ NoStart(h)
        /\ Len(h) \in Nat \ {0} /\ DOMAIN h = 1 .. Len(h) /\ h[Len(h)].do = "return"
        /\ \A i \in DOMAIN h : i # Len(h) => h[i].do \notin Halves \cup {"return"}
    BY <1>4, ResizePlan
  <2> HIDE DEF h
  <2>3. h \o todo \in Seq(Statement) /\ Sorted(h \o todo) /\ Pending(h \o todo) = Pending(todo)
    BY <1>2, <2>2, ChangesJoin
  <2>4. ScreenType'
    BY <1>1, <2>1, <2>3 DEF IInv, ScreenType
  <2>5. ScreenInv'
    BY <1>1, <2>1, <2>3 DEF IInv, ScreenInv
  <2>6. TerminalInv'
    <3>1. NoStart(h \o todo) \/ Redraws(h \o todo)
      BY <1>2, <2>2, RedrawsJoin DEF IInv, TerminalInv
    <3>2. ASSUME inited, ~stored PROVE Redraws(h \o todo)
      <4>1. Redraws(todo) \/ Calm(todo)
        BY <3>2 DEF IInv, TerminalInv, Shown
      <4> QED BY <1>2, <2>2, <4>1, RedrawsJoin
    <3> QED BY <1>1, <2>1, <3>1, <3>2 DEF TerminalInv
  <2>7. Halfway(h \o todo, pen, offset, stray)
    <3> DEFINE u == h \o todo
    <3>1. /\ DOMAIN u = 1 .. Len(h) + Len(todo) /\ Len(todo) \in Nat /\ DOMAIN todo = 1 .. Len(todo)
          /\ \A i \in DOMAIN h : i \in DOMAIN u /\ u[i] = h[i]
          /\ \A i \in DOMAIN u : \/ i \in DOMAIN h /\ u[i] = h[i]
                                 \/ i > Len(h) /\ i - Len(h) \in DOMAIN todo /\ u[i] = todo[i - Len(h)]
      BY <1>2, <2>2, Joined
    <3> HIDE DEF u
    <3>2. \A i \in DOMAIN u : u[i].do = "return" => i = Len(h)
      BY <1>1, <2>2, <3>1
    <3>3. ASSUME NEW i \in DOMAIN u, u[i].do \in Halves PROVE u[i - 1].do = "return"
      <4>1. i > Len(h) /\ i - Len(h) \in DOMAIN todo /\ todo[i - Len(h)].do \in Halves
        BY <2>2, <3>1, <3>3 DEF Halves
      <4>2. i - Len(h) = 1
        <5>1. i - Len(h) = 1 \/ todo[(i - Len(h)) - 1].do = "return"
          BY <1>2, <4>1 DEF Halfway, Nested
        <5> QED BY <1>1, <2>2, <3>1, <4>1, <5>1
      <4>3. i - 1 = Len(h)
        BY <2>2, <3>1, <4>2
      <4> QED BY <2>2, <3>1, <4>3
    <3>4. Nested(u)
      BY <3>2, <3>3 DEF Nested
    <3>5. Swept(u, stray)
      <4>1. PICK i \in DOMAIN h : h[i].do = "clear"
        BY <2>2 DEF Redraws
      <4>2. i \in DOMAIN u /\ u[i].do = "clear" /\ i < Len(h)
        BY <2>2, <3>1, <4>1
      <4> QED BY <3>2, <4>2 DEF Swept
    <3>6. ~Misplaces(u, pen, offset)
      <4>1. u[1].do \notin Halves
        BY <2>2, <3>1 DEF Halves
      <4> QED BY <4>1 DEF Misplaces
    <3>7. \A p, q \in stray : p = q
      BY <1>2 DEF Halfway
    <3> QED BY <3>4, <3>5, <3>6, <3>7 DEF Halfway, u
  <2>8. HalfwayInv'
    BY <1>1, <2>1, <2>7 DEF HalfwayInv
  <2> QED BY <2>4, <2>5, <2>6, <2>8 DEF IInv
<1> QED BY <1>3, <1>4

\* Boot starts curses, and its end leaves it.
LEMMA BootKeeps == ASSUME IInv, Boot \/ Leave PROVE IInv'
<1>1. /\ todo = <<>> /\ life' \in {"running", "leaving"}
      /\ UNCHANGED <<video, cursor, paper, place, inited, terminal, pen, stray, offset, stored, guiCursor>>
  BY DEF Boot, Leave, Idle, IInv, ScreenType, screenVars, terminalVars, guiVars
<1>2. Plan(todo', {}) /\ (Redraws(todo') \/ (NoStart(todo') /\ Calm(todo')))
  <2>1. todo' = StartAgain \/ todo' = <<>> \/ todo' = Cleanup
    BY DEF Boot, Leave
  <2>2. Plan(<<>>, {}) /\ NoStart(<<>>) /\ Calm(<<>>)
    BY DEF Plan, Whole, Sorted, Pending, NoStart, Calm
  <2> QED BY <2>1, <2>2, StartPlan, CleanupPlan
<1>3. Prints({}, video, paper) /\ Arrives({}, cursor, place) /\ ~Redraws(todo)
  BY <1>1, Resting
<1>4. ScreenType'
  BY <1>1, <1>2 DEF IInv, ScreenType, Plan
<1>5. ScreenInv'
  BY <1>1, <1>2, <1>3 DEF ScreenInv, Plan
<1>6. TerminalInv'
  <2>1. ASSUME inited, ~stored, ~Redraws(todo') PROVE Shown(todo', terminal, pen, offset, video, stray)
    <3>1. Shown(todo, terminal, pen, offset, video, stray)
      BY <1>3, <2>1 DEF IInv, TerminalInv
    <3> QED BY <1>1, <1>2, <2>1, <3>1, ShownAtRest
  <2> QED BY <1>1, <1>2, <2>1 DEF TerminalInv
<1>7. HalfwayInv'
  BY <1>1, <1>2, RestHalfway
<1> QED BY <1>4, <1>5, <1>6, <1>7 DEF IInv

\* Everything else, the other threads among it, leaves the screen, the terminal
\* and the statements of the CPU thread alone.
OtherSteps ==
  \/ \E visible \in BOOLEAN : Int12SetVisibility(visible)
  \/ Int14GetInput \/ Int17RingBell \/ Int19Flush \/ GuestHalts
  \/ GuiStep \/ GuiClose \/ \E press \in PressedKeys : GuiKey(press)
  \/ \E code \in TerminalKeys : TerminalKey(code)
  \/ RawModeFails \/ InputEnds \/ BellEnds
  \/ Main \/ Destroy \/ StopInput \/ StopGui \/ Gone

\* So they keep the invariant.
LEMMA OthersKeep == ASSUME IInv, OtherSteps PROVE IInv'
<1> USE DEF ServiceKeeps, GuiKeeps, screenVars, terminalVars, guiVars, inputVars
<1>1. UNCHANGED <<todo, video, cursor, paper, place, inited, terminal, pen, stray, offset, stored>>
  <2>1. CASE \E visible \in BOOLEAN : Int12SetVisibility(visible)
    BY <2>1 DEF Int12SetVisibility
  <2>2. CASE Int14GetInput \/ Int17RingBell \/ Int19Flush \/ GuestHalts
    BY <2>2 DEF Int14GetInput, Int17RingBell, Int19Flush, GuestHalts
  <2>3. CASE GuiStep \/ GuiClose \/ \E press \in PressedKeys : GuiKey(press)
    BY <2>3 DEF GuiStep, GuiStart, FontFails, GuiTop, GuiLock, GuiCopyRow, GuiShow, GuiClose, GuiKey
  <2>4. CASE (\E code \in TerminalKeys : TerminalKey(code)) \/ RawModeFails \/ InputEnds \/ BellEnds
    BY <2>4 DEF TerminalKey, RawModeFails, InputEnds, BellEnds
  <2>5. CASE Main \/ Destroy \/ StopInput \/ StopGui \/ Gone
    BY <2>5 DEF Main, Destroy, StopInput, StopGui, Gone
  <2> QED BY <2>1, <2>2, <2>3, <2>4, <2>5 DEF OtherSteps
<1>2. guiCursor' \in [row : Rows, column : Columns, visible : BOOLEAN]
  <2>1. guiCursor \in [row : Rows, column : Columns, visible : BOOLEAN]
    BY DEF IInv, ScreenType
  <2>2. CASE \E visible \in BOOLEAN : Int12SetVisibility(visible)
    BY <2>1, <2>2 DEF Int12SetVisibility
  <2>3. CASE ~\E visible \in BOOLEAN : Int12SetVisibility(visible)
    <3>1. guiCursor' = guiCursor
      BY <2>3 DEF OtherSteps, Int14GetInput, Int17RingBell, Int19Flush, GuestHalts, GuiStep, GuiStart,
           FontFails, GuiTop, GuiLock, GuiCopyRow, GuiShow, GuiClose, GuiKey, TerminalKey, RawModeFails, InputEnds,
           BellEnds, Main, Destroy, StopInput, StopGui, Gone
    <3> QED BY <2>1, <3>1
  <2> QED BY <2>2, <2>3
<1>3. life' \in {"main", "constructed"} => todo = <<>>
  <2>1. life' = life \/ life = "main" \/ life' \notin {"main", "constructed"}
    BY DEF OtherSteps, Int12SetVisibility, Int14GetInput, Int17RingBell, Int19Flush, GuestHalts, GuiStep,
           GuiStart, FontFails, GuiTop, GuiLock, GuiCopyRow, GuiShow, GuiClose, GuiKey, TerminalKey,
           RawModeFails, InputEnds, BellEnds, Main, Destroy, StopInput, StopGui, Gone
  <2> QED BY <2>1 DEF IInv, ScreenType
<1> QED BY <1>1, <1>2, <1>3 DEF IInv, ScreenType, ScreenInv, TerminalInv, HalfwayInv

\* The screen is blank, the cursor at its start, and nothing is pending.
LEMMA StartsRight == Init => IInv
<1> SUFFICES ASSUME Init PROVE IInv
  OBVIOUS
<1> USE ConsoleAssumption
<1>1. 0 \in Rows /\ 0 \in Columns /\ Blank \in Glyphs /\ Linear(0, 0) = 0
  BY DEF Rows, Columns, Glyphs, Linear
<1>2. Size \in Nat \ {0} /\ \A c \in Cells : Linear(c[1], c[2]) + 1 \in 1 .. Size
  <2>1. Size \in Nat \ {0}
    BY <1>1, LinearCell
  <2>2. ASSUME NEW c \in Cells PROVE Linear(c[1], c[2]) + 1 \in 1 .. Size
    <3>1. c[1] \in Rows /\ c[2] \in Columns
      BY DEF Cells
    <3> QED BY <2>1, <3>1, LinearCell
  <2> QED BY <2>1, <2>2
<1>3. /\ video = [c \in Cells |-> Blank] /\ paper = [i \in 1 .. Size |-> Blank] /\ place = 0
      /\ cursor = <<0, 0>> /\ inited = FALSE /\ offset = 0 /\ terminal = [p \in Places |-> Blank]
      /\ todo = <<>> /\ guiCursor = [row |-> 0, column |-> 0, visible |-> TRUE] /\ stray = {}
  BY DEF Init, Size
<1>4. ScreenType
  <2>1. cursor \in Cells /\ guiCursor \in [row : Rows, column : Columns, visible : BOOLEAN]
    BY <1>1, <1>3 DEF Cells
  <2>2. video \in [Cells -> Glyphs] /\ paper \in [1 .. Size -> Glyphs] /\ terminal \in [Places -> Glyphs]
    BY <1>1, <1>3
  <2>3. place \in 0 .. Size - 1 /\ offset \in Nat /\ inited \in BOOLEAN /\ todo \in Seq(Statement)
    <3>1. <<>> \in Seq(Statement)
      OBVIOUS
    <3>2. 0 \in 0 .. Size - 1
      BY <1>2
    <3> QED BY <1>3, <3>1, <3>2
  <2> QED BY <1>3, <2>1, <2>2, <2>3 DEF ScreenType
<1>5. Pending(todo) = {} /\ Sorted(todo) /\ NoStart(todo)
  BY <1>3 DEF Pending, Sorted, NoStart
<1>6. Prints({}, video, paper)
  <2>1. \A c \in Cells : video[c] = paper[Linear(c[1], c[2]) + 1]
    BY <1>2, <1>3
  <2> QED BY <2>1, AtRest
<1>7. Arrives({}, cursor, place)
  BY <1>1, <1>3 DEF Arrives
<1>8. HalfwayInv
  <2>1. Whole(todo) /\ todo \in Seq(Statement)
    BY <1>3, <1>4 DEF Whole, ScreenType
  <2> QED BY <1>3, <2>1, HalfwayWhole DEF HalfwayInv
<1> QED BY <1>3, <1>4, <1>5, <1>6, <1>7, <1>8 DEF IInv, ScreenInv, TerminalInv

\* The console invariant, for every size of the screen.
LEMMA ConsoleInvariant == Spec => []IInv
<1>1. IInv /\ [Next]_vars => IInv'
  <2> SUFFICES ASSUME IInv, [Next]_vars PROVE IInv'
    OBVIOUS
  <2>1. CASE UNCHANGED vars
    <3>1. UNCHANGED <<life, todo, video, cursor, paper, place, inited, terminal, pen, stray, offset, stored,
                      guiCursor>>
      BY <2>1 DEF vars, screenVars, terminalVars, guiVars
    <3> QED BY <3>1 DEF IInv, ScreenType, ScreenInv, TerminalInv, HalfwayInv
  <2>2. CASE OtherSteps
    BY <2>2, OthersKeep
  <2>3. CASE Next /\ ~OtherSteps
    BY <2>3, ServicesKeep, TerminalKeeps, VideoKeeps, CursorKeeps, DrawGoesOn, DrawEnds, ResizeKeeps,
       BootKeeps
    DEF Next, OtherSteps, StatementStep, Ending
  <2> QED BY <2>1, <2>2, <2>3
<1> QED BY <1>1, StartsRight, PTL DEF Spec

(***************************************************************************)
(* teletype, newline and set_cursor: on a screen of every size, and with   *)
(* SIGWINCH, the window and the keyboard between any two statements, what  *)
(* the guest printed is what video memory holds between services, and the  *)
(* cursor is where printing goes on.                                       *)
(***************************************************************************)
THEOREM ScreenHoldsPaper == Spec => []ScreenIsPaper
<1>1. IInv => ScreenIsPaper
  <2> SUFFICES ASSUME IInv, todo = <<>>
               PROVE  /\ \A c \in Cells : video[c] = paper[Linear(c[1], c[2]) + 1]
                      /\ Linear(cursor[1], cursor[2]) = place
    BY DEF ScreenIsPaper
  <2> QED BY Resting, AtRest
<1> QED BY <1>1, ConsoleInvariant, PTL

(***************************************************************************)
(* render_screen, handle_resize and start_again: between services the      *)
(* curses terminal shows video memory at the offsets in force and nothing  *)
(* else, although SIGWINCH may come between any two steps of any mvaddch   *)
(* and handle_resize change the offsets and the pen under it.  At most one *)
(* place is excepted, where the character went that was being put.         *)
(***************************************************************************)
THEOREM TerminalStaysCurrent == Spec => []TerminalCurrent
<1>1. IInv => TerminalCurrent
  <2> SUFFICES ASSUME IInv, todo = <<>>, inited, ~stored
               PROVE  /\ \A p \in Places \ stray : Shows(p)
                      /\ \A p, q \in stray : p = q
    BY DEF TerminalCurrent
  <2>1. Shown(<<>>, terminal, pen, offset, video, stray)
    BY Resting DEF IInv, TerminalInv
  <2>2. \A c : ~Due(<<>>, pen, offset, c)
    BY DEF Due
  <2>3. \A p \in Places \ stray : Shows(p)
    BY <2>1, <2>2 DEF Shown, Shows
  <2> QED BY <2>3 DEF IInv, HalfwayInv, Halfway
<1> QED BY <1>1, ConsoleInvariant, PTL

(***************************************************************************)
(* set_cursor and mainLoop: the coordinates the window thread reads one by *)
(* one, unclamped and while they are being changed, are those of a place   *)
(* in its buffer.                                                          *)
(***************************************************************************)
THEOREM CursorStaysInFrame == Spec => []CursorInFrame
<1>1. IInv => CursorInFrame
  <2> SUFFICES ASSUME IInv PROVE CursorInFrame
    OBVIOUS
  <2>1. guiCursor.row \in Rows /\ guiCursor.column \in Columns
    BY DEF IInv, ScreenType
  <2> QED BY <2>1, LinearCell DEF CursorInFrame, Size
<1> QED BY <1>1, ConsoleInvariant, PTL

=============================================================================
