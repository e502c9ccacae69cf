----------------------------- MODULE MCToolchain -----------------------------
(***************************************************************************)
(* Programs for Toolchain: every instruction with operands of every kind;  *)
(* two files that refer to each other's markers; conditionals in any       *)
(* order; headers with a guard, found or not.                              *)
(***************************************************************************)
EXTENDS Toolchain

Ins(op, w, args) == [k |-> "ins", op |-> op, w |-> w, args |-> args]
Mark(n) == [k |-> "mark", n |-> n, w |-> 8]
Here == [k |-> "here"]
Origin == [k |-> "origin"]
Word(n) == [k |-> "name", n |-> n]
Label(n) == [k |-> "label", n |-> n]
Sub(n) == [k |-> "sub", n |-> n]
Data(w, a) == [k |-> "data", w |-> w, arg |-> a]
Jump(a) == Ins("JMP", 0, <<Reg(8, SpecialIndex("CB")), a>>)
Nop == Ins("NOP", 0, <<>>)

Program(fs, mode) == [files |-> fs, headers |-> << >>, place |-> << >>, paths |-> 0, mode |-> mode]

\* Operands of width w, an address with parts of several widths among them.
Arguments(w) ==
    {Reg(w, 7), Con([n \in 1 .. w |-> n]), Con([n \in 1 .. w |-> 255]), Word("A"),
     Mem(w, 16, Reg(8, SpecialIndex("SB")), Con(<<1, 2>>), Con(<<9>>))}
    \cup (IF w = 8 THEN {Reg(8, 15), Reg(8, 16), Mem(8, 2, Con(<<5>>), Reg(8, 3), Reg(4, 1))} ELSE {})
Operations ==
    {Ins(op, 0, <<>>) : op \in Bare}
    \cup UNION {{Ins(op, w, <<a>>) : op \in Unary, a \in Arguments(w)} : w \in Widths}
    \cup UNION {{Ins(op, w, <<a, b>>) : op \in Instructions \ (Bare \cup Unary), a, b \in Arguments(w)} : w \in {1, 8}}
    \cup {Ins("ADD", 8, <<Reg(4, 1), Reg(8, 1)>>), Ins("ADD", 8, <<Reg(8, 1)>>)}
Single == {Program(<< <<x>> >>, "BIN") : x \in Operations}

A == <<"a">>
AB == <<"a", "b">>
Sx == <<".", "x">>
First == {Label(A), Label(AB), Sub(<<"x">>), Jump(Mark(A)), Jump(Mark(AB)), Jump(Mark(Sx)),
          Data(8, Mark(AB)), Data(2, Mark(A)), Data(2, Mark(Sx)), Data(8, Origin)}
Second == {Label(A), Label(AB), Jump(Mark(AB)), Jump(Mark(A)), Ins("PUSH", 8, <<Here>>), Data(8, Origin)}
Linking ==
    {Program(<< <<[k |-> "org", v |-> 510], [k |-> "lab", n |-> AB], x, y, z>>,
                <<[k |-> "lab", n |-> A], u, v>> >>, "EXE")
     : x \in {Label(A), Label(AB), Jump(Mark(A))}, y, z \in First, u \in Second,
       v \in {Label(A), Label(AB), Jump(Mark(AB))}}
Sections ==
    {Program(<< <<Label(A), x, Sub(<<"x">>), y, Label(AB), z, u>> >>, "SYS")
     : x, y, z, u \in {Sub(<<"x">>), Jump(Mark(Sx)), [k |-> "resvb", n |-> 5]}}
Padded ==
    {Program(<< <<x, y, z>> >>, m)
     : x, y, z \in {Nop, [k |-> "resvb", n |-> 4], [k |-> "string", b |-> <<69, 88, 69>>], Ins("INT3", 0, <<>>),
                    [k |-> "string", b |-> <<3, 8, 1, 100>>], [k |-> "string", b |-> <<1, 100, 3, 8, 7>>],
                    Ins("JMP", 0, <<Mark(A), Mark(A)>>)}, m \in {"BIN", "EXE"}}

Directives == {[k |-> "ifdef", n |-> "A"], [k |-> "ifndef", n |-> "A"], [k |-> "else"], [k |-> "endif"],
               [k |-> "define", n |-> "A", v |-> Reg(8, 1)], Nop}
Conditions ==
    {Program(<< <<x, y, z, u, v, Ins("PUSH", 8, <<Word("A")>>)>> >>, "BIN")
     : x \in {[k |-> "define", n |-> "A", v |-> Reg(8, 1)], [k |-> "ifdef", n |-> "A"], [k |-> "warning"]},
       y, z, u \in Directives, v \in {[k |-> "endif"], [k |-> "error"], [k |-> "else"], Nop}}

Guarded(body) ==
    <<[k |-> "ifndef", n |-> "G"], [k |-> "define", n |-> "G", v |-> Reg(8, 2)]>> \o body \o <<[k |-> "endif"]>>
Bodies == {[k |-> "include", h |-> "h1"], [k |-> "include", h |-> "h2"], [k |-> "lab", n |-> A], [k |-> "org", v |-> 8],
           [k |-> "equ", n |-> "A", v |-> Reg(8, 3)], Label(A), Nop, [k |-> "else"]}
Inc(h) == [k |-> "include", h |-> h]
Headers ==
    {[files |-> << <<Inc("h1"), Inc("h2"), [k |-> "ifdef", n |-> "G"], Nop, [k |-> "endif"],
                     Ins("PUSH", 8, <<Word("A")>>), Jump(Mark(A)), Label(A)>> >>,
      headers |-> [h1 |-> Guarded(<<b, c>>), h2 |-> Guarded(<<d>>)],
      place |-> [h1 |-> 0, h2 |-> pl[1]], paths |-> pl[2], mode |-> "BIN"]
     : b, c, d \in Bodies, pl \in {<<0, 0>>, <<1, 1>>, <<1, 2>>}}

Endless == {[files |-> << <<Inc("h1"), Nop>> >>, headers |-> [h1 |-> <<Nop, Inc("h1")>>],
             place |-> [h1 |-> 0], paths |-> 0, mode |-> "BIN"],
            [files |-> << <<Inc("h1"), Nop>> >>, headers |-> [h1 |-> <<Inc("h1")>>],
             place |-> [h1 |-> 0], paths |-> 0, mode |-> "BIN"]}

AllPrograms == Single \cup Linking \cup Sections \cup Padded \cup Conditions \cup Headers \cup Endless
=============================================================================
