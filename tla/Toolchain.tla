------------------------------ MODULE Toolchain ------------------------------
(***************************************************************************)
(* sysdarft-system -c and -s: source files are preprocessed (twice: first  *)
(* the % directives of every file, then its . declarations and the headers *)
(* it includes), assembled, linked, written, read back and disassembled    *)
(* (SysdarftConsole/MainCompile.cpp, coding/HeadersAndDefinitions.cpp,     *)
(* PreProcessor.cpp, Assembler.cpp, Linker.cpp, DisassembleAnArea.cpp).    *)
(*                                                                         *)
(* A source line is a record whose k says what it matches; text is parsed  *)
(* already.  A name is a sequence of letters, so that one can be contained *)
(* in another: replace_all of the linker knows no word boundary.  A        *)
(* sub-marker ".x" is written <<".", "x">>.                                *)
(***************************************************************************)
EXTENDS Encoding, FiniteSets, TLC

CONSTANTS Programs,     \* the programs to build
          MaxDepth      \* nesting of PreProcess at which the host's stack ends

VARIABLES
    prog,     \* [files, headers, place, paths, mode]: what is on the disk
    phase,    \* the stage of compile_to_binary and disassemble
    f,        \* the file the stage is at
    frames,   \* activations of HeadProcess and PreProcess, innermost last
    files,    \* file_attr_t.file
    incs,     \* file_attr_t.header_files: pairs of line and header
    defs,     \* file_attr_t.definition
    equ,      \* equ_replacement of the file, name and value
    syms,     \* file_attr_t.symbol_table
    org,      \* the shared origin
    base,     \* origin when assembling starts
    i,        \* line being assembled
    code,     \* file_attr_t.code: bytes b of line l
    data,     \* data_expression_identifiers
    image,    \* the linked code
    table,    \* the linked symbol table, ordered
    p,        \* position of disassemble_code
    nops,     \* concussive_nop_appearances and offset
    bad,      \* bad_8bit_data, as its first position, 0 when empty
    shown     \* positions of the image that were printed

vars == <<prog, phase, f, frames, files, incs, defs, equ, syms, org, base, i, code, data, image, table,
          p, nops, bad, shown>>
sources == <<files, incs, defs, syms>>
objects == <<base, i, code, data>>
listing == <<p, nops, bad, shown>>

Files == DOMAIN prog.files
Blank == [k |-> "blank"]
Frame(lines, st, is) ==
    [lines |-> lines, i |-> 1, st |-> st, inside |-> FALSE, present |-> FALSE, incs |-> is]

\* ReadFiles
Init ==
    /\ prog \in Programs
    /\ phase = "head" /\ f = 1
    /\ frames = <<Frame(prog.files[1], "head", {})>>
    /\ files = prog.files
    /\ incs = [g \in Files |-> {}]
    /\ defs = [g \in Files |-> {}]
    /\ equ = {}
    /\ syms = [g \in Files |-> <<>>]
    /\ org = 0 /\ base = 0 /\ i = 1
    /\ code = [g \in Files |-> <<>>]
    /\ data = [g \in Files |-> <<>>]
    /\ image = <<>> /\ table = <<>>
    /\ p = 1 /\ nops = [n |-> 0, at |-> 0] /\ bad = 0 /\ shown = {}

Fail ==
    /\ phase' = "failed"
    /\ UNCHANGED <<prog, f, frames, sources, equ, org, objects, image, table, listing>>

-----------------------------------------------------------------------------
(***************************************************************************)
(* HeadProcess, one line at a time.                                        *)
(***************************************************************************)
Current == Last(frames)
Line == Current.lines[Current.i]
Reading(st) == phase \in {"head", "pre"} /\ Current.st = st
InHead == Reading("head") /\ Current.i <= Len(Current.lines)
Become(fr) == frames' = Front(frames) \o <<fr>>
Cleared(fr) == [fr EXCEPT !.lines[fr.i] = Blank, !.i = @ + 1]
Skipping == Current.inside /\ ~Current.present
HeadRest == UNCHANGED <<prog, phase, f, files, incs, syms, equ, org, objects, image, table, listing>>

Endif ==
    /\ InHead /\ Line.k = "endif"
    /\ Become([Cleared(Current) EXCEPT !.inside = FALSE, !.present = FALSE])
    /\ HeadRest /\ UNCHANGED defs

\* Mutant: %else does not end the skipped branch.
SkipLine_NoElse ==
    /\ InHead /\ Line.k # "endif" /\ Skipping
    /\ Become(Cleared(Current))
    /\ HeadRest /\ UNCHANGED defs

SkipLine ==
    /\ InHead /\ Line.k # "endif" /\ Skipping
    /\ Become([Cleared(Current) EXCEPT !.present = Line.k = "else"])
    /\ HeadRest /\ UNCHANGED defs

\* An %else is recognised while skipping only.
Taken == InHead /\ Line.k # "endif" /\ ~Skipping

\* process_include: the search leaves the loop at a directory without the file, and opening
\* the next directory's file over an open one is an error.
Opens(h) == prog.place[h] = 0 \/ (prog.place[h] = 1 /\ prog.paths = 1)

Include ==
    /\ Taken /\ Line.k = "include" /\ Opens(Line.h)
    /\ Become([Cleared(Current) EXCEPT !.incs = @ \cup {<<Current.i, Line.h>>}])
    /\ HeadRest /\ UNCHANGED defs

Define ==
    /\ Taken /\ Line.k = "define"
    /\ Become([Current EXCEPT !.lines[Current.i] = [k |-> "equ", n |-> Line.n, v |-> Line.v], !.i = @ + 1])
    /\ defs' = [defs EXCEPT ![f] = @ \cup {Line.n}]
    /\ HeadRest

\* Mutant: the definitions are not asked.
Conditional_Blind ==
    /\ Taken /\ Line.k \in {"ifdef", "ifndef"}
    /\ Become([Cleared(Current) EXCEPT !.inside = TRUE, !.present = Line.k = "ifndef"])
    /\ HeadRest /\ UNCHANGED defs

Conditional ==
    /\ Taken /\ Line.k \in {"ifdef", "ifndef"}
    /\ Become([Cleared(Current) EXCEPT !.inside = TRUE,
                                       !.present = (Line.n \in defs[f]) = (Line.k = "ifdef")])
    /\ HeadRest /\ UNCHANGED defs

HeadError ==
    /\ Taken
    /\ Line.k = "error" \/ (Line.k = "include" /\ ~Opens(Line.h))
    /\ Fail

Keep ==
    /\ Taken /\ Line.k \notin {"include", "define", "ifdef", "ifndef", "error"}
    /\ Become([Current EXCEPT !.i = @ + 1])
    /\ HeadRest /\ UNCHANGED defs

\* The end of a file: the next one, or stage 2; the end of a header: PreProcess of it.
HeadDone ==
    /\ Reading("head") /\ Current.i > Len(Current.lines)
    /\ IF Len(frames) > 1
       THEN /\ Become([Current EXCEPT !.i = 1, !.st = "reg"])
            /\ UNCHANGED <<files, incs, phase, f>>
       ELSE /\ files' = [files EXCEPT ![f] = Current.lines]
            /\ incs' = [incs EXCEPT ![f] = Current.incs]
            /\ IF f + 1 \in Files
               THEN /\ f' = f + 1 /\ phase' = phase
                    /\ frames' = <<Frame(files[f + 1], "head", {})>>
               ELSE /\ f' = 1 /\ phase' = "pre"
                    /\ frames' = <<Frame(files'[1], "reg", incs'[1])>>
    /\ UNCHANGED <<prog, defs, syms, equ, org, objects, image, table, listing>>

-----------------------------------------------------------------------------
(***************************************************************************)
(* PreProcess: line_marker_register, then the declarations up to the first *)
(* line that is none, then the replacements of .equ.                       *)
(***************************************************************************)
IsLabel(line) == line.k \in {"label", "sub"}
Before(lines, n) == {m \in 1 .. (n - 1) : lines[m].k = "label"}
Upper(lines, n) == IF Before(lines, n) = {} THEN <<>> ELSE lines[Max(Before(lines, n))].n
FullName(lines, n) ==
    IF lines[n].k = "label" THEN lines[n].n ELSE Upper(lines, n) \o <<"_">> \o lines[n].n
Rename(a, to(_)) == IF a.k = "mark" THEN [a EXCEPT !.n = to(a.n)] ELSE a
Reword(line, new(_)) ==
    CASE line.k = "ins" -> [line EXCEPT !.args = [m \in DOMAIN line.args |-> new(line.args[m])]]
      [] line.k = "data" -> [line EXCEPT !.arg = new(line.arg)]
      [] OTHER -> line

\* A reference to a sub-marker belongs to the section of the marker above it.
Resolved(lines) ==
    [n \in DOMAIN lines |->
        LET subs == {m \in DOMAIN lines : lines[m].k = "sub" /\ Before(lines, m) = Before(lines, n)}
            full(x) == IF \E m \in subs : x = <<".">> \o lines[m].n
                       THEN FullName(lines, CHOOSE m \in subs : x = <<".">> \o lines[m].n) ELSE x
            new(a) == Rename(a, full)
        IN  IF IsLabel(lines[n]) THEN [k |-> "label", n |-> FullName(lines, n)]
            ELSE Reword(lines[n], new)]

Labels(lines) == SelectSeq([n \in DOMAIN lines |-> IF IsLabel(lines[n]) THEN FullName(lines, n) ELSE <<>>],
                           LAMBDA x : x # <<>>)
Named(tab, n) == {m \in DOMAIN tab : tab[m].n = n}
Symbol(n) == [n |-> n, pos |-> 0, def |-> FALSE, ref |-> FALSE, locs |-> <<>>]
Declare(tab, n) == IF Named(tab, n) = {} THEN Append(tab, Symbol(n)) ELSE tab
PreRest == UNCHANGED <<prog, phase, f, files, incs, defs, objects, image, table, listing>>

RegisterMarkers ==
    /\ Reading("reg")
    /\ LET names == Labels(Current.lines)
       IN  /\ IsInjective(names)
           /\ syms' = [syms EXCEPT ![f] = FoldLeft(Declare, @, names)]
    /\ Become([Current EXCEPT !.st = "pre", !.lines = Resolved(@)])
    /\ UNCHANGED <<equ, org>> /\ PreRest

MarkersTwice == Reading("reg") /\ ~IsInjective(Labels(Current.lines)) /\ Fail

InPre == Reading("pre") /\ Current.i <= Len(Current.lines)
HeaderHere == {x \in Current.incs : x[1] = Current.i}

\* A header is read in place: its definitions, declarations and markers count, its code does not.
EnterHeader ==
    /\ InPre /\ HeaderHere # {}
    /\ Len(frames) < MaxDepth
    /\ LET x == CHOOSE y \in HeaderHere : TRUE
       IN  frames' = Front(frames) \o <<[Current EXCEPT !.incs = @ \ {x}],
                                        Frame(prog.headers[x[2]], "head", {})>>
    /\ UNCHANGED <<syms, equ, org>> /\ PreRest

\* PreProcess calls itself for every header: without end, the host's stack ends.
Runaway ==
    /\ InPre /\ HeaderHere # {} /\ Len(frames) >= MaxDepth
    /\ phase' = "crash"
    /\ UNCHANGED <<prog, f, frames, sources, equ, org, objects, image, table, listing>>

\* process_org, process_lab, process_equ
Declaration ==
    /\ InPre /\ HeaderHere = {} /\ Line.k \in {"org", "lab", "equ", "blank"}
    /\ org' = IF Line.k = "org" THEN Line.v ELSE org
    /\ syms' = IF Line.k = "lab" THEN [syms EXCEPT ![f] = Declare(@, Line.n)] ELSE syms
    /\ equ' = IF Line.k = "equ" /\ (\A e \in equ : e[1] # Line.n) THEN equ \cup {<<Line.n, Line.v>>} ELSE equ
    /\ Become(Cleared(Current))
    /\ PreRest

Declarative == Current.i <= Len(Current.lines) /\ Line.k \in {"org", "lab", "equ", "blank"}
SedEqu(a) ==
    IF a.k = "name" /\ \E e \in equ : e[1] = a.n THEN (CHOOSE e \in equ : e[1] = a.n)[2] ELSE a

PreDone ==
    /\ Reading("pre") /\ HeaderHere = {} /\ ~Declarative
    /\ IF Len(frames) > 1
       THEN /\ frames' = Front(frames)
            /\ UNCHANGED <<files, equ, phase, f, base>>
       ELSE /\ files' = [files EXCEPT ![f] = [n \in DOMAIN Current.lines |-> Reword(Current.lines[n], SedEqu)]]
            /\ equ' = {}
            /\ IF f + 1 \in Files
               THEN /\ f' = f + 1 /\ UNCHANGED <<phase, base>>
                    /\ frames' = <<Frame(files[f + 1], "reg", incs[f + 1])>>
               ELSE f' = 1 /\ phase' = "asm" /\ frames' = <<>> /\ base' = org
    /\ UNCHANGED <<prog, incs, defs, syms, org, i, code, data, image, table, listing>>

-----------------------------------------------------------------------------
(***************************************************************************)
(* SysdarftAssemble, one line at a time.                                   *)
(***************************************************************************)
LE(w, v) == [n \in 1 .. w |-> IF n = 1 THEN v % 256 ELSE IF n = 2 THEN (v \div 256) % 256 ELSE 0]
Zeros(n) == [m \in 1 .. n |-> 0]
Placeholder == Con([n \in 1 .. 8 |-> 255])

Size(chunks) == FoldLeft(LAMBDA n, c : n + Len(c.b), 0, chunks)
CodeSizeNow == Size(code[f])
AsmLine == files[f][i]
InAsm == phase = "asm" /\ i <= Len(files[f])
Emit(b) == code' = [code EXCEPT ![f] = Append(@, [b |-> b, l |-> i])]
AsmRest == UNCHANGED <<prog, phase, f, frames, files, incs, defs, equ, org, base, image, table, listing>>

BlankLine == InAsm /\ AsmLine.k = "blank" /\ i' = i + 1 /\ UNCHANGED <<syms, code, data>> /\ AsmRest

\* emplace_marker
MarkLine ==
    /\ InAsm /\ AsmLine.k = "label"
    /\ \E m \in Named(syms[f], AsmLine.n) :
         /\ ~syms[f][m].def
         /\ syms' = [syms EXCEPT ![f][m].def = TRUE, ![f][m].pos = CodeSizeNow + org]
    /\ i' = i + 1
    /\ UNCHANGED <<code, data>> /\ AsmRest

\* process_string and process_resvb
BytesLine ==
    /\ InAsm /\ AsmLine.k \in {"string", "resvb"}
    /\ Emit(IF AsmLine.k = "string" THEN AsmLine.b ELSE Zeros(AsmLine.n))
    /\ i' = i + 1
    /\ UNCHANGED <<syms, data>> /\ AsmRest

\* @ is the address of the line, @@ the origin of the file being assembled.
Offsets(a) ==
    CASE a.k = "here" -> Con(LE(8, CodeSizeNow + org))
      [] a.k = "origin" -> Con(LE(8, org))
      [] OTHER -> a

\* process_data
DataLine ==
    /\ InAsm /\ AsmLine.k = "data"
    /\ data' = [data EXCEPT ![f] = Append(@, [at |-> Len(code[f]) + 1, w |-> AsmLine.w,
                                              a |-> Offsets(AsmLine.arg)])]
    /\ Emit(Zeros(AsmLine.w))
    /\ i' = i + 1
    /\ UNCHANGED syms /\ AsmRest

\* The first marker of the table that the line mentions is replaced, wherever it occurs; the
\* loop ends there.
Mentioned(tab, args) == {m \in DOMAIN tab : \E a \in Range(args) : a.k = "mark" /\ a.n = tab[m].n}
Patched(tab, args) ==
    IF Mentioned(tab, args) = {} THEN args
    ELSE [n \in DOMAIN args |-> IF args[n].k = "mark" /\ args[n].n = tab[Min(Mentioned(tab, args))].n
                                THEN Placeholder ELSE args[n]]
Operands == Reword(AsmLine, Offsets).args

InstructionLine ==
    /\ InAsm /\ AsmLine.k = "ins"
    /\ LET args == Patched(syms[f], Operands)
           hit == Mentioned(syms[f], Operands)
           m == Min(hit)
       IN  /\ Encodable(AsmLine.op, AsmLine.w, args)
           /\ Emit(EncodeInstruction(AsmLine.op, AsmLine.w, args))
           /\ syms' = IF hit = {} THEN syms
                      ELSE [syms EXCEPT ![f][m].ref = TRUE, ![f][m].locs = Append(@, Len(code[f]) + 1)]
    /\ i' = i + 1
    /\ UNCHANGED data /\ AsmRest

\* What is no instruction: an operand nothing replaced, or a directive that is left.
RejectLine ==
    /\ InAsm
    /\ \/ AsmLine.k \in {"else", "warning", "org", "lab", "equ"}
       \/ AsmLine.k = "ins" /\ ~Encodable(AsmLine.op, AsmLine.w, Patched(syms[f], Operands))
    /\ Fail

\* Mutant: every file starts at the origin.
AssembleDone_SameOrigin ==
    /\ phase = "asm" /\ i > Len(files[f])
    /\ org' = org
    /\ IF f + 1 \in Files THEN f' = f + 1 /\ i' = 1 /\ phase' = phase
                          ELSE f' = 1 /\ i' = 1 /\ phase' = "link"
    /\ UNCHANGED <<prog, frames, sources, equ, base, code, data, image, table, listing>>

\* The next file starts where this one ends.
AssembleDone ==
    /\ phase = "asm" /\ i > Len(files[f])
    /\ org' = org + CodeSizeNow
    /\ IF f + 1 \in Files THEN f' = f + 1 /\ i' = 1 /\ phase' = phase
                          ELSE f' = 1 /\ i' = 1 /\ phase' = "link"
    /\ UNCHANGED <<prog, frames, sources, equ, base, code, data, image, table, listing>>

-----------------------------------------------------------------------------
(***************************************************************************)
(* SysdarftLink, one object at a time.                                     *)
(***************************************************************************)
AllSymbols == UNION {{syms[g][m] : m \in DOMAIN syms[g]} : g \in Files}
Defined(n) == {x \in AllSymbols : x.n = n /\ x.def}
AddressOf(n) == (CHOOSE x \in Defined(n) : TRUE).pos
DefinedTwice == \E g, h \in Files : g # h /\ \E m \in DOMAIN syms[g], o \in DOMAIN syms[h] :
                    syms[g][m].def /\ syms[h][o].def /\ syms[g][m].n = syms[h][o].n

Occurs(b, s) == {n \in 1 .. (Len(b) - Len(s) + 1) : SubSeq(b, n, n + Len(s) - 1) = s}
\* countSequence counts occurrences that do not overlap; this sequence cannot.
Unlinked == EncodeConstant(Placeholder)
Linkable(g) == \A m \in DOMAIN syms[g] :
    /\ Defined(syms[g][m].n) # {}
    /\ \A n \in Range(syms[g][m].locs) : Cardinality(Occurs(code[g][n].b, Unlinked)) = 1

Referring(g, n) == {m \in DOMAIN syms[g] : n \in Range(syms[g][m].locs)}
LinkChunk(b, addr) ==
    LET n == Min(Occurs(b, Unlinked))
    IN  SubSeq(b, 1, n - 1) \o EncodeConstant(Con(LE(8, addr))) \o SubSeq(b, n + 10, Len(b))

\* replace_all, for the markers of the table in order: the first one contained in the name.
Within(n) == {m \in DOMAIN syms[f] : Occurs(n, syms[f][m].n) # {}}
Clean(n) == Within(n) # {} /\ syms[f][Min(Within(n))].n = n

\* A name with a number in place of a part of it, or that no table has, is no expression: bc
\* prints nothing, which reads as zero, or fails.
Computable(a) == a.k = "con" \/ (a.k = "mark" /\ Clean(a.n))
DataValue(a) ==
    CASE a.k = "con" -> a.v
      [] Computable(a) /\ a.k = "mark" -> LE(8, AddressOf(a.n))
      [] OTHER -> Zeros(8)

DataOf(n) == {d \in Range(data[f]) : d.at = n}
Relinked ==
    [n \in DOMAIN code[f] |->
        LET c == code[f][n]
            d == CHOOSE x \in DataOf(n) : TRUE
        IN  IF DataOf(n) # {} THEN [c EXCEPT !.b = SubSeq(DataValue(d.a), 1, d.w)]
            ELSE IF Referring(f, n) # {}
            THEN [c EXCEPT !.b = LinkChunk(@, AddressOf(syms[f][CHOOSE m \in Referring(f, n) : TRUE].n))]
            ELSE c]

LinkError == phase = "link" /\ (DefinedTwice \/ ~Linkable(f)) /\ Fail

\* bc fails on what is no expression.
ExpressionError ==
    /\ phase = "link" /\ ~DefinedTwice /\ Linkable(f)
    /\ \E d \in Range(data[f]) : ~Computable(d.a)
    /\ Fail

\* Mutant: only symbols of the object that defines them.
Referenced_Local == {x.n : x \in {y \in AllSymbols : y.ref /\ y.def}}

\* The table of the image has the symbols that some object refers to, by name.
Referenced == {x.n : x \in {y \in AllSymbols : y.ref}}

LinkObject ==
    /\ phase = "link" /\ ~DefinedTwice /\ Linkable(f)
    /\ code' = [code EXCEPT ![f] = Relinked]
    /\ IF f + 1 \in Files
       THEN f' = f + 1 /\ UNCHANGED <<phase, image, table>>
       ELSE /\ f' = 1 /\ phase' = "write"
            /\ image' = FlattenSeq([g \in Files |-> FlattenSeq([n \in DOMAIN code'[g] |-> code'[g][n].b])])
            /\ table' = [x \in 1 .. Cardinality(Referenced) |->
                            LET n == SetToSeq(Referenced)[x] IN [n |-> n, v |-> AddressOf(n)]]
    /\ UNCHANGED <<prog, frames, sources, equ, org, base, i, data, listing>>

-----------------------------------------------------------------------------
(***************************************************************************)
(* LinkedWrite, and disassemble, which reads the file again.  An EXE or    *)
(* SYS file has its magic number and the symbol table before the code; a   *)
(* file is taken for one when it begins with the three letters.            *)
(***************************************************************************)
Magic(m) == IF m = "EXE" THEN <<69, 88, 69, 0>> ELSE <<83, 89, 83, 0>>
Letters == [a |-> 97, b |-> 98, x |-> 120] @@ ("_" :> 95)
Text(n) == [m \in DOMAIN n |-> Letters[n[m]]]
GenerateSymbolTable ==
    LE(8, Len(table)) \o FlattenSeq([m \in DOMAIN table |->
        LE(2, Len(table[m].n)) \o Text(table[m].n) \o LE(8, table[m].v)])

LinkedWrite == IF prog.mode = "BIN" THEN image ELSE Magic(prog.mode) \o GenerateSymbolTable \o image

\* pop_num_from_vec; a vector that is too short is an error.
Number(bytes) == bytes[1] + 256 * bytes[2]
PopEntry(r, n) ==
    LET len == IF Len(r.rest) >= 2 THEN Number(r.rest) ELSE 0
    IN  IF ~r.ok \/ Len(r.rest) < len + 10 THEN [r EXCEPT !.ok = FALSE]
        ELSE [ok |-> TRUE, rest |-> SubSeq(r.rest, len + 11, Len(r.rest)),
              tab |-> Append(r.tab, [t |-> SubSeq(r.rest, 3, len + 2),
                                     v |-> Number(SubSeq(r.rest, len + 3, len + 10))])]
\* More entries than bytes: the first that does not fit is the error.
Sniffed(bytes) == {m \in {"EXE", "SYS"} : IsPrefix(SubSeq(Magic(m), 1, 3), bytes)}
ReadFile(bytes) ==
    LET magic == \E m \in {"EXE", "SYS"} : IsPrefix(Magic(m), bytes)
    IN  IF Sniffed(bytes) = {} /\ prog.mode = "BIN" THEN [ok |-> TRUE, rest |-> bytes, tab |-> <<>>]
        ELSE IF ~magic \/ Len(bytes) < 12 THEN [ok |-> FALSE, rest |-> <<>>, tab |-> <<>>]
        ELSE FoldLeft(PopEntry, [ok |-> TRUE, rest |-> SubSeq(bytes, 13, Len(bytes)), tab |-> <<>>],
                      [n \in 1 .. Min({Number(SubSeq(bytes, 5, 12)), Len(bytes)}) |-> n])

\* The table read back is keyed by address.
Emplace(tab, e) == IF \E x \in Range(tab) : x.v = e.v THEN tab ELSE Append(tab, e)

Reload ==
    /\ phase = "write"
    /\ LET r == ReadFile(LinkedWrite)
       IN  /\ r.ok
           /\ image' = r.rest
           /\ table' = FoldLeft(Emplace, <<>>, r.tab)
    /\ phase' = "list"
    /\ UNCHANGED <<prog, f, frames, sources, equ, org, objects, listing>>

ReloadError == phase = "write" /\ ~ReadFile(LinkedWrite).ok /\ Fail

-----------------------------------------------------------------------------
(***************************************************************************)
(* disassemble_code, one instruction at a time.  Bytes that are no         *)
(* instruction are kept until an instruction follows; more than three NOPs *)
(* in a row are told as their number.                                      *)
(***************************************************************************)
Next1 == List(image, p)
Padding == IF nops.n > 3 THEN nops.at .. (nops.at + nops.n - 1) ELSE {}
ListRest == UNCHANGED <<prog, f, frames, sources, equ, org, objects, image, table>>

ListBad ==
    /\ phase = "list" /\ p <= Len(image) /\ Next1.bad
    /\ bad' = IF bad = 0 THEN p ELSE bad
    /\ shown' = shown \cup Padding
    /\ nops' = [n |-> 0, at |-> 0]
    /\ p' = Next1.p
    /\ UNCHANGED phase /\ ListRest

ListGood ==
    /\ phase = "list" /\ p <= Len(image) /\ ~Next1.bad
    /\ bad' = 0
    /\ nops' = IF image[p] # 0 THEN [n |-> 0, at |-> 0] ELSE [n |-> nops.n + 1, at |-> IF nops.n = 0 THEN p ELSE nops.at]
    /\ shown' = shown \cup (IF bad # 0 THEN bad .. (p - 1) ELSE {})
                      \cup (IF image[p] # 0 THEN Padding ELSE {})
                      \cup (IF nops'.n <= 3 THEN p .. (Next1.p - 1) ELSE {})
    /\ p' = Next1.p
    /\ UNCHANGED phase /\ ListRest

ListDone ==
    /\ phase = "list" /\ p > Len(image)
    /\ shown' = shown \cup Padding
    /\ phase' = "done"
    /\ UNCHANGED <<p, nops, bad>> /\ ListRest

Terminated == phase \in {"done", "failed", "crash"} /\ UNCHANGED vars

Head1 == Endif \/ SkipLine \/ Include \/ Define \/ Conditional \/ HeadError \/ Keep \/ HeadDone
Pre1 == RegisterMarkers \/ MarkersTwice \/ EnterHeader \/ Runaway \/ Declaration \/ PreDone
Asm1 == BlankLine \/ MarkLine \/ BytesLine \/ DataLine \/ InstructionLine \/ RejectLine \/ AssembleDone
Link1 == LinkError \/ ExpressionError \/ LinkObject
List1 == Reload \/ ReloadError \/ ListBad \/ ListGood \/ ListDone
Next == Head1 \/ Pre1 \/ Asm1 \/ Link1 \/ List1 \/ Terminated

\* The compiler is one thread that nothing blocks.
Spec == Init /\ [][Next]_vars /\ WF_vars(Head1 \/ Pre1) /\ WF_vars(Asm1) /\ WF_vars(Link1)

-----------------------------------------------------------------------------
Built == phase \in {"list", "done"}
Misread == prog.mode = "BIN" /\ Sniffed(LinkedWrite) # {}

\* Where the chunks of the image are, told from the sizes of what precedes them.
StartOf(g, n) ==
    1 + FoldSet(LAMBDA h, acc : acc + Size(code[h]), 0, {h \in Files : h < g}) + Size(SubSeq(code[g], 1, n - 1))
AddressOfLine(g, l) ==
    LET before == Cardinality({n \in DOMAIN code[g] : code[g][n].l < l})
    IN  base + StartOf(g, before + 1) - 1

\* The line a marker stands for, told from the source as it was written.
Section(g, l) == Before(prog.files[g], l)
Target(g, l, n) ==
    IF Head(n) = "."
    THEN {<<g, m>> : m \in {m \in DOMAIN files[g] : /\ prog.files[g][m] = [k |-> "sub", n |-> Tail(n)]
                                                     /\ Section(g, m) = Section(g, l)}}
    ELSE UNION {{<<h, m>> : m \in {m \in DOMAIN files[h] : /\ files[h][m].k = "label"
                                                           /\ prog.files[h][m] = [k |-> "label", n |-> n]}}
                : h \in Files}
Meant(g, l, n) == LET t == CHOOSE x \in Target(g, l, n) : TRUE IN AddressOfLine(t[1], t[2])

AllLines == UNION {Range(prog.files[g]) : g \in Files} \cup UNION {Range(prog.headers[h]) : h \in DOMAIN prog.headers}
Worth(n) == (CHOOSE x \in AllLines : x.k \in {"define", "equ"} /\ x.n = n).v
Meaning(g, l, a) ==
    CASE a.k = "mark" -> Con(LE(8, Meant(g, l, a.n)))
      [] a.k = "here" -> Con(LE(8, AddressOfLine(g, l)))
      [] a.k = "origin" -> Con(LE(8, base))
      [] a.k = "name" -> Worth(a.n)
      [] OTHER -> a

\* @@ in a file after the first.
LaterOrigin(g, a) == g > 1 /\ a.k = "origin"

Exists(a) == a.k = "reg" => a.i >= Name \/ a.i < (IF a.w = 8 THEN 16 ELSE 8)

\* What the CPU decodes at the place of a line is the instruction the programmer wrote there,
\* with every marker, sub-marker, @ and definition standing for the address or value it has in
\* the linked image, @@ for the code origin, and the CPU continues at the next line; @@ in a
\* file after the first, registers that do not exist, and a BIN image that begins like an EXE
\* file, excepted (encode_instruction, SysdarftLink, pop_instruction_from_ip_and_increase_ip).
ReferencesResolve ==
    Built /\ ~Misread =>
        \A g \in Files : \A n \in DOMAIN code[g] :
            LET l == code[g][n].l
                src == prog.files[g][l]
                d == Decode(image, StartOf(g, n))
                args == [m \in DOMAIN Used(src.op, src.args) |-> Meaning(g, l, src.args[m])]
            IN  src.k = "ins" /\ (\A m \in DOMAIN args : Exists(args[m]) /\ ~LaterOrigin(g, src.args[m])) =>
                    /\ d.ok /\ d.op = src.op
                    /\ NeedsWidth(src.op) => d.w = src.w
                    /\ d.args = args
                    /\ d.p = StartOf(g, n) + Len(code[g][n].b)

\* Mangled: another marker of the file, registered earlier, is contained in the name.
Mangled(g, n) ==
    \E m, o \in DOMAIN syms[g] : /\ m < o /\ syms[g][o].n = n
                                 /\ Occurs(n, syms[g][m].n) # {}

\* A data directive holds the address of its marker, cut to its width, unless the name
\* contains that of a marker registered before it (SysdarftLink replaces text) or is not known to
\* the file, and the code origin for @@, unless its file is not the first.
DataHoldsAddress ==
    Built /\ ~Misread =>
        \A g \in Files : \A d \in Range(data[g]) :
            LET l == code[g][d.at].l
                src == prog.files[g][l]
                lo == StartOf(g, d.at)
            IN  ~(d.a.k = "mark" /\ (Mangled(g, d.a.n) \/ Named(syms[g], d.a.n) = {})) /\ ~LaterOrigin(g, src.arg) =>
                    SubSeq(image, lo, lo + d.w - 1) = SubSeq(Meaning(g, l, src.arg).v, 1, d.w)

\* The linked image means what the source says: every operand and every data directive has the
\* address its marker has in the image (encode_instruction, SysdarftLink).
AddressesResolve == ReferencesResolve /\ DataHoldsAddress

\* The disassembler reads what the CPU executes: from any byte of the image, an instruction
\* the CPU accepts is listed as one, with the same length (decode_instruction).
AgreesWithCpu ==
    phase = "list" /\ p = 1 =>
        \A q \in DOMAIN image :
            LET d == Decode(image, q)
                l == List(image, q)
            IN  d.ok /\ d.p <= Len(image) + 1 => ~l.bad /\ l.p = d.p

\* A listing accounts for every byte of the image, except bytes at the end that are no
\* instruction (disassemble_code).
ListingComplete ==
    phase = "done" => shown = (1 .. (IF bad = 0 THEN Len(image) ELSE bad - 1))

\* A listing is that of the program the CPU would run, from its first byte to its last
\* (decode_instruction, disassemble_code).
ListingTrue == AgreesWithCpu /\ ListingComplete

\* What the conditionals of a file select when they are not nested: a line is out, in a branch
\* that counts or in one that does not; both says whether an %else followed a branch that counts.
Select(s, line) ==
    CASE line.k \in {"ifdef", "ifndef"} /\ s.st = "no" -> [s EXCEPT !.nested = TRUE]
      [] line.k \in {"ifdef", "ifndef"} /\ s.st # "no" ->
            [s EXCEPT !.nested = @ \/ s.st = "yes", !.st = IF (line.n \in s.d) = (line.k = "ifdef") THEN "yes" ELSE "no"]
      [] line.k = "endif" -> [s EXCEPT !.st = "out"]
      [] line.k = "else" -> [s EXCEPT !.both = @ \/ s.st # "no", !.st = IF @ = "no" THEN "yes" ELSE "no"]
      [] line.k = "define" /\ s.st # "no" -> [s EXCEPT !.d = @ \cup {line.n}]
      [] OTHER -> s
Selected(lines) == FoldLeft(Select, [st |-> "out", nested |-> FALSE, both |-> FALSE, d |-> {}], lines)
CodeKinds == {"ins", "label", "sub", "data", "string", "resvb", "else"}
Chosen(g) == {n \in DOMAIN prog.files[g] : /\ prog.files[g][n].k \in CodeKinds \ {"else"}
                                           /\ Selected(SubSeq(prog.files[g], 1, n)).st # "no"}
Headed == phase \in {"pre", "asm", "link", "write", "list", "done"}
Matches(g) == {n \in DOMAIN files[g] : files[g][n].k \in CodeKinds} = Chosen(g)

\* The code that is assembled is that of the branches whose definition is there, for files
\* whose conditionals are not nested and have no %else after a branch that counts (HeadProcess).
BranchesSelected ==
    Headed => \A g \in Files : LET s == Selected(prog.files[g])
                               IN  ~s.nested /\ ~s.both => Matches(g)

\* The markers that operands of instructions refer to, by the name and the address of the line
\* each stands for.
ReferredTo ==
    LET uses == UNION {UNION {{<<g, code[g][n].l, a.n>> :
                                  a \in {a \in Range(prog.files[g][code[g][n].l].args) : a.k = "mark"}}
                              : n \in {n \in DOMAIN code[g] : prog.files[g][code[g][n].l].k = "ins"}}
                       : g \in Files}
        lines == UNION {Target(u[1], u[2], u[3]) : u \in uses}
    IN  {[t |-> Text(FullName(prog.files[x[1]], x[2])), v |-> AddressOfLine(x[1], x[2])] : x \in lines}

\* The symbol table read back has the markers that instructions refer to, in any of the files,
\* each with its own name and the address of its line, and no others; of markers at one address
\* it has one, since disassemble keeps the first name of an address (generate_symbol_table,
\* disassemble).
SymbolsReadBack ==
    Built /\ prog.mode # "BIN" =>
        /\ Range(table) \subseteq ReferredTo
        /\ {e.v : e \in Range(table)} = {e.v : e \in ReferredTo}

IsGuarded(h) == Len(h) > 1 /\ h[1].k = "ifndef" /\ h[2].k = "define" /\ h[1].n = h[2].n

\* Every build whose headers are guarded ends, with an image or an error: a header that
\* includes itself is read again, and the definition its first reading made ends it (PreProcess).
BuildEnds == (\A h \in DOMAIN prog.headers : IsGuarded(prog.headers[h])) => <>(phase \in {"write", "failed"})
=============================================================================
