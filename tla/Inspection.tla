---------------------------- MODULE Inspection ----------------------------
(***************************************************************************)
(* What the debugger looks at: before an instruction, if_breakpoint        *)
(* evaluates the condition of the breakpoint at its address and compares   *)
(* the watched target with what it was (SysdarftConsole/                   *)
(* ConditionalExpression.cpp, debugger_operand.cpp, DebugConsole.cpp), on  *)
(* the registers and the memory of Machine.  When the pause begins and how *)
(* it ends is the subject of Debugger.                                     *)
(*                                                                         *)
(* A condition is text; its tokens are the keywords with their "(", the    *)
(* signs , ) < > and the space, and the parts of an operand: "%" with      *)
(* width and number for a register, "$" with width and value for $w(v, "*" *)
(* with width and ratio for *ratio&w(.                                     *)
(***************************************************************************)
EXTENDS Machine, FiniteSetsExt

CONSTANTS DataBases,    \* values of DB
          MaxSets       \* bound: targets the client stores into

VARIABLES dbg,      \* "off", "look": in front of an instruction, "run": after if_breakpoint
          db,       \* DB
          cond,     \* {} or the condition of the breakpoint met at every instruction
          watch,    \* {} or the watched target with its last value
          look,     \* what if_breakpoint came to: "none", "condition", "watch", "throws"
          seen,     \* history: the registers at the last look
          sets      \* history: how many times the client stored

dvars == <<dbg, db, cond, watch, look, seen, sets>>
ivars == <<vars, dvars>>

-----------------------------------------------------------------------------
(* Targets and their text.                                                 *)

Register(w, i) == [kind |-> "register", w |-> w, i |-> i]
Constant(w, v) == [kind |-> "constant", w |-> w, v |-> v]
Memory(w, ratio, base, off1, off2) ==
    [kind |-> "memory", w |-> w, ratio |-> ratio, base |-> base, off1 |-> off1, off2 |-> off2]

Negative == Constant(1, Span(1) - 1)

Targets == {Register(8, 0), Register(1, 1), Register(2, 2), Register(8, 2),
            Constant(8, 1), Constant(1, 2), Negative,
            Memory(8, 1, Register(8, 2), Constant(2, 9), Negative),
            Memory(8, 4, Register(8, 0), Register(8, 2), Constant(1, 0))}

Tok(s) == <<s, 0, 0>>

PartText(t) ==
    IF t.kind = "register" THEN << <<"%", t.w, t.i>> >> ELSE << <<"$", t.w, t.v>>, Tok(")") >>

Text(t) ==
    IF t.kind # "memory" THEN PartText(t)
    ELSE << <<"*", t.w, t.ratio>> >> \o PartText(t.base) \o <<Tok(",")>>
         \o PartText(t.off1) \o <<Tok(",")>> \o PartText(t.off2) \o <<Tok(")")>>

\* encode_target: the target a text without its spaces is, if it is one.
Encoded(s) ==
    {t \in Targets : Text(t) = SelectSeq(s, LAMBDA k : k # Tok(" "))}

\* pop_code of 16, 32 and 64 bits returns uint16_t.
ConstantOf(t) == (t.v % Span(t.w)) % Span(2)
Part(t) == IF t.kind = "register" THEN Load(r.gp, t.w, t.i) ELSE ConstantOf(t)

AddressOf(t) ==
    EffectiveAddress(Part(t.base), Part(t.off1), t.off2.w, Part(t.off2), t.ratio)

(***************************************************************************)
(* absolute_target_access: the value, or none when the memory has no such  *)
(* place.  Reading memory adds DB.                                         *)
(***************************************************************************)
GotMemory(t) ==
    LET a == (db + AddressOf(t)) % Word
    IN  IF a + t.w > MemSize THEN {} ELSE {Read(mem, a, t.w)}
Got(t) == IF t.kind = "memory" THEN GotMemory(t) ELSE {Part(t)}

-----------------------------------------------------------------------------
(***************************************************************************)
(* The parser of conditions.  Each parse gives the position after it and   *)
(* what the part evaluates to: "met", "unmet", "throws" when a target      *)
(* cannot be read, "bad" when it cannot be encoded.                        *)
(***************************************************************************)
At(text, p) == IF p \in DOMAIN text THEN text[p] ELSE Tok("end")

\* skipWhitespace
Skip(text, p) == Min({q \in p .. (Len(text) + 1) : At(text, q) # Tok(" ")})

\* The comma or parenthesis is passed when it is there.
Past(text, p, s) == IF At(text, p) = Tok(s) THEN p + 1 ELSE p

\* Mutant: a sign inside angle brackets ends the text.
End_Brackets(text, p, stops) ==
    Min({q \in p .. Len(text) : text[q] \in stops} \cup {Len(text) + 1})

\* parseUntilCommaOrParen and parseUntilParen: up to a sign outside brackets.
End(text, p, stops) ==
    LET depth(q) == Cardinality({k \in p .. q : text[k] = Tok("<")})
                    - Cardinality({k \in p .. q : text[k] = Tok(">")})
    IN  Min({q \in p .. Len(text) : text[q] \in stops /\ depth(q) = 0} \cup {Len(text) + 1})

\* processTgExp: the regular expression <([^>]*)> of the whole text.
ProcessTgExp(s) ==
    IF /\ Len(s) >= 2 /\ s[1] = Tok("<") /\ Last(s) = Tok(">")
       /\ \A k \in 2 .. (Len(s) - 1) : s[k] # Tok(">")
    THEN SubSeq(s, 2, Len(s) - 1) ELSE s

\* Something that cannot be encoded ends the parse, before anything is read.
Worst(x, y) == IF "bad" \in {x, y} THEN "bad" ELSE "throws"
Fails(x, y) == {x, y} \cap {"bad", "throws"} # {}

Equal(s1, s2) ==
    LET t1 == Encoded(s1)
        t2 == Encoded(s2)
    IN  IF t1 = {} \/ t2 = {} THEN "bad"
        ELSE LET v1 == UNION {Got(t) : t \in t1}
                 v2 == UNION {Got(t) : t \in t2}
             IN  CASE v1 = {} \/ v2 = {} -> "throws"
                   [] v1 # {} /\ v1 = v2 -> "met"
                   [] OTHER -> "unmet"

ParseValEqual(text, p) ==
    LET p1 == Skip(text, p)
        e1 == End(text, p1, {Tok(","), Tok(")")})
        p2 == Skip(text, Past(text, e1, ","))
        e2 == End(text, p2, {Tok(")")})
    IN  [pos |-> Past(text, e2, ")"),
         val |-> Equal(ProcessTgExp(SubSeq(text, p1, e1 - 1)), ProcessTgExp(SubSeq(text, p2, e2 - 1)))]

\* check_one_level_of_condition: both sides are evaluated, always.
CheckOneLevel(type, x, y) ==
    CASE Fails(x, y) -> Worst(x, y)
      [] ~Fails(x, y) /\ \/ type = "and(" /\ x = "met" /\ y = "met"
                         \/ type = "or("  /\ (x = "met" \/ y = "met")
                         \/ type = "not(" /\ x = "unmet" -> "met"
      [] OTHER -> "unmet"

Connectives == {"and(", "or(", "not("}

(***************************************************************************)
(* parseExpression and parseLogical.  Where no keyword stands there is no  *)
(* node, and no node counts as met; so does the second side of not.        *)
(***************************************************************************)
IsConditionMet(text) ==
    LET Parse[p \in 1 .. (Len(text) + 1)] ==
            LET q == Skip(text, p)
                k == At(text, q)[1]
            IN  CASE k = "valequal(" -> ParseValEqual(text, q + 1)
                  [] k \in Connectives ->
                        LET x == Parse[q + 1]
                            y == Parse[Past(text, Skip(text, x.pos), ",")]
                        IN  [pos |-> Past(text, Skip(text, y.pos), ")"),
                             val |-> CheckOneLevel(k, x.val, y.val)]
                  [] OTHER -> [pos |-> q, val |-> "met"]
    IN  Parse[1].val

-----------------------------------------------------------------------------
(***************************************************************************)
(* The conditions of the clients: trees, and the ways to write them down.  *)
(* "plain" has every target in angle brackets, "spaced" has spaces where   *)
(* they are skipped, "bare" leaves the brackets of registers out.          *)
(***************************************************************************)
Leaves == {[op |-> "valequal(", x |-> t[1], y |-> t[2]] : t \in
             {<<Register(8, 0), Constant(8, 1)>>, <<Register(1, 1), Register(2, 2)>>,
              <<Memory(8, 1, Register(8, 2), Constant(2, 9), Negative), Constant(8, 1)>>}}

Nots == {[op |-> "not(", x |-> l] : l \in Leaves}
Pairs == {[op |-> o, x |-> a, y |-> b] : o \in {"and(", "or("}, a \in Leaves, b \in Leaves \cup Nots}
Nested == {[op |-> o, x |-> a, y |-> b] : o \in {"and(", "or("}, a \in Nots \cup {CHOOSE p \in Pairs : TRUE},
                                           b \in {CHOOSE l \in Leaves : l.x.kind = "memory"}}
Trees == Leaves \cup Nots \cup Pairs \cup Nested

Styles == {"plain", "spaced", "bare"}

Spelled(t, style) ==
    CASE style = "bare" /\ t.kind = "register" -> Text(t)
      [] style = "spaced" -> <<Tok(" "), Tok("<"), Tok(" ")>> \o Text(t) \o <<Tok(" "), Tok(">")>>
      [] OTHER -> <<Tok("<")>> \o Text(t) \o <<Tok(">")>>

TextOf(tree, style) ==
    LET gap == IF style = "spaced" THEN <<Tok(" ")>> ELSE <<>>
        W[t \in Trees] ==
            CASE t.op = "valequal(" ->
                    <<Tok(t.op)>> \o Spelled(t.x, style) \o <<Tok(",")>> \o Spelled(t.y, style) \o <<Tok(")")>>
              [] t.op = "not(" -> gap \o <<Tok(t.op)>> \o W[t.x] \o gap \o <<Tok(")")>>
              [] OTHER -> gap \o <<Tok(t.op)>> \o W[t.x] \o gap \o <<Tok(",")>> \o W[t.y] \o gap \o <<Tok(")")>>
    IN  W[tree]

-----------------------------------------------------------------------------
\* Registers and memory are compared, narrow registers with what they alias.
Watchable == {t \in Targets : t.kind # "constant"}

IInit ==
    /\ Init
    /\ look = "none" /\ seen = r.gp /\ sets = 0
    /\ \/ dbg = "off" /\ cond = {} /\ watch = {} /\ db = 0
       \/ /\ mode = "alu" /\ dbg = "look"
          /\ \/ \E tree \in Trees, style \in Styles :
                   cond = {[tree |-> tree, text |-> TextOf(tree, style)]} /\ watch = {} /\ db = 0
             \/ \E t \in Watchable : /\ cond = {} /\ watch = {[t |-> t, last |-> 0]}
                                     /\ db \in IF t.kind = "memory" THEN DataBases ELSE {0}

\* Mutant: a hit does not keep the value that was read.
Look_Forgets ==
    LET verdict == {IsConditionMet(c.text) : c \in cond}
        fails == \E x \in watch : Got(x.t) = {}
        hit == \E x \in watch : x.last \notin Got(x.t)
    IN  /\ dbg = "look" /\ dbg' = "run" /\ seen' = r.gp
        /\ look' = CASE "met" \in verdict -> "condition"
                     [] {"throws", "bad"} \cap verdict # {} \/ fails -> "throws"
                     [] OTHER -> IF hit THEN "watch" ELSE "none"
        /\ UNCHANGED <<vars, watch, db, cond, sets>>

(***************************************************************************)
(* if_breakpoint, from the breakpoint list on: a condition that is met     *)
(* ends it before the watches are compared, and so does an exception.      *)
(* SetBreakpoint parses every text once and refuses the bad ones, so a bad *)
(* one is not met here as long as bc computes what it did then.            *)
(***************************************************************************)
Look ==
    LET verdict == {IsConditionMet(c.text) : c \in cond}
        fails == \E x \in watch : Got(x.t) = {}
        hit == \E x \in watch : x.last \notin Got(x.t)
    IN  /\ dbg = "look" /\ dbg' = "run" /\ seen' = r.gp
        /\ look' = CASE "met" \in verdict -> "condition"
                     [] {"throws", "bad"} \cap verdict # {} \/ fails -> "throws"
                     [] OTHER -> IF hit THEN "watch" ELSE "none"
        /\ watch' = IF look' \in {"condition", "throws"} THEN watch
                    ELSE {[x EXCEPT !.last = CHOOSE v \in Got(x.t) : TRUE] : x \in watch}
        /\ UNCHANGED <<vars, db, cond, sets>>

\* set_val: storing into memory does not add DB, and a constant cannot be
\* stored into.
StoreTarget(t, v) ==
    \/ /\ t.kind = "register"
       /\ r' = [r EXCEPT !.gp = Store(@, t.w, t.i, v)]
       /\ UNCHANGED mem
    \/ /\ t.kind = "memory" /\ AddressOf(t) + t.w <= MemSize
       /\ mem' = Written(mem, AddressOf(t), t.w, v)
       /\ UNCHANGED r

\* Set of the route /Action while the guest is paused; one that fails changes
\* nothing.
SetTarget(t, u) ==
    /\ dbg = "run" /\ look \in {"condition", "watch"} /\ sets < MaxSets
    /\ \E v \in Got(u) : StoreTarget(t, v)
    /\ sets' = sets + 1
    /\ UNCHANGED <<mode, hist, frames, event, steps, dbg, db, cond, watch, look, seen>>

\* The guest goes on with one instruction: a computation in the registers, or
\* once a store of FER0 into the memory that targets name.
GuestComputes ==
    \E w \in Width : Compute("add", w, 0, 2) \/ Exchange(w, 0, 2)
GuestStores ==
    /\ steps = 0 /\ steps' = 1
    /\ \E t \in {u \in Targets : u.kind = "memory"} :
        LET o == DoStore(Fetched, AddressOf(t), 0)
        IN  o.thrown = "none" /\ r' = o.r /\ mem' = o.mem
    /\ UNCHANGED <<mode, hist, frames, event>>
GuestStep ==
    /\ dbg = "run" /\ dbg' = "look"
    /\ (watch # {} /\ GuestComputes) \/ GuestStores
    /\ UNCHANGED <<db, cond, watch, look, seen, sets>>

Quiet == dbg = "run" /\ UNCHANGED ivars

INext ==
    \/ dbg = "off" /\ Next /\ UNCHANGED dvars
    \/ Look
    \/ \E t \in Watchable, u \in {Constant(8, 1)} : watch # {} /\ t.w = 8 /\ SetTarget(t, u)
    \/ GuestStep
    \/ Quiet

\* Room for one word and a half at the bottom of the memory, and for an
\* image, a register file and one word and a half above it.
SmallStacks == {<<0, 12>>, <<300, 460>>}

ISpec == IInit /\ [][INext]_ivars

-----------------------------------------------------------------------------
\* What a tree says of the guest: its leaves, without the text.
Sides(t) == {Got(t.x), Got(t.y)}
Says(tree) ==
    LET leaves[t \in Trees] == CASE t.op = "valequal(" -> {t}
                                 [] t.op = "not(" -> leaves[t.x]
                                 [] OTHER -> leaves[t.x] \cup leaves[t.y]
        holds[t \in Trees] == CASE t.op = "valequal(" -> Got(t.x) = Got(t.y)
                                [] t.op = "not(" -> ~holds[t.x]
                                [] t.op = "and(" -> holds[t.x] /\ holds[t.y]
                                [] OTHER -> holds[t.x] \/ holds[t.y]
    IN  CASE \E l \in leaves[tree] : {} \in Sides(l) -> "throws"
          [] holds[tree] -> "condition"
          [] OTHER -> "none"

(***************************************************************************)
(* A condition, however deep, whose targets stand in angle brackets (a     *)
(* register may do without) and whose spaces stand where a part begins     *)
(* stops the guest exactly when the tree it spells holds of the registers  *)
(* and the memory, and only a target that cannot be read makes it fail:    *)
(* commas and parentheses of targets never end an operand, the missing     *)
(* second side of not never counts, and no part of the text is passed by.  *)
(***************************************************************************)
ConditionMeans ==
    [][dbg = "look" /\ dbg' = "run" => \A c \in cond : look' = Says(c.tree)]_ivars

(***************************************************************************)
(* A watched register stops the guest exactly when one of its own bytes    *)
(* has changed since the last look, through whichever register it shares   *)
(* them with and whoever stored it, the guest or the client; the first     *)
(* look compares with zero.                                                *)
(***************************************************************************)
WatchFires ==
    [][dbg = "look" /\ dbg' = "run" => \A x \in watch : x.t.kind = "register" =>
        (look' = "watch" <=>
            \E k \in (x.t.w * x.t.i) .. (x.t.w * x.t.i + x.t.w - 1) :
                Byte(r.gp, k) # IF hist = <<>> /\ steps = 0 THEN 0 ELSE Byte(seen, k))]_ivars
=============================================================================
