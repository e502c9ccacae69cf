----------------------------- MODULE MCBootLoop -----------------------------
(* Instances of BootLoop for TLC.                                          *)
EXTENDS BootLoop, TLC

Typed(c, z, e, k, b) ==
    "CtrlC" :> c @@ "CtrlZ" :> z @@ "Escape" :> e @@ "Key" :> k @@ "Break" :> b

TypedSafety == {Typed(0, 2, 0, 0, 0)}
\* Ctrl+Z twice; everything but Ctrl+Z; Ctrl+C and Ctrl+Z.
TypedLive == {Typed(0, 2, 1, 1, 0), Typed(1, 0, 1, 1, 1), Typed(1, 1, 0, 1, 0)}
=============================================================================
