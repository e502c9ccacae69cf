----------------------------- MODULE MCDebugger -----------------------------
(* Instances of Debugger for TLC.                                          *)
EXTENDS Debugger, TLC

\* Clients send the same requests, and no constant tells them apart.
Symmetry == Permutations(Client)
=============================================================================
