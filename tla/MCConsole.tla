----------------------------- MODULE MCConsole ------------------------------
(***************************************************************************)
(* Instances of Console for TLC: an ordinary key, a key without a code and *)
(* a request, and the ways to start the emulator.                          *)
(***************************************************************************)
EXTENDS Console

MCPressedKeys == {<<"A", TRUE, FALSE>>, <<"F1", FALSE, TRUE>>, <<"Z", FALSE, TRUE>>, <<"RBracket", FALSE, TRUE>>}

Flag(o) == <<o, "">>

Boots == <<<<"bios", "bios.bin">>, Flag("boot")>>

InTerminal == Append(Boots, Flag("verbose"))

InWindow == Boots \o <<Flag("no-curses"), Flag("with-gui")>>

Compiles(format) == <<<<"compile", "a.asm">>, <<"output", "a">>, <<"format", format>>>>

MCCommandLines ==
  {InTerminal, InWindow, Append(InWindow, <<"font", "bios.bin">>), Append(Boots, <<"font", "help">>),
   <<Flag("boot")>>, Append(Boots, <<"debug", "8080">>), <<Flag("help"), Flag("boot")>>,
   Compiles("exe"), Compiles("elf"), <<<<"disassem", "a">>>>, <<<<"disassem", "bios.bin">>>>,
   Append(Boots, <<"module", "x.so">>), <<Flag("what")>>, <<>>}

=============================================================================
