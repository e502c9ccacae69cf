---------------------------- MODULE CommandLine -----------------------------
(***************************************************************************)
(* What main does with a command line.  A command line is a function from  *)
(* the names of long_options to the sequence of values given for each (the *)
(* empty string for an option without an argument).                        *)
(***************************************************************************)
EXTENDS Integers, Sequences

CONSTANTS Readable,           \* files that exist and can be read
          FontFiles,          \* those of them that hold a font
          Loadable            \* modules whose module_init returns 0

OptionNames == {"help", "version", "module", "verbose", "compile", "output", "format", "include",
                "regex", "disassem", "origin", "bios", "hdd", "fda", "fdb", "memory", "boot",
                "cr-to-lf", "debug", "no-curses", "with-gui", "font", "crow-log"}

(* get_args collects the values of an option in the order they are given.  *)
GetArgs(argv) ==
  [o \in OptionNames |-> LET given == SelectSeq(argv, LAMBDA a : a[1] = o)
                         IN [i \in DOMAIN given |-> given[i][2]]]

Unknown(argv) == \E i \in DOMAIN argv : argv[i][1] \notin OptionNames

Given(args, o) == args[o] # <<>>

Formats == {"bin", "exe", "sys"}

(* compile_to_binary throws for a source it cannot read.                   *)
CompileOutcome(args) ==
  IF /\ Len(args["format"]) = 1 /\ Len(args["output"]) = 1
     /\ args["format"][1] \in Formats
     /\ \A i \in DOMAIN args["compile"] : args["compile"][i] \in Readable
  THEN "success" ELSE "failure"

DisassembleOutcome(args) ==
  IF /\ Given(args, "format") => args["format"][1] \in Formats
     /\ \A i \in DOMAIN args["disassem"] : args["disassem"][i] \in Readable
  THEN "success" ELSE "failure"

(* The target of the debug server is an address and a port.                *)
Targets == {"127.0.0.1:8080"}

BootOutcome(args) ==
  CASE Len(args["bios"]) # 1                                           -> "failure"
    [] Given(args, "debug") /\ args["debug"][1] \notin Targets         -> "failure"
    [] Given(args, "font") /\ args["font"][1] = "help"                 -> "success"
    [] args["bios"][1] \notin Readable                                 -> "failure"
    [] OTHER                                                           -> "boot"

(* main: help and version come first, then the modules are loaded, and of  *)
(* compile, disassem and boot the first that is given is done.             *)
MainOutcome(argv) ==
  LET args == GetArgs(argv)
  IN CASE Unknown(argv)                                                -> "failure"
       [] Given(args, "help") \/ Given(args, "version")                -> "success"
       [] \E i \in DOMAIN args["module"] : args["module"][i] \notin Loadable -> "failure"
       [] Given(args, "compile")                                       -> CompileOutcome(args)
       [] Given(args, "disassem")                                      -> DisassembleOutcome(args)
       [] Given(args, "boot")                                          -> BootOutcome(args)
       [] OTHER                                                        -> "failure"

(* TerminalDisplay takes a built-in font of that name, else the file, else *)
(* the default; only a file may turn out not to be a font.                 *)
BuiltInFonts == {"JetBrainsMono_Medium"}

FontOf(args) ==
  LET name == IF Given(args, "font") THEN args["font"][1] ELSE "JetBrainsMono_Medium"
  IN IF name \in Readable \ (FontFiles \cup BuiltInFonts) THEN "bad" ELSE "good"

(* What boot_sysdarft passes to the CPU and to Boot.                       *)
ConsoleOptions(argv) ==
  LET args == GetArgs(argv)
  IN [curses |-> ~Given(args, "no-curses"), gui |-> Given(args, "with-gui"),
      verbose |-> Given(args, "verbose"), font |-> FontOf(args)]

=============================================================================
