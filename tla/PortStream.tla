----------------------------- MODULE PortStream -----------------------------
(***************************************************************************)
(* ControllerDataStream and SysdarftIOHub::ins / outs.                     *)
(*                                                                         *)
(* A port's stream is a sequence of words of eight bytes: IN and OUT move  *)
(* one word, INS and OUTS move %FER3 bytes, here a whole number of words.  *)
(* What a device makes of a request is an operator of the device's module; *)
(* here is what happens to the stream around it.                           *)
(***************************************************************************)
EXTENDS Integers, Sequences

\* What an instruction ends in; "io_error" is interruption 0x02 with 0xF0.
Reply(status, words) == [status |-> status, words |-> words]
Ok(words)  == Reply("ok", words)
IoError    == Reply("io_error", << >>)
NoDevice   == Reply("no_device", << >>)
\* A std::exception leaves execute() and Boot goes on with what comes next.
Skipped    == Reply("skipped", << >>)

\* Mutant: INS hands out the first words of the stream and drops the others.
TakeAll_Prefix(s, n) ==
    IF Len(s) < n THEN [reply |-> IoError, rest |-> s]
    ELSE [reply |-> Ok(SubSeq(s, 1, n)), rest |-> << >>]

\* INS: everything the port holds, if it is exactly n words; on a mismatch
\* the stream stays as it is.
TakeAll(s, n) ==
    IF Len(s) # n THEN [reply |-> IoError, rest |-> s]
    ELSE [reply |-> Ok(s), rest |-> << >>]

\* IN, and the devices' pop<uint64_t>: the oldest word.
TakeOne(s) ==
    IF s = << >> THEN [reply |-> IoError, rest |-> s]
    ELSE [reply |-> Ok(<< Head(s) >>), rest |-> Tail(s)]
=============================================================================
