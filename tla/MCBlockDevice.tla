--------------------------- MODULE MCBlockDevice ----------------------------
(* Two sectors of two words and a word that belongs to no sector; word     *)
(* counts wrap at 16, so sector numbers from 8 on are aliases.              *)
EXTENDS BlockDevice

\* Each port used for what the manual describes.
AsDocumented ==
    { << "in", "REG_SIZE" >>, << "out", "REG_START_SEC" >>, << "out", "REG_SEC_COUNT" >>,
      << "ins", "CMD_REQUEST_RD" >>, << "outs", "CMD_REQUEST_WR" >> }

\* As well as words sent to, and taken from, the ports of whole sectors.
WordByWord ==
    AsDocumented \cup
    { << "in", "CMD_REQUEST_RD" >>, << "out", "CMD_REQUEST_RD" >>, << "out", "CMD_REQUEST_WR" >> }
=============================================================================
