---------------------------- MODULE BlockDevice -----------------------------
(***************************************************************************)
(* A block device (SysdarftDiskImager; the hard disk and both floppies are *)
(* instances of it) behind its five ports, driven by IN, OUT, INS and OUTS *)
(* of the CPU thread, the only thread that uses the ports.                 *)
(*                                                                         *)
(* Sizes are in words of eight bytes: a sector has SectorWords words (64   *)
(* in the program) and a byte count wraps at 2^64, so a word count at      *)
(* Wrap.  A word is a number below Wrap.                                   *)
(***************************************************************************)
EXTENDS PortStream

CONSTANTS
    SectorWords, Wrap,
    DeviceWords,      \* the size of the image
    Data,             \* the words the guest writes to the disk
    Params,           \* the words it writes to START_SEC and SEC_COUNT
    Lengths,          \* the lengths of its INS and OUTS
    Uses,             \* the pairs <<instruction, port>> the guest makes use of
    HostFails,        \* TRUE: read() and write() of the image file may fall short
    MaxStream         \* bound on the words a stream collects

Port == {"REG_SIZE", "REG_START_SEC", "REG_SEC_COUNT", "CMD_REQUEST_RD", "CMD_REQUEST_WR"}

ASSUME BlockDeviceAssumption ==
    /\ SectorWords \in Nat \ {0} /\ DeviceWords \in Nat
    /\ Wrap \in Nat \ {0} /\ Wrap % 2 = 0
    /\ DeviceWords < Wrap \div 2 /\ MaxStream < Wrap \div 2
    /\ Data \subseteq 0 .. (Wrap - 1) /\ Params \subseteq 0 .. (Wrap - 1)
    /\ Lengths \subseteq Nat
    /\ Uses \subseteq {"in", "ins", "out", "outs"} \X Port
    /\ HostFails \in BOOLEAN /\ MaxStream \in Nat

VARIABLES
    device_buffer,    \* the stream of each port
    start_sector, sector_count,
    image,            \* the words of the image file
    reply,            \* what the last instruction ended in
    last              \* the last instruction: opcode, port, length, word sent by OUT

vars == <<device_buffer, start_sector, sector_count, image, reply, last>>

Nop == [op |-> "none", port |-> "none", length |-> 0, word |-> 0]

Init ==
    /\ device_buffer = [p \in Port |-> << >>]
    /\ start_sector = 0
    /\ sector_count = 0
    /\ image \in [0 .. (DeviceWords - 1) -> {0}]
    /\ reply = Ok(<< >>)
    /\ last = Nop

-----------------------------------------------------------------------------
start_off == (start_sector * SectorWords) % Wrap
length    == (sector_count * SectorWords) % Wrap

\* The tests in front of a transfer, as 64-bit arithmetic.
WindowRefused ==
    \/ ((start_sector + sector_count) * SectorWords) % Wrap > DeviceWords
    \/ length = 0
    \/ (start_off + length) % Wrap > DeviceWords

\* Offsets are signed in lseek64, which refuses these.
SeekFails == start_off >= Wrap \div 2

\* buffer.resize(length) throws std::length_error.
Overlong == length >= Wrap \div 2

Window == start_off .. (start_off + length - 1)

\* read() meets the end of the file and falls short unless
Present == Window \subseteq DOMAIN image

Readable == ~WindowRefused /\ ~SeekFails /\ ~Overlong /\ Present

\* What request_read answers, with the port's stream after it.
Refused == [ok |-> FALSE, stream |-> << >>]
Served(s) == [ok |-> TRUE, stream |-> s]

RequestRead(p) ==
    IF p = "REG_SIZE" THEN Served(Append(device_buffer[p], DeviceWords \div SectorWords))
    ELSE IF p = "CMD_REQUEST_RD" /\ Readable
    THEN Served(device_buffer[p] \o [i \in 1 .. length |-> image[start_off + i - 1]])
    ELSE Refused

HostOk == IF HostFails THEN BOOLEAN ELSE {TRUE}

\* IN (op = "in") and INS of n words after query_device_based_on_port:
\* request_read, then the take.
ReadPort(op, p, n) ==
    \E host \in HostOk :
        LET rr == RequestRead(p)
            ok == rr.ok /\ (p = "CMD_REQUEST_RD" => host)
            tk == IF op = "in" THEN TakeOne(rr.stream) ELSE TakeAll(rr.stream, n)
        IN /\ Len(rr.stream) <= MaxStream
           /\ device_buffer' = IF ok THEN [device_buffer EXCEPT ![p] = tk.rest] ELSE device_buffer
           /\ reply' = IF ok THEN tk.reply
                       ELSE IF p = "CMD_REQUEST_RD" /\ ~WindowRefused /\ ~SeekFails /\ Overlong
                       THEN Skipped
                       ELSE IoError
           /\ UNCHANGED <<start_sector, sector_count, image>>

Issue(op, p, n, w) ==
    /\ << op, p >> \in Uses
    /\ last' = [op |-> op, port |-> p, length |-> n, word |-> w]

In ==
    \E p \in Port : Issue("in", p, 1, 0) /\ ReadPort("in", p, 1)

Ins ==
    \E p \in Port, n \in Lengths :
        /\ Issue("ins", p, n, 0)
        /\ ReadPort("ins", p, n)

-----------------------------------------------------------------------------
\* request_write pops the register's word, however many words the stream has.
SetRegister(p, s) ==
    LET tk == TakeOne(s) IN
    /\ device_buffer' = [device_buffer EXCEPT ![p] = tk.rest]
    /\ reply' = IF tk.reply = IoError THEN IoError ELSE Ok(<< >>)
    /\ start_sector' = IF p = "REG_START_SEC" /\ tk.reply # IoError
                       THEN tk.reply.words[1] ELSE start_sector
    /\ sector_count' = IF p = "REG_SEC_COUNT" /\ tk.reply # IoError
                       THEN tk.reply.words[1] ELSE sector_count
    /\ UNCHANGED image

\* The image after write() has stored k words of s; a file grows when written
\* past its end.
Stored(s, k) ==
    [a \in DOMAIN image \cup (start_off .. (start_off + k - 1)) |->
        IF a \in start_off .. (start_off + k - 1) THEN s[a - start_off + 1] ELSE image[a]]

WriteFails(p, s) ==
    /\ device_buffer' = [device_buffer EXCEPT ![p] = s]
    /\ reply' = IoError

WriteSucceeds(p, s) ==
    /\ image' = Stored(s, Len(s))
    /\ device_buffer' = [device_buffer EXCEPT ![p] = << >>]
    /\ reply' = Ok(<< >>)

\* Mutant: a stream longer than the window is accepted.
WriteSectors_Longer(p, s) ==
    /\ IF WindowRefused \/ length > Len(s) \/ SeekFails
       THEN WriteFails(p, s) /\ UNCHANGED image
       ELSE WriteSucceeds(p, s)
    /\ UNCHANGED <<start_sector, sector_count>>

\* A refused write leaves the words in the stream; a write() that falls short
\* has stored a prefix of them.
WriteSectors(p, s) ==
    /\ IF WindowRefused \/ length # Len(s) \/ SeekFails
       THEN WriteFails(p, s) /\ UNCHANGED image
       ELSE \/ WriteSucceeds(p, s)
            \/ /\ HostFails
               /\ WriteFails(p, s)
               /\ \E k \in 0 .. (length - 1) : image' = Stored(s, k)
    /\ UNCHANGED <<start_sector, sector_count>>

\* outs appends to the stream before request_write looks at the port.
WritePort(p, words) ==
    LET s == device_buffer[p] \o words IN
    /\ Len(s) <= MaxStream
    /\ \/ p \in {"REG_START_SEC", "REG_SEC_COUNT"} /\ SetRegister(p, s)
       \/ p = "CMD_REQUEST_WR" /\ WriteSectors(p, s)
       \/ /\ p \in {"REG_SIZE", "CMD_REQUEST_RD"}
          /\ device_buffer' = [device_buffer EXCEPT ![p] = s]
          /\ reply' = IoError
          /\ UNCHANGED <<start_sector, sector_count, image>>

OutWords(p) == IF p \in {"REG_START_SEC", "REG_SEC_COUNT"} THEN Params ELSE Data

Out ==
    \E p \in Port : \E w \in OutWords(p) : Issue("out", p, 1, w) /\ WritePort(p, << w >>)

Outs ==
    \E p \in Port, n \in Lengths :
        \E words \in [1 .. n -> Data] : Issue("outs", p, n, 0) /\ WritePort(p, words)

\* A port that no device provides.
OtherPort ==
    /\ reply' = NoDevice
    /\ last' = [op |-> "in", port |-> "other", length |-> 1, word |-> 0]
    /\ UNCHANGED <<device_buffer, start_sector, sector_count, image>>

Next == In \/ Ins \/ Out \/ Outs \/ OtherPort

Spec == Init /\ [][Next]_vars

-----------------------------------------------------------------------------
Sectors == DeviceWords \div SectorWords

\* The sectors the registers name exist, as plain numbers.
SetUp == sector_count > 0 /\ start_sector + sector_count <= Sectors

\* An INS that asks for as many bytes as the registers name and succeeds gets
\* the sectors as they are now: whatever earlier, failed or misdirected
\* instructions left in the streams never reaches the guest as disk data.
ReadsCurrentSectors ==
    last.op = "ins" /\ last.port = "CMD_REQUEST_RD" /\ reply.status = "ok"
        /\ SetUp /\ last.length = sector_count * SectorWords
    => reply.words = [i \in 1 .. last.length |-> image[start_sector * SectorWords + i - 1]]

\* A write changes no word outside the sectors that START_SEC and SEC_COUNT
\* name, also when words of a refused write are still in the stream and when
\* the sums of the size tests wrap.  (The byte offset of START_SEC itself must
\* fit 64 bits: from sector 2^55 on the code addresses an alias.)
WritesStayInWindow ==
    [][start_sector * SectorWords < Wrap =>
          /\ DOMAIN image' = DOMAIN image
          /\ \A a \in DOMAIN image : image'[a] # image[a] =>
                a \in (start_sector * SectorWords) .. ((start_sector + sector_count) * SectorWords - 1)
      ]_vars

\* The word written to a register is the one the next operation uses: no word
\* of an earlier OUT is left in front of it.
ParametersTakeEffect ==
    last.op = "out" /\ reply.status = "ok" =>
        /\ last.port = "REG_START_SEC" => start_sector = last.word
        /\ last.port = "REG_SEC_COUNT" => sector_count = last.word

\* Nothing an earlier instruction left in the port streams, which failed operations do not
\* empty, is taken for the data or the parameter of a later one.
NothingLeftOver == ReadsCurrentSectors /\ ParametersTakeEffect

=============================================================================
