------------------------- MODULE BlockDeviceProofs --------------------------
(***************************************************************************)
(* The disk for every size of sector, image and word, and for every use    *)
(* the guest makes of the ports: a successful read delivers the sectors    *)
(* that the registers name, a write changes no other word and never the    *)
(* size of the image.                                                      *)
(***************************************************************************)
EXTENDS BlockDevice, NumberFacts, SequenceTheorems

Words == 0 .. (Wrap - 1)

\* Streams and registers hold words, and the image keeps its size.
DiskType ==
    /\ device_buffer \in [Port -> Seq(Words)]
    /\ start_sector \in Words
    /\ sector_count \in Words
    /\ image \in [0 .. (DeviceWords - 1) -> Words]

\* What the guest writes are words.
LEMMA WordsOfGuest ==
    /\ Data \subseteq Words /\ Params \subseteq Words /\ Words \subseteq Nat
    /\ 0 \in Words /\ DeviceWords \div SectorWords \in Words
<1>1. DeviceWords \div SectorWords \in Nat /\ DeviceWords \div SectorWords <= DeviceWords
  BY BlockDeviceAssumption, Division, QuotientSmaller
<1>2. DeviceWords < Wrap
  BY BlockDeviceAssumption
<1> QED BY <1>1, <1>2, BlockDeviceAssumption DEF Words

\* Byte offset and length of a transfer, as words of 64 bits.
LEMMA Offsets ==
    ASSUME DiskType
    PROVE  /\ start_sector * SectorWords \in Nat
           /\ sector_count * SectorWords \in Nat
           /\ (start_sector + sector_count) * SectorWords =
                 start_sector * SectorWords + sector_count * SectorWords
           /\ start_off \in 0 .. (Wrap - 1) /\ length \in 0 .. (Wrap - 1)
           /\ length <= sector_count * SectorWords
           /\ start_sector * SectorWords < Wrap => start_off = start_sector * SectorWords
<1>1. start_sector \in Nat /\ sector_count \in Nat /\ SectorWords \in Nat /\ Wrap \in Nat \ {0}
  BY WordsOfGuest, BlockDeviceAssumption DEF DiskType
<1>2. start_sector * SectorWords \in Nat /\ sector_count * SectorWords \in Nat
  BY <1>1, Products
<1>3. (start_sector + sector_count) * SectorWords =
         start_sector * SectorWords + sector_count * SectorWords
  BY <1>1, Products
<1>4. /\ start_off \in 0 .. (Wrap - 1)
      /\ start_sector * SectorWords < Wrap => start_off = start_sector * SectorWords
  BY <1>1, <1>2, Wrapped DEF start_off
<1>5. length \in 0 .. (Wrap - 1) /\ length <= sector_count * SectorWords
  BY <1>1, <1>2, Wrapped DEF length
<1> QED BY <1>2, <1>3, <1>4, <1>5

\* A transfer that passes the tests and fits into a stream is inside the image,
\* although the sum of the last test may wrap.
LEMMA WindowInside ==
    ASSUME DiskType, ~WindowRefused, ~SeekFails, length <= MaxStream
    PROVE  start_off + length <= DeviceWords /\ length > 0
<1>1. start_off \in Nat /\ length \in Nat /\ length # 0
  BY Offsets, BlockDeviceAssumption DEF WindowRefused
<1>2. start_off < Wrap \div 2 /\ length < Wrap \div 2 /\ Wrap \in Nat \ {0}
  BY <1>1, BlockDeviceAssumption DEF SeekFails
<1>3. start_off + length < Wrap
  BY <1>1, <1>2, BlockDeviceAssumption
<1>4. (start_off + length) % Wrap <= DeviceWords
  BY <1>1, <1>2, BlockDeviceAssumption, Division DEF WindowRefused
<1> DEFINE end == start_off + length
<1>5. end \in Nat /\ end < Wrap /\ Wrap \in Nat \ {0}
  BY <1>1, <1>2, <1>3
<1> HIDE DEF end
<1>6. end % Wrap = end
  BY <1>5, Wrapped
<1> QED BY <1>1, <1>4, <1>6 DEF end

-----------------------------------------------------------------------------
\* Storing k words of s, no more than the length of a good window, keeps the
\* size of the image and touches the window only.
LEMMA StoredInWindow ==
    ASSUME DiskType, NEW s \in Seq(Words), NEW k \in 0 .. Len(s),
           start_off + Len(s) <= DeviceWords
    PROVE  /\ Stored(s, k) \in [0 .. (DeviceWords - 1) -> Words]
           /\ \A a \in DOMAIN image : Stored(s, k)[a] # image[a] =>
                 a \in start_off .. (start_off + Len(s) - 1)
<1> DEFINE Hit == start_off .. (start_off + k - 1)
<1>1. Len(s) \in Nat /\ start_off \in Nat /\ DeviceWords \in Nat
  BY Offsets, LenProperties, BlockDeviceAssumption
<1>2. Hit \subseteq 0 .. (DeviceWords - 1) /\ Hit \subseteq start_off .. (start_off + Len(s) - 1)
  BY <1>1
<1>3. DOMAIN image \cup Hit = 0 .. (DeviceWords - 1)
  BY <1>2 DEF DiskType
<1>4. \A a \in Hit : s[a - start_off + 1] \in Words
  <2> SUFFICES ASSUME NEW a \in Hit PROVE s[a - start_off + 1] \in Words
    OBVIOUS
  <2>1. a - start_off + 1 \in 1 .. Len(s)
    BY <1>1
  <2> QED BY <2>1, ElementOfSeq
<1>5. \A a \in 0 .. (DeviceWords - 1) : image[a] \in Words
  BY DEF DiskType
<1>6. Stored(s, k) = [a \in 0 .. (DeviceWords - 1) |->
                        IF a \in Hit THEN s[a - start_off + 1] ELSE image[a]]
  BY <1>3 DEF Stored
<1> HIDE DEF Hit
<1>7. Stored(s, k) \in [0 .. (DeviceWords - 1) -> Words]
  BY <1>4, <1>5, <1>6
<1>8. \A a \in DOMAIN image : Stored(s, k)[a] # image[a] => a \in Hit
  BY <1>6 DEF DiskType
<1> QED BY <1>2, <1>7, <1>8

\* request_write of the sectors: the image keeps its size, and what changes is
\* in the window that the registers name.
LEMMA WriteSectorsKeeps ==
    ASSUME DiskType, NEW p \in Port, NEW s \in Seq(Words), Len(s) <= MaxStream,
           WriteSectors(p, s)
    PROVE  /\ DiskType'
           /\ image' # image =>
                 /\ start_off + length <= DeviceWords
                 /\ \A a \in DOMAIN image : image'[a] # image[a] =>
                       a \in start_off .. (start_off + length - 1)
<1>1. << >> \in Seq(Words) /\ Len(s) \in Nat
  BY EmptySeq, LenProperties
<1>2. /\ device_buffer' = [device_buffer EXCEPT ![p] = s]
         \/ device_buffer' = [device_buffer EXCEPT ![p] = << >>]
      /\ UNCHANGED <<start_sector, sector_count>>
  BY DEF WriteSectors, WriteFails, WriteSucceeds
<1>3. device_buffer' \in [Port -> Seq(Words)]
  BY <1>1, <1>2 DEF DiskType
<1>4. CASE UNCHANGED image
  BY <1>2, <1>3, <1>4 DEF DiskType
<1>5. CASE ~UNCHANGED image
  <2>1. ~WindowRefused /\ length = Len(s) /\ ~SeekFails
    BY <1>5 DEF WriteSectors
  <2>2. PICK k \in 0 .. Len(s) : image' = Stored(s, k)
    BY <1>1, <1>5, <2>1 DEF WriteSectors, WriteSucceeds
  <2>3. start_off + length <= DeviceWords
    BY <2>1, WindowInside
  <2>4. /\ Stored(s, k) \in [0 .. (DeviceWords - 1) -> Words]
        /\ \A a \in DOMAIN image : Stored(s, k)[a] # image[a] =>
              a \in start_off .. (start_off + Len(s) - 1)
    BY <2>1, <2>3, StoredInWindow
  <2> QED BY <1>2, <1>3, <2>1, <2>2, <2>3, <2>4 DEF DiskType
<1> QED BY <1>4, <1>5

\* request_write of a register: the word comes from the front of the stream.
LEMMA SetRegisterKeeps ==
    ASSUME DiskType, NEW p \in Port, NEW s \in Seq(Words), SetRegister(p, s)
    PROVE  DiskType' /\ image' = image
<1>1. CASE s = << >>
  BY <1>1 DEF SetRegister, TakeOne, DiskType
<1>2. CASE s # << >>
  <2>1. Head(s) \in Words /\ Tail(s) \in Seq(Words)
    BY <1>2, HeadTailProperties
  <2>2. TakeOne(s).rest = Tail(s) /\ TakeOne(s).reply.words[1] = Head(s)
    BY <1>2 DEF TakeOne, Ok, Reply
  <2> QED BY <2>1, <2>2 DEF SetRegister, DiskType
<1> QED BY <1>1, <1>2

\* OUT and OUTS: the words are appended before the port is looked at.
LEMMA WritePortKeeps ==
    ASSUME DiskType, NEW p \in Port, NEW words \in Seq(Words), WritePort(p, words)
    PROVE  /\ DiskType'
           /\ image' # image =>
                 /\ start_off + length <= DeviceWords
                 /\ \A a \in DOMAIN image : image'[a] # image[a] =>
                       a \in start_off .. (start_off + length - 1)
<1> DEFINE s == device_buffer[p] \o words
<1>1. s \in Seq(Words) /\ Len(s) <= MaxStream
  BY ConcatProperties DEF DiskType, WritePort
<1> HIDE DEF s
<1>2. CASE SetRegister(p, s)
  BY <1>1, <1>2, SetRegisterKeeps
<1>3. CASE WriteSectors(p, s)
  BY <1>1, <1>3, WriteSectorsKeeps
<1>4. CASE /\ device_buffer' = [device_buffer EXCEPT ![p] = s]
           /\ UNCHANGED <<start_sector, sector_count, image>>
  BY <1>1, <1>4 DEF DiskType
<1> QED BY <1>2, <1>3, <1>4 DEF WritePort, s

-----------------------------------------------------------------------------
\* The words of the window as read() delivers them.
Delivered == [i \in 1 .. length |-> image[start_off + i - 1]]

\* They are words, because Present keeps the window inside the image.
LEMMA DeliveredWords ==
    ASSUME DiskType, Readable
    PROVE  Delivered \in Seq(Words) /\ Len(Delivered) = length
<1>1. start_off \in Nat /\ length \in Nat
  BY Offsets, BlockDeviceAssumption
<1>2. \A i \in 1 .. length : image[start_off + i - 1] \in Words
  <2> SUFFICES ASSUME NEW i \in 1 .. length PROVE image[start_off + i - 1] \in Words
    OBVIOUS
  <2>1. start_off + i - 1 \in Window
    BY <1>1 DEF Window
  <2>2. start_off + i - 1 \in DOMAIN image
    BY <2>1 DEF Readable, Present
  <2> QED BY <2>2 DEF DiskType
<1>3. Delivered \in [1 .. length -> Words]
  BY <1>2 DEF Delivered
<1> QED BY <1>1, <1>3

\* request_read, when it succeeds, leaves words in the stream.
LEMMA RequestReadWords ==
    ASSUME DiskType, NEW p \in Port, RequestRead(p).ok
    PROVE  RequestRead(p).stream \in Seq(Words)
<1>1. device_buffer[p] \in Seq(Words)
  BY DEF DiskType
<1>2. CASE p = "REG_SIZE"
  <2>1. RequestRead(p).stream = Append(device_buffer[p], DeviceWords \div SectorWords)
    BY <1>2 DEF RequestRead, Served
  <2>2. DeviceWords \div SectorWords \in Words
    BY WordsOfGuest
  <2> QED BY <1>1, <2>1, <2>2, AppendProperties
<1>3. CASE p = "CMD_REQUEST_RD" /\ Readable
  <2>1. RequestRead(p).stream = device_buffer[p] \o Delivered
    BY <1>3 DEF RequestRead, Served, Delivered
  <2> QED BY <1>1, <1>3, <2>1, DeliveredWords, ConcatProperties
<1>4. CASE p # "REG_SIZE" /\ ~(p = "CMD_REQUEST_RD" /\ Readable)
  BY <1>4 DEF RequestRead, Refused
<1> QED BY <1>2, <1>3, <1>4

\* IN and INS take words from the front of the port's own stream.
LEMMA ReadPortKeeps ==
    ASSUME DiskType, NEW op, NEW p \in Port, NEW n \in Nat, ReadPort(op, p, n)
    PROVE  DiskType' /\ image' = image
<1>1. UNCHANGED <<start_sector, sector_count, image>>
  BY DEF ReadPort
<1>2. CASE device_buffer' = device_buffer
  BY <1>1, <1>2 DEF DiskType
<1>3. CASE device_buffer' # device_buffer
  <2> DEFINE s == RequestRead(p).stream
  <2>1. /\ RequestRead(p).ok
        /\ \/ device_buffer' = [device_buffer EXCEPT ![p] = TakeOne(s).rest]
           \/ device_buffer' = [device_buffer EXCEPT ![p] = TakeAll(s, n).rest]
    BY <1>3 DEF ReadPort
  <2>2. s \in Seq(Words)
    BY <2>1, RequestReadWords
  <2> HIDE DEF s
  <2>3. TakeAll(s, n).rest \in Seq(Words)
    BY <2>2, EmptySeq DEF TakeAll
  <2>4. TakeOne(s).rest \in Seq(Words)
    BY <2>2, HeadTailProperties DEF TakeOne
  <2> QED BY <1>1, <2>1, <2>3, <2>4 DEF DiskType
<1> QED BY <1>2, <1>3

-----------------------------------------------------------------------------
\* A fresh device.
LEMMA InitDiskType == Init => DiskType
BY WordsOfGuest, EmptySeq DEF Init, DiskType

\* What OUT and OUTS send are sequences of words.
LEMMA SentWords ==
    /\ \A p \in Port : \A w \in OutWords(p) : w \in Words /\ << w >> \in Seq(Words)
    /\ \A n \in Lengths : n \in Nat /\ \A words \in [1 .. n -> Data] : words \in Seq(Words)
<1>1. \A p \in Port : \A w \in OutWords(p) : w \in Words
  BY WordsOfGuest DEF OutWords
<1>2. \A w \in Words : << w >> \in Seq(Words)
  OBVIOUS
<1>3. \A n \in Lengths : n \in Nat
  BY BlockDeviceAssumption
<1>4. \A n \in Nat : \A words \in [1 .. n -> Data] : words \in Seq(Words)
  <2> SUFFICES ASSUME NEW n \in Nat, NEW words \in [1 .. n -> Data] PROVE words \in Seq(Words)
    OBVIOUS
  <2>1. words \in [1 .. n -> Words]
    BY WordsOfGuest
  <2> QED BY <2>1
<1> QED BY <1>1, <1>2, <1>3, <1>4

\* One instruction: types, and where the image changes.
LEMMA StepKeeps ==
    ASSUME DiskType, Next
    PROVE  /\ DiskType'
           /\ image' # image =>
                 /\ start_off + length <= DeviceWords
                 /\ \A a \in DOMAIN image : image'[a] # image[a] =>
                       a \in start_off .. (start_off + length - 1)
<1>1. CASE In
  <2>1. PICK p \in Port : ReadPort("in", p, 1)
    BY <1>1 DEF In
  <2> QED BY <2>1, ReadPortKeeps
<1>2. CASE Ins
  <2>1. PICK p \in Port, n \in Lengths : ReadPort("ins", p, n)
    BY <1>2 DEF Ins
  <2>2. n \in Nat
    BY SentWords
  <2> QED BY <2>1, <2>2, ReadPortKeeps
<1>3. CASE Out
  <2>1. PICK p \in Port : \E w \in OutWords(p) : WritePort(p, << w >>)
    BY <1>3 DEF Out
  <2>2. PICK w \in OutWords(p) : WritePort(p, << w >>)
    BY <2>1
  <2>3. << w >> \in Seq(Words)
    BY SentWords
  <2> QED BY <2>2, <2>3, WritePortKeeps
<1>4. CASE Outs
  <2>1. PICK p \in Port, n \in Lengths : \E words \in [1 .. n -> Data] : WritePort(p, words)
    BY <1>4 DEF Outs
  <2>2. PICK words \in [1 .. n -> Data] : WritePort(p, words)
    BY <2>1
  <2>3. words \in Seq(Words)
    BY SentWords
  <2> QED BY <2>2, <2>3, WritePortKeeps
<1>5. CASE OtherPort
  BY <1>5 DEF OtherPort, DiskType
<1> QED BY <1>1, <1>2, <1>3, <1>4, <1>5 DEF Next

\* Streams, registers and image stay well formed for ever.
LEMMA DiskTypeInvariance == Spec => []DiskType
<1>1. DiskType /\ [Next]_vars => DiskType'
  <2> SUFFICES ASSUME DiskType, [Next]_vars PROVE DiskType'
    OBVIOUS
  <2>1. CASE UNCHANGED vars
    BY <2>1 DEF vars, DiskType
  <2> QED BY <2>1, StepKeeps
<1> QED BY <1>1, InitDiskType, PTL DEF Spec

(***************************************************************************)
(* No instruction changes a word outside the sectors that START_SEC and    *)
(* SEC_COUNT name, nor the size of the image, whatever is left in the      *)
(* streams, however often write() falls short and although the sums of     *)
(* the size tests of request_write wrap.                                   *)
(***************************************************************************)
THEOREM WritesInWindow == Spec => WritesStayInWindow
<1> DEFINE Stays ==
      start_sector * SectorWords < Wrap =>
          /\ DOMAIN image' = DOMAIN image
          /\ \A a \in DOMAIN image : image'[a] # image[a] =>
                a \in (start_sector * SectorWords) .. ((start_sector + sector_count) * SectorWords - 1)
<1>1. DiskType /\ [Next]_vars => [Stays]_vars
  <2> SUFFICES ASSUME DiskType, Next, start_sector * SectorWords < Wrap
               PROVE  /\ DOMAIN image' = DOMAIN image
                      /\ \A a \in DOMAIN image : image'[a] # image[a] =>
                            a \in (start_sector * SectorWords) ..
                                  ((start_sector + sector_count) * SectorWords - 1)
    OBVIOUS
  <2>1. DiskType'
    BY StepKeeps
  <2>2. DOMAIN image' = DOMAIN image
    BY <2>1 DEF DiskType
  <2>3. start_off = start_sector * SectorWords /\ length <= sector_count * SectorWords
    BY Offsets
  <2>4. /\ start_sector * SectorWords \in Nat /\ sector_count * SectorWords \in Nat /\ length \in Nat
        /\ (start_sector + sector_count) * SectorWords =
              start_sector * SectorWords + sector_count * SectorWords
    BY Offsets, BlockDeviceAssumption
  <2>5. ASSUME NEW a \in DOMAIN image, image'[a] # image[a]
        PROVE  a \in start_off .. (start_off + length - 1)
    BY <2>5, StepKeeps
  <2>6. start_off .. (start_off + length - 1) \subseteq
          (start_sector * SectorWords) .. ((start_sector + sector_count) * SectorWords - 1)
    BY <2>3, <2>4
  <2> QED BY <2>2, <2>5, <2>6
<1> QED BY <1>1, DiskTypeInvariance, PTL DEF Spec, WritesStayInWindow

-----------------------------------------------------------------------------
(* A read delivers the sectors as they are now.                            *)

\* If the registers name existing sectors, nothing wraps.
LEMMA SetUpFits ==
    ASSUME DiskType, SetUp
    PROVE  start_off = start_sector * SectorWords /\ length = sector_count * SectorWords
<1>1. /\ start_sector \in Nat /\ sector_count \in Nat /\ start_sector + sector_count \in Nat
      /\ SectorWords \in Nat /\ SectorWords \in Nat \ {0} /\ DeviceWords \in Nat
      /\ Wrap \in Nat \ {0} /\ DeviceWords < Wrap
  BY WordsOfGuest, BlockDeviceAssumption DEF DiskType
<1>2. Sectors \in Nat /\ Sectors * SectorWords <= DeviceWords
  <2>1. /\ Sectors \in Nat /\ DeviceWords % SectorWords \in 0 .. (SectorWords - 1)
        /\ DeviceWords = Sectors * SectorWords + (DeviceWords % SectorWords)
    BY <1>1, Division DEF Sectors
  <2>2. Sectors * SectorWords \in Nat
    BY <1>1, <2>1, Products
  <2> QED BY <1>1, <2>1, <2>2
<1>3. (start_sector + sector_count) * SectorWords <= Sectors * SectorWords
  BY <1>1, <1>2, Products DEF SetUp
<1>4. /\ start_sector * SectorWords \in Nat /\ sector_count * SectorWords \in Nat
      /\ (start_sector + sector_count) * SectorWords =
            start_sector * SectorWords + sector_count * SectorWords
      /\ Sectors * SectorWords \in Nat
  BY <1>1, <1>2, Offsets, Products
<1>5. start_sector * SectorWords < Wrap /\ sector_count * SectorWords < Wrap
  BY <1>1, <1>2, <1>3, <1>4
<1>6. start_off = start_sector * SectorWords
  BY <1>5, Offsets
<1>7. length = sector_count * SectorWords
  BY <1>1, <1>4, <1>5, Wrapped DEF length
<1> QED BY <1>6, <1>7

\* INS of as many words as the registers name: an exact match leaves no room
\* for words that were in the stream before.
LEMMA InsDelivers ==
    ASSUME DiskType, NEW n \in Nat, ReadPort("ins", "CMD_REQUEST_RD", n), reply'.status = "ok",
           SetUp, n = sector_count * SectorWords
    PROVE  reply'.words = [i \in 1 .. n |-> image[start_sector * SectorWords + i - 1]]
<1> DEFINE p == "CMD_REQUEST_RD"
           s == RequestRead(p).stream
<1>1. p \in Port /\ device_buffer[p] \in Seq(Words)
  BY DEF DiskType, Port
<1>2. RequestRead(p).ok /\ reply' = TakeAll(s, n).reply
  BY DEF ReadPort, Skipped, IoError, Reply
<1>3. Readable /\ s = device_buffer[p] \o Delivered
  BY <1>2 DEF RequestRead, Refused, Served, Delivered
<1>4. start_off = start_sector * SectorWords /\ length = n
  BY SetUpFits
<1>5. Delivered \in Seq(Words) /\ Len(Delivered) = n
  BY <1>3, <1>4, DeliveredWords
<1> HIDE DEF s, p
<1>6. Len(s) = n /\ reply'.words = s
  BY <1>2 DEF TakeAll, Ok, IoError, Reply
<1>7. Len(s) = Len(device_buffer[p]) + Len(Delivered) /\ Len(device_buffer[p]) \in Nat
  BY <1>1, <1>3, <1>5, ConcatProperties, LenProperties
<1>8. device_buffer[p] = << >>
  BY <1>1, <1>5, <1>6, <1>7, EmptySeq
<1>9. s = Delivered
  BY <1>3, <1>5, <1>8, ConcatEmptySeq
<1> QED BY <1>4, <1>6, <1>9 DEF Delivered

\* The instruction that was executed is the one on record.
LEMMA LastIssued ==
    /\ In => last'.op = "in"
    /\ Ins => last'.op = "ins"
    /\ Out => last'.op = "out"
    /\ Outs => last'.op = "outs"
    /\ OtherPort => last'.op = "in"
<1>1. \A op, p, n, w : Issue(op, p, n, w) => last'.op = op
  BY DEF Issue
<1>2. In => last'.op = "in"
  BY <1>1 DEF In
<1>3. Ins => last'.op = "ins"
  BY <1>1 DEF Ins
<1>4. Out => last'.op = "out"
  BY <1>1 DEF Out
<1>5. Outs => last'.op = "outs"
  BY <1>1 DEF Outs
<1>6. OtherPort => last'.op = "in"
  BY DEF OtherPort
<1> QED BY <1>2, <1>3, <1>4, <1>5, <1>6

\* Every instruction leaves a reply that ReadsCurrentSectors admits.
LEMMA StepReads == ASSUME DiskType, Next PROVE ReadsCurrentSectors'
<1> SUFFICES ASSUME last'.op = "ins", last'.port = "CMD_REQUEST_RD", reply'.status = "ok",
                    SetUp', last'.length = sector_count' * SectorWords
             PROVE  reply'.words = [i \in 1 .. last'.length |->
                                       image'[start_sector' * SectorWords + i - 1]]
  BY DEF ReadsCurrentSectors
<1>1. Ins
  BY LastIssued DEF Next
<1>2. PICK n \in Lengths : last'.length = n /\ ReadPort("ins", "CMD_REQUEST_RD", n)
  BY <1>1 DEF Ins, Issue
<1>3. n \in Nat
  BY SentWords
<1>4. UNCHANGED <<start_sector, sector_count, image>>
  BY <1>2 DEF ReadPort
<1>5. SetUp
  BY <1>4 DEF SetUp
<1>6. n = sector_count * SectorWords
  BY <1>2, <1>4
<1>7. reply'.words = [i \in 1 .. n |-> image[start_sector * SectorWords + i - 1]]
  BY <1>2, <1>3, <1>5, <1>6, InsDelivers
<1> QED BY <1>2, <1>4, <1>7

(***************************************************************************)
(* For every use of the ports, misuse included: an INS of as many words as *)
(* the registers name succeeds only with the present content of these      *)
(* sectors, because SysdarftIOHub::ins insists on the exact length.        *)
(***************************************************************************)
THEOREM ReadsAreCurrent == Spec => []ReadsCurrentSectors
<1>1. Init => ReadsCurrentSectors
  BY DEF Init, ReadsCurrentSectors, Nop
<1>2. DiskType /\ ReadsCurrentSectors /\ [Next]_vars => ReadsCurrentSectors'
  <2> SUFFICES ASSUME DiskType, ReadsCurrentSectors, [Next]_vars PROVE ReadsCurrentSectors'
    OBVIOUS
  <2>1. CASE UNCHANGED vars
    BY <2>1 DEF vars, ReadsCurrentSectors, SetUp
  <2> QED BY <2>1, StepReads
<1> QED BY <1>1, <1>2, DiskTypeInvariance, PTL DEF Spec

-----------------------------------------------------------------------------
(* Registers that the guest writes with OUT only, one word at a time.      *)

Register == {"REG_START_SEC", "REG_SEC_COUNT"}

RegistersByOut == \A p \in Register : << "outs", p >> \notin Uses

\* Then no word waits in front of the next one.
RegistersDrained == \A p \in Register : device_buffer[p] = << >>

\* A word sent to an empty register stream is the one that is popped.
LEMMA RegisterTakesWord ==
    ASSUME DiskType, RegistersDrained, NEW p \in Port, NEW w \in Words, WritePort(p, << w >>)
    PROVE  /\ RegistersDrained'
           /\ p = "REG_START_SEC" => start_sector' = w
           /\ p = "REG_SEC_COUNT" => sector_count' = w
<1>1. device_buffer \in [Port -> Seq(Words)]
  BY DEF DiskType
<1>2. CASE p \in Register
  <2>1. device_buffer[p] \o << w >> = << w >>
    <3>1. << w >> \in Seq(Words)
      OBVIOUS
    <3> QED BY <1>2, <3>1, ConcatEmptySeq DEF RegistersDrained
  <2>2. SetRegister(p, << w >>)
    BY <1>2, <2>1 DEF WritePort, Register
  <2>3. TakeOne(<< w >>).rest = << >> /\ TakeOne(<< w >>).reply = Ok(<< w >>)
    BY DEF TakeOne
  <2>4. Ok(<< w >>) # IoError /\ Ok(<< w >>).words[1] = w
    BY DEF Ok, IoError, Reply
  <2>5. device_buffer' = [device_buffer EXCEPT ![p] = << >>]
    BY <2>2, <2>3 DEF SetRegister
  <2>6. RegistersDrained'
    BY <1>1, <2>5 DEF RegistersDrained, Register, Port
  <2>7. /\ p = "REG_START_SEC" => start_sector' = w
        /\ p = "REG_SEC_COUNT" => sector_count' = w
    BY <2>2, <2>3, <2>4 DEF SetRegister
  <2> QED BY <2>6, <2>7
<1>3. CASE p \notin Register
  <2>1. \E t : device_buffer' = [device_buffer EXCEPT ![p] = t]
    BY <1>3 DEF WritePort, WriteSectors, WriteFails, WriteSucceeds, Register
  <2> QED BY <1>1, <1>3, <2>1 DEF RegistersDrained, Register, Port
<1> QED BY <1>2, <1>3

\* Every instruction leaves the register streams empty and a reply that
\* ParametersTakeEffect admits.
LEMMA StepParameters ==
    ASSUME RegistersByOut, DiskType, RegistersDrained, Next
    PROVE  RegistersDrained' /\ ParametersTakeEffect'
<1>1. device_buffer \in [Port -> Seq(Words)]
  BY DEF DiskType
<1>2. CASE Out
  <2>1. PICK p \in Port : \E w \in OutWords(p) :
           /\ last' = [op |-> "out", port |-> p, length |-> 1, word |-> w]
           /\ WritePort(p, << w >>)
    BY <1>2 DEF Out, Issue
  <2>2. PICK w \in OutWords(p) :
           /\ last' = [op |-> "out", port |-> p, length |-> 1, word |-> w]
           /\ WritePort(p, << w >>)
    BY <2>1
  <2>3. w \in Words
    BY SentWords
  <2> QED BY <2>2, <2>3, RegisterTakesWord DEF ParametersTakeEffect
<1>3. CASE ~Out
  <2>1. ParametersTakeEffect'
    BY <1>3, LastIssued DEF Next, ParametersTakeEffect
  <2>2. \/ UNCHANGED device_buffer
        \/ \E p \in Port \ Register : \E t : device_buffer' = [device_buffer EXCEPT ![p] = t]
    <3>1. CASE In \/ Ins
      <4>1. PICK p, op, n : p \in Port /\ ReadPort(op, p, n)
        BY <3>1 DEF In, Ins
      <4>2. p \in Register => ~RequestRead(p).ok
        BY DEF RequestRead, Refused, Register
      <4> QED BY <4>1, <4>2 DEF ReadPort
    <3>2. CASE Outs
      <4>1. PICK p, words : p \in Port \ Register /\ WritePort(p, words)
        BY <3>2 DEF Outs, Issue, RegistersByOut
      <4> QED BY <4>1 DEF WritePort, WriteSectors, WriteFails, WriteSucceeds, Register
    <3>3. CASE OtherPort
      BY <3>3 DEF OtherPort
    <3> QED BY <1>3, <3>1, <3>2, <3>3 DEF Next
  <2>3. RegistersDrained'
    BY <1>1, <2>2 DEF RegistersDrained, Register, Port
  <2> QED BY <2>1, <2>3
<1> QED BY <1>2, <1>3

(***************************************************************************)
(* If the guest writes the registers as the manual describes, with OUT,    *)
(* nothing that earlier instructions left in any of the streams is taken   *)
(* for data or for a parameter.  The hypothesis is needed: an OUTS of two  *)
(* words to a register leaves the second in front of the next parameter.   *)
(***************************************************************************)
THEOREM NothingIsLeftOver == ASSUME RegistersByOut PROVE Spec => []NothingLeftOver
<1> DEFINE Drained == RegistersDrained /\ ParametersTakeEffect
<1>1. Init => Drained
  BY DEF Init, RegistersDrained, ParametersTakeEffect, Nop, Register, Port
<1>2. DiskType /\ Drained /\ [Next]_vars => Drained'
  <2> SUFFICES ASSUME DiskType, Drained, [Next]_vars PROVE Drained'
    OBVIOUS
  <2>1. CASE UNCHANGED vars
    BY <2>1 DEF vars, RegistersDrained, ParametersTakeEffect
  <2> QED BY <2>1, StepParameters
<1>3. Spec => []Drained
  BY <1>1, <1>2, DiskTypeInvariance, PTL DEF Spec
<1>4. ReadsCurrentSectors /\ Drained => NothingLeftOver
  BY DEF NothingLeftOver
<1> QED BY <1>3, <1>4, ReadsAreCurrent, PTL
=============================================================================
