------------------------- MODULE PagedMemoryProofs --------------------------
(***************************************************************************)
(* The paged memory for every page size, memory size and set of calls, and *)
(* any number of threads: every copy stays inside a page and inside the    *)
(* caller's buffer, and concurrent calls behave as calls of FlatMemory.    *)
(***************************************************************************)
EXTENDS PagedMemory, NumberFacts, SequenceTheorems

\* The constants, as the proofs use them.
LEMMA Constants ==
    /\ BLOCK_SIZE \in Nat \ {0} /\ TotalMemory \in Nat /\ Word \in Nat
    /\ NumBlocks \in Nat /\ NumBlocks * BLOCK_SIZE = TotalMemory
    /\ ZeroByte \in Byte
<1>1. /\ BLOCK_SIZE \in Nat \ {0} /\ TotalMemory \in Nat /\ Word \in Nat /\ ZeroByte \in Byte
      /\ TotalMemory % BLOCK_SIZE = 0
  BY PagedMemoryAssumption
<1>2. NumBlocks \in Nat /\ TotalMemory = NumBlocks * BLOCK_SIZE + (TotalMemory % BLOCK_SIZE)
  BY <1>1, Division DEF NumBlocks
<1>3. NumBlocks * BLOCK_SIZE \in Nat
  BY <1>1, <1>2, Products
<1> QED BY <1>1, <1>2, <1>3

\* The types of a request.
LEMMA RequestTypes ==
    ASSUME NEW t \in Thread, NEW r \in Requests[t]
    PROVE  /\ r # Nothing /\ r.op \in {"read", "write"}
           /\ r.address \in Nat /\ r.size \in Nat
           /\ r.op = "write" => r.data \in [1 .. r.size -> Byte]
<1>1. r.op \in {"read", "write"}
  BY PagedMemoryAssumption
<1>2. r # Nothing
  BY <1>1 DEF Nothing
<1> QED BY <1>1, <1>2, PagedMemoryAssumption

\* The range check is exact, although address + size is a sum of 64 bits.
LEMMA RangeCheck ==
    ASSUME NEW t \in Thread, NEW r \in Requests[t]
    PROVE  InRange(r.address, r.size) <=> r.address + r.size <= TotalMemory
<1>1. /\ r.address \in Nat /\ r.size \in Nat /\ r.size < Word - TotalMemory
      /\ Word \in Nat /\ TotalMemory \in Nat
  BY PagedMemoryAssumption
<1>2. CASE r.address > TotalMemory
  BY <1>1, <1>2 DEF InRange
<1>3. CASE r.address <= TotalMemory
  <2> DEFINE end == r.address + r.size
  <2>1. end \in Nat /\ end < Word /\ Word \in Nat \ {0}
    BY <1>1, <1>3
  <2> HIDE DEF end
  <2>2. end % Word = end
    BY <2>1, Wrapped
  <2> QED BY <1>1, <1>3, <2>1, <2>2 DEF InRange, end
<1> QED BY <1>1, <1>2, <1>3

-----------------------------------------------------------------------------
(* How an access is split.                                                 *)

\* Page and offset of an address.
PageOf(b) == b \div BLOCK_SIZE
OffsetOf(b) == b % BLOCK_SIZE

\* Bytes of the first page from address a on; pages that an access of n bytes
\* fills after it; bytes left on the last page.
Lead(a) == BLOCK_SIZE - OffsetOf(a)
FullPages(a, n) == (n - Lead(a)) \div BLOCK_SIZE
LastPart(a, n) == (n - Lead(a)) % BLOCK_SIZE

ChunkRecords == [page : Nat, offset : Nat, from : Nat, count : Nat]

\* The numbers of the split.
LEMMA SplitNumbers ==
    ASSUME NEW a \in Nat
    PROVE  /\ PageOf(a) \in Nat /\ OffsetOf(a) \in 0 .. (BLOCK_SIZE - 1)
           /\ a = PageOf(a) * BLOCK_SIZE + OffsetOf(a) /\ PageOf(a) * BLOCK_SIZE \in Nat
           /\ Lead(a) \in 1 .. BLOCK_SIZE
           /\ \A n \in Nat : n > Lead(a) =>
                 /\ FullPages(a, n) \in Nat /\ FullPages(a, n) * BLOCK_SIZE \in Nat
                 /\ LastPart(a, n) \in 0 .. (BLOCK_SIZE - 1)
                 /\ n = Lead(a) + FullPages(a, n) * BLOCK_SIZE + LastPart(a, n)
<1>1. BLOCK_SIZE \in Nat \ {0}
  BY Constants
<1>2. /\ PageOf(a) \in Nat /\ OffsetOf(a) \in 0 .. (BLOCK_SIZE - 1)
      /\ a = PageOf(a) * BLOCK_SIZE + OffsetOf(a)
  BY <1>1, Division DEF PageOf, OffsetOf
<1>3. PageOf(a) * BLOCK_SIZE \in Nat
  BY <1>1, <1>2, Products
<1>4. Lead(a) \in 1 .. BLOCK_SIZE
  BY <1>1, <1>2 DEF Lead
<1>5. ASSUME NEW n \in Nat, n > Lead(a)
      PROVE  /\ FullPages(a, n) \in Nat /\ FullPages(a, n) * BLOCK_SIZE \in Nat
             /\ LastPart(a, n) \in 0 .. (BLOCK_SIZE - 1)
             /\ n = Lead(a) + FullPages(a, n) * BLOCK_SIZE + LastPart(a, n)
  <2> DEFINE rest == n - Lead(a)
  <2>1. rest \in Nat /\ n = Lead(a) + rest
    BY <1>1, <1>4, <1>5
  <2> HIDE DEF rest
  <2>2. /\ rest \div BLOCK_SIZE \in Nat /\ rest % BLOCK_SIZE \in 0 .. (BLOCK_SIZE - 1)
        /\ rest = (rest \div BLOCK_SIZE) * BLOCK_SIZE + (rest % BLOCK_SIZE)
    BY <1>1, <2>1, Division
  <2>3. FullPages(a, n) = rest \div BLOCK_SIZE /\ LastPart(a, n) = rest % BLOCK_SIZE
    BY DEF FullPages, LastPart, rest
  <2>4. FullPages(a, n) * BLOCK_SIZE \in Nat
    BY <1>1, <2>2, <2>3, Products
  <2> QED BY <1>1, <1>4, <2>1, <2>2, <2>3, <2>4
<1> QED BY <1>2, <1>3, <1>4, <1>5

\* An access that ends on its first page is one copy.
LEMMA OneChunk ==
    ASSUME NEW a \in Nat, NEW n \in Nat, n <= Lead(a)
    PROVE  Chunks(a, n) = << Chunk(PageOf(a), OffsetOf(a), 0, n) >>
BY DEF Chunks, PageOf, OffsetOf, Lead

\* The copies that fill whole pages, and the one on the last page.
FullChunks(a, n) ==
    [i \in 1 .. FullPages(a, n) |->
        Chunk(PageOf(a) + i, 0, Lead(a) + (i - 1) * BLOCK_SIZE, BLOCK_SIZE)]

LastChunk(a, n) ==
    Chunk(PageOf(a) + FullPages(a, n) + 1, 0, Lead(a) + FullPages(a, n) * BLOCK_SIZE, LastPart(a, n))

\* Every other access: the end of the first page, full pages, what is left.
LEMMA ManyChunks ==
    ASSUME NEW a \in Nat, NEW n \in Nat, n > Lead(a)
    PROVE  Chunks(a, n) =
             << Chunk(PageOf(a), OffsetOf(a), 0, Lead(a)) >> \o FullChunks(a, n)
               \o IF LastPart(a, n) > 0 THEN << LastChunk(a, n) >> ELSE << >>
<1>1. ~(n <= Lead(a))
  BY SplitNumbers, Constants
<1> QED BY <1>1 DEF Chunks, PageOf, OffsetOf, Lead, FullPages, LastPart, FullChunks, LastChunk

\* They are sequences of chunks.
LEMMA PartsOfSplit ==
    ASSUME NEW a \in Nat, NEW n \in Nat, n > Lead(a)
    PROVE  /\ Chunk(PageOf(a), OffsetOf(a), 0, Lead(a)) \in ChunkRecords
           /\ FullChunks(a, n) \in Seq(ChunkRecords)
           /\ Len(FullChunks(a, n)) = FullPages(a, n)
           /\ LastChunk(a, n) \in ChunkRecords
<1>1. /\ BLOCK_SIZE \in Nat /\ PageOf(a) \in Nat /\ OffsetOf(a) \in Nat /\ Lead(a) \in Nat
      /\ FullPages(a, n) \in Nat /\ FullPages(a, n) * BLOCK_SIZE \in Nat /\ LastPart(a, n) \in Nat
  BY SplitNumbers, Constants
<1>2. \A i \in 1 .. FullPages(a, n) :
         Chunk(PageOf(a) + i, 0, Lead(a) + (i - 1) * BLOCK_SIZE, BLOCK_SIZE) \in ChunkRecords
  <2> TAKE i \in 1 .. FullPages(a, n)
  <2>1. i - 1 \in Nat /\ PageOf(a) + i \in Nat
    BY <1>1
  <2>2. (i - 1) * BLOCK_SIZE \in Nat
    BY <1>1, <2>1, Products
  <2>3. Lead(a) + (i - 1) * BLOCK_SIZE \in Nat
    BY <1>1, <2>2
  <2> QED BY <1>1, <2>1, <2>3 DEF ChunkRecords, Chunk
<1>3. FullChunks(a, n) \in [1 .. FullPages(a, n) -> ChunkRecords]
  BY <1>2 DEF FullChunks
<1>4. FullChunks(a, n) \in Seq(ChunkRecords) /\ Len(FullChunks(a, n)) = FullPages(a, n)
  BY <1>1, <1>3
<1>5. Chunk(PageOf(a), OffsetOf(a), 0, Lead(a)) \in ChunkRecords
  BY <1>1 DEF ChunkRecords, Chunk
<1>6. LastChunk(a, n) \in ChunkRecords
  <2>1. PageOf(a) + FullPages(a, n) + 1 \in Nat /\ Lead(a) + FullPages(a, n) * BLOCK_SIZE \in Nat
    BY <1>1
  <2> QED BY <1>1, <2>1 DEF ChunkRecords, Chunk, LastChunk
<1> QED BY <1>4, <1>5, <1>6

\* The k-th copy of an access over several pages.
LEMMA ManyChunksAt ==
    ASSUME NEW a \in Nat, NEW n \in Nat, n > Lead(a), NEW s, s = Chunks(a, n),
           NEW F \in Nat, F = FullPages(a, n)
    PROVE  /\ s \in Seq(ChunkRecords)
           /\ Len(s) = IF LastPart(a, n) > 0 THEN F + 2 ELSE F + 1
           /\ s[1] = Chunk(PageOf(a), OffsetOf(a), 0, Lead(a))
           /\ \A k \in 2 .. (F + 1) : s[k] = FullChunks(a, n)[k - 1]
           /\ LastPart(a, n) > 0 => s[F + 2] = LastChunk(a, n)
<1> DEFINE first == Chunk(PageOf(a), OffsetOf(a), 0, Lead(a))
           mid == FullChunks(a, n)
           end == IF LastPart(a, n) > 0 THEN << LastChunk(a, n) >> ELSE << >>
           front == << first >> \o mid
<1>1. s = front \o end
  BY ManyChunks
<1>2. first \in ChunkRecords /\ mid \in Seq(ChunkRecords) /\ Len(mid) = F
  BY PartsOfSplit
<1>3. /\ end \in Seq(ChunkRecords) /\ Len(end) = IF LastPart(a, n) > 0 THEN 1 ELSE 0
      /\ LastPart(a, n) > 0 => end[1] = LastChunk(a, n)
  <2>1. LastChunk(a, n) \in ChunkRecords
    BY PartsOfSplit
  <2>2. CASE LastPart(a, n) > 0
    BY <2>1, <2>2
  <2>3. CASE ~(LastPart(a, n) > 0)
    BY <2>3
  <2> QED BY <2>2, <2>3
<1> HIDE DEF first, mid, end
<1>4. << first >> \in Seq(ChunkRecords) /\ Len(<< first >>) = 1 /\ << first >>[1] = first
  BY <1>2
<1>5. /\ front \in Seq(ChunkRecords) /\ Len(front) = 1 + F
      /\ \A k \in 1 .. (1 + F) : front[k] = IF k <= 1 THEN << first >>[k] ELSE mid[k - 1]
  BY <1>2, <1>4, ConcatProperties
<1> HIDE DEF front
<1>6. /\ s \in Seq(ChunkRecords) /\ Len(s) = (1 + F) + Len(end)
      /\ \A k \in 1 .. ((1 + F) + Len(end)) :
            s[k] = IF k <= 1 + F THEN front[k] ELSE end[k - (1 + F)]
  <2>1. front \in Seq(ChunkRecords) /\ end \in Seq(ChunkRecords) /\ Len(front) = 1 + F
    BY <1>3, <1>5
  <2>2. /\ front \o end \in Seq(ChunkRecords) /\ Len(front \o end) = Len(front) + Len(end)
        /\ \A k \in 1 .. Len(front) + Len(end) :
              (front \o end)[k] = IF k <= Len(front) THEN front[k] ELSE end[k - Len(front)]
    BY <2>1, ConcatProperties, Zenon
  <2> QED BY <1>1, <2>1, <2>2
<1>7. s[1] = first
  BY <1>3, <1>4, <1>5, <1>6
<1>8. \A k \in 2 .. (F + 1) : s[k] = mid[k - 1]
  BY <1>3, <1>5, <1>6
<1>9. LastPart(a, n) > 0 => s[F + 2] = LastChunk(a, n)
  BY <1>3, <1>6
<1>10. Len(s) = IF LastPart(a, n) > 0 THEN F + 2 ELSE F + 1
  BY <1>3, <1>6
<1> QED BY <1>6, <1>7, <1>8, <1>9, <1>10 DEF first, mid

\* What makes a split right: the k-th copy is on the k-th page, at the place of
\* the address it stands for, and reaches as far as the page or the access do.
ChunkRight(a, n, k, c) ==
    /\ c \in ChunkRecords
    /\ c.page = PageOf(a) + (k - 1)
    /\ c.page * BLOCK_SIZE \in Nat
    /\ c.page * BLOCK_SIZE + c.offset = a + c.from
    /\ c.offset + c.count <= BLOCK_SIZE /\ c.from + c.count <= n
    /\ c.offset = 0 \/ c.from = 0
    /\ c.offset + c.count = BLOCK_SIZE \/ c.from + c.count = n

\* The copies follow each other in the caller's buffer.
ChunkFollows(a, n, k, len, c) ==
    /\ k = 1 => c.from = 0
    /\ k > 1 => c.from = Lead(a) + (k - 2) * BLOCK_SIZE
    /\ k < len => c.from + c.count = Lead(a) + (k - 1) * BLOCK_SIZE
    /\ k = len => c.from + c.count = n

\* read_memory and write_memory split every access right.
LEMMA SplitRight ==
    ASSUME NEW a \in Nat, NEW n \in Nat
    PROVE  /\ Len(Chunks(a, n)) \in Nat \ {0}
           /\ \A k \in 1 .. Len(Chunks(a, n)) :
                 /\ ChunkRight(a, n, k, Chunks(a, n)[k])
                 /\ ChunkFollows(a, n, k, Len(Chunks(a, n)), Chunks(a, n)[k])
<1> DEFINE s == Chunks(a, n)
           B == BLOCK_SIZE
           P == PageOf(a)
           O == OffsetOf(a)
           L == Lead(a)
<1>1. /\ B \in Nat \ {0} /\ P \in Nat /\ P * B \in Nat /\ O \in 0 .. (B - 1) /\ L \in 1 .. B
      /\ a = P * B + O /\ L = B - O
  BY SplitNumbers, Constants DEF Lead
<1>2. CASE n <= L
  <2>1. s = << Chunk(P, O, 0, n) >>
    BY <1>2, OneChunk
  <2>2. /\ Len(s) = 1 /\ s[1] \in ChunkRecords
        /\ s[1].page = P /\ s[1].offset = O /\ s[1].from = 0 /\ s[1].count = n
    BY <1>1, <2>1 DEF Chunk, ChunkRecords
  <2> HIDE DEF s, P, O, L, B
  <2>3. ChunkRight(a, n, 1, s[1])
    BY <1>1, <1>2, <2>2 DEF ChunkRight, P, B
  <2>4. ChunkFollows(a, n, 1, Len(s), s[1])
    BY <2>2 DEF ChunkFollows
  <2> QED BY <2>2, <2>3, <2>4 DEF s
<1>3. CASE n > L
  <2> DEFINE F == FullPages(a, n)
             T == LastPart(a, n)
  <2>1. F \in Nat /\ F * B \in Nat /\ T \in 0 .. (B - 1) /\ n = L + F * B + T
    BY <1>3, SplitNumbers
  <2>2. /\ Len(s) = IF T > 0 THEN F + 2 ELSE F + 1
        /\ s[1] = Chunk(P, O, 0, L)
        /\ \A k \in 2 .. (F + 1) : s[k] = FullChunks(a, n)[k - 1]
        /\ T > 0 => s[F + 2] = LastChunk(a, n)
    BY <1>3, <2>1, ManyChunksAt
  <2>3. \A i \in 1 .. F : FullChunks(a, n)[i] = Chunk(P + i, 0, L + (i - 1) * B, B)
    BY DEF FullChunks
  <2>4. LastChunk(a, n) = Chunk(P + F + 1, 0, L + F * B, T)
    BY DEF LastChunk
  <2> HIDE DEF s, P, O, L, B, F, T
  <2>5. ChunkRight(a, n, 1, s[1]) /\ ChunkFollows(a, n, 1, Len(s), s[1])
    <3>1. /\ L <= n /\ L \in Nat /\ s[1] \in ChunkRecords
          /\ s[1].page = P /\ s[1].offset = O /\ s[1].from = 0 /\ s[1].count = L
      BY <1>1, <1>3, <2>2 DEF Chunk, ChunkRecords
    <3>2. ChunkRight(a, n, 1, s[1])
      BY <1>1, <3>1 DEF ChunkRight, P, B
    <3>3. 1 = Len(s) => T = 0 /\ F = 0
      BY <2>1, <2>2
    <3>4. (1 - 1) * BLOCK_SIZE = 0 /\ (F = 0 => F * B = 0)
      BY <1>1 DEF B
    <3> QED BY <1>1, <2>1, <3>1, <3>2, <3>3, <3>4 DEF ChunkFollows, L, B
  <2>6. ASSUME NEW k \in 2 .. (F + 1)
        PROVE  ChunkRight(a, n, k, s[k]) /\ ChunkFollows(a, n, k, Len(s), s[k])
    <3>1. k - 1 \in 1 .. F /\ k - 2 \in Nat /\ k - 1 = (k - 2) + 1 /\ (k - 1) - 1 = k - 2
      BY <2>1
    <3>2. s[k] = Chunk(P + (k - 1), 0, L + (k - 2) * B, B)
      BY <2>2, <2>3, <3>1
    <3>3. /\ (k - 2) * B \in Nat /\ (k - 1) * B \in Nat /\ (k - 1) * B = (k - 2) * B + B
          /\ (P + (k - 1)) * B = P * B + (k - 1) * B /\ (k - 1) * B <= F * B
      <4>1. k - 2 \in Nat /\ k - 1 \in Nat /\ k - 1 <= F /\ B \in Nat
        BY <1>1, <2>1, <3>1
      <4>2. (k - 2) * B \in Nat /\ (k - 1) * B \in Nat
        BY <4>1, Products
      <4>3. ((k - 2) + 1) * B = (k - 2) * B + 1 * B
        BY <4>1, Products
      <4>4. (P + (k - 1)) * B = P * B + (k - 1) * B
        BY <1>1, <4>1, Products
      <4>5. (k - 1) * B <= F * B
        BY <2>1, <4>1, Products
      <4> QED BY <3>1, <4>1, <4>2, <4>3, <4>4, <4>5
    <3>4. L + (k - 2) * B \in Nat /\ L + (k - 2) * B + B <= n /\ P + (k - 1) \in Nat
      BY <1>1, <2>1, <3>1, <3>3
    <3> DEFINE c == s[k]
    <3>5. /\ c \in ChunkRecords /\ c.page = P + (k - 1) /\ c.offset = 0
          /\ c.from = L + (k - 2) * B /\ c.count = B
      BY <1>1, <3>2, <3>4 DEF Chunk, ChunkRecords
    <3> HIDE DEF c
    <3>6. ChunkRight(a, n, k, c)
      BY <1>1, <3>3, <3>4, <3>5 DEF ChunkRight, P, B
    <3>7. k = Len(s) => T = 0 /\ k - 1 = F
      BY <2>1, <2>2
    <3>8. ChunkFollows(a, n, k, Len(s), c)
      <4>1. c.from + c.count = L + (k - 1) * B
        BY <1>1, <3>3, <3>4, <3>5
      <4>2. k = Len(s) => c.from + c.count = n
        BY <1>1, <2>1, <3>3, <3>7, <4>1
      <4> QED BY <3>5, <4>1, <4>2 DEF ChunkFollows, L, B
    <3> QED BY <3>6, <3>8 DEF c
  <2>7. T > 0 => ChunkRight(a, n, F + 2, s[F + 2]) /\ ChunkFollows(a, n, F + 2, Len(s), s[F + 2])
    <3> SUFFICES ASSUME T > 0
                 PROVE  ChunkRight(a, n, F + 2, s[F + 2]) /\ ChunkFollows(a, n, F + 2, Len(s), s[F + 2])
      OBVIOUS
    <3>1. s[F + 2] = Chunk(P + F + 1, 0, L + F * B, T) /\ Len(s) = F + 2
      BY <2>2, <2>4
    <3>2. (P + (F + 1)) * B = P * B + F * B + B
      <4>1. (P + (F + 1)) * B = P * B + (F + 1) * B /\ (F + 1) * B = F * B + 1 * B
        BY <1>1, <2>1, Products
      <4> QED BY <1>1, <2>1, <4>1
    <3>3. /\ P + F + 1 = P + (F + 1) /\ P + (F + 1) \in Nat /\ L + F * B \in Nat
          /\ (F + 2) - 1 = F + 1 /\ (F + 2) - 2 = F
      BY <1>1, <2>1
    <3> DEFINE c == s[F + 2]
    <3>4. /\ c \in ChunkRecords /\ c.page = P + (F + 1) /\ c.offset = 0
          /\ c.from = L + F * B /\ c.count = T
      BY <1>1, <2>1, <3>1, <3>3 DEF Chunk, ChunkRecords
    <3> HIDE DEF c
    <3>5. ChunkRight(a, n, F + 2, c)
      BY <1>1, <2>1, <3>2, <3>3, <3>4 DEF ChunkRight, P, B
    <3>6. ChunkFollows(a, n, F + 2, Len(s), c)
      BY <1>1, <2>1, <3>1, <3>3, <3>4 DEF ChunkFollows, L, B
    <3> QED BY <3>5, <3>6 DEF c
  <2>8. ASSUME NEW k \in 1 .. Len(s)
        PROVE  k = 1 \/ k \in 2 .. (F + 1) \/ (T > 0 /\ k = F + 2)
    BY <2>1, <2>2
  <2>9. Len(s) \in Nat \ {0}
    BY <2>1, <2>2
  <2> QED BY <2>5, <2>6, <2>7, <2>8, <2>9 DEF s
<1> QED BY <1>1, <1>2, <1>3

\* The bytes of the k-th copy are those of the access on its page, and each
\* goes to its own place in the buffer.
BytesRight(a, n, c) ==
    \A b \in Nat :
        /\ b - a \in c.from .. (c.from + c.count - 1) => b \in a .. (a + n - 1) /\ PageOf(b) = c.page
        /\ PageOf(b) = c.page =>
              /\ b - a = c.from + (OffsetOf(b) - c.offset)
              /\ b \in a .. (a + n - 1) => b - a \in c.from .. (c.from + c.count - 1)
              /\ OffsetOf(b) \in c.offset .. (c.offset + c.count - 1) <=> b \in a .. (a + n - 1)

\* No byte is copied twice, left out or put in the wrong place.
LEMMA BytesOfChunk ==
    ASSUME NEW a \in Nat, NEW n \in Nat, NEW k \in 1 .. Len(Chunks(a, n)), NEW c, ChunkRight(a, n, k, c)
    PROVE  BytesRight(a, n, c)
<1> SUFFICES ASSUME NEW b \in Nat
             PROVE  /\ b - a \in c.from .. (c.from + c.count - 1) =>
                          b \in a .. (a + n - 1) /\ PageOf(b) = c.page
                    /\ PageOf(b) = c.page =>
                          /\ b - a = c.from + (OffsetOf(b) - c.offset)
                          /\ b \in a .. (a + n - 1) => b - a \in c.from .. (c.from + c.count - 1)
                          /\ OffsetOf(b) \in c.offset .. (c.offset + c.count - 1)
                                <=> b \in a .. (a + n - 1)
  BY DEF BytesRight
<1> DEFINE start == c.page * BLOCK_SIZE
           page == c.page
           o == c.offset
           f == c.from
           m == c.count
<1>1. /\ page \in Nat /\ o \in Nat /\ f \in Nat /\ m \in Nat /\ start \in Nat
      /\ start + o = a + f /\ o + m <= BLOCK_SIZE /\ f + m <= n
      /\ o = 0 \/ f = 0
      /\ o + m = BLOCK_SIZE \/ f + m = n
  BY DEF ChunkRight, ChunkRecords
<1>2. BLOCK_SIZE \in Nat \ {0}
  BY Constants
<1>3. PageOf(b) \in Nat /\ OffsetOf(b) \in 0 .. (BLOCK_SIZE - 1) /\ PageOf(b) * BLOCK_SIZE \in Nat
      /\ b = PageOf(b) * BLOCK_SIZE + OffsetOf(b)
  BY SplitNumbers
<1>4. (PageOf(b) = page => b = start + OffsetOf(b)) /\ start = page * BLOCK_SIZE
  BY <1>3
<1> HIDE DEF start, page, o, f, m
<1>5. b - a \in f .. (f + m - 1) => PageOf(b) = page
  <2> SUFFICES ASSUME b - a \in f .. (f + m - 1) PROVE PageOf(b) = page
    OBVIOUS
  <2> DEFINE r == b - start
  <2>1. r \in Nat /\ r < BLOCK_SIZE /\ b = start + r
    BY <1>1, <1>2
  <2> HIDE DEF r
  <2>2. b = page * BLOCK_SIZE + r
    BY <1>4, <2>1
  <2>3. b \div BLOCK_SIZE = page
    BY <1>1, <1>2, <2>1, <2>2, DivisionUnique
  <2> QED BY <2>3 DEF PageOf
<1>6. b - a \in f .. (f + m - 1) => b \in a .. (a + n - 1)
  BY <1>1
<1> DEFINE x == OffsetOf(b)
<1>7. x \in 0 .. (BLOCK_SIZE - 1)
  BY <1>3
<1> HIDE DEF x
<1>8. b = start + x =>
         /\ b - a = f + (x - o)
         /\ b \in a .. (a + n - 1) => b - a \in f .. (f + m - 1)
         /\ x \in o .. (o + m - 1) <=> b \in a .. (a + n - 1)
  BY <1>1, <1>2, <1>7
<1> QED BY <1>4, <1>5, <1>6, <1>8 DEF page, o, f, m, x

\* Every byte of the access is in a copy.
LEMMA ByteHasChunk ==
    ASSUME NEW a \in Nat, NEW n \in Nat, NEW b \in a .. (a + n - 1)
    PROVE  PageOf(b) - PageOf(a) + 1 \in 1 .. Len(Chunks(a, n))
<1> DEFINE len == Len(Chunks(a, n))
           c == Chunks(a, n)[len]
<1>1. /\ len \in Nat \ {0} /\ len \in 1 .. len /\ BLOCK_SIZE \in Nat \ {0} /\ b \in Nat
      /\ PageOf(a) \in Nat /\ PageOf(b) \in Nat
  <2>1. b \in Nat
    OBVIOUS
  <2>2. len \in Nat \ {0}
    BY SplitRight
  <2>3. PageOf(a) \in Nat /\ PageOf(b) \in Nat
    BY <2>1, SplitNumbers
  <2> QED BY <2>1, <2>2, <2>3, Constants
<1>2. ChunkRight(a, n, len, c) /\ ChunkFollows(a, n, len, len, c)
  BY <1>1, SplitRight, Zenon
<1>3. PageOf(a) <= PageOf(b)
  BY <1>1, QuotientMonotonic DEF PageOf
<1> HIDE DEF len, c
<1>4. /\ c.page = PageOf(a) + (len - 1) /\ c.page * BLOCK_SIZE \in Nat
      /\ c.offset \in Nat /\ c.from \in Nat /\ c.count \in Nat
      /\ c.page * BLOCK_SIZE + c.offset = a + c.from
      /\ c.offset + c.count <= BLOCK_SIZE /\ c.from + c.count = n
  BY <1>2 DEF ChunkRight, ChunkFollows, ChunkRecords
<1>5. b < c.page * BLOCK_SIZE + BLOCK_SIZE
  BY <1>1, <1>4
<1> DEFINE q == c.page + 1
<1>6. q \in Nat /\ q = PageOf(a) + len
  BY <1>1, <1>4
<1>7. q * BLOCK_SIZE = c.page * BLOCK_SIZE + BLOCK_SIZE
  <2>1. c.page \in Nat /\ 1 \in Nat /\ BLOCK_SIZE \in Nat
    BY <1>1, <1>4
  <2>2. (c.page + 1) * BLOCK_SIZE = c.page * BLOCK_SIZE + 1 * BLOCK_SIZE
    BY <2>1, Products
  <2> QED BY <1>1, <2>2
<1> HIDE DEF q
<1>8. b < q * BLOCK_SIZE
  BY <1>5, <1>7
<1>9. PageOf(b) < q
  BY <1>1, <1>6, <1>8, QuotientBound DEF PageOf
<1> QED BY <1>1, <1>3, <1>6, <1>9 DEF len

\* An address of the memory lies on an existing page.
LEMMA AddressOnPage ==
    ASSUME NEW b \in 0 .. (TotalMemory - 1)
    PROVE  b \in Nat /\ PageOf(b) \in 0 .. (NumBlocks - 1) /\ OffsetOf(b) \in 0 .. (BLOCK_SIZE - 1)
<1>1. b \in Nat /\ b < NumBlocks * BLOCK_SIZE /\ NumBlocks \in Nat /\ BLOCK_SIZE \in Nat \ {0}
  BY Constants
<1>2. PageOf(b) < NumBlocks
  BY <1>1, QuotientBound DEF PageOf
<1> QED BY <1>1, <1>2, SplitNumbers

\* A copy of an access inside the memory is on an existing page.
LEMMA ChunkOnPage ==
    ASSUME NEW a \in Nat, NEW n \in Nat, a + n <= TotalMemory,
           NEW k \in 1 .. Len(Chunks(a, n)), NEW c, c = Chunks(a, n)[k], c.count > 0
    PROVE  c.page \in 0 .. (NumBlocks - 1)
<1>1. ChunkRight(a, n, k, c)
  BY SplitRight
<1>2. /\ c.page \in Nat /\ c.page * BLOCK_SIZE \in Nat
      /\ c.offset \in Nat /\ c.from \in Nat /\ c.count \in Nat
      /\ c.page * BLOCK_SIZE + c.offset = a + c.from
      /\ c.offset + c.count <= BLOCK_SIZE /\ c.from + c.count <= n
  BY <1>1 DEF ChunkRight, ChunkRecords
<1>3. BLOCK_SIZE \in Nat \ {0} /\ TotalMemory \in Nat /\ NumBlocks \in Nat /\ NumBlocks * BLOCK_SIZE = TotalMemory
  BY Constants
<1>4. c.page * BLOCK_SIZE < NumBlocks * BLOCK_SIZE
  <2> DEFINE start == c.page * BLOCK_SIZE
             end == NumBlocks * BLOCK_SIZE
  <2>1. /\ start + c.offset = a + c.from /\ end = TotalMemory /\ start \in Nat /\ TotalMemory \in Nat
        /\ c.offset \in Nat /\ c.from \in Nat /\ c.count \in Nat /\ c.from + c.count <= n
    BY <1>2, <1>3
  <2> HIDE DEF start, end
  <2>2. start < end
    BY <2>1
  <2> QED BY <2>2 DEF start, end
<1>5. c.page < NumBlocks
  BY <1>2, <1>3, <1>4, FactorsOrder
<1> QED BY <1>2, <1>3, <1>5

-----------------------------------------------------------------------------
(* The inductive invariant.                                                *)

Answers == {Nothing, Illegal} \cup { Success(d) : d \in Seq(Byte) }

TypeOK ==
    /\ Memory \in [0 .. (NumBlocks - 1) -> [0 .. (BLOCK_SIZE - 1) -> Byte]]
    /\ call \in [Thread -> {Nothing} \cup UNION { Requests[t] : t \in Thread }]
    /\ \A t \in Thread : call[t] # Nothing => call[t] \in Requests[t]
    /\ ret \in [Thread -> Answers]
    /\ MemoryAccessMutex \subseteq Thread
    /\ done \in [Thread -> Nat]
    /\ dest \in [Thread -> Seq(Byte)]

\* The mutex: one holder, inside a call that is not answered; a thread without
\* it has nothing half done.
Locking ==
    /\ \A t, u \in MemoryAccessMutex : t = u
    /\ \A t \in MemoryAccessMutex : call[t] # Nothing /\ ret[t] = Nothing
    /\ \A t \in Thread \ MemoryAccessMutex : done[t] = 0 /\ dest[t] = << >>
    /\ \A t \in Thread : ret[t] # Nothing => call[t] # Nothing

\* The bytes of the holder's call that are copied: all of the first done[t] chunks.
Copied(t) ==
    IF done[t] = 0 THEN 0
    ELSE ChunksOf(call[t])[done[t]].from + ChunksOf(call[t])[done[t]].count

\* The byte at address b of memory m, and k bytes from address a on.
ByteAt(m, b) == m[PageOf(b)][OffsetOf(b)]
Span(m, a, k) == [i \in 1 .. k |-> ByteAt(m, a + i - 1)]

\* What a reader has copied is what the memory holds, which nobody changes
\* until it is done; a writer reads nothing.
Progress ==
    \A t \in MemoryAccessMutex :
        /\ done[t] > 0 => InRange(call[t].address, call[t].size)
        /\ done[t] <= Len(ChunksOf(call[t]))
        /\ dest[t] = IF call[t].op = "read"
                     THEN Span(Memory, call[t].address, Copied(t))
                     ELSE << >>

IInv == TypeOK /\ Locking /\ Progress

\* What is known of the holder's call once it is accepted.
LEMMA AcceptedCall ==
    ASSUME TypeOK, NEW t \in Thread, Accepted(t)
    PROVE  /\ t \in MemoryAccessMutex
           /\ call[t] \in Requests[t]
           /\ call[t].op \in {"read", "write"}
           /\ call[t].address \in Nat /\ call[t].size \in Nat
           /\ call[t].address + call[t].size <= TotalMemory
           /\ call[t].op = "write" => call[t].data \in [1 .. call[t].size -> Byte]
           /\ Len(ChunksOf(call[t])) \in Nat \ {0}
<1>1. t \in MemoryAccessMutex /\ call[t] \in Requests[t]
  BY DEF Accepted, Inside, TypeOK
<1>2. /\ call[t].op \in {"read", "write"} /\ call[t].address \in Nat /\ call[t].size \in Nat
      /\ call[t].op = "write" => call[t].data \in [1 .. call[t].size -> Byte]
  BY <1>1, RequestTypes
<1>3. call[t].address + call[t].size <= TotalMemory
  BY <1>1, RangeCheck DEF Accepted
<1>4. Len(ChunksOf(call[t])) \in Nat \ {0}
  BY <1>2, SplitRight DEF ChunksOf
<1> QED BY <1>1, <1>2, <1>3, <1>4

(***************************************************************************)
(* Every byte that read_memory and write_memory copy lies on an existing   *)
(* page, inside it, and inside the caller's buffer.                        *)
(***************************************************************************)
LEMMA InsideByType == TypeOK => CopiesInside
<1> SUFFICES ASSUME TypeOK, NEW t \in Thread, Accepted(t),
                    NEW k \in 1 .. Len(ChunksOf(call[t])), NEW c, c = ChunksOf(call[t])[k],
                    c.count > 0
             PROVE  /\ c.page \in 0 .. (NumBlocks - 1)
                    /\ c.offset + c.count <= BLOCK_SIZE
                    /\ c.from + c.count <= call[t].size
  BY DEF CopiesInside
<1> DEFINE a == call[t].address
           n == call[t].size
<1>1. a \in Nat /\ n \in Nat /\ a + n <= TotalMemory
  BY AcceptedCall
<1>2. k \in 1 .. Len(Chunks(a, n)) /\ c = Chunks(a, n)[k]
  BY DEF ChunksOf
<1> HIDE DEF a, n
<1>3. c.page \in 0 .. (NumBlocks - 1)
  BY <1>1, <1>2, ChunkOnPage
<1>4. ChunkRight(a, n, k, c)
  BY <1>1, <1>2, SplitRight
<1> QED BY <1>3, <1>4 DEF ChunkRight, n

\* The memory and the threads at the start.
LEMMA InitIInv == Init => IInv
<1> SUFFICES ASSUME Init PROVE IInv
  OBVIOUS
<1>1. << >> \in Seq(Byte) /\ Nothing \in Answers /\ ZeroByte \in Byte
  BY Constants DEF Answers
<1>2. TypeOK
  BY <1>1 DEF Init, TypeOK
<1>3. Locking /\ Progress
  BY DEF Init, Locking, Progress
<1> QED BY <1>2, <1>3 DEF IInv

\* A copy into a page keeps it a page of bytes.
LEMMA CopyNTyped ==
    ASSUME NEW block \in [0 .. (BLOCK_SIZE - 1) -> Byte], NEW c \in ChunkRecords,
           NEW n \in Nat, c.from + c.count <= n, NEW src \in [1 .. n -> Byte]
    PROVE  CopyN(block, c, src) \in [0 .. (BLOCK_SIZE - 1) -> Byte]
<1>1. c.from \in Nat /\ c.count \in Nat /\ c.offset \in Nat
  BY DEF ChunkRecords
<1>2. \A o \in c.offset .. (c.offset + c.count - 1) : src[c.from + (o - c.offset) + 1] \in Byte
  <2> TAKE o \in c.offset .. (c.offset + c.count - 1)
  <2>1. c.from + (o - c.offset) + 1 \in 1 .. n
    BY <1>1
  <2> QED BY <2>1
<1> QED BY <1>2 DEF CopyN

\* The chunk that the holder copies next, and where it starts in the buffer.
LEMMA NextChunk ==
    ASSUME IInv, NEW t \in Thread, Accepted(t), done[t] < Len(ChunksOf(call[t])),
           NEW c, c = ChunksOf(call[t])[done[t] + 1]
    PROVE  /\ done[t] + 1 \in 1 .. Len(ChunksOf(call[t]))
           /\ ChunkRight(call[t].address, call[t].size, done[t] + 1, c)
           /\ Copied(t) = c.from
<1> DEFINE a == call[t].address
           n == call[t].size
           s == Chunks(a, n)
           d == done[t]
<1>1. a \in Nat /\ n \in Nat /\ d \in Nat /\ Len(s) \in Nat \ {0} /\ s = ChunksOf(call[t])
  BY AcceptedCall DEF IInv, TypeOK, ChunksOf
<1>2. d + 1 \in 1 .. Len(s) /\ c = s[d + 1]
  BY <1>1
<1>3. \A k \in 1 .. Len(s) : ChunkRight(a, n, k, s[k]) /\ ChunkFollows(a, n, k, Len(s), s[k])
  BY <1>1, SplitRight
<1> HIDE DEF s, a, n, d
<1>4. ChunkRight(a, n, d + 1, c) /\ ChunkFollows(a, n, d + 1, Len(s), c)
  BY <1>2, <1>3
<1>5. d = 0 => Copied(t) = c.from
  <2> SUFFICES ASSUME d = 0 PROVE Copied(t) = c.from
    OBVIOUS
  <2>1. Copied(t) = 0 /\ d + 1 = 1
    BY DEF Copied, d
  <2>2. c.from = 0
    BY <1>4, <2>1 DEF ChunkFollows
  <2> QED BY <2>1, <2>2
<1>6. d > 0 => Copied(t) = c.from
  <2> SUFFICES ASSUME d > 0 PROVE Copied(t) = c.from
    OBVIOUS
  <2>1. d \in 1 .. Len(s) /\ d < Len(s) /\ (d + 1) - 2 = d - 1 /\ d + 1 > 1
    BY <1>1, <1>2
  <2>2. ChunkFollows(a, n, d, Len(s), s[d])
    BY <1>3, <2>1
  <2>3. s[d].from + s[d].count = Lead(a) + (d - 1) * BLOCK_SIZE
    BY <2>1, <2>2 DEF ChunkFollows
  <2>4. c.from = Lead(a) + (d - 1) * BLOCK_SIZE
    BY <1>4, <2>1 DEF ChunkFollows
  <2>5. Copied(t) = s[d].from + s[d].count
    BY <1>1 DEF Copied, d
  <2> QED BY <2>3, <2>4, <2>5, Zenon
<1>7. Copied(t) = c.from
  BY <1>1, <1>5, <1>6
<1> QED BY <1>1, <1>2, <1>4, <1>7 DEF a, n, d

\* One memcpy of a reader extends what it has read by the bytes that follow.
LEMMA ReadExtends ==
    ASSUME IInv, NEW t \in Thread, Accepted(t), done[t] < Len(ChunksOf(call[t])),
           call[t].op = "read", NEW c, c = ChunksOf(call[t])[done[t] + 1], c.count > 0
    PROVE  /\ dest[t] \o BytesOf(Memory[c.page], c) \in Seq(Byte)
           /\ dest[t] \o BytesOf(Memory[c.page], c) = Span(Memory, call[t].address, c.from + c.count)
<1> DEFINE a == call[t].address
           n == call[t].size
           k == done[t] + 1
           new == BytesOf(Memory[c.page], c)
           old == dest[t]
           f == c.from
           m == c.count
           all == [i \in 1 .. (f + m) |-> ByteAt(Memory, a + i - 1)]
<1>1. a \in Nat /\ n \in Nat /\ a + n <= TotalMemory /\ t \in MemoryAccessMutex
  BY AcceptedCall DEF IInv
<1>2. k \in 1 .. Len(Chunks(a, n)) /\ c = Chunks(a, n)[k] /\ ChunkRight(a, n, k, c) /\ Copied(t) = f
  BY NextChunk DEF ChunksOf
<1>3. \A b \in Nat : b - a \in f .. (f + m - 1) =>
         PageOf(b) = c.page /\ b - a = f + (OffsetOf(b) - c.offset)
  <2> HIDE DEF a, n, k
  <2>1. BytesRight(a, n, c)
    BY <1>1, <1>2, BytesOfChunk
  <2> QED BY <2>1 DEF BytesRight
<1>4. /\ c.page \in 0 .. (NumBlocks - 1) /\ f \in Nat /\ m \in Nat /\ c.offset \in Nat
      /\ c.offset + m <= BLOCK_SIZE /\ f + m <= n /\ BLOCK_SIZE \in Nat
  BY <1>1, <1>2, ChunkOnPage, Constants DEF ChunkRight, ChunkRecords
<1>5. old = [i \in 1 .. f |-> ByteAt(Memory, a + i - 1)] /\ old \in Seq(Byte)
  BY <1>1, <1>2 DEF IInv, Progress, TypeOK, Span
<1>6. Memory[c.page] \in [0 .. (BLOCK_SIZE - 1) -> Byte]
  BY <1>4 DEF IInv, TypeOK
<1>7. new \in [1 .. m -> Byte]
  <2>1. \A i \in 1 .. m : c.offset + i - 1 \in 0 .. (BLOCK_SIZE - 1)
    BY <1>4
  <2> QED BY <1>6, <2>1 DEF BytesOf
<1>8. new \in Seq(Byte) /\ Len(new) = m /\ Len(old) = f
  <2> HIDE DEF new, m
  <2>1. Len(new) = m /\ new \in Seq(Byte)
    BY <1>4, <1>7
  <2>2. Len(old) = f
    BY <1>4, <1>5
  <2> QED BY <2>1, <2>2
<1>9. \A i \in 1 .. m : new[i] = ByteAt(Memory, a + (f + i) - 1)
  <2> SUFFICES ASSUME NEW i \in 1 .. m PROVE new[i] = ByteAt(Memory, a + (f + i) - 1)
    OBVIOUS
  <2> DEFINE b == a + (f + i) - 1
             o == OffsetOf(b)
  <2> HIDE DEF a, n, k, f, m, new
  <2>1. b \in Nat /\ b - a \in f .. (f + m - 1) /\ b - a = f + i - 1
    BY <1>1, <1>4
  <2> HIDE DEF b, o
  <2>2. PageOf(b) = c.page /\ b - a = f + (o - c.offset)
    BY <1>3, <2>1 DEF o
  <2> DEFINE base == c.offset
  <2>3. b - a = f + (o - base) /\ base \in Nat
    BY <1>4, <2>2
  <2> HIDE DEF base
  <2>4. o \in Nat
    BY <2>1, SplitNumbers, Constants DEF o
  <2>5. o = base + i - 1
    <3>1. f \in Nat
      BY <1>4
    <3>2. f + i - 1 = f + (o - base)
      BY <2>1, <2>3
    <3> QED BY <2>3, <2>4, <3>1, <3>2
  <2>6. new[i] = Memory[c.page][c.offset + i - 1]
    BY DEF BytesOf, new, m
  <2>7. new[i] = ByteAt(Memory, b)
    BY <2>2, <2>5, <2>6 DEF ByteAt, o, base
  <2> QED BY <2>7 DEF b
<1>10. \A i \in 1 .. (f + m) : all[i] = ByteAt(Memory, a + i - 1)
  OBVIOUS
<1> HIDE DEF new, old, all, a, n, k, f, m
<1>11. /\ old \o new \in Seq(Byte) /\ Len(old \o new) = f + m
       /\ \A i \in 1 .. (f + m) : (old \o new)[i] = IF i <= f THEN old[i] ELSE new[i - f]
  <2>1. /\ old \o new \in Seq(Byte) /\ Len(old \o new) = Len(old) + Len(new)
        /\ \A i \in 1 .. Len(old) + Len(new) :
              (old \o new)[i] = IF i <= Len(old) THEN old[i] ELSE new[i - Len(old)]
    BY <1>5, <1>8, ConcatProperties, Zenon
  <2> QED BY <1>8, <2>1
<1>12. \A i \in 1 .. (f + m) : (old \o new)[i] = all[i]
  <2> SUFFICES ASSUME NEW i \in 1 .. (f + m) PROVE (old \o new)[i] = ByteAt(Memory, a + i - 1)
    BY <1>10
  <2>1. CASE i <= f
    <3>1. i \in 1 .. f
      BY <1>4, <2>1
    <3>2. (old \o new)[i] = old[i]
      BY <1>11, <2>1
    <3> QED BY <1>5, <3>1, <3>2
  <2>2. CASE ~(i <= f)
    <3>1. i - f \in 1 .. m /\ f + (i - f) = i
      BY <1>4, <2>2
    <3>2. (old \o new)[i] = new[i - f]
      BY <1>11, <2>2
    <3> QED BY <1>9, <3>1, <3>2
  <2> QED BY <2>1, <2>2
<1>13. DOMAIN (old \o new) = 1 .. (f + m)
  BY <1>11, LenProperties
<1>14. old \o new = [i \in 1 .. (f + m) |-> (old \o new)[i]]
  BY <1>11, <1>13, LenProperties
<1>15. old \o new = [i \in 1 .. (f + m) |-> ByteAt(Memory, a + i - 1)]
  BY <1>10, <1>12, <1>14
<1> QED BY <1>11, <1>15 DEF old, new, a, f, m, Span

-----------------------------------------------------------------------------
\* A copy of the holder keeps the invariant: what a writer changes no reader
\* is looking at, and a reader goes on where it stopped.
LEMMA CopyKeeps ==
    ASSUME IInv, NEW t \in Thread, CopyChunk(t)
    PROVE  IInv'
<1> DEFINE c == ChunksOf(call[t])[done[t] + 1]
<1>1. /\ Accepted(t) /\ done[t] < Len(ChunksOf(call[t]))
      /\ UNCHANGED <<call, ret, MemoryAccessMutex>>
      /\ done' = [done EXCEPT ![t] = @ + 1]
  BY DEF CopyChunk
<1>2. /\ t \in MemoryAccessMutex /\ call[t].op \in {"read", "write"}
      /\ call[t].address \in Nat /\ call[t].size \in Nat
      /\ call[t].address + call[t].size <= TotalMemory
      /\ call[t].op = "write" => call[t].data \in [1 .. call[t].size -> Byte]
  BY <1>1, AcceptedCall DEF IInv
<1>3. /\ done[t] + 1 \in 1 .. Len(ChunksOf(call[t]))
      /\ ChunkRight(call[t].address, call[t].size, done[t] + 1, c)
      /\ Copied(t) = c.from
  BY <1>1, NextChunk
<1>4. c \in ChunkRecords /\ c.from + c.count <= call[t].size
  BY <1>3 DEF ChunkRight
<1>5. c.count > 0 => c.page \in 0 .. (NumBlocks - 1)
  BY <1>2, <1>3, ChunkOnPage DEF ChunksOf
<1>6. done \in [Thread -> Nat] /\ done'[t] = done[t] + 1 /\ done' \in [Thread -> Nat]
  BY <1>1 DEF IInv, TypeOK
<1>7. Copied(t)' = c.from + c.count
  BY <1>1, <1>6 DEF Copied
<1>8. \A u \in MemoryAccessMutex : u = t
  BY <1>2 DEF IInv, Locking
<1> HIDE DEF c
<1>9. /\ Memory' \in [0 .. (NumBlocks - 1) -> [0 .. (BLOCK_SIZE - 1) -> Byte]]
      /\ dest' \in [Thread -> Seq(Byte)]
      /\ \A u \in Thread : u # t => dest'[u] = dest[u]
      /\ dest'[t] = IF call[t].op = "read"
                    THEN Span(Memory', call[t].address, c.from + c.count) ELSE << >>
  <2>1. /\ Memory \in [0 .. (NumBlocks - 1) -> [0 .. (BLOCK_SIZE - 1) -> Byte]]
        /\ dest \in [Thread -> Seq(Byte)]
        /\ dest[t] = IF call[t].op = "read"
                     THEN Span(Memory, call[t].address, c.from) ELSE << >>
    BY <1>2, <1>3 DEF IInv, TypeOK, Progress
  <2>2. \/ /\ call[t].op = "write"
           /\ Memory' = [Memory EXCEPT ![c.page] = CopyN(@, c, call[t].data)] /\ UNCHANGED dest
        \/ /\ call[t].op = "read"
           /\ dest' = [dest EXCEPT ![t] = @ \o BytesOf(Memory[c.page], c)] /\ UNCHANGED Memory
        \/ c.count = 0 /\ UNCHANGED <<Memory, dest>>
    BY DEF CopyChunk, c
  <2>3. CASE call[t].op = "write" /\ c.count > 0
    <3>1. Memory' = [Memory EXCEPT ![c.page] = CopyN(@, c, call[t].data)] /\ UNCHANGED dest
      BY <2>3, <2>2
    <3>2. Memory[c.page] \in [0 .. (BLOCK_SIZE - 1) -> Byte]
      BY <1>5, <2>1, <2>3
    <3>3. CopyN(Memory[c.page], c, call[t].data) \in [0 .. (BLOCK_SIZE - 1) -> Byte]
      BY <1>2, <1>4, <2>3, <3>2, CopyNTyped
    <3>4. Memory' \in [0 .. (NumBlocks - 1) -> [0 .. (BLOCK_SIZE - 1) -> Byte]]
      BY <1>5, <2>1, <2>3, <3>1, <3>3
    <3> QED BY <2>1, <2>3, <3>1, <3>4
  <2>4. CASE call[t].op = "read" /\ c.count > 0
    <3> DEFINE more == dest[t] \o BytesOf(Memory[c.page], c)
    <3>1. c.count # 0 /\ call[t].op # "write"
      BY <2>4
    <3>2. dest' = [dest EXCEPT ![t] = more] /\ UNCHANGED Memory
      BY <2>2, <3>1, Zenon
    <3>3. /\ more \in Seq(Byte)
          /\ more = Span(Memory, call[t].address, c.from + c.count)
      BY <1>1, <2>4, ReadExtends DEF c
    <3> HIDE DEF more
    <3>4. dest'[t] = more /\ (\A u \in Thread : u # t => dest'[u] = dest[u]) /\ dest' \in [Thread -> Seq(Byte)]
      BY <2>1, <3>2, <3>3
    <3> QED BY <2>1, <2>4, <3>2, <3>3, <3>4
  <2>5. CASE c.count = 0
    <3>1. UNCHANGED <<Memory, dest>>
      BY <2>5 DEF CopyChunk, c
    <3>2. c.from + c.count = c.from
      BY <1>4, <2>5 DEF ChunkRecords
    <3> QED BY <2>1, <3>1, <3>2
  <2>6. c.count = 0 \/ c.count > 0
    BY <1>4 DEF ChunkRecords
  <2> QED BY <1>2, <2>3, <2>4, <2>5, <2>6
<1>10. TypeOK'
  BY <1>1, <1>6, <1>9 DEF IInv, TypeOK
<1>11. Locking'
  <2>1. \A u \in Thread : u \notin MemoryAccessMutex => done'[u] = done[u] /\ dest'[u] = dest[u]
    BY <1>1, <1>2, <1>6, <1>9
  <2> QED BY <1>1, <2>1 DEF IInv, Locking
<1>12. Progress'
  <2> SUFFICES ASSUME NEW u \in MemoryAccessMutex'
               PROVE  /\ done'[u] > 0 => InRange(call'[u].address, call'[u].size)
                      /\ done'[u] <= Len(ChunksOf(call'[u]))
                      /\ dest'[u] = IF call'[u].op = "read"
                                    THEN Span(Memory', call'[u].address, Copied(u)')
                                    ELSE << >>
    BY DEF Progress
  <2>1. u = t /\ call' = call
    BY <1>1, <1>8
  <2>2. InRange(call[t].address, call[t].size)
    BY <1>1 DEF Accepted
  <2>3. done'[t] <= Len(ChunksOf(call[t]))
    BY <1>3, <1>6
  <2> QED BY <1>7, <1>9, <2>1, <2>2, <2>3
<1> QED BY <1>10, <1>11, <1>12 DEF IInv

\* The end of the scope of lock_guard: the holder leaves nothing behind.
LEMMA UnlockedKeeps ==
    ASSUME IInv, NEW t \in MemoryAccessMutex, NEW answer \in Answers \ {Nothing},
           Unlocked(t, answer), UNCHANGED <<Memory, call>>
    PROVE  IInv'
<1>1. t \in Thread /\ call[t] # Nothing /\ MemoryAccessMutex' = {}
  BY DEF IInv, TypeOK, Locking, Unlocked
<1>2. << >> \in Seq(Byte)
  OBVIOUS
<1>3. TypeOK'
  BY <1>1, <1>2 DEF IInv, TypeOK, Unlocked
<1>4. \A u \in Thread : u # t => u \notin MemoryAccessMutex
  BY DEF IInv, Locking
<1>5. \A u \in Thread : done'[u] = 0 /\ dest'[u] = << >>
  BY <1>1, <1>4 DEF IInv, TypeOK, Locking, Unlocked
<1>6. \A u \in Thread : ret'[u] # Nothing => call'[u] # Nothing
  BY <1>1 DEF IInv, TypeOK, Locking, Unlocked
<1>7. Locking'
  BY <1>1, <1>5, <1>6 DEF Locking
<1>8. Progress'
  BY <1>1 DEF Progress
<1> QED BY <1>3, <1>7, <1>8 DEF IInv

\* A call that begins disturbs no holder.
LEMMA InvokeKeeps == ASSUME IInv, NEW t \in Thread, Invoke(t) PROVE IInv'
<1>1. PICK r \in Requests[t] : call' = [call EXCEPT ![t] = r]
  BY DEF Invoke
<1>2. call[t] = Nothing /\ UNCHANGED <<Memory, ret, MemoryAccessMutex, done, dest>>
  BY DEF Invoke
<1>3. r # Nothing
  BY RequestTypes
<1>4. TypeOK'
  BY <1>1, <1>2 DEF IInv, TypeOK
<1>5. t \notin MemoryAccessMutex /\ \A u \in MemoryAccessMutex : call'[u] = call[u]
  BY <1>1, <1>2 DEF IInv, TypeOK, Locking
<1>6. Locking'
  BY <1>1, <1>2, <1>3, <1>5 DEF IInv, TypeOK, Locking
<1>7. \A u \in MemoryAccessMutex : Copied(u)' = Copied(u)
  BY <1>2, <1>5 DEF Copied
<1>8. Progress'
  BY <1>2, <1>5, <1>7 DEF IInv, Progress
<1> QED BY <1>4, <1>6, <1>8 DEF IInv

\* The next holder starts from nothing.
LEMMA LockKeeps == ASSUME IInv, NEW t \in Thread, Lock(t) PROVE IInv'
<1>1. /\ call[t] # Nothing /\ ret[t] = Nothing /\ MemoryAccessMutex = {} /\ MemoryAccessMutex' = {t}
      /\ UNCHANGED <<Memory, call, ret, done, dest>>
  BY DEF Lock, Waiting
<1>2. TypeOK' /\ Locking'
  BY <1>1 DEF IInv, TypeOK, Locking
<1>3. done[t] = 0 /\ dest[t] = << >>
  BY <1>1 DEF IInv, Locking
<1>4. Copied(t)' = 0 /\ Span(Memory', call'[t].address, 0) = << >>
  BY <1>1, <1>3 DEF Copied, Span
<1>5. Len(ChunksOf(call[t])) \in Nat
  <2>1. call[t] \in Requests[t]
    BY <1>1 DEF IInv, TypeOK
  <2>2. call[t].address \in Nat /\ call[t].size \in Nat
    BY <2>1, RequestTypes
  <2> QED BY <2>2, SplitRight DEF ChunksOf
<1>6. Progress'
  BY <1>1, <1>3, <1>4, <1>5 DEF Progress
<1> QED BY <1>2, <1>6 DEF IInv

\* A caller that goes on had released the mutex.
LEMMA ReturnKeeps == ASSUME IInv, NEW t \in Thread, Return(t) PROVE IInv'
<1>1. /\ call' = [call EXCEPT ![t] = Nothing] /\ ret' = [ret EXCEPT ![t] = Nothing]
      /\ ret[t] # Nothing /\ UNCHANGED <<Memory, MemoryAccessMutex, done, dest>>
  BY DEF Return
<1>2. t \notin MemoryAccessMutex
  BY <1>1 DEF IInv, Locking
<1>3. TypeOK'
  BY <1>1 DEF IInv, TypeOK, Answers
<1>4. Locking'
  BY <1>1, <1>2 DEF IInv, TypeOK, Locking
<1>5. \A u \in MemoryAccessMutex : call'[u] = call[u] /\ Copied(u)' = Copied(u)
  BY <1>1, <1>2 DEF IInv, TypeOK, Copied
<1>6. Progress'
  BY <1>1, <1>5 DEF IInv, Progress
<1> QED BY <1>3, <1>4, <1>6 DEF IInv

\* Every step keeps the inductive invariant.
LEMMA NextIInv == IInv /\ [Next]_vars => IInv'
<1> SUFFICES ASSUME IInv, [Next]_vars PROVE IInv'
  OBVIOUS
<1>1. CASE UNCHANGED vars
  BY <1>1 DEF vars, IInv, TypeOK, Locking, Progress, Copied
<1>2. ASSUME NEW t \in Thread, OutOfBounds(t) PROVE IInv'
  <2>1. t \in MemoryAccessMutex /\ Unlocked(t, Illegal) /\ UNCHANGED <<Memory, call>>
    BY <1>2 DEF OutOfBounds, Inside
  <2>2. Illegal \in Answers \ {Nothing}
    BY DEF Answers, Illegal, Nothing
  <2> QED BY <2>1, <2>2, UnlockedKeeps
<1>3. ASSUME NEW t \in Thread, Finish(t) PROVE IInv'
  <2>1. t \in MemoryAccessMutex /\ Unlocked(t, Success(dest[t])) /\ UNCHANGED <<Memory, call>>
    BY <1>3 DEF Finish, Accepted, Inside
  <2>2. Success(dest[t]) \in Answers \ {Nothing}
    BY DEF Answers, Success, Nothing, IInv, TypeOK
  <2> QED BY <2>1, <2>2, UnlockedKeeps
<1> QED BY <1>1, <1>2, <1>3, InvokeKeeps, LockKeeps, CopyKeeps, ReturnKeeps DEF Next

\* So it holds in every reachable state.
LEMMA Invariance == Spec => []IInv
BY InitIInv, NextIInv, PTL DEF Spec

(***************************************************************************)
(* No copy of read_memory or write_memory touches a page that does not     *)
(* exist, leaves its page or leaves the caller's buffer, for any page      *)
(* size, memory size and number of threads.                                *)
(***************************************************************************)
THEOREM CopiesStayInside == Spec => []CopiesInside
<1>1. IInv => CopiesInside
  BY InsideByType DEF IInv
<1> QED BY <1>1, Invariance, PTL

-----------------------------------------------------------------------------
(* The refinement.  The flat memory is the paged one, with the bytes that  *)
(* a writer has begun but not finished to write counted as written.        *)

Plain == [b \in 0 .. (TotalMemory - 1) |-> ByteAt(Memory, b)]

\* Byte b of w's access is not copied yet: its page comes after the first done[w].
Owed(w, b) ==
    /\ b \in call[w].address .. (call[w].address + call[w].size - 1)
    /\ PageOf(b) >= PageOf(call[w].address) + done[w]

Seen(w) ==
    [b \in 0 .. (TotalMemory - 1) |->
        IF Owed(w, b) THEN call[w].data[b - call[w].address + 1] ELSE ByteAt(Memory, b)]

\* The chunks that are left hold exactly the bytes on the pages that are left.
LEMMA OwedBytes ==
    ASSUME IInv, NEW w \in Thread, Accepted(w), NEW b \in 0 .. (TotalMemory - 1)
    PROVE  StillToCopy(w, b) <=> Owed(w, b)
<1> DEFINE a == call[w].address
           n == call[w].size
           s == Chunks(a, n)
           d == done[w]
           P == PageOf(a)
<1>1. /\ a \in Nat /\ n \in Nat /\ d \in Nat /\ b \in Nat /\ Len(s) \in Nat /\ s = ChunksOf(call[w])
  BY AcceptedCall DEF IInv, TypeOK, ChunksOf
<1>2. P \in Nat /\ PageOf(b) \in Nat
  BY <1>1, SplitNumbers
<1>3. \A k \in 1 .. Len(s) : s[k].page = P + (k - 1) /\ BytesRight(a, n, s[k])
  <2> HIDE DEF a, n
  <2>1. \A k \in 1 .. Len(s) : ChunkRight(a, n, k, s[k])
    BY <1>1, SplitRight
  <2>2. \A k \in 1 .. Len(s) : BytesRight(a, n, s[k])
    BY <1>1, <2>1, BytesOfChunk
  <2> QED BY <2>1, <2>2 DEF ChunkRight
<1>4. StillToCopy(w, b) <=>
        \E k \in (d + 1) .. Len(s) : b - a \in s[k].from .. (s[k].from + s[k].count - 1)
  BY DEF StillToCopy, ChunksOf
<1>5. Owed(w, b) <=> b \in a .. (a + n - 1) /\ PageOf(b) >= P + d
  BY DEF Owed
<1> HIDE DEF a, n, s, d, P
<1>6. ASSUME NEW k \in (d + 1) .. Len(s), b - a \in s[k].from .. (s[k].from + s[k].count - 1)
      PROVE  b \in a .. (a + n - 1) /\ PageOf(b) >= P + d
  <2>1. k \in 1 .. Len(s)
    BY <1>1
  <2>2. s[k].page = P + (k - 1) /\ BytesRight(a, n, s[k])
    BY <1>3, <2>1
  <2>3. b \in a .. (a + n - 1) /\ PageOf(b) = s[k].page
    BY <1>1, <1>6, <2>2 DEF BytesRight
  <2> QED BY <1>1, <1>2, <2>1, <2>2, <2>3
<1>7. ASSUME b \in a .. (a + n - 1), PageOf(b) >= P + d
      PROVE  \E k \in (d + 1) .. Len(s) : b - a \in s[k].from .. (s[k].from + s[k].count - 1)
  <2> DEFINE k == PageOf(b) - P + 1
  <2>1. k \in 1 .. Len(s)
    BY <1>1, <1>7, ByteHasChunk DEF s, P
  <2>2. k \in (d + 1) .. Len(s) /\ P + (k - 1) = PageOf(b)
    BY <1>1, <1>2, <1>7, <2>1
  <2> HIDE DEF k
  <2>3. s[k].page = PageOf(b) /\ BytesRight(a, n, s[k])
    BY <1>3, <2>1, <2>2
  <2>4. b - a \in s[k].from .. (s[k].from + s[k].count - 1)
    BY <1>1, <1>7, <2>3 DEF BytesRight
  <2> QED BY <2>2, <2>4
<1> QED BY <1>4, <1>5, <1>6, <1>7

\* The view has no choice in it: at most one thread is writing.
FlatView ==
    /\ \A w \in Thread : Writing(w) =>
          flatBytes = Seen(w) /\ flatRet = [ret EXCEPT ![w] = Success(<< >>)]
    /\ (\A w \in Thread : ~Writing(w)) => flatBytes = Plain /\ flatRet = ret

\* The refinement mapping, without its CHOOSE.
LEMMA FlatViewHolds == IInv => FlatView
<1> SUFFICES ASSUME IInv PROVE FlatView
  OBVIOUS
<1>1. ASSUME \A w \in Thread : ~Writing(w)
      PROVE  flatBytes = Plain /\ flatRet = ret
  <2>1. flatBytes = Plain
    BY <1>1 DEF flatBytes, Plain, ByteAt, PageOf, OffsetOf
  <2>2. flatRet = ret
    BY <1>1 DEF flatRet, IInv, TypeOK
  <2> QED BY <2>1, <2>2
<1>2. ASSUME NEW w \in Thread, Writing(w)
      PROVE  flatBytes = Seen(w) /\ flatRet = [ret EXCEPT ![w] = Success(<< >>)]
  <2>1. Accepted(w)
    BY <1>2 DEF Writing
  <2>2. \A t \in Thread : Writing(t) => t = w
    BY <1>2 DEF Writing, Accepted, Inside, IInv, Locking
  <2>3. flatRet = [ret EXCEPT ![w] = Success(<< >>)]
    BY <1>2, <2>2 DEF flatRet, IInv, TypeOK
  <2>4. ASSUME NEW b \in 0 .. (TotalMemory - 1)
        PROVE  (IF \E t \in Thread : Writing(t) /\ StillToCopy(t, b)
                THEN LET u == CHOOSE t \in Thread : Writing(t) /\ StillToCopy(t, b)
                     IN call[u].data[b - call[u].address + 1]
                ELSE Memory[b \div BLOCK_SIZE][b % BLOCK_SIZE])
               = IF Owed(w, b) THEN call[w].data[b - call[w].address + 1] ELSE ByteAt(Memory, b)
    <3>1. StillToCopy(w, b) <=> Owed(w, b)
      BY <2>1, OwedBytes
    <3>2. (\E t \in Thread : Writing(t) /\ StillToCopy(t, b)) <=> Owed(w, b)
      BY <1>2, <2>2, <3>1
    <3>3. ASSUME Owed(w, b)
          PROVE  (CHOOSE t \in Thread : Writing(t) /\ StillToCopy(t, b)) = w
      <4>1. LET u == CHOOSE t \in Thread : Writing(t) /\ StillToCopy(t, b)
            IN u \in Thread /\ Writing(u)
        BY <1>2, <3>1, <3>3
      <4> QED BY <2>2, <4>1
    <3> QED BY <3>2, <3>3 DEF ByteAt, PageOf, OffsetOf
  <2>5. flatBytes = Seen(w)
    BY <2>4 DEF flatBytes, Seen
  <2> QED BY <2>3, <2>5
<1> QED BY <1>1, <1>2 DEF FlatView

\* The byte at an address after one copy of a writer.
LEMMA ByteAfterCopy ==
    ASSUME IInv, NEW t \in Thread, CopyChunk(t), call[t].op = "write",
           NEW c, c = ChunksOf(call[t])[done[t] + 1], NEW b \in 0 .. (TotalMemory - 1)
    PROVE  ByteAt(Memory', b) =
             IF PageOf(b) = c.page /\ b \in call[t].address .. (call[t].address + call[t].size - 1)
             THEN call[t].data[b - call[t].address + 1] ELSE ByteAt(Memory, b)
<1> DEFINE a == call[t].address
           n == call[t].size
           o == OffsetOf(b)
<1>1. Accepted(t) /\ done[t] < Len(ChunksOf(call[t]))
  BY DEF CopyChunk
<1>2. a \in Nat /\ n \in Nat /\ a + n <= TotalMemory
  BY <1>1, AcceptedCall DEF IInv
<1>3. /\ done[t] + 1 \in 1 .. Len(Chunks(a, n)) /\ c = Chunks(a, n)[done[t] + 1]
      /\ ChunkRight(a, n, done[t] + 1, c)
  BY <1>1, NextChunk DEF ChunksOf
<1>4. c \in ChunkRecords
  BY <1>3 DEF ChunkRight
<1> HIDE DEF a, n
<1>5. BytesRight(a, n, c)
  BY <1>2, <1>3, BytesOfChunk
<1>6. b \in Nat /\ PageOf(b) \in 0 .. (NumBlocks - 1) /\ o \in 0 .. (BLOCK_SIZE - 1)
  BY AddressOnPage
<1>7. PageOf(b) = c.page =>
         /\ b - a = c.from + (o - c.offset)
         /\ o \in c.offset .. (c.offset + c.count - 1) <=> b \in a .. (a + n - 1)
  BY <1>5, <1>6 DEF BytesRight
<1> HIDE DEF o
<1>8. CASE c.count > 0
  <2>1. Memory' = [Memory EXCEPT ![c.page] = CopyN(Memory[c.page], c, call[t].data)]
    BY <1>8 DEF CopyChunk
  <2>2. c.page \in 0 .. (NumBlocks - 1) /\ Memory \in [0 .. (NumBlocks - 1) -> [0 .. (BLOCK_SIZE - 1) -> Byte]]
    BY <1>2, <1>3, <1>8, ChunkOnPage DEF IInv, TypeOK
  <2>3. CASE PageOf(b) # c.page
    BY <1>6, <2>1, <2>2, <2>3 DEF ByteAt
  <2>4. CASE PageOf(b) = c.page
    <3>1. Memory'[c.page] = CopyN(Memory[c.page], c, call[t].data)
      BY <2>1, <2>2
    <3>2. ByteAt(Memory', b) = IF o \in c.offset .. (c.offset + c.count - 1)
                               THEN call[t].data[c.from + (o - c.offset) + 1] ELSE Memory[c.page][o]
      BY <1>6, <2>4, <3>1 DEF ByteAt, CopyN, o
    <3> QED BY <1>7, <2>4, <3>2 DEF ByteAt, a, n, o
  <2> QED BY <2>3, <2>4
<1>9. CASE c.count = 0
  <2>1. UNCHANGED Memory
    BY <1>9 DEF CopyChunk
  <2>2. PageOf(b) = c.page => b \notin a .. (a + n - 1)
    <3>1. c.offset \in Nat
      BY <1>4 DEF ChunkRecords
    <3>2. o \notin c.offset .. (c.offset + c.count - 1)
      BY <1>6, <1>9, <3>1
    <3> QED BY <1>7, <3>2
  <2> QED BY <2>1, <2>2 DEF a, n
<1>10. c.count > 0 \/ c.count = 0
  BY <1>4 DEF ChunkRecords
<1> QED BY <1>8, <1>9, <1>10

\* A copy of a writer changes nothing that callers can see.
LEMMA SeenSteady ==
    ASSUME IInv, NEW t \in Thread, CopyChunk(t), call[t].op = "write"
    PROVE  Seen(t)' = Seen(t)
<1> DEFINE c == ChunksOf(call[t])[done[t] + 1]
           a == call[t].address
           n == call[t].size
           d == done[t]
           P == PageOf(a)
<1>1. Accepted(t) /\ done[t] < Len(ChunksOf(call[t])) /\ call' = call
  BY DEF CopyChunk
<1>2. done[t] \in Nat /\ done'[t] = done[t] + 1
  BY DEF CopyChunk, IInv, TypeOK
<1>3. c.page = P + d /\ P \in Nat
  <2>1. ChunkRight(a, n, d + 1, c)
    BY <1>1, NextChunk
  <2>2. a \in Nat
    BY <1>1, AcceptedCall DEF IInv
  <2>3. P \in Nat
    BY <2>2, SplitNumbers
  <2>4. c.page = P + ((d + 1) - 1)
    BY <2>1 DEF ChunkRight
  <2> HIDE DEF P, c
  <2> QED BY <1>2, <2>3, <2>4
<1>4. ASSUME NEW b \in 0 .. (TotalMemory - 1)
      PROVE  (IF b \in a .. (a + n - 1) /\ PageOf(b) >= P + (d + 1)
              THEN call[t].data[b - a + 1] ELSE ByteAt(Memory', b))
             = IF b \in a .. (a + n - 1) /\ PageOf(b) >= P + d
               THEN call[t].data[b - a + 1] ELSE ByteAt(Memory, b)
  <2>1. ByteAt(Memory', b) =
          IF PageOf(b) = c.page /\ b \in a .. (a + n - 1)
          THEN call[t].data[b - a + 1] ELSE ByteAt(Memory, b)
    BY ByteAfterCopy
  <2>2. PageOf(b) \in Nat
    BY AddressOnPage
  <2> DEFINE q == PageOf(b)
             In == b \in a .. (a + n - 1)
             new == call[t].data[b - a + 1]
  <2> HIDE DEF P, d, c, q, In, new
  <2>3. q = P + d => q >= P + d /\ ~(q >= P + (d + 1))
    BY <1>2, <1>3, <2>2 DEF d, q
  <2>4. q # P + d => (q >= P + d <=> q >= P + (d + 1))
    BY <1>2, <1>3, <2>2 DEF d, q
  <2>5. ByteAt(Memory', b) = IF q = P + d /\ In THEN new ELSE ByteAt(Memory, b)
    BY <1>3, <2>1 DEF q, In, new
  <2>6. (IF In /\ q >= P + (d + 1) THEN new ELSE ByteAt(Memory', b))
          = IF In /\ q >= P + d THEN new ELSE ByteAt(Memory, b)
    BY <2>3, <2>4, <2>5
  <2> QED BY <2>6 DEF q, In, new
<1>5. Seen(t)' = [b \in 0 .. (TotalMemory - 1) |->
                    IF b \in a .. (a + n - 1) /\ PageOf(b) >= P + (d + 1)
                    THEN call[t].data[b - a + 1] ELSE ByteAt(Memory', b)]
  BY <1>1, <1>2 DEF Seen, Owed, ByteAt
<1>6. Seen(t) = [b \in 0 .. (TotalMemory - 1) |->
                    IF b \in a .. (a + n - 1) /\ PageOf(b) >= P + d
                    THEN call[t].data[b - a + 1] ELSE ByteAt(Memory, b)]
  BY DEF Seen, Owed
<1> HIDE DEF a, n, d, P, c
<1> QED BY <1>4, <1>5, <1>6

\* Before the first copy of a write: the whole access is owed.
LEMMA SeenAtFirst ==
    ASSUME IInv, NEW t \in Thread, Accepted(t), call[t].op = "write", done[t] = 0
    PROVE  Seen(t) = Flat!Overwrite(Plain, call[t].address, call[t].data)
<1> DEFINE a == call[t].address
           n == call[t].size
           data == call[t].data
<1>1. a \in Nat /\ n \in Nat /\ data \in [1 .. n -> Byte]
  BY AcceptedCall DEF IInv
<1> HIDE DEF a, n, data
<1>2. Len(data) = n
  BY <1>1
<1>3. ASSUME NEW b \in 0 .. (TotalMemory - 1), b \in a .. (a + n - 1) PROVE PageOf(b) >= PageOf(a) + 0
  <2>1. b \in Nat /\ a <= b /\ BLOCK_SIZE \in Nat \ {0}
    BY <1>1, <1>3, Constants
  <2>2. PageOf(a) <= PageOf(b)
    BY <1>1, <2>1, QuotientMonotonic DEF PageOf
  <2>3. PageOf(a) \in Nat /\ PageOf(b) \in Nat
    BY <1>1, <2>1, SplitNumbers
  <2> QED BY <2>2, <2>3
<1>4. \A b \in 0 .. (TotalMemory - 1) : Owed(t, b) <=> b \in a .. (a + n - 1)
  BY <1>3 DEF Owed, a, n
<1>5. Seen(t) = [b \in 0 .. (TotalMemory - 1) |->
                   IF b \in a .. (a + n - 1) THEN data[b - a + 1] ELSE ByteAt(Memory, b)]
  BY <1>4 DEF Seen, a, data
<1>6. Flat!Overwrite(Plain, a, data) =
        [b \in 0 .. (TotalMemory - 1) |->
           IF b \in a .. (a + n - 1) THEN data[b - a + 1] ELSE ByteAt(Memory, b)]
  BY <1>2 DEF Flat!Overwrite, Plain
<1> QED BY <1>5, <1>6 DEF a, data

\* After the last one: nothing is.
LEMMA SeenAtLast ==
    ASSUME IInv, NEW t \in Thread, Accepted(t), done[t] = Len(ChunksOf(call[t]))
    PROVE  Seen(t) = Plain
<1> DEFINE a == call[t].address
           n == call[t].size
<1>1. a \in Nat /\ n \in Nat /\ done[t] = Len(Chunks(a, n)) /\ done[t] \in Nat
  BY AcceptedCall DEF IInv, ChunksOf, TypeOK
<1>2. ASSUME NEW b \in 0 .. (TotalMemory - 1) PROVE ~Owed(t, b)
  <2> HIDE DEF a, n
  <2>1. ASSUME b \in a .. (a + n - 1) PROVE ~(PageOf(b) >= PageOf(a) + done[t])
    <3>1. PageOf(b) - PageOf(a) + 1 \in 1 .. done[t]
      BY <1>1, <2>1, ByteHasChunk
    <3>2. PageOf(a) \in Nat /\ PageOf(b) \in Nat
      BY <1>1, SplitNumbers, AddressOnPage
    <3> QED BY <1>1, <3>1, <3>2
  <2> QED BY <2>1 DEF Owed, a, n
<1> QED BY <1>2 DEF Seen, Plain

-----------------------------------------------------------------------------
(* Every step is a step of FlatMemory or changes nothing in it.            *)

FlatStep == [Flat!Next]_<<flatBytes, call, flatRet>>

\* Threads outside the mutex are not writing.
LEMMA WritersHold ==
    /\ \A u \in Thread : Writing(u) => u \in MemoryAccessMutex /\ call[u].op = "write" /\ Accepted(u)
    /\ \A u \in Thread : Writing(u)' => u \in MemoryAccessMutex' /\ call'[u].op = "write"
BY DEF Writing, Accepted, Inside

\* A step that leaves the holder and the memory alone leaves the view of the
\* memory alone.
LEMMA ViewUndisturbed ==
    ASSUME IInv, IInv', UNCHANGED <<Memory, MemoryAccessMutex, done>>,
           \A u \in MemoryAccessMutex : call'[u] = call[u] /\ ret'[u] = ret[u]
    PROVE  /\ flatBytes' = flatBytes
           /\ \/ \E w \in MemoryAccessMutex :
                    /\ flatRet = [ret EXCEPT ![w] = Success(<< >>)]
                    /\ flatRet' = [ret' EXCEPT ![w] = Success(<< >>)]
              \/ flatRet = ret /\ flatRet' = ret'
<1>1. FlatView /\ FlatView'
  BY FlatViewHolds, PTL
<1>2. \A u \in Thread : Writing(u)' <=> Writing(u)
  BY DEF Writing, Accepted, Inside
<1>3. CASE \E w \in Thread : Writing(w)
  <2>1. PICK w \in Thread : Writing(w)
    BY <1>3
  <2>2. w \in MemoryAccessMutex /\ Writing(w)'
    BY <1>2, <2>1, WritersHold
  <2>3. Seen(w)' = Seen(w)
    BY <2>2 DEF Seen, Owed, ByteAt
  <2> QED BY <1>1, <2>1, <2>2, <2>3 DEF FlatView
<1>4. CASE \A w \in Thread : ~Writing(w)
  <2>1. Plain' = Plain
    BY DEF Plain, ByteAt
  <2> QED BY <1>1, <1>2, <1>4, <2>1 DEF FlatView
<1> QED BY <1>3, <1>4

\* The beginning of a call.
LEMMA InvokeMaps == ASSUME IInv, IInv', NEW t \in Thread, Invoke(t) PROVE Flat!Invoke(t)
<1>1. t \notin MemoryAccessMutex
  BY DEF Invoke, IInv, Locking
<1>2. \A u \in MemoryAccessMutex : call'[u] = call[u] /\ ret'[u] = ret[u]
  BY <1>1 DEF Invoke, IInv, TypeOK
<1>3. UNCHANGED <<Memory, MemoryAccessMutex, done, ret>>
  BY DEF Invoke
<1>4. UNCHANGED <<flatBytes, flatRet>>
  BY <1>2, <1>3, ViewUndisturbed
<1>5. call[t] = Nothing /\ \E r \in Requests[t] : call' = [call EXCEPT ![t] = r]
  BY DEF Invoke
<1> QED BY <1>4, <1>5 DEF Flat!Invoke, Flat!Nothing, Nothing

\* Its return: the caller is told what the flat memory told it.
LEMMA ReturnMaps == ASSUME IInv, IInv', NEW t \in Thread, Return(t) PROVE Flat!Return(t)
<1>1. t \notin MemoryAccessMutex
  BY DEF Return, IInv, Locking
<1>2. /\ UNCHANGED <<Memory, MemoryAccessMutex, done>>
      /\ ret' = [ret EXCEPT ![t] = Nothing] /\ call' = [call EXCEPT ![t] = Nothing]
      /\ call[t] # Nothing /\ ret[t] # Nothing
  BY DEF Return
<1>3. \A u \in MemoryAccessMutex : call'[u] = call[u] /\ ret'[u] = ret[u]
  BY <1>1, <1>2 DEF IInv, TypeOK
<1>4. ret \in [Thread -> Answers]
  BY DEF IInv, TypeOK
<1>5. flatBytes' = flatBytes
  BY <1>2, <1>3, ViewUndisturbed
<1>6. flatRet' = [flatRet EXCEPT ![t] = Nothing] /\ flatRet[t] = ret[t]
  <2>1. CASE flatRet = ret /\ flatRet' = ret'
    BY <1>2, <2>1
  <2>2. ASSUME NEW w \in MemoryAccessMutex,
               flatRet = [ret EXCEPT ![w] = Success(<< >>)],
               flatRet' = [ret' EXCEPT ![w] = Success(<< >>)]
        PROVE  flatRet' = [flatRet EXCEPT ![t] = Nothing] /\ flatRet[t] = ret[t]
    <3>1. w # t
      BY <1>1
    <3> QED BY <1>2, <1>4, <2>2, <3>1
  <2> QED BY <1>2, <1>3, <2>1, <2>2, ViewUndisturbed
<1> QED BY <1>2, <1>5, <1>6 DEF Flat!Return, Flat!Nothing, Nothing

\* An exception is the refusal of the flat memory.
LEMMA OutOfBoundsMaps == ASSUME IInv, IInv', NEW t \in Thread, OutOfBounds(t) PROVE Flat!Refuse(t)
<1>1. /\ t \in MemoryAccessMutex /\ ~InRange(call[t].address, call[t].size)
      /\ call[t] # Nothing /\ ret[t] = Nothing
      /\ Unlocked(t, Illegal) /\ UNCHANGED <<Memory, call>>
  BY DEF OutOfBounds, Inside
<1>2. \A u \in Thread : ~Writing(u)
  BY <1>1 DEF Writing, Accepted, Inside, IInv, Locking
<1>3. \A u \in Thread : ~Writing(u)'
  <2>1. MemoryAccessMutex' = {}
    BY <1>1 DEF Unlocked, IInv, Locking
  <2> QED BY <2>1, WritersHold
<1>4. FlatView /\ FlatView'
  BY FlatViewHolds, PTL
<1>5. flatBytes = Plain /\ flatRet = ret /\ flatBytes' = Plain' /\ flatRet' = ret'
  BY <1>2, <1>3, <1>4 DEF FlatView
<1>6. Plain' = Plain
  BY <1>1 DEF Plain, ByteAt
<1>7. ~(call[t].address + call[t].size <= TotalMemory)
  BY <1>1, RangeCheck DEF IInv, TypeOK
<1>8. ret' = [ret EXCEPT ![t] = Illegal]
  BY <1>1 DEF Unlocked
<1> QED BY <1>1, <1>5, <1>6, <1>7, <1>8
        DEF Flat!Refuse, Flat!Pending, Flat!Inside, Flat!Nothing, Flat!Illegal, Nothing, Illegal

\* Taking the mutex is invisible.
LEMMA LockMaps == ASSUME IInv, IInv', NEW t \in Thread, Lock(t) PROVE UNCHANGED <<flatBytes, call, flatRet>>
<1>1. MemoryAccessMutex = {} /\ MemoryAccessMutex' = {t} /\ UNCHANGED <<Memory, call, ret, done, dest>>
  BY DEF Lock
<1>2. \A u \in Thread : ~Writing(u)
  BY <1>1, WritersHold
<1>3. \A u \in Thread : ~Writing(u)'
  <2>1. done'[t] = 0
    BY <1>1 DEF IInv, Locking
  <2> QED BY <1>1, <2>1 DEF Writing, Accepted, Inside
<1>4. FlatView /\ FlatView'
  BY FlatViewHolds, PTL
<1>5. Plain' = Plain
  BY <1>1 DEF Plain, ByteAt
<1> QED BY <1>1, <1>2, <1>3, <1>4, <1>5 DEF FlatView

\* The first copy of a write is the whole write of the flat memory; the copies
\* after it, and those of a reader, are invisible.
LEMMA CopyMaps ==
    ASSUME IInv, IInv', NEW t \in Thread, CopyChunk(t)
    PROVE  Flat!ServeWrite(t) \/ UNCHANGED <<flatBytes, call, flatRet>>
<1>1. /\ Accepted(t) /\ UNCHANGED <<call, ret, MemoryAccessMutex>>
      /\ done \in [Thread -> Nat] /\ done' = [done EXCEPT ![t] = @ + 1]
  BY DEF CopyChunk, IInv, TypeOK
<1>2. /\ t \in MemoryAccessMutex /\ call[t].op \in {"read", "write"} /\ call[t] # Nothing /\ ret[t] = Nothing
      /\ call[t].address + call[t].size <= TotalMemory
  BY <1>1, AcceptedCall DEF IInv, Locking
<1>3. FlatView /\ FlatView'
  BY FlatViewHolds, PTL
<1>4. \A u \in Thread : u # t => ~Writing(u) /\ ~Writing(u)'
  BY <1>1, <1>2, WritersHold DEF IInv, Locking
<1>5. CASE call[t].op = "read"
  <2>1. \A u \in Thread : ~Writing(u) /\ ~Writing(u)'
    BY <1>1, <1>4, <1>5, WritersHold
  <2>2. UNCHANGED Memory
    BY <1>5 DEF CopyChunk
  <2>3. Plain' = Plain
    BY <2>2 DEF Plain, ByteAt
  <2> QED BY <1>1, <1>3, <2>1, <2>3 DEF FlatView
<1>6. CASE call[t].op = "write"
  <2>1. Seen(t)' = Seen(t)
    BY <1>6, SeenSteady
  <2>2. Writing(t)'
    <3>1. done'[t] > 0
      BY <1>1
    <3> QED BY <1>1, <1>6, <3>1 DEF Writing, Accepted, Inside
  <2>3. flatBytes' = Seen(t) /\ flatRet' = [ret EXCEPT ![t] = Success(<< >>)]
    BY <1>1, <1>3, <2>1, <2>2 DEF FlatView
  <2>4. CASE done[t] > 0
    <3>1. Writing(t)
      BY <1>1, <1>6, <2>4 DEF Writing
    <3> QED BY <1>1, <1>3, <2>3, <3>1 DEF FlatView
  <2>5. CASE done[t] = 0
    <3>1. \A u \in Thread : ~Writing(u)
      <4>1. ~Writing(t)
        BY <2>5 DEF Writing
      <4> QED BY <1>4, <4>1
    <3>2. flatBytes = Plain /\ flatRet = ret
      BY <1>3, <3>1 DEF FlatView
    <3>3. Seen(t) = Flat!Overwrite(flatBytes, call[t].address, call[t].data)
      BY <1>1, <1>6, <2>5, <3>2, SeenAtFirst
    <3>4. Flat!ServeWrite(t)
      BY <1>1, <1>2, <1>6, <2>3, <3>2, <3>3
      DEF Flat!ServeWrite, Flat!Pending, Flat!Inside, Flat!Nothing, Flat!Success, Nothing, Success
    <3> QED BY <3>4
  <2> QED BY <1>1, <2>4, <2>5
<1> QED BY <1>2, <1>5, <1>6

\* A reader that has copied its last chunk holds the bytes of its access.
LEMMA ReadComplete ==
    ASSUME IInv, NEW t \in Thread, Accepted(t), call[t].op = "read",
           done[t] = Len(ChunksOf(call[t]))
    PROVE  dest[t] = Flat!Slice(Plain, call[t].address, call[t].size)
<1> DEFINE a == call[t].address
           n == call[t].size
           s == Chunks(a, n)
<1>1. /\ a \in Nat /\ n \in Nat /\ a + n <= TotalMemory /\ t \in MemoryAccessMutex /\ TotalMemory \in Nat
      /\ Len(s) \in Nat \ {0} /\ done[t] = Len(s) /\ s = ChunksOf(call[t])
  BY AcceptedCall, Constants DEF IInv, ChunksOf
<1>2. Copied(t) = n
  <2>1. Copied(t) = s[Len(s)].from + s[Len(s)].count
    BY <1>1 DEF Copied
  <2>2. Len(s) \in 1 .. Len(s)
    BY <1>1
  <2>3. \A k \in 1 .. Len(s) : ChunkFollows(a, n, k, Len(s), s[k])
    BY <1>1, SplitRight
  <2> HIDE DEF s, a, n
  <2>4. ChunkFollows(a, n, Len(s), Len(s), s[Len(s)])
    BY <2>2, <2>3
  <2> QED BY <2>1, <2>4 DEF ChunkFollows
<1>3. dest[t] = [i \in 1 .. n |-> ByteAt(Memory, a + i - 1)]
  BY <1>1, <1>2 DEF IInv, Progress, Span
<1> HIDE DEF a, n
<1>4. \A i \in 1 .. n : a + i - 1 \in 0 .. (TotalMemory - 1)
  BY <1>1
<1>5. \A i \in 1 .. n : Plain[a + i - 1] = ByteAt(Memory, a + i - 1)
  BY <1>4 DEF Plain
<1>6. Flat!Slice(Plain, a, n) = [i \in 1 .. n |-> ByteAt(Memory, a + i - 1)]
  BY <1>5 DEF Flat!Slice
<1> QED BY <1>3, <1>6 DEF a, n

\* The end of a read is the read of the flat memory; the end of a write has
\* been visible since its first copy.
LEMMA FinishMaps ==
    ASSUME IInv, IInv', NEW t \in Thread, Finish(t)
    PROVE  Flat!ServeRead(t) \/ UNCHANGED <<flatBytes, call, flatRet>>
<1>1. /\ Accepted(t) /\ done[t] = Len(ChunksOf(call[t])) /\ UNCHANGED <<Memory, call>>
      /\ Unlocked(t, Success(dest[t])) /\ ret' = [ret EXCEPT ![t] = Success(dest[t])]
  BY DEF Finish, Unlocked
<1>2. /\ t \in MemoryAccessMutex /\ call[t].op \in {"read", "write"} /\ call[t] # Nothing /\ ret[t] = Nothing
      /\ call[t].address + call[t].size <= TotalMemory /\ Len(ChunksOf(call[t])) \in Nat \ {0}
  BY <1>1, AcceptedCall DEF IInv, Locking
<1>3. FlatView /\ FlatView'
  BY FlatViewHolds, PTL
<1>4. \A u \in Thread : ~Writing(u)'
  <2>1. MemoryAccessMutex' = {}
    BY <1>1, <1>2 DEF Unlocked, IInv, Locking
  <2> QED BY <2>1, WritersHold
<1>5. flatBytes' = Plain /\ flatRet' = ret'
  <2>1. Plain' = Plain
    BY <1>1 DEF Plain, ByteAt
  <2> QED BY <1>3, <1>4, <2>1 DEF FlatView
<1>6. CASE call[t].op = "read"
  <2>1. \A u \in Thread : ~Writing(u)
    BY <1>2, <1>6, WritersHold DEF IInv, Locking
  <2>2. flatBytes = Plain /\ flatRet = ret
    BY <1>3, <2>1 DEF FlatView
  <2>3. dest[t] = Flat!Slice(flatBytes, call[t].address, call[t].size)
    BY <1>1, <1>6, <2>2, ReadComplete
  <2>4. Flat!ServeRead(t)
    BY <1>1, <1>2, <1>5, <1>6, <2>2, <2>3
    DEF Flat!ServeRead, Flat!Pending, Flat!Inside, Flat!Nothing, Flat!Success, Nothing, Success
  <2> QED BY <2>4
<1>7. CASE call[t].op = "write"
  <2>1. Writing(t)
    BY <1>1, <1>2, <1>7 DEF Writing
  <2>2. flatBytes = Seen(t) /\ flatRet = [ret EXCEPT ![t] = Success(<< >>)]
    BY <1>3, <2>1 DEF FlatView
  <2>3. Seen(t) = Plain
    BY <1>1, SeenAtLast
  <2>4. dest[t] = << >>
    BY <1>2, <1>7 DEF IInv, Progress
  <2> QED BY <1>1, <1>5, <2>2, <2>3, <2>4
<1> QED BY <1>2, <1>6, <1>7

\* The initial memory, and every step.
LEMMA InitMaps == Init => Flat!Init
<1> SUFFICES ASSUME Init PROVE Flat!Init
  OBVIOUS
<1>1. \A u \in Thread : ~Writing(u)
  BY DEF Init, Writing, Accepted, Inside
<1>2. flatBytes = Plain /\ flatRet = ret
  BY <1>1, InitIInv, FlatViewHolds DEF FlatView
<1>3. ASSUME NEW b \in 0 .. (TotalMemory - 1) PROVE ByteAt(Memory, b) = ZeroByte
  BY AddressOnPage DEF Init, ByteAt
<1>4. Plain = [b \in 0 .. (TotalMemory - 1) |-> ZeroByte]
  BY <1>3 DEF Plain
<1> QED BY <1>2, <1>4 DEF Init, Flat!Init, Flat!Nothing, Nothing

\* One step of the paged memory is a step of the flat one, or none.
LEMMA NextMaps == ASSUME IInv, IInv', [Next]_vars PROVE FlatStep
<1>1. CASE UNCHANGED vars
  <2>1. UNCHANGED <<Memory, call, ret, MemoryAccessMutex, done>>
    BY <1>1 DEF vars
  <2>2. UNCHANGED <<flatBytes, flatRet>>
    BY <2>1, ViewUndisturbed
  <2> QED BY <2>1, <2>2 DEF FlatStep
<1>2. CASE Next
  <2>1. PICK t \in Thread :
          Invoke(t) \/ Lock(t) \/ OutOfBounds(t) \/ CopyChunk(t) \/ Finish(t) \/ Return(t)
    BY <1>2 DEF Next
  <2>2. \/ Flat!Invoke(t) \/ Flat!Refuse(t) \/ Flat!ServeRead(t) \/ Flat!ServeWrite(t) \/ Flat!Return(t)
        \/ UNCHANGED <<flatBytes, call, flatRet>>
    BY <2>1, InvokeMaps, LockMaps, OutOfBoundsMaps, CopyMaps, FinishMaps, ReturnMaps
  <2> QED BY <2>2 DEF FlatStep, Flat!Next
<1> QED BY <1>1, <1>2

(***************************************************************************)
(* The paged memory implements the flat one: whatever the page size and    *)
(* the number of threads, read_memory and write_memory behave as one step  *)
(* each on an array of bytes, so that no reader sees half a write.         *)
(***************************************************************************)
THEOREM Refinement == Spec => ImplementsFlatMemory
<1>1. IInv /\ IInv' /\ [Next]_vars => [Flat!Next]_<<flatBytes, call, flatRet>>
  BY NextMaps DEF FlatStep
<1> QED BY <1>1, InitMaps, Invariance, PTL DEF Spec, ImplementsFlatMemory, Flat!Spec
=============================================================================
