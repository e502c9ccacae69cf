---------------------------- MODULE PagedMemory -----------------------------
(***************************************************************************)
(* SysdarftCPUMemoryAccess (cpu/SysdarftMemory.cpp): the memory as a       *)
(* vector of pages, each call copied page by page under MemoryAccessMutex. *)
(* It implements FlatMemory.                                               *)
(*                                                                         *)
(* BLOCK_SIZE is 4096 and addresses have 64 bits in the program; both are  *)
(* constants here so that small instances have page boundaries and         *)
(* additions that wrap.                                                    *)
(***************************************************************************)
EXTENDS Integers, Sequences

CONSTANTS
    Thread, Byte, ZeroByte, Requests,
    BLOCK_SIZE,
    TotalMemory,   \* a multiple of BLOCK_SIZE: main() takes it in MB
    Word           \* 2^64: what uint64_t additions wrap at

VARIABLES
    Memory,              \* page number -> offset -> byte
    call,                \* call[t]: what t asked for, or Nothing
    ret,                 \* ret[t]: what t is told, or Nothing
    MemoryAccessMutex,   \* the threads inside the scope of its lock_guard
    done,                \* done[t]: how many chunks of its call t has copied
    dest                 \* dest[t]: the bytes t has read into _dest so far

vars == <<Memory, call, ret, MemoryAccessMutex, done, dest>>

NumBlocks == TotalMemory \div BLOCK_SIZE

ASSUME PagedMemoryAssumption ==
    /\ BLOCK_SIZE \in Nat \ {0}
    /\ TotalMemory \in Nat \ {0}
    /\ TotalMemory % BLOCK_SIZE = 0
    /\ Word \in Nat
    /\ ZeroByte \in Byte
    /\ \A t \in Thread : \A r \in Requests[t] :
          /\ r.op \in {"read", "write"}
          /\ r.address \in Nat /\ r.address < Word
          /\ r.size \in Nat /\ r.size < Word - TotalMemory
          /\ r.op = "write" => r.data \in [1 .. r.size -> Byte]

Nothing == [op |-> "none"]
Illegal    == [op |-> "illegal", data |-> << >>]
Success(d) == [op |-> "success", data |-> d]

\* Mutant: only the end of the access is compared.
InRange_EndOnly(a, n) == (a + n) % Word <= TotalMemory

\* The basic range check, negated.
InRange(a, n) == ~(a > TotalMemory \/ (a + n) % Word > TotalMemory)

Chunk(p, o, f, n) == [page |-> p, offset |-> o, from |-> f, count |-> n]

\* Mutant: the bytes on the last page are left out.
Chunks_NoLast(a, n) ==
    LET page_address == a \div BLOCK_SIZE
        page_offset  == a % BLOCK_SIZE
        leftover_on_first_page == BLOCK_SIZE - page_offset
        full_pages == (n - leftover_on_first_page) \div BLOCK_SIZE
    IN IF n <= leftover_on_first_page
       THEN << Chunk(page_address, page_offset, 0, n) >>
       ELSE << Chunk(page_address, page_offset, 0, leftover_on_first_page) >>
            \o [i \in 1 .. full_pages |->
                  Chunk(page_address + i, 0,
                        leftover_on_first_page + (i - 1) * BLOCK_SIZE, BLOCK_SIZE)]

(***************************************************************************)
(* The copies of one call, in order: the end of the first page, the full   *)
(* pages, and what is left on the last one.  read_memory and write_memory  *)
(* split an access the same way.  "from" is current_offset.                *)
(***************************************************************************)
Chunks(a, n) ==
    LET page_address == a \div BLOCK_SIZE
        page_offset  == a % BLOCK_SIZE
        leftover_on_first_page == BLOCK_SIZE - page_offset
        rest_size  == n - leftover_on_first_page
        full_pages == rest_size \div BLOCK_SIZE
        leftover_on_last_page == rest_size % BLOCK_SIZE
        after == leftover_on_first_page + full_pages * BLOCK_SIZE
    IN IF n <= leftover_on_first_page
       THEN << Chunk(page_address, page_offset, 0, n) >>
       ELSE << Chunk(page_address, page_offset, 0, leftover_on_first_page) >>
            \o [i \in 1 .. full_pages |->
                  Chunk(page_address + i, 0,
                        leftover_on_first_page + (i - 1) * BLOCK_SIZE, BLOCK_SIZE)]
            \o IF leftover_on_last_page > 0
               THEN << Chunk(page_address + full_pages + 1, 0, after, leftover_on_last_page) >>
               ELSE << >>

ChunksOf(r) == Chunks(r.address, r.size)

\* copy_n: bytes from the source into one page.
CopyN(block, c, src) ==
    [o \in 0 .. (BLOCK_SIZE - 1) |->
        IF o \in c.offset .. (c.offset + c.count - 1)
        THEN src[c.from + (o - c.offset) + 1]
        ELSE block[o]]

\* One memcpy of read_memory.
BytesOf(block, c) == [i \in 1 .. c.count |-> block[c.offset + i - 1]]

-----------------------------------------------------------------------------
Init ==
    /\ Memory = [p \in 0 .. (NumBlocks - 1) |-> [o \in 0 .. (BLOCK_SIZE - 1) |-> ZeroByte]]
    /\ call = [t \in Thread |-> Nothing]
    /\ ret = [t \in Thread |-> Nothing]
    /\ MemoryAccessMutex = {}
    /\ done = [t \in Thread |-> 0]
    /\ dest = [t \in Thread |-> << >>]

Invoke(t) ==
    /\ call[t] = Nothing
    /\ \E r \in Requests[t] : call' = [call EXCEPT ![t] = r]
    /\ UNCHANGED <<Memory, ret, MemoryAccessMutex, done, dest>>

Waiting(t) == call[t] # Nothing /\ ret[t] = Nothing /\ t \notin MemoryAccessMutex

\* The lock_guard of either function.
Lock(t) ==
    /\ Waiting(t)
    /\ MemoryAccessMutex = {}
    /\ MemoryAccessMutex' = MemoryAccessMutex \cup {t}
    /\ UNCHANGED <<Memory, call, ret, done, dest>>

\* Mutant: an exception leaves the mutex locked.
Unlocked_NotByException(t, answer) ==
    /\ MemoryAccessMutex' =
          IF answer = Illegal THEN MemoryAccessMutex ELSE MemoryAccessMutex \ {t}
    /\ ret' = [ret EXCEPT ![t] = answer]
    /\ done' = [done EXCEPT ![t] = 0]
    /\ dest' = [dest EXCEPT ![t] = << >>]

\* The end of the scope of lock_guard, normal or by exception.
Unlocked(t, answer) ==
    /\ MemoryAccessMutex' = MemoryAccessMutex \ {t}
    /\ ret' = [ret EXCEPT ![t] = answer]
    /\ done' = [done EXCEPT ![t] = 0]
    /\ dest' = [dest EXCEPT ![t] = << >>]

\* t is inside the scope of its lock_guard.
Inside(t) == call[t] # Nothing /\ ret[t] = Nothing /\ t \in MemoryAccessMutex

\* t passed the range check.
Accepted(t) == Inside(t) /\ InRange(call[t].address, call[t].size)

OutOfBounds(t) ==
    /\ Inside(t) /\ ~InRange(call[t].address, call[t].size)
    /\ Unlocked(t, Illegal)
    /\ UNCHANGED <<Memory, call>>

\* One copy_n of write_memory, or one memcpy of read_memory.
CopyChunk(t) ==
    /\ Accepted(t) /\ done[t] < Len(ChunksOf(call[t]))
    /\ LET c == ChunksOf(call[t])[done[t] + 1] IN
       \/ /\ call[t].op = "write" /\ c.count > 0
          /\ Memory' = [Memory EXCEPT ![c.page] = CopyN(@, c, call[t].data)]
          /\ UNCHANGED dest
       \/ /\ call[t].op = "read" /\ c.count > 0
          /\ dest' = [dest EXCEPT ![t] = @ \o BytesOf(Memory[c.page], c)]
          /\ UNCHANGED Memory
       \/ c.count = 0 /\ UNCHANGED <<Memory, dest>>
    /\ done' = [done EXCEPT ![t] = @ + 1]
    /\ UNCHANGED <<call, ret, MemoryAccessMutex>>

Finish(t) ==
    /\ Accepted(t) /\ done[t] = Len(ChunksOf(call[t]))
    /\ Unlocked(t, Success(dest[t]))
    /\ UNCHANGED <<Memory, call>>

Return(t) ==
    /\ call[t] # Nothing /\ ret[t] # Nothing
    /\ call' = [call EXCEPT ![t] = Nothing]
    /\ ret' = [ret EXCEPT ![t] = Nothing]
    /\ UNCHANGED <<Memory, MemoryAccessMutex, done, dest>>

Next ==
    \E t \in Thread :
        Invoke(t) \/ Lock(t) \/ OutOfBounds(t) \/ CopyChunk(t) \/ Finish(t) \/ Return(t)

Spec == Init /\ [][Next]_vars

\* Threads that are inside a call are scheduled; std::mutex lets everyone in
\* because no holder keeps it and callers pause between calls.
FairSpec ==
    /\ Spec
    /\ \A t \in Thread :
          /\ SF_vars(Lock(t))
          /\ WF_vars(OutOfBounds(t) \/ CopyChunk(t) \/ Finish(t) \/ Return(t))

-----------------------------------------------------------------------------
\* Every byte that an accepted call copies lies on an existing page, inside
\* the page, and inside the caller's buffer: address + size may wrap, the
\* split may end on a page boundary, and the last page has no page after it.
CopiesInside ==
    \A t \in Thread : Accepted(t) =>
        \A k \in 1 .. Len(ChunksOf(call[t])) :
            LET c == ChunksOf(call[t])[k] IN
            c.count > 0 =>
                /\ c.page \in 0 .. (NumBlocks - 1)
                /\ c.offset + c.count <= BLOCK_SIZE
                /\ c.from + c.count <= call[t].size

\* Every call is answered: no exception leaves the mutex locked.
CallsReturn == \A t \in Thread : call[t] # Nothing ~> call[t] = Nothing

-----------------------------------------------------------------------------
(* The refinement: a write takes effect when its first chunk is copied.    *)

\* A writer that has begun: what is not copied yet counts as written.
Writing(t) == Accepted(t) /\ done[t] > 0 /\ call[t].op = "write"

\* The bytes at address a that t has still to write.
StillToCopy(t, a) ==
    \E k \in (done[t] + 1) .. Len(ChunksOf(call[t])) :
        LET c == ChunksOf(call[t])[k] IN
        a - call[t].address \in c.from .. (c.from + c.count - 1)

flatBytes ==
    [a \in 0 .. (TotalMemory - 1) |->
        IF \E t \in Thread : Writing(t) /\ StillToCopy(t, a)
        THEN LET w == CHOOSE t \in Thread : Writing(t) /\ StillToCopy(t, a)
             IN call[w].data[a - call[w].address + 1]
        ELSE Memory[a \div BLOCK_SIZE][a % BLOCK_SIZE]]

flatRet == [t \in Thread |-> IF Writing(t) THEN Success(<< >>) ELSE ret[t]]

Flat == INSTANCE FlatMemory WITH bytes <- flatBytes, ret <- flatRet

\* Concurrent calls behave as if each were one step on a flat array: a reader
\* never sees half a write, and the page split moves every byte to its place.
ImplementsFlatMemory == Flat!Spec
=============================================================================
