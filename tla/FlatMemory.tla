----------------------------- MODULE FlatMemory -----------------------------
(***************************************************************************)
(* What SysdarftCPUMemoryAccess promises its callers (the CPU thread, the  *)
(* display worker and the HTTP threads of the debug console): a flat array *)
(* of TotalMemory bytes, read and written in one indivisible step per      *)
(* call, and an exception for every call that is not wholly inside it.     *)
(***************************************************************************)
EXTENDS Integers, Sequences

CONSTANTS
    Thread,        \* the threads that call read_memory and write_memory
    ZeroByte,      \* what a fresh page holds
    TotalMemory,   \* bytes, as given to the constructor
    Requests       \* Requests[t]: the calls that thread t makes, records with
                   \* op ("read" or "write"), address, size and, to write, data

VARIABLES
    bytes,         \* the memory
    call,          \* call[t]: what t asked for, or Nothing
    ret            \* ret[t]: what t is told, or Nothing

Nothing == [op |-> "none"]

\* What a call tells its caller: an exception, or success with the bytes read.
Illegal     == [op |-> "illegal", data |-> << >>]
Success(d)  == [op |-> "success", data |-> d]

Inside(r) == r.address + r.size <= TotalMemory

Slice(m, a, n) == [i \in 1 .. n |-> m[a + i - 1]]

Overwrite(m, a, d) ==
    [x \in DOMAIN m |-> IF x \in a .. (a + Len(d) - 1) THEN d[x - a + 1] ELSE m[x]]

Init ==
    /\ bytes = [a \in 0 .. (TotalMemory - 1) |-> ZeroByte]
    /\ call = [t \in Thread |-> Nothing]
    /\ ret = [t \in Thread |-> Nothing]

Invoke(t) ==
    /\ call[t] = Nothing
    /\ \E r \in Requests[t] : call' = [call EXCEPT ![t] = r]
    /\ UNCHANGED <<bytes, ret>>

Pending(t) == call[t] # Nothing /\ ret[t] = Nothing

Refuse(t) ==
    /\ Pending(t) /\ ~Inside(call[t])
    /\ ret' = [ret EXCEPT ![t] = Illegal]
    /\ UNCHANGED <<bytes, call>>

ServeRead(t) ==
    /\ Pending(t) /\ call[t].op = "read" /\ Inside(call[t])
    /\ ret' = [ret EXCEPT ![t] = Success(Slice(bytes, call[t].address, call[t].size))]
    /\ UNCHANGED <<bytes, call>>

ServeWrite(t) ==
    /\ Pending(t) /\ call[t].op = "write" /\ Inside(call[t])
    /\ bytes' = Overwrite(bytes, call[t].address, call[t].data)
    /\ ret' = [ret EXCEPT ![t] = Success(<< >>)]
    /\ UNCHANGED call

Return(t) ==
    /\ call[t] # Nothing /\ ret[t] # Nothing
    /\ call' = [call EXCEPT ![t] = Nothing]
    /\ ret' = [ret EXCEPT ![t] = Nothing]
    /\ UNCHANGED bytes

Next ==
    \E t \in Thread : Invoke(t) \/ Refuse(t) \/ ServeRead(t) \/ ServeWrite(t) \/ Return(t)

Spec == Init /\ [][Next]_<<bytes, call, ret>>
=============================================================================
