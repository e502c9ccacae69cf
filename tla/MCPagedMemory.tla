--------------------------- MODULE MCPagedMemory ----------------------------
(* Three pages of two bytes, addresses of four bits; the CPU reads and      *)
(* writes everywhere, the display worker copies the video memory.          *)
EXTENDS PagedMemory

\* Alternating bytes, so that a byte copied to the wrong place shows.
Pattern(k, n) == [i \in 1 .. n |-> (k + i) % 2]

Sizes == {0, 1, 4, 6}

CpuRequests ==
    { [op |-> "read", address |-> a, size |-> n] : a \in {1, 6}, n \in Sizes }
    \cup { [op |-> "write", address |-> a, size |-> n, data |-> Pattern(k, n)] :
              a \in {0, 1, 2, 5, 6, 7, 15}, n \in Sizes, k \in {0, 1} }

WorkerRequests == { [op |-> "read", address |-> 1, size |-> 4] }

MCRequests == [t \in {"cpu", "worker"} |-> IF t = "cpu" THEN CpuRequests ELSE WorkerRequests]
=============================================================================
