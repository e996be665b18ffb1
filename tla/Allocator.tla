------------------------------ MODULE Allocator ------------------------------
(***************************************************************************)
(* What kernel/mem.c promises to the callers of flux_alloc, flux_realloc   *)
(* and flux_free: allocations inside the heap that never overlap, and a    *)
(* free that has an effect only on a pointer that is allocated.            *)
(***************************************************************************)
EXTENDS Integers

CONSTANTS HeapSize,  \* the size of the heap, which starts at address 0
          Header     \* what precedes every allocation and belongs to it

VARIABLE live        \* size of every allocation, by its address

\* The extents of two allocations, their headers included, do not meet.
Apart(p, n, q, m) == p + n <= q - Header \/ q + m <= p - Header

Init == live = << >>

Allocate(p, size) ==
    /\ size > 0
    /\ p >= Header /\ p + size <= HeapSize
    /\ \A q \in DOMAIN live : Apart(p, size, q, live[q])
    /\ live' = [q \in DOMAIN live \cup {p} |-> IF q = p THEN size ELSE live[q]]

Free(p) ==
    /\ p \in DOMAIN live
    /\ live' = [q \in DOMAIN live \ {p} |-> live[q]]

Next == \/ \E p \in DOMAIN live' : Allocate(p, live'[p])
        \/ \E p \in DOMAIN live : Free(p)

Spec == Init /\ [][Next]_live
==============================================================================
