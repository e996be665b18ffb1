--------------------------- MODULE MemProperties ---------------------------
(* What the kernel heap of Mem keeps, and that it is an Allocator. *)
EXTENDS Mem

\* The headers tile the heap: one at its start, each block ends where the next
\* one starts or at the end of the heap, and no header lies inside a block.
Tiled ==
    /\ 0 \in DOMAIN heap
    /\ \A b \in DOMAIN heap :
           /\ heap[b].size > 0
           /\ EndOf(b) \in DOMAIN heap \cup {HeapSize}
           /\ \A c \in DOMAIN heap : b < c => EndOf(b) <= c

\* The free list holds exactly the free blocks, in ascending order, and no two
\* of them touch.
FreeListed ==
    /\ {freeList[i] : i \in DOMAIN freeList} = DOMAIN heap \ Used
    /\ \A i \in 1 .. Len(freeList) - 1 : EndOf(freeList[i]) < freeList[i + 1]

\* No failure for fragmentation that merging could have undone: when
\* anywhere in the heap a stretch large enough for a header and the request
\* belongs to no allocation, mem_find_free_block finds a block.
NoSpaceLost ==
    \A n \in Requests :
        (\E a \in 0 .. HeapSize - Header - AlignUp(n) :
            \A b \in Used : \/ EndOf(b) <= a
                            \/ a + Header + AlignUp(n) <= b)
        => Fitting(AlignUp(n)) # {}

\* Whatever sequence of allocations, frees, double frees and reallocations
\* came before, splitting (mem_split_block) and merging (mem_coalesce) leave
\* the blocks a tiling of the heap and a free list that is sorted, complete and
\* merged as far as it goes, so that flux_alloc never fails while a large
\* enough stretch of the heap belongs to nobody.
HeapTiled == Tiled /\ FreeListed /\ NoSpaceLost

\* What the block at an address takes of the heap, if it is in use.
Claimed == [a \in 0 .. HeapSize - 1 |-> IF a \in Used THEN Header + heap[a].size ELSE 0]

Total(w) ==
    LET sum[a \in 0 .. HeapSize] == IF a = 0 THEN 0 ELSE sum[a - 1] + w[a - 1]
    IN  sum[HeapSize]

\* The books of mem.c agree with the blocks: each allocation was counted once
\* and each of them at most once as freed, however often it was freed; every
\* active entry of the memory map but the heap's own is an allocation, no
\* allocation has two, and none is missing unless the map is full or was; and
\* s_used_heap, which flux_alloc and flux_free compute from different sizes
\* (mem.c:493, 545), never claims more than the blocks in use take.
BooksBalance ==
    LET mapped == {i \in MapIdx : memMap[i] # Null}
    IN  /\ allocs - frees = Cardinality(Used)
        /\ \A i \in mapped : memMap[i].base # 0 => IsAllocated(memMap[i].base)
        /\ \A i, j \in mapped : memMap[i].base = memMap[j].base => i = j
        /\ Cardinality(Used) >= Cardinality(mapped) - 1
        /\ usedHeap <= Total(Claimed)

\* flux_alloc, flux_realloc and flux_free give out and take back memory as an
\* Allocator does: allocations never overlap each other or a header, and
\* freeing a pointer that is not allocated any more changes nothing.
Live == [p \in {PtrOf(b) : b \in Used} |-> heap[BlockOf(p)].size]

Promise == INSTANCE Allocator WITH live <- Live

Allocates == Promise!Spec
=============================================================================
