-------------------------------- MODULE Mem --------------------------------
(***************************************************************************)
(* The kernel heap of kernel/mem.c: blocks with a header in front, a free  *)
(* list sorted by address, splitting, coalescing, the memory map, the      *)
(* permission table and the usage counters.                                *)
(*                                                                         *)
(* Addresses and sizes count units of 8 bytes, so the header mem_block_t   *)
(* takes 5 and FLUX_MEM_ALIGN is 2.  A header exists in the model exactly  *)
(* while its magic number is in memory: clearing the magic number, or      *)
(* zeroing the memory it is in, removes it.  Callers write only into what  *)
(* they were given and so make no headers.  The free list is the sequence  *)
(* that the next pointers describe.                                        *)
(*                                                                         *)
(* Every operation holds the memory lock and is one step.  flux_realloc    *)
(* gives the lock up between its allocation and its free: it is two steps  *)
(* of the thread that calls it.                                            *)
(***************************************************************************)
EXTENDS Integers, Sequences, SequencesExt, FiniteSets

CONSTANTS HeapSize,   \* FLUX_HEAP_SIZE
          Header,     \* sizeof(mem_block_t)
          Align,      \* FLUX_MEM_ALIGN
          MapMax,     \* FLUX_MEM_MAX_MAP_ENTRIES
          PermMax,    \* FLUX_MEM_MAX_PERMISSIONS
          MemThreads, \* the threads that call the memory manager
          Requests,   \* the sizes they ask for
          Null,
          RWX, Perms, \* the default permissions, and those asked for
          MaxAllocs   \* bound on s_alloc_count

ASSUME HeapAssumption ==
    /\ Header \in Nat \ {0}
    /\ Align \in Nat \ {0}
    /\ HeapSize \in Nat
    /\ HeapSize > Header
ASSUME TableAssumption == MapMax \in Nat \ {0} /\ PermMax \in Nat
ASSUME RequestAssumption == Requests \subseteq Nat \ {0}
ASSUME MemAllocsAssumption == MaxAllocs \in Nat

VARIABLES heap,      \* the headers, by address: [used, size]
          freeList,  \* s_free_list, the addresses in list order
          memMap,    \* s_mem_map: [base, perms], or Null when not active
          perms,     \* s_perm_table up to s_perm_count
          usedHeap,  \* s_used_heap; s_free_heap is HeapSize - usedHeap
          allocs,    \* s_alloc_count
          frees,     \* s_free_count
          moving     \* per thread: the flux_realloc under way, or Null

memVars == <<heap, freeList, memMap, perms, usedHeap, allocs, frees, moving>>

MapIdx == 0 .. MapMax - 1

\* mem_align_up.
AlignUp(n) == ((n + Align - 1) \div Align) * Align

PtrOf(b) == b + Header
BlockOf(p) == p - Header
EndOf(b) == b + Header + heap[b].size
Used == {b \in DOMAIN heap : heap[b].used}

\* What flux_free and flux_realloc check before they touch a block.
IsAllocated(p) == BlockOf(p) \in Used

----------------------------------------------------------------------------
(* The free list *)

\* mem_find_free_block: of the blocks that are large enough the smallest, and
\* of those the first in the list.
Fitting(need) == {i \in DOMAIN freeList : heap[freeList[i]].size >= need}

BestFit(need) ==
    CHOOSE i \in Fitting(need) :
        \A j \in Fitting(need) :
            \/ heap[freeList[i]].size < heap[freeList[j]].size
            \/ heap[freeList[i]].size = heap[freeList[j]].size /\ i <= j

\* mem_add_to_free_list: in front of the first block that is not before b.
WithFree(list, b) ==
    LET places == {i \in 1 .. Len(list) + 1 : i > Len(list) \/ list[i] >= b}
    IN  InsertAt(list, CHOOSE i \in places : \A j \in places : i <= j, b)

\* Where mem_coalesce finds the next block of the list right behind a block.
Touching(h, list) ==
    {i \in 1 .. Len(list) - 1 : list[i] + Header + h[list[i]].size = list[i + 1]}

\* One scan of mem_coalesce: the first block that touches the next one takes
\* it in, header and all, and the scan ends.
Scanned(m) ==
    LET pairs == Touching(m.heap, m.list)
        i == CHOOSE k \in pairs : \A l \in pairs : k <= l
        b == m.list[i]
        c == m.list[i + 1]
    IN  IF pairs = {} THEN m
        ELSE [heap |-> [x \in DOMAIN m.heap \ {c} |->
                           IF x = b
                           THEN [used |-> FALSE,
                                 size |-> m.heap[b].size + Header + m.heap[c].size]
                           ELSE m.heap[x]],
              list |-> RemoveAt(m.list, i + 1)]

\* Variant: only one neighbour of a freed block is merged.
CoalescedOnce(m) == Scanned(m)

\* mem_coalesce scans until no two blocks touch.  The list was merged before
\* one block was added to it, which touches at most the block before and the
\* block after: two scans are enough, and FreeListed says that they were.
Coalesced(m) == Scanned(Scanned(m))

----------------------------------------------------------------------------
(* The memory map *)

\* mem_map_add: the first entry not in use; a full table is left as it is.
MapAdd(p) ==
    LET unused == {i \in MapIdx : memMap[i] = Null}
    IN  IF unused = {} THEN memMap
        ELSE [memMap EXCEPT ![CHOOSE i \in unused : \A j \in unused : i <= j] =
                 [base |-> p, perms |-> RWX]]

\* Variant: the entry of a freed block stays.
MapRemoveNever(p) == memMap

\* mem_map_remove.
MapRemove(p) ==
    LET mine == {i \in MapIdx : memMap[i] # Null /\ memMap[i].base = p}
    IN  IF mine = {} THEN memMap
        ELSE [memMap EXCEPT ![CHOOSE i \in mine : \A j \in mine : i <= j] = Null]

----------------------------------------------------------------------------
(* The operations *)

\* flux_mem_init.
MemInit ==
    /\ heap = [b \in {0} |-> [used |-> FALSE, size |-> HeapSize - Header]]
    /\ freeList = <<0>>
    /\ memMap = [i \in MapIdx |->
                    IF i = 0 THEN [base |-> 0, perms |-> RWX] ELSE Null]
    /\ perms = << >>
    /\ usedHeap = 0 /\ allocs = 0 /\ frees = 0
    /\ moving = [t \in MemThreads |-> Null]

\* mem_split_block: the remainder has to hold a header and something to use.
Splits(b, need) == heap[b].size - need >= Header + Align

Remainder(b, need) == heap[b].size - need - Header

\* Takes the best block for an aligned size from the list, splits it and
\* marks it used: flux_alloc once it has found a block.
Take(need) ==
    LET i == BestFit(need)
        b == freeList[i]
        rest == RemoveAt(freeList, i)
        new == b + Header + need
    IN  /\ IF Splits(b, need)
           THEN /\ heap' = [x \in DOMAIN heap \cup {b, new} |->
                               IF x = b THEN [used |-> TRUE, size |-> need]
                               ELSE IF x = new
                               THEN [used |-> FALSE, size |-> Remainder(b, need)]
                               ELSE heap[x]]
                /\ freeList' = WithFree(rest, new)
           ELSE /\ heap' = [heap EXCEPT ![b].used = TRUE]
                /\ freeList' = rest
        /\ usedHeap' = usedHeap + Header + need
        /\ allocs' = allocs + 1
        /\ memMap' = MapAdd(PtrOf(b))
        /\ UNCHANGED <<perms, frees>>

Idle(t) == moving[t] = Null

\* Whether somebody can call: which thread does makes no difference.
SomeIdle == \E t \in MemThreads : Idle(t)

\* flux_alloc, and flux_realloc of NULL.  Without a block that fits it
\* returns NULL and counts a failure.
Alloc(n) ==
    /\ SomeIdle
    /\ allocs < MaxAllocs
    /\ Fitting(AlignUp(n)) # {}
    /\ Take(AlignUp(n))
    /\ UNCHANGED moving

\* Variant: a block that is free already is accepted.
MayFreeTwice(p) == BlockOf(p) \in DOMAIN heap

\* The magic number and the USED flag, as flux_free checks them.
MayFree(p) == IsAllocated(p)

\* What flux_free takes from s_used_heap.
Extent(b) == Header + heap[b].size

\* flux_free of a pointer that passes its checks.
Release(p) ==
    LET b == BlockOf(p)
        m == Coalesced([heap |-> [heap EXCEPT ![b].used = FALSE],
                        list |-> WithFree(freeList, b)])
    IN  /\ MayFree(p)
        /\ memMap' = MapRemove(p)
        /\ usedHeap' = usedHeap - Extent(b)
        /\ frees' = frees + 1
        /\ heap' = m.heap
        /\ freeList' = m.list
        /\ UNCHANGED <<perms, allocs>>

\* flux_free, and flux_realloc to size 0.  Any address may come in: pointers
\* freed before, or freed and handed out again.
Free(p) ==
    /\ SomeIdle
    /\ Release(p)
    /\ UNCHANGED moving

\* flux_realloc that needs a larger block: its call of flux_alloc.  The
\* checks are made without the lock.
ReallocTake(t, p, n) ==
    /\ Idle(t)
    /\ IsAllocated(p)
    /\ heap[BlockOf(p)].size < AlignUp(n)
    /\ allocs < MaxAllocs
    /\ Fitting(AlignUp(n)) # {}
    /\ Take(AlignUp(n))
    /\ moving' = [moving EXCEPT ![t] = p]

\* The rest of it: the copy, and flux_free of the old block, which does
\* nothing when somebody freed that meanwhile.
ReallocDone(t) ==
    /\ ~Idle(t)
    /\ moving' = [moving EXCEPT ![t] = Null]
    /\ IF MayFree(moving[t])
       THEN Release(moving[t])
       ELSE UNCHANGED <<heap, freeList, memMap, perms, usedHeap, allocs, frees>>

\* flux_mem_protect: the entry of exactly this range, or a new one; then the
\* entry of the memory map.
Protect(p, n, perm) ==
    LET mine == {i \in DOMAIN perms : perms[i].base = p /\ perms[i].size = n}
        entry == [base |-> p, size |-> n, perms |-> perm]
        mapped == {i \in MapIdx : memMap[i] # Null /\ memMap[i].base = p}
    IN  /\ SomeIdle
        /\ \/ /\ mine # {}
              /\ perms' = [i \in DOMAIN perms |->
                              IF i \in mine THEN entry ELSE perms[i]]
           \/ /\ mine = {} /\ Len(perms) < PermMax
              /\ perms' = Append(perms, entry)
        /\ memMap' = [i \in MapIdx |->
                         IF i \in mapped THEN [memMap[i] EXCEPT !.perms = perm]
                         ELSE memMap[i]]
        /\ UNCHANGED <<heap, freeList, usedHeap, allocs, frees, moving>>

\* flux_mem_check.
MemCheck(p, n) ==
    /\ p \in 0 .. HeapSize - 1
    /\ p + n <= HeapSize
    /\ IsAllocated(p)
    /\ heap[BlockOf(p)].size >= n

MemNext ==
    \/ \E n \in Requests : Alloc(n)
    \/ \E p \in Header .. HeapSize : Free(p)
    \/ \E t \in MemThreads, p \in Header .. HeapSize, n \in Requests :
           ReallocTake(t, p, n)
    \/ \E t \in MemThreads : ReallocDone(t)
    \/ \E b \in Used, perm \in Perms : Protect(PtrOf(b), heap[b].size, perm)

MemSpec == MemInit /\ [][MemNext]_memVars
=============================================================================
