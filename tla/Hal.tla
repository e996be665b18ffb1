---------------------------------- MODULE Hal ----------------------------------
(***************************************************************************)
(* The hosted hardware layer of hal/arch/native/hal_native.c: the bitmap   *)
(* of physical pages and the linked list of devices.                       *)
(*                                                                         *)
(* Addresses and sizes are counted in units of which PageSize make a page. *)
(* A driver holds at most one range of pages and gives back what it got.   *)
(* A device is its name; its init and deinit callbacks are left out.       *)
(* "holds" and "registered" are the callers' view and not in the code.     *)
(***************************************************************************)
EXTENDS Integers, Sequences, FiniteSets

CONSTANTS PageCount,   \* PHYS_PAGE_COUNT
          PageSize,    \* PHYS_PAGE_SIZE
          Drivers,     \* the callers of mem_alloc_phys
          Sizes,       \* the sizes they ask for
          DeviceNames, \* flux_device_t.name
          DeviceMax,   \* NATIVE_MAX_DEVICES
          NoNode       \* NULL, which is no node

ASSUME HalAssumption ==
    /\ PageCount \in Nat \ {0} /\ PageSize \in Nat \ {0}
    /\ Sizes \subseteq Nat \ {0}
    /\ DeviceMax \in Nat \ {0} /\ NoNode \notin 1 .. DeviceMax

VARIABLES usedPages,  \* s_phys_bitmap: the pages whose bit is set
          holds,      \* what each driver holds: an address and a size, or NoRange
          devHead,    \* s_device_list_head
          devTail,    \* s_device_list_tail
          devNodes,   \* the nodes that are allocated
          devNext,    \* native_device_node_t.next
          devName,    \* native_device_node_t.device.name
          devCount,   \* s_device_count
          registered  \* the names registered and not unregistered, oldest first

pageVars == <<usedPages, holds>>
devVars == <<devHead, devTail, devNodes, devNext, devName, devCount, registered>>
halVars == <<pageVars, devVars>>

----------------------------------------------------------------------------
(* Physical pages *)

PhysPages == 0 .. PageCount - 1

NoRange == [addr |-> 0, size |-> 0]

\* The pages a size takes.
PagesNeeded(size) == (size + PageSize - 1) \div PageSize

\* The pages of an address and a size.
PagesOf(range) ==
    {page \in PhysPages :
        /\ page >= range.addr \div PageSize
        /\ page < range.addr \div PageSize + PagesNeeded(range.size)}

\* Variant: the last page of a run is not looked at.
RunFreeButLast(first, n) ==
    \A page \in first .. first + n - 2 : page \in PhysPages \ usedPages

\* n pages from first on are free.
RunFree(first, n) ==
    \A page \in first .. first + n - 1 : page \in PhysPages \ usedPages

\* native_mem_alloc_phys: the first free run from page 1 on.
AllocPhys(d, size) ==
    /\ holds[d] = NoRange
    /\ \E first \in 1 .. PageCount - 1 :
        LET range == [addr |-> first * PageSize, size |-> size]
        IN  /\ RunFree(first, PagesNeeded(size))
            /\ \A before \in 1 .. first - 1 : ~RunFree(before, PagesNeeded(size))
            /\ usedPages' = usedPages \cup PagesOf(range)
            /\ holds' = [holds EXCEPT ![d] = range]
    /\ UNCHANGED devVars

\* native_mem_free_phys, with the address and the size of the allocation.
FreePhys(d) ==
    /\ holds[d] # NoRange
    /\ usedPages' = usedPages \ PagesOf(holds[d])
    /\ holds' = [holds EXCEPT ![d] = NoRange]
    /\ UNCHANGED devVars

----------------------------------------------------------------------------
(* The device list *)

Nodes == 1 .. DeviceMax

\* The k-th node from the head.
NodeAt[k \in 0 .. DeviceMax] ==
    IF k = 0 THEN devHead
    ELSE IF NodeAt[k - 1] = NoNode THEN NoNode ELSE devNext[NodeAt[k - 1]]

Named(k, name) == NodeAt[k] # NoNode /\ devName[NodeAt[k]] = name

\* native_device_find, and the search of native_device_unregister: k is the
\* place of the first node of that name.
FoundAt(k, name) == Named(k, name) /\ \A j \in 0 .. k - 1 : ~Named(j, name)
Found(name) == \E k \in 0 .. DeviceMax : Named(k, name)

\* native_device_register.
Register(name) ==
    /\ devCount < DeviceMax
    /\ \E node \in Nodes \ devNodes :
        /\ devNodes' = devNodes \cup {node}
        /\ devName' = [devName EXCEPT ![node] = name]
        /\ devNext' = IF devTail = NoNode
                      THEN [devNext EXCEPT ![node] = NoNode]
                      ELSE [devNext EXCEPT ![node] = NoNode, ![devTail] = node]
        /\ devHead' = IF devTail = NoNode THEN node ELSE devHead
        /\ devTail' = node
    /\ devCount' = devCount + 1
    /\ registered' = Append(registered, name)
    /\ UNCHANGED pageVars

\* Variant: the tail is not looked at.
TailAfterKept(node) == devTail

\* The tail once a node is unlinked: *pp, which is the node's successor.
TailAfter(node) == IF devTail = node THEN devNext[node] ELSE devTail

\* native_device_unregister.
Unregister(name) ==
    /\ \E k \in 0 .. DeviceMax :
        /\ FoundAt(k, name)
        /\ LET node == NodeAt[k]
           IN  /\ devHead' = IF k = 0 THEN devNext[node] ELSE devHead
               /\ devNext' = IF k = 0 THEN devNext
                             ELSE [devNext EXCEPT ![NodeAt[k - 1]] = devNext[node]]
               /\ devTail' = TailAfter(node)
               /\ devNodes' = devNodes \ {node}
    /\ devCount' = devCount - 1
    /\ \E i \in 1 .. Len(registered) :
        /\ registered[i] = name
        /\ \A j \in 1 .. i - 1 : registered[j] # name
        /\ registered' = SubSeq(registered, 1, i - 1)
                         \o SubSeq(registered, i + 1, Len(registered))
    /\ UNCHANGED <<devName, pageVars>>

----------------------------------------------------------------------------
\* native_vm_init has reserved page 0, no device is registered.
HalInit ==
    /\ usedPages = {0}
    /\ holds = [d \in Drivers |-> NoRange]
    /\ devHead = NoNode /\ devTail = NoNode
    /\ devNodes = {}
    /\ devNext = [node \in Nodes |-> NoNode]
    /\ devName = [node \in Nodes |-> NoNode]
    /\ devCount = 0
    /\ registered = << >>

PagesNext ==
    \/ \E d \in Drivers, size \in Sizes : AllocPhys(d, size)
    \/ \E d \in Drivers : FreePhys(d)

DevicesNext ==
    \/ \E name \in DeviceNames : Register(name)
    \/ \E name \in DeviceNames : Unregister(name)

HalNext == PagesNext \/ DevicesNext

HalSpec == HalInit /\ [][HalNext]_halVars

----------------------------------------------------------------------------
(* Properties *)

\* After any allocations and frees by several drivers no two of them hold the
\* same page, nobody holds page 0, and the bitmap marks exactly page 0 and the
\* pages held, so none leaks (native_mem_alloc_phys, native_mem_free_phys).
PagesApart ==
    /\ \A d, e \in Drivers : d # e => PagesOf(holds[d]) \cap PagesOf(holds[e]) = {}
    /\ usedPages = {0} \cup UNION {PagesOf(holds[d]) : d \in Drivers}
    /\ \A d \in Drivers : 0 \notin PagesOf(holds[d])

\* Whatever devices come and go, of the same or of other names, neither a walk
\* from the head nor an append at the tail ever meets a freed node, the walk
\* ends, and every name it meets is one that is registered
\* (native_device_register, native_device_unregister, native_device_find).
ListSound ==
    /\ \A k \in 0 .. DeviceMax : NodeAt[k] \in devNodes \cup {NoNode}
    /\ NodeAt[DeviceMax] = NoNode
    /\ devTail # NoNode => devTail \in devNodes /\ devNext[devTail] = NoNode
    /\ \A name \in DeviceNames : Found(name) =>
           \E i \in 1 .. Len(registered) : registered[i] = name

\* A device that was registered, and not unregistered since, is found by its
\* name (native_device_register appends to the list, native_device_find).
DevicesFound ==
    \A i \in 1 .. Len(registered) : Found(registered[i])
=============================================================================
