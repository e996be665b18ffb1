------------------------------ MODULE Regions ------------------------------
(***************************************************************************)
(* The memory regions of a FLUX machine, vm/region.c.  A region's data is  *)
(* a block of the C heap; the heap is a set of block names of which malloc *)
(* hands out any that is free, or fails.  What a region contains is        *)
(* abstracted to whether it is all zero.  Offsets and lengths are left     *)
(* out: every access is cut to the region's size first.  So are names,     *)
(* owners and the registers R58 and R59, which only set_active and resize  *)
(* write and nothing of the machine reads.                                 *)
(***************************************************************************)
EXTENDS Integers, FiniteSets

CONSTANTS RegionMax,  \* FLUX_REGION_MAX
          Blocks      \* the blocks of the C heap the machine can get

ASSUME RegionAssumption == RegionMax \in Nat \ {0} /\ Blocks \subseteq Nat

VARIABLES regions,       \* vm->regions
          activeRegion,  \* vm->active_region
          held           \* the heap blocks allocated and not freed

regionVars == <<regions, activeRegion, held>>

RegionIds == 0 .. RegionMax - 1
NoData == -1
NoRegion == -1

Contents == {"zero", "data"}

Region == [active : BOOLEAN, data : Blocks \cup {NoData},
           readonly : BOOLEAN, content : Contents]

EmptyRegion == [active |-> FALSE, data |-> NoData,
                readonly |-> FALSE, content |-> "zero"]

Smallest(S) == CHOOSE x \in S : \A y \in S : x <= y

RegionsInit ==
    /\ regions = [r \in RegionIds |-> EmptyRegion]
    /\ activeRegion = NoRegion
    /\ held = {}

\* validate_region_id.
IsRegion(r) == r \in RegionIds /\ regions[r].active

\* The block malloc returns; which one makes no difference.
NewBlock == Smallest(Blocks \ held)

\* flux_vm_region_create: the first free slot.  Without a slot or memory it
\* returns -1 and changes nothing.
CreateRegion(readonly) ==
    LET unused == {r \in RegionIds : ~regions[r].active}
        rid == Smallest(unused)
    IN  /\ unused # {} /\ held # Blocks
        /\ held' = held \cup {NewBlock}
        /\ regions' = [regions EXCEPT ![rid] =
               [active |-> TRUE, data |-> NewBlock,
                readonly |-> readonly, content |-> "zero"]]
        /\ activeRegion' = IF activeRegion < 0 THEN rid ELSE activeRegion

\* Variant: the active region is not looked at.
ActiveAfterKept(rid) == activeRegion

\* The active region once rid is destroyed: another one when it was active,
\* the one with the smallest ID.
ActiveAfter(rid) ==
    LET others == {r \in RegionIds \ {rid} : regions[r].active}
    IN  IF activeRegion # rid THEN activeRegion
        ELSE IF others = {} THEN NoRegion ELSE Smallest(others)

\* flux_vm_region_destroy.
DestroyRegion(rid) ==
    /\ IsRegion(rid)
    /\ held' = held \ {regions[rid].data}
    /\ regions' = [regions EXCEPT ![rid].active = FALSE, ![rid].data = NoData]
    /\ activeRegion' = ActiveAfter(rid)

\* flux_vm_region_set_active.
SetActive(rid) ==
    /\ IsRegion(rid)
    /\ activeRegion' = rid
    /\ UNCHANGED <<regions, held>>

\* flux_vm_region_resize: realloc moves the data to a new block, or leaves it
\* where it is.  When it fails nothing changes.
ResizeRegion(rid) ==
    /\ IsRegion(rid)
    /\ \E block \in {regions[rid].data} \cup (IF held = Blocks THEN {} ELSE {NewBlock}) :
           /\ held' = (held \ {regions[rid].data}) \cup {block}
           /\ regions' = [regions EXCEPT ![rid].data = block]
    /\ UNCHANGED activeRegion

\* flux_vm_region_set_readonly.
SetReadonly(rid, readonly) ==
    /\ IsRegion(rid)
    /\ regions' = [regions EXCEPT ![rid].readonly = readonly]
    /\ UNCHANGED <<activeRegion, held>>

\* What flux_vm_region_write, _fill and _copy check of the region they write.
MayWrite(rid) == IsRegion(rid) /\ ~regions[rid].readonly

\* Writing some of a region's bytes.
Overwrite(rid, content) ==
    /\ regions' = [regions EXCEPT ![rid].content = content]
    /\ UNCHANGED <<activeRegion, held>>

\* flux_vm_region_write.
WriteRegion(rid) ==
    /\ MayWrite(rid)
    /\ \E content \in Contents : Overwrite(rid, content)

\* flux_vm_region_fill: with zeros a region that is all zero stays so.
FillRegion(rid, value) ==
    /\ MayWrite(rid)
    /\ \E content \in {regions[rid].content, value} : Overwrite(rid, content)

\* flux_vm_region_copy: zeros from a source that is all zero leave a zero
\* destination zero.
CopyRegion(src, dst) ==
    /\ IsRegion(src)
    /\ MayWrite(dst)
    /\ \E content \in {regions[src].content, regions[dst].content} :
           Overwrite(dst, content)

\* flux_vm_region_destroy_all.
DestroyAll ==
    /\ held' = held \ {regions[r].data : r \in {q \in RegionIds : regions[q].active}}
    /\ regions' = [r \in RegionIds |->
                      [regions[r] EXCEPT !.active = FALSE, !.data = NoData]]
    /\ activeRegion' = NoRegion

\* The calls of the host.
RegionCall ==
    \/ \E readonly \in BOOLEAN : CreateRegion(readonly)
    \/ \E r \in RegionIds : DestroyRegion(r)
    \/ \E r \in RegionIds : SetActive(r)
    \/ \E r \in RegionIds : ResizeRegion(r)
    \/ \E r \in RegionIds, readonly \in BOOLEAN : SetReadonly(r, readonly)
    \/ \E r \in RegionIds : WriteRegion(r)
    \/ \E r \in RegionIds, value \in Contents : FillRegion(r, value)
    \/ \E src, dst \in RegionIds : CopyRegion(src, dst)
    \/ DestroyAll
=============================================================================
