---------------------------- MODULE AddressSpace -----------------------------
(***************************************************************************)
(* The kernel's address space: the page tables of mm/vmm.c, the device     *)
(* window of mm/mmio.c and the heap's pages (mm/heap_backend.c), all of    *)
(* which take their frames from mm/pmm.c.                                  *)
(*                                                                         *)
(* A virtual page is a number; its table at level k is named by the page's *)
(* first k indices, that is by the page divided by Fanout^(Levels - k).    *)
(* The regions of mm/layout.h lie in different slots of the root table;    *)
(* none of them has a huge page, and addresses in them are canonical.      *)
(***************************************************************************)
EXTENDS PhysicalMemory, Sequences, SequencesExt

CONSTANTS Levels,              \* 4 in the code
          Fanout,              \* PAGE_TABLE_ENTRY_COUNT
          ObjectBase,          \* MEMORY_LAYOUT_OBJECT_SPACE_BASE, as a page
          HeapBase, HeapSize,  \* MEMORY_LAYOUT_HEAP_BASE, _SIZE, in pages
          MmioBase, MmioSize,  \* MEMORY_LAYOUT_MMIO_BASE, _SIZE, in pages
          DevicePages,         \* the physical pages of device registers
          MaxDma               \* bound on the frames drivers hold

VARIABLES space,     \* the allocator, the tables and the mapped pages
          booted,    \* vmm_self_test: "not yet", "ok" or "failed"
          heapEnd,   \* heap_mapped_end, in pages from HeapBase
          mmioNext,  \* mmio_next_virtual, in pages from MmioBase
          granted,   \* the windows mmio_map has returned
          dma        \* frames that drivers hold

spaceVars == <<space, booted, heapEnd, mmioNext, granted, dma>>

\* s.tables gives every table below the root its frame, s.leaf every mapped
\* page its physical page, and s.ok the outcome of the call in progress.
SpaceInit ==
    /\ space = [m |-> pmm_init, tables |-> <<>>, leaf |-> <<>>, ok |-> TRUE]
    /\ booted = "not yet" /\ heapEnd = 0 /\ mmioNext = 0
    /\ granted = <<>> /\ dma = {}

-----------------------------------------------------------------------------
TableOf(page, level) == <<level, page \div Fanout^(Levels - level)>>

\* A table that is there is used; one that is not takes a frame.
get_or_create_table(st, table) ==
    IF ~st.ok \/ table \in DOMAIN st.tables THEN st
    ELSE IF Found(st.m) = 0 THEN [st EXCEPT !.ok = FALSE]
    ELSE [st EXCEPT !.m = pmm_alloc_frame(@), !.tables = @ @@ (table :> Found(st.m))]

\* The walk from the root, creating tables.  One that fails keeps those it
\* has created.
find_leaf_entry(st, page) ==
    FoldLeft(LAMBDA acc, level : get_or_create_table(acc, TableOf(page, level)),
             st, [level \in 1..Levels - 1 |-> level])

\* A page that is mapped already is refused, and so is one that is writable
\* and executable, before anything is changed.
vmm_map_page(st, page, physical, noExecute) ==
    LET walked == find_leaf_entry([st EXCEPT !.ok = TRUE], page) IN
    IF ~noExecute THEN [st EXCEPT !.ok = FALSE]
    ELSE IF ~walked.ok \/ page \in DOMAIN walked.leaf THEN [walked EXCEPT !.ok = FALSE]
    ELSE [walked EXCEPT !.leaf = @ @@ (page :> physical)]

vmm_unmap_page(st, page) == [st EXCEPT !.leaf = [p \in DOMAIN @ \ {page} |-> @[p]]]

Freed(st, frame) == [st EXCEPT !.m = FreeFrame(@, frame)]
Allocated(st) == [st EXCEPT !.m = pmm_alloc_frame(@)]

-----------------------------------------------------------------------------
\* vmm_self_test: a frame is mapped in object space, found there, unmapped
\* and freed; a mapping that is writable and executable is refused.
vmm_self_test ==
    /\ booted = "not yet"
    /\ LET frame == Found(space.m)
           refused == vmm_map_page(Allocated(space), ObjectBase, frame, FALSE)
           mapped == vmm_map_page(refused, ObjectBase, frame, TRUE) IN
       IF frame = 0 THEN booted' = "failed" /\ UNCHANGED space
       ELSE IF ~mapped.ok THEN booted' = "failed" /\ space' = Freed(mapped, frame)
       ELSE /\ booted' = "ok"
            /\ space' = Freed(vmm_unmap_page(mapped, ObjectBase), frame)
    /\ UNCHANGED <<heapEnd, mmioNext, granted, dma>>

\* What is left of a heap page that could not be mapped.
UnmappedFrame(st, frame) == Freed(st, frame)

\* heap_backend_map_page for the heap's next page, from the loop in kmalloc.
heap_backend_map_page ==
    /\ booted = "ok" /\ heapEnd < HeapSize
    /\ LET frame == Found(space.m)
           mapped == vmm_map_page(Allocated(space), HeapBase + heapEnd, frame, TRUE) IN
       IF frame = 0 THEN UNCHANGED <<space, heapEnd>>
       ELSE IF mapped.ok THEN space' = mapped /\ heapEnd' = heapEnd + 1
       ELSE space' = UnmappedFrame(mapped, frame) /\ UNCHANGED heapEnd
    /\ UNCHANGED <<booted, mmioNext, granted, dma>>

Fits(count) == count <= MmioSize /\ mmioNext <= MmioSize - count

\* The loop of mmio_map: acc.count pages are mapped when it stops.
MapPages(first, count) ==
    FoldLeft(LAMBDA acc, i :
                 IF ~acc.st.ok THEN acc
                 ELSE LET next == vmm_map_page(acc.st, MmioBase + mmioNext + i - 1,
                                               first + i - 1, TRUE)
                      IN [st |-> next, count |-> IF next.ok THEN i ELSE acc.count],
             [st |-> [space EXCEPT !.ok = TRUE], count |-> 0], [i \in 1..count |-> i])

\* Mutant: the rollback stops before the first page.
RolledBackShort(st, count) ==
    FoldLeft(LAMBDA acc, i : vmm_unmap_page(acc, MmioBase + mmioNext + i), st,
             [i \in 1..count |-> i])

RolledBack(st, count) ==
    FoldLeft(LAMBDA acc, i : vmm_unmap_page(acc, MmioBase + mmioNext + i - 1), st,
             [i \in 1..count |-> i])

\* mmio_map of count pages of device registers, from page first on.
mmio_map(first, count) ==
    /\ booted = "ok" /\ Fits(count)
    /\ LET mapped == MapPages(first, count) IN
       IF mapped.st.ok
       THEN /\ space' = mapped.st /\ mmioNext' = mmioNext + count
            /\ granted' = Append(granted, [at |-> mmioNext, first |-> first, count |-> count])
       ELSE space' = RolledBack(mapped.st, mapped.count) /\ UNCHANGED <<mmioNext, granted>>
    /\ UNCHANGED <<booted, heapEnd, dma>>

\* A driver takes a frame, or gives one back.
DriverAlloc ==
    /\ booted = "ok" /\ Found(space.m) # 0 /\ Cardinality(dma) < MaxDma
    /\ space' = Allocated(space) /\ dma' = dma \cup {Found(space.m)}
    /\ UNCHANGED <<booted, heapEnd, mmioNext, granted>>

DriverFree(frame) ==
    /\ frame \in dma
    /\ space' = Freed(space, frame) /\ dma' = dma \ {frame}
    /\ UNCHANGED <<booted, heapEnd, mmioNext, granted>>

SpaceNext ==
    \/ vmm_self_test \/ heap_backend_map_page
    \/ \E first \in DevicePages, count \in 1..MmioSize :
           first + count - 1 \in DevicePages /\ mmio_map(first, count)
    \/ DriverAlloc \/ \E frame \in dma : DriverFree(frame)

SpaceSpec == SpaceInit /\ [][SpaceNext]_spaceVars

-----------------------------------------------------------------------------
SpaceTypeOK ==
    /\ space.m.used \subseteq AllFrames /\ space.m.free \in Nat
    /\ heapEnd \in 0..HeapSize /\ mmioNext \in 0..MmioSize
    /\ \A p \in DOMAIN space.leaf : space.leaf[p] \in AllFrames \cup DevicePages
    /\ dma \subseteq AllFrames /\ booted \in {"not yet", "ok", "failed"}

\* What uses a frame: a page table, a page of the heap, or a driver.
Holders(f) ==
    {<<"table", t>> : t \in {t \in DOMAIN space.tables : space.tables[t] = f}}
    \cup {<<"page", p>> : p \in {p \in DOMAIN space.leaf : space.leaf[p] = f}}
    \cup {<<"driver", d>> : d \in dma \cap {f}}

\* Every frame in use is in use for one thing and every other frame is free,
\* also after mappings that failed for want of a frame: none leaks and none
\* is shared (heap_backend_map_page, mmio_map, get_or_create_table).
FramesHeld ==
    \A f \in InitiallyFree :
        Cardinality(Holders(f)) = IF f \in space.m.used THEN 1 ELSE 0

\* Above mmio_next_virtual nothing is mapped, so that a mapping that failed
\* half way does not stop the next one, and every window returned so far
\* still shows its device's pages.
WindowsIntact ==
    /\ \A p \in MmioBase + mmioNext..MmioBase + MmioSize - 1 : p \notin DOMAIN space.leaf
    /\ \A i \in 1..Len(granted), j \in 0..MmioSize - 1 :
           LET page == MmioBase + granted[i].at + j IN
           j < granted[i].count =>
               page \in DOMAIN space.leaf /\ space.leaf[page] = granted[i].first + j

\* The address space is sound, whichever mappings failed half way: no frame is
\* lost or shared, and the windows given out still show their devices.
MappingsSound == SpaceTypeOK /\ FramesHeld /\ WindowsIntact
=============================================================================
