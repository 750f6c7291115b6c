--------------------------- MODULE FrameAllocator ----------------------------
(***************************************************************************)
(* The frame allocator and its callers: frames are asked for and given     *)
(* back in any order, and pmm_free_frame is also called with addresses it  *)
(* must ignore (none, unaligned, a frame that is free already).            *)
(***************************************************************************)
EXTENDS PhysicalMemory

VARIABLES m,      \* the allocator
          owned,  \* the frames the callers hold
          last    \* the frame the last allocation returned

pmmVars == <<m, owned, last>>

PmmInit == m = pmm_init /\ owned = {} /\ last = 1

Alloc ==
    /\ m' = pmm_alloc_frame(m)
    /\ last' = Found(m)
    /\ owned' = IF Found(m) = 0 THEN owned ELSE owned \cup {Found(m)}

\* A caller returns a frame it holds.
Release(f) ==
    /\ f \in owned
    /\ m' = pmm_free_frame(m, f * FrameSize)
    /\ owned' = owned \ {f}
    /\ last' = 1

\* An address that is none, that is not a frame's, or whose frame is free.
FreeIgnored(address) ==
    /\ address = 0 \/ address % FrameSize # 0 \/ address \div FrameSize \notin m.used
    /\ m' = pmm_free_frame(m, address)
    /\ last' = 1 /\ UNCHANGED owned

PmmNext ==
    \/ Alloc
    \/ \E f \in AllFrames : Release(f)
    \/ \E address \in 0..MaxPhysical : FreeIgnored(address)

PmmSpec == PmmInit /\ [][PmmNext]_pmmVars

-----------------------------------------------------------------------------
FramesTypeOK ==
    /\ m.used \subseteq AllFrames /\ m.free \in Nat /\ m.next \in 1..MaxFrames - 1
    /\ owned \subseteq AllFrames /\ last \in Nat

\* The callers hold exactly the usable frames that are marked used: no frame
\* is given out twice, none is lost, none outside the usable regions of the
\* memory map is given out, and free_frame_count is the number of the others.
FramesAccounted ==
    /\ \A f \in AllFrames :
           f \in owned <=> f \in m.used /\ f # 0
                           /\ \E e \in MemoryMap :
                                  /\ e.type = "usable" /\ e.base <= f * FrameSize
                                  /\ (f + 1) * FrameSize <= e.base + e.length
    /\ m.free = Cardinality(AllFrames \ m.used)

\* No free frame lies below next_search_frame, so that pmm_alloc_frame always
\* gives out the lowest one and need not look below it.
NextIsLowest == \A f \in AllFrames : f < m.next /\ f # 0 => f \in m.used

\* An allocation fails only when no frame is free (the second
\* pmm_allocate_between of pmm_alloc_frame).
FailsOnlyWhenFull == last = 0 => m.free = 0

\* The frame allocator is sound: every frame is accounted for, the lowest free
\* one is given out, and an allocation fails only when there is none.
FramesSound == FramesTypeOK /\ FramesAccounted /\ NextIsLowest /\ FailsOnlyWhenFull
=============================================================================
