--------------------------- MODULE PhysicalMemory ----------------------------
(***************************************************************************)
(* The physical frame allocator of mm/pmm.c as operators on its state: the *)
(* bitmap (here the set of used frames), free_frame_count and              *)
(* next_search_frame.  Frames are numbered from 0; frame 0 is never given  *)
(* out, and 0 is the answer of an allocation that fails.                   *)
(***************************************************************************)
EXTENDS Naturals, FiniteSets

CONSTANTS MaxFrames,  \* PMM_MAX_FRAMES
          FrameSize,  \* PMM_FRAME_SIZE, in bytes
          MemoryMap   \* the bootloader's entries: base, length and type

ASSUME MaxFramesAssumption == MaxFrames \in Nat /\ MaxFrames > 1
ASSUME FrameSizeAssumption == FrameSize \in Nat \ {0}
ASSUME MemoryMapAssumption == MemoryMap \subseteq [base : Nat, length : Nat, type : STRING]

AllFrames == 0..MaxFrames - 1
MaxPhysical == MaxFrames * FrameSize

-----------------------------------------------------------------------------
\* The frames pmm_release_usable_region frees for an entry: those that lie
\* in it whole, below the memory that is managed.
RegionEnd(entry) ==
    IF entry.length > MaxPhysical - entry.base THEN MaxPhysical
    ELSE entry.base + entry.length

Released(entry) ==
    {f \in AllFrames : entry.base < MaxPhysical
                       /\ (entry.base + FrameSize - 1) \div FrameSize <= f
                       /\ f < RegionEnd(entry) \div FrameSize}

\* The frames that are free after pmm_init.
InitiallyFree ==
    (UNION {Released(entry) : entry \in {e \in MemoryMap : e.type = "usable"}}) \ {0}

pmm_init ==
    [used |-> AllFrames \ InitiallyFree,
     free |-> Cardinality(InitiallyFree),
     next |-> 1]

-----------------------------------------------------------------------------
FreeBetween(m, first, end) == {f \in AllFrames : first <= f /\ f < end} \ m.used

Lowest(S) == CHOOSE f \in S : \A g \in S : f <= g

Advanced(f) == IF f + 1 >= MaxFrames THEN 1 ELSE f + 1

Taken(m, f) == [used |-> m.used \cup {f}, free |-> m.free - 1, next |-> Advanced(f)]

\* The frame pmm_alloc_frame finds: the first free one from next_search_frame
\* on, else the first free one below it, else none.
Found(m) ==
    IF FreeBetween(m, m.next, MaxFrames) # {} THEN Lowest(FreeBetween(m, m.next, MaxFrames))
    ELSE IF FreeBetween(m, 1, m.next) # {} THEN Lowest(FreeBetween(m, 1, m.next))
    ELSE 0

pmm_alloc_frame(m) == IF Found(m) = 0 THEN m ELSE Taken(m, Found(m))

MayFree(m, f) == f # 0 /\ f < MaxFrames /\ f \in m.used

\* Mutant: the next search does not go back to a freed frame.
LoweredNot(m, f) == m.next

Lowered(m, f) == IF f < m.next THEN f ELSE m.next

\* pmm_free_frame on the frame's address: a frame that is not in use is left
\* alone.
FreeFrame(m, f) ==
    IF MayFree(m, f)
    THEN [used |-> m.used \ {f}, free |-> m.free + 1, next |-> Lowered(m, f)]
    ELSE m

\* pmm_free_frame on any address.
pmm_free_frame(m, address) ==
    IF address = 0 \/ address % FrameSize # 0 THEN m
    ELSE FreeFrame(m, address \div FrameSize)
=============================================================================
