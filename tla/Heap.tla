-------------------------------- MODULE Heap ---------------------------------
(***************************************************************************)
(* The kernel heap: kmalloc, kfree and krealloc of mm/heap.c over the size *)
(* classes of mm/free_list.c.  Addresses and block sizes are in units of   *)
(* HEAP_ALIGNMENT bytes; a block's header, which its link in a free list   *)
(* overwrites, is its first unit.  Requests are in bytes.                  *)
(***************************************************************************)
EXTENDS Naturals, FiniteSets, Sequences, SequencesExt

CONSTANTS Unit,        \* HEAP_ALIGNMENT, also the size of a header
          PageUnits,   \* HEAP_PAGE_SIZE, in units
          ClassCount,  \* FREE_LIST_CLASS_COUNT
          HeapUnits,   \* the size given to kheap_init, in units
          SizeMax,     \* SIZE_MAX
          Requests     \* the sizes asked for, in bytes

VARIABLES heap,     \* next, mapped (its end), header and classes
          payloads  \* the bytes asked for, by the address returned

heapVars == <<heap, payloads>>

Base == PageUnits
Limit == Base + HeapUnits

\* kheap_init.  A header is [size, magic]; magic is FALSE for a block that was
\* freed, whose second word is the link of its free list.
HeapInit ==
    /\ heap = [next |-> Base, mapped |-> Base, header |-> <<>>,
               classes |-> [k \in 1..ClassCount |-> <<>>]]
    /\ payloads = <<>>

-----------------------------------------------------------------------------
CanRound(bytes) == bytes <= SizeMax - Unit /\ bytes + Unit <= SizeMax - (Unit - 1)

\* calculate_block_size, in the width of size_t.
BlockUnits(bytes) == ((bytes + Unit + (Unit - 1)) % (SizeMax + 1)) \div Unit

\* class_for_size: classes hold up to 2, 4, 8... units, the last any more.
class_for_size(units) ==
    CHOOSE k \in 1..ClassCount :
        /\ k = ClassCount \/ units <= 2^k
        /\ \A j \in 1..k - 1 : units > 2^j

AddClass(units) == class_for_size(units)

\* heap_free_list_take: the first block that is large enough in the first
\* class that has one, as <<class, position>>.
Fitting(h, units) ==
    {p \in UNION {{<<k, i>> : i \in 1..Len(h.classes[k])} : k \in class_for_size(units)..ClassCount} :
        h.header[h.classes[p[1]][p[2]]].size >= units}

FirstFit(h, units) ==
    CHOOSE p \in Fitting(h, units) :
        \A r \in Fitting(h, units) : p[1] < r[1] \/ (p[1] = r[1] /\ p[2] <= r[2])

Unlinked(h, p) == [h.classes EXCEPT ![p[1]] = RemoveAt(@, p[2])]

\* The pages still to be mapped before the heap can end at `end`.
PagesNeeded(h, end) ==
    IF end <= h.mapped THEN 0 ELSE (end - h.mapped + PageUnits - 1) \div PageUnits

\* kmalloc: the heap afterwards and the address, 0 for none.  `pages` is how
\* many of the pages it needs could be mapped.
kmalloc(h, bytes, pages) ==
    LET units == BlockUnits(bytes)
        fit == FirstFit(h, units)
        block == h.classes[fit[1]][fit[2]]
        end == h.next + units IN
    CASE bytes = 0 \/ ~CanRound(bytes) -> [heap |-> h, at |-> 0]
      [] bytes # 0 /\ CanRound(bytes) /\ Fitting(h, units) # {} ->
           [heap |-> [h EXCEPT !.classes = Unlinked(h, fit), !.header[block].magic = TRUE],
            at |-> block + 1]
      [] bytes # 0 /\ CanRound(bytes) /\ Fitting(h, units) = {} ->
           IF units > Limit - h.next THEN [heap |-> h, at |-> 0]
           ELSE IF pages < PagesNeeded(h, end)
           THEN [heap |-> [h EXCEPT !.mapped = @ + pages * PageUnits], at |-> 0]
           ELSE [heap |-> [h EXCEPT !.mapped = @ + PagesNeeded(h, end) * PageUnits,
                                    !.next = end,
                                    !.header = @ @@ (h.next :> [size |-> units, magic |-> TRUE])],
                 at |-> h.next + 1]

\* Mutant: the magic number is not cleared.
ClearedNot(header, block) == header

Cleared(header, block) == [header EXCEPT ![block].magic = FALSE]

\* kfree: without the magic number it does nothing.
kfree(h, at) ==
    LET block == at - 1 IN
    IF ~h.header[block].magic THEN h
    ELSE [h EXCEPT !.header = Cleared(@, block),
                   !.classes[AddClass(h.header[block].size)] = <<block>> \o @]

PayloadBytes(block) == (heap.header[block].size - 1) * Unit

-----------------------------------------------------------------------------
\* How far the backend gets is not the heap's choice.
PageCounts == 0..HeapUnits \div PageUnits + 1

Malloc(bytes, pages) ==
    LET r == kmalloc(heap, bytes, pages) IN
    /\ heap' = r.heap
    /\ payloads' = IF r.at = 0 THEN payloads ELSE payloads @@ (r.at :> bytes)

FreePayload(at) ==
    /\ heap' = kfree(heap, at)
    /\ payloads' = [a \in DOMAIN payloads \ {at} |-> payloads[a]]

\* A block that is free already is freed again.
FreeAgain(block) ==
    /\ block + 1 \notin DOMAIN payloads
    /\ heap' = kfree(heap, block + 1) /\ UNCHANGED payloads

\* krealloc: in place when the block has the capacity; otherwise a new block,
\* a copy of the old one's bytes, and the old one freed.
krealloc(at, bytes, pages) ==
    LET r == kmalloc(heap, bytes, pages) IN
    CASE bytes = 0 -> FreePayload(at)
      [] bytes # 0 /\ bytes <= PayloadBytes(at - 1) ->
           UNCHANGED heap /\ payloads' = [payloads EXCEPT ![at] = bytes]
      [] bytes > PayloadBytes(at - 1) ->
           IF r.at = 0 THEN heap' = r.heap /\ UNCHANGED payloads
           ELSE /\ heap' = kfree(r.heap, at)
                /\ payloads' = [a \in (DOMAIN payloads \ {at}) \cup {r.at} |->
                               IF a = r.at THEN bytes ELSE payloads[a]]

HeapNext ==
    \/ \E bytes \in Requests, pages \in PageCounts : Malloc(bytes, pages)
    \/ \E at \in DOMAIN payloads : FreePayload(at)
    \/ \E block \in DOMAIN heap.header : FreeAgain(block)
    \/ \E at \in DOMAIN payloads, bytes \in Requests, pages \in PageCounts : krealloc(at, bytes, pages)

HeapSpec == HeapInit /\ [][HeapNext]_heapVars

-----------------------------------------------------------------------------
HeapTypeOK ==
    /\ heap.next \in Base..Limit /\ heap.next <= heap.mapped
    /\ heap.mapped % PageUnits = 0
    /\ \A block \in DOMAIN heap.header : heap.header[block].size >= 2

FreeBlocks == UNION {ToSet(heap.classes[k]) : k \in 1..ClassCount}
LiveBlocks == {at - 1 : at \in DOMAIN payloads}
Extent(block) == block..block + heap.header[block].size - 1

\* The blocks that are handed out and those in the free lists tile the heap
\* up to heap_next: none overlap, none is in a list twice or both free and in
\* use, and none is lost, whatever is freed, freed again or reallocated.
BlocksTile ==
    /\ LiveBlocks \cap FreeBlocks = {}
    /\ \A k \in 1..ClassCount : IsInjective(heap.classes[k])
    /\ UNION {Extent(b) : b \in LiveBlocks \cup FreeBlocks} = Base..heap.next - 1
    /\ \A b, c \in LiveBlocks \cup FreeBlocks : b # c => Extent(b) \cap Extent(c) = {}

\* A caller may use the bytes it asked for: they lie in its own block, past
\* the header (calculate_block_size, krealloc's shrinking and growing).
RequestsFit ==
    \A at \in DOMAIN payloads : payloads[at] <= (heap.header[at - 1].size - 1) * Unit

\* The heap is sound: blocks tile it, and each has room for what was asked.
HeapSound == HeapTypeOK /\ BlocksTile /\ RequestsFit
=============================================================================
