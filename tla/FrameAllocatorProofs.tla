------------------------ MODULE FrameAllocatorProofs -------------------------
(***************************************************************************)
(* The frame allocator's invariants, for every size of memory and every    *)
(* memory map.                                                             *)
(***************************************************************************)
EXTENDS FrameAllocator, FiniteSetTheorems, WellFoundedInduction, TLAPS

USE MaxFramesAssumption, FrameSizeAssumption

\* The inductive invariant: what the callers hold and what is free make up
\* the frames that pmm_init freed.
Shape ==
    /\ m \in [used : SUBSET AllFrames, free : Nat, next : 1..MaxFrames - 1]
    /\ owned = InitiallyFree \ (AllFrames \ m.used)
    /\ AllFrames \ m.used \subseteq InitiallyFree
    /\ m.free = Cardinality(AllFrames \ m.used)
    /\ last \in Nat

IInv == Shape /\ NextIsLowest /\ FailsOnlyWhenFull

-----------------------------------------------------------------------------
(* Arithmetic of regions. *)

\* Rounding up: a region's first whole frame starts at or after its base.
LEMMA RoundUp ==
    ASSUME NEW b \in Nat, NEW n \in Nat \ {0}, NEW f \in Nat
    PROVE  (b + n - 1) \div n <= f <=> b <= f * n
<1> DEFINE q == (b + n - 1) \div n
<1> DEFINE r == (b + n - 1) % n
<1>1. /\ q \in Nat /\ r \in 0..n - 1
      /\ b + n - 1 = n * q + r
  BY SMT
<1> HIDE DEF q, r
<1>2. q <= f <=> b <= f * n
  <2>1. CASE q <= f
    <3>1. n * q <= n * f
      BY <1>1, <2>1, SMT
    <3> QED BY <1>1, <2>1, <3>1, SMT
  <2>2. CASE f + 1 <= q
    <3>1. n * (f + 1) <= n * q
      BY <1>1, <2>2, SMT
    <3> QED BY <1>1, <2>2, <3>1, SMT
  <2> QED BY <1>1, <2>1, <2>2
<1> QED BY <1>2 DEF q

\* Rounding down: a region's last whole frame ends at or before its end.
LEMMA RoundDown ==
    ASSUME NEW e \in Nat, NEW n \in Nat \ {0}, NEW f \in Nat
    PROVE  f < e \div n <=> (f + 1) * n <= e
<1> DEFINE q == e \div n
<1> DEFINE r == e % n
<1>1. q \in Nat /\ r \in 0..n - 1 /\ e = n * q + r
  BY SMT
<1> HIDE DEF q, r
<1>2. f < q <=> (f + 1) * n <= e
  <2>1. CASE f + 1 <= q
    <3>1. n * (f + 1) <= n * q
      BY <1>1, <2>1, SMT
    <3> QED BY <1>1, <2>1, <3>1, SMT
  <2>2. CASE q <= f
    <3>1. n * q <= n * f
      BY <1>1, <2>2, SMT
    <3> QED BY <1>1, <2>2, <3>1, SMT
  <2> QED BY <1>1, <2>1, <2>2
<1> QED BY <1>2 DEF q

\* pmm_release_usable_region frees the managed frames that lie whole in the
\* region, whatever its alignment.
LEMMA ReleasedWhole ==
    ASSUME NEW e \in MemoryMap, NEW f \in AllFrames
    PROVE  f \in Released(e) <=>
               e.base <= f * FrameSize /\ (f + 1) * FrameSize <= e.base + e.length
<1>1. e.base \in Nat /\ e.length \in Nat
  BY MemoryMapAssumption
<1>2. f \in Nat /\ f + 1 <= MaxFrames
  BY DEF AllFrames
<1>3. (f + 1) * FrameSize <= MaxPhysical /\ MaxPhysical \in Nat
  BY <1>2, SMT DEF MaxPhysical
<1>4. f * FrameSize < (f + 1) * FrameSize /\ f * FrameSize \in Nat
      /\ (f + 1) * FrameSize \in Nat
  BY <1>2, SMT
<1>5. CASE e.base >= MaxPhysical
  BY <1>1, <1>3, <1>4, <1>5 DEF Released
<1>6. CASE e.base < MaxPhysical
  <2>1. RegionEnd(e) \in Nat
    BY <1>1, <1>3, <1>6 DEF RegionEnd
  <2>2. f \in Released(e) <=> e.base <= f * FrameSize /\ (f + 1) * FrameSize <= RegionEnd(e)
    BY <1>1, <1>2, <1>6, <2>1, RoundUp, RoundDown DEF Released
  <2>3. (f + 1) * FrameSize <= RegionEnd(e) <=> (f + 1) * FrameSize <= e.base + e.length
    BY <1>1, <1>3, <1>4, <1>6 DEF RegionEnd
  <2> QED BY <2>2, <2>3
<1> QED BY <1>1, <1>3, <1>5, <1>6

-----------------------------------------------------------------------------
(* The sets of frames. *)

\* There are finitely many frames, and pmm_init frees none but usable ones.
LEMMA FramesFinite ==
    /\ IsFiniteSet(AllFrames) /\ AllFrames \subseteq Nat
    /\ InitiallyFree \subseteq AllFrames \ {0}
    /\ \A S \in SUBSET AllFrames : IsFiniteSet(S) /\ Cardinality(S) \in Nat
<1>1. IsFiniteSet(AllFrames)
  BY FS_Interval DEF AllFrames
<1>2. AllFrames \subseteq Nat
  BY DEF AllFrames
<1>3. InitiallyFree \subseteq AllFrames \ {0}
  BY DEF InitiallyFree, Released
<1>4. \A S \in SUBSET AllFrames : IsFiniteSet(S) /\ Cardinality(S) \in Nat
  BY <1>1, FS_Subset, FS_CardinalityType
<1> QED BY <1>1, <1>2, <1>3, <1>4

\* The first free frame of a search is free and has none before it.
LEMMA LowestIsLeast ==
    ASSUME NEW S, S \subseteq AllFrames, S # {}
    PROVE  Lowest(S) \in S /\ \A g \in S : Lowest(S) <= g
<1>1. S \subseteq Nat
  BY FramesFinite
<1>2. PICK x \in S : \A y \in S : ~(<<y, x>> \in OpToRel(<, Nat))
  BY <1>1, NatLessThanWellFounded, WFMin, Zenon
<1>3. \A y \in S : x <= y
  <2>1. TAKE y \in S
  <2>2. x \in Nat /\ y \in Nat
    BY <1>1
  <2>3. ~(y < x)
    BY <1>2, <2>2 DEF OpToRel
  <2> QED BY <2>2, <2>3
<1> QED BY <1>3 DEF Lowest

\* What pmm_alloc_frame finds: the lowest free frame, or 0 when none is free.
LEMMA FoundLowest ==
    ASSUME m \in [used : SUBSET AllFrames, free : Nat, next : 1..MaxFrames - 1],
           AllFrames \ m.used \subseteq InitiallyFree, NextIsLowest
    PROVE  /\ Found(m) = 0 => AllFrames \ m.used = {}
           /\ Found(m) # 0 =>
                  /\ Found(m) \in AllFrames \ m.used
                  /\ \A g \in AllFrames \ m.used : Found(m) <= g
<1> DEFINE high == FreeBetween(m, m.next, MaxFrames)
<1> DEFINE low == FreeBetween(m, 1, m.next)
<1>1. low = {}
  BY FramesFinite DEF FreeBetween, NextIsLowest, AllFrames
<1>2. high = AllFrames \ m.used
  BY FramesFinite DEF FreeBetween, NextIsLowest, AllFrames
<1>3. CASE high = {}
  BY <1>1, <1>2, <1>3 DEF Found
<1>4. CASE high # {}
  <2>1. Lowest(high) \in high /\ \A g \in high : Lowest(high) <= g
    BY <1>4, LowestIsLeast DEF FreeBetween
  <2>2. Found(m) = Lowest(high)
    BY <1>4 DEF Found
  <2>3. Found(m) # 0
    BY <1>2, <2>1, <2>2, FramesFinite
  <2> QED BY <1>2, <2>1, <2>2, <2>3
<1> QED BY <1>3, <1>4

-----------------------------------------------------------------------------
(* The inductive invariant. *)

LEMMA InitIInv == PmmInit => IInv
<1> SUFFICES ASSUME PmmInit PROVE IInv
  OBVIOUS
<1>1. AllFrames \ m.used = InitiallyFree
  BY FramesFinite DEF PmmInit, pmm_init
<1>2. Shape
  BY <1>1, FramesFinite DEF PmmInit, pmm_init, Shape
<1>3. NextIsLowest /\ FailsOnlyWhenFull
  BY FramesFinite DEF PmmInit, pmm_init, NextIsLowest, FailsOnlyWhenFull, AllFrames
<1> QED BY <1>2, <1>3 DEF IInv

\* pmm_alloc_frame.
LEMMA AllocIInv == IInv /\ Alloc => IInv'
<1> SUFFICES ASSUME IInv, Alloc PROVE IInv'
  OBVIOUS
<1> DEFINE f == Found(m)
<1>1. /\ f = 0 => AllFrames \ m.used = {}
      /\ f # 0 => f \in AllFrames \ m.used /\ \A g \in AllFrames \ m.used : f <= g
  BY FoundLowest DEF IInv, Shape
<1>2. CASE f = 0
  <2>1. m' = m /\ owned' = owned /\ last' = 0
    BY <1>2 DEF Alloc, pmm_alloc_frame
  <2>2. m.free = 0
    BY <1>1, <1>2, FS_EmptySet DEF IInv, Shape
  <2> QED BY <2>1, <2>2 DEF IInv, Shape, NextIsLowest, FailsOnlyWhenFull
<1>3. CASE f # 0
  <2>1. m' = Taken(m, f) /\ owned' = owned \cup {f} /\ last' = f
    BY <1>3 DEF Alloc, pmm_alloc_frame
  <2>2. f \in AllFrames /\ f \notin m.used /\ f \in InitiallyFree /\ f \in Nat
    BY <1>1, <1>3, FramesFinite DEF IInv, Shape
  <2>3. m'.used = m.used \cup {f} /\ m'.free = m.free - 1 /\ m'.next = Advanced(f)
    BY <2>1 DEF Taken
  <2>4. AllFrames \ m'.used = (AllFrames \ m.used) \ {f}
    BY <2>3
  <2>5. m'.free = Cardinality(AllFrames \ m'.used) /\ m'.free \in Nat
    <3>1. IsFiniteSet(AllFrames \ m.used)
      BY FramesFinite
    <3>2. Cardinality((AllFrames \ m.used) \ {f}) = Cardinality(AllFrames \ m.used) - 1
      BY <2>2, <3>1, FS_RemoveElement
    <3>3. Cardinality(AllFrames \ m'.used) \in Nat
      BY FramesFinite
    <3> QED BY <2>3, <2>4, <3>2, <3>3 DEF IInv, Shape
  <2>6. m'.next \in 1..MaxFrames - 1
    BY <2>2, <2>3 DEF Advanced, AllFrames
  <2>7. Shape'
    <3>1. m' \in [used : SUBSET AllFrames, free : Nat, next : 1..MaxFrames - 1]
      BY <2>1, <2>2, <2>3, <2>5, <2>6 DEF Taken, IInv, Shape
    <3>2. owned' = InitiallyFree \ (AllFrames \ m'.used)
      BY <2>1, <2>2, <2>3, FramesFinite DEF IInv, Shape
    <3>3. AllFrames \ m'.used \subseteq InitiallyFree
      BY <2>4 DEF IInv, Shape
    <3> QED BY <2>1, <2>2, <2>5, <3>1, <3>2, <3>3 DEF Shape
  <2>8. NextIsLowest'
    <3>1. SUFFICES ASSUME NEW g \in AllFrames, g < m'.next, g # 0 PROVE g \in m'.used
      BY DEF NextIsLowest
    <3>2. CASE g \in m.used
      BY <2>3, <3>2
    <3>3. CASE g \notin m.used
      <4>1. f <= g /\ g \in Nat
        BY <1>1, <1>3, <3>3, FramesFinite
      <4>2. g = f
        BY <2>2, <2>3, <3>1, <4>1 DEF Advanced
      <4> QED BY <2>3, <4>2
    <3> QED BY <3>2, <3>3
  <2>9. FailsOnlyWhenFull'
    BY <1>3, <2>1 DEF FailsOnlyWhenFull
  <2> QED BY <2>7, <2>8, <2>9 DEF IInv
<1> QED BY <1>2, <1>3

\* pmm_free_frame on a frame that a caller holds.
LEMMA FreeIInv == ASSUME NEW f \in AllFrames PROVE IInv /\ Release(f) => IInv'
<1> SUFFICES ASSUME IInv, Release(f) PROVE IInv'
  OBVIOUS
<1>1. f \in Nat /\ f # 0 /\ f < MaxFrames /\ f \in m.used /\ f \in InitiallyFree
  BY FramesFinite DEF Release, IInv, Shape, AllFrames
<1>2. m' = FreeFrame(m, f)
  <2>1. f * FrameSize # 0 /\ f * FrameSize \in Nat
    BY <1>1, SMT
  <2>2. (f * FrameSize) % FrameSize = 0 /\ (f * FrameSize) \div FrameSize = f
    BY <1>1, SMT
  <2> QED BY <2>1, <2>2 DEF Release, pmm_free_frame
<1>3. /\ m' = [used |-> m.used \ {f}, free |-> m.free + 1, next |-> Lowered(m, f)]
      /\ m'.used = m.used \ {f} /\ m'.free = m.free + 1 /\ m'.next = Lowered(m, f)
  BY <1>1, <1>2 DEF FreeFrame, MayFree
<1>4. AllFrames \ m'.used = (AllFrames \ m.used) \cup {f}
  BY <1>3
<1>5. m'.free = Cardinality(AllFrames \ m'.used) /\ m'.free \in Nat
  <2>1. IsFiniteSet(AllFrames \ m.used)
    BY FramesFinite
  <2>2. Cardinality((AllFrames \ m.used) \cup {f}) = Cardinality(AllFrames \ m.used) + 1
    BY <1>1, <2>1, FS_AddElement
  <2>3. m.free \in Nat /\ m.free = Cardinality(AllFrames \ m.used)
    BY DEF IInv, Shape
  <2>4. Cardinality(AllFrames \ m'.used) = Cardinality(AllFrames \ m.used) + 1
    BY <1>4, <2>2
  <2>5. m'.free = m.free + 1
    BY <1>3
  <2> QED BY <2>3, <2>4, <2>5
<1>6. m'.next \in 1..MaxFrames - 1
  BY <1>1, <1>3 DEF Lowered, IInv, Shape
<1>7. Shape'
  <2>1. m' \in [used : SUBSET AllFrames, free : Nat, next : 1..MaxFrames - 1]
    BY <1>3, <1>5, <1>6 DEF IInv, Shape
  <2>2. owned' = InitiallyFree \ (AllFrames \ m'.used)
    BY <1>1, <1>3, FramesFinite DEF Release, IInv, Shape
  <2>3. AllFrames \ m'.used \subseteq InitiallyFree
    BY <1>1, <1>4 DEF IInv, Shape
  <2>4. last' \in Nat
    BY DEF Release
  <2> QED BY <1>5, <2>1, <2>2, <2>3, <2>4 DEF Shape
<1>8. NextIsLowest'
  <2>1. SUFFICES ASSUME NEW g \in AllFrames, g < m'.next, g # 0 PROVE g \in m'.used
    BY DEF NextIsLowest
  <2>2. g < m.next /\ g # f
    BY <1>1, <1>3, <2>1, FramesFinite DEF Lowered, IInv, Shape
  <2> QED BY <1>3, <2>1, <2>2 DEF IInv, NextIsLowest
<1>9. FailsOnlyWhenFull'
  BY DEF Release, FailsOnlyWhenFull
<1> QED BY <1>7, <1>8, <1>9 DEF IInv

\* pmm_free_frame on any other address changes nothing.
LEMMA FreeIgnoredIInv ==
    ASSUME NEW address \in 0..MaxPhysical PROVE IInv /\ FreeIgnored(address) => IInv'
<1> SUFFICES ASSUME IInv, FreeIgnored(address) PROVE IInv'
  OBVIOUS
<1>1. m' = m
  BY DEF FreeIgnored, pmm_free_frame, FreeFrame, MayFree
<1>2. owned' = owned /\ last' = 1
  BY DEF FreeIgnored
<1> QED BY <1>1, <1>2 DEF IInv, Shape, NextIsLowest, FailsOnlyWhenFull

LEMMA NextIInv == IInv /\ [PmmNext]_pmmVars => IInv'
<1> SUFFICES ASSUME IInv, [PmmNext]_pmmVars PROVE IInv'
  OBVIOUS
<1>1. CASE Alloc
  BY <1>1, AllocIInv
<1>2. ASSUME NEW f \in AllFrames, Release(f) PROVE IInv'
  BY <1>2, FreeIInv
<1>3. ASSUME NEW address \in 0..MaxPhysical, FreeIgnored(address) PROVE IInv'
  BY <1>3, FreeIgnoredIInv
<1>4. CASE UNCHANGED pmmVars
  BY <1>4 DEF pmmVars, IInv, Shape, NextIsLowest, FailsOnlyWhenFull
<1> QED BY <1>1, <1>2, <1>3, <1>4 DEF PmmNext

-----------------------------------------------------------------------------
\* The invariant gives what the callers rely on.
LEMMA IInvAccounts == IInv => FramesTypeOK /\ FramesAccounted
<1> SUFFICES ASSUME IInv PROVE FramesTypeOK /\ FramesAccounted
  OBVIOUS
<1>1. FramesTypeOK
  BY FramesFinite DEF IInv, Shape, FramesTypeOK
<1>2. ASSUME NEW f \in AllFrames
      PROVE f \in InitiallyFree <=>
                f # 0 /\ \E e \in MemoryMap :
                    /\ e.type = "usable" /\ e.base <= f * FrameSize
                    /\ (f + 1) * FrameSize <= e.base + e.length
  <2>1. \A e \in MemoryMap : f \in Released(e) <=>
            e.base <= f * FrameSize /\ (f + 1) * FrameSize <= e.base + e.length
    BY ReleasedWhole
  <2> QED BY <2>1 DEF InitiallyFree
<1>3. \A f \in AllFrames : f \in owned <=> f \in m.used /\ f \in InitiallyFree
  BY DEF IInv, Shape
<1>4. FramesAccounted
  BY <1>2, <1>3 DEF FramesAccounted, IInv, Shape
<1> QED BY <1>1, <1>4

\* The frame allocator never gives a frame out twice, never loses one and
\* never gives out one that is not whole in a usable region; it gives out the
\* lowest free frame, and fails only when none is free (pmm.c), whatever the
\* memory map and the order of calls.
THEOREM FramesSafe == PmmSpec => []FramesSound
<1>1. PmmInit => IInv
  BY InitIInv
<1>2. IInv /\ [PmmNext]_pmmVars => IInv'
  BY NextIInv
<1>3. IInv => FramesSound
  BY IInvAccounts DEF IInv, FramesSound
<1> QED BY <1>1, <1>2, <1>3, PTL DEF PmmSpec
=============================================================================
