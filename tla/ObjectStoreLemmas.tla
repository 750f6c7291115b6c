-------------------------- MODULE ObjectStoreLemmas ---------------------------
(***************************************************************************)
(* Lemmas about the operators and sub-actions of ObjectStore: the shapes of  *)
(* what is written, allocated, cached and loaded.                           *)
(***************************************************************************)
EXTENDS ObjectStoreInv, ObjectDiskProofs, SequenceTheorems

USE DEF OBJECT_STORE_SUPERBLOCK_A, OBJECT_STORE_SUPERBLOCK_B, OBJECT_STORE_WAL_SECTOR,
        OBJECT_STORE_FIRST_ALLOCATABLE_SECTOR

(***************************************************************************)
(* Shapes.                                                                 *)
(***************************************************************************)
\* The table of a freshly formatted store.
LEMMA EmptyTableType == IsTable(EmptyTable) /\ Count(EmptyTable) = 0
  <1>1. DOMAIN EmptyTable = {}
    BY DEF EmptyTable
  <1>2. EmptyTable \in [{} -> TableEntry]
    BY DEF EmptyTable
  <1>3. Cardinality({}) = 0
    BY FS_EmptySet
  <1> QED BY <1>1, <1>2, <1>3 DEF IsTable, Count

\* The snapshot slots of a freshly formatted store.
LEMMA NoSnapshotsType == [k \in Slots |-> NoSnapshot] \in [Slots -> Snapshot]
  BY DEF NoSnapshot, Snapshot

\* No call in progress.
LEMMA NoOpType == IsOp(NoOp)
  <1>1. <<>> \in Seq(Staged)
    OBVIOUS
  <1>2. 0 \in 0 .. SectorCount
    BY SectorAssumption
  <1>3. NoOp \in [call : Calls, id : Ids \cup {0}, staged : Seq(Staged), index : Nat,
                  candidate : {EmptyTable}, table_sector : Nat,
                  saved_next_sector : 0 .. SectorCount, saved : [Slots -> Snapshot],
                  saved_generation : Nat, keep : Nat]
    BY <1>1, <1>2, NoSnapshotsType DEF NoOp, Calls
  <1>4. NoOp.candidate = EmptyTable
    BY DEF NoOp
  <1> QED BY <1>3, <1>4, EmptyTableType DEF IsOp

\* The initial state is well shaped.
LEMMA TypeInit == Init => IInv
  <1> SUFFICES ASSUME Init PROVE IInv
    OBVIOUS
  <1>1. durable \in Disk /\ visible \in Disk
    BY DEF Init, Disk, Content
  <1>2. TypeOK
    <2>1. cache \in Seq(CacheSlot)
      BY DEF Init, BlankStore
    <2>2. IsTable(table) /\ snapshots \in [Slots -> Snapshot] /\ IsOp(op)
      BY EmptyTableType, NoSnapshotsType, NoOpType DEF Init, BlankStore
    <2>3. /\ next_sector \in 0 .. SectorCount /\ bitmap \subseteq Sectors
          /\ current_table_sector \in Nat /\ current_generation \in Nat
          /\ superblock_sequence \in Nat /\ active_superblock_sector \in Superblocks
      BY SectorAssumption DEF Init, BlankStore, Superblocks
    <2>4. recovery_required \in BOOLEAN
      BY DEF Init, BlankStore
    <2>5. pc \in Steps /\ io \in {"write", "flush"}
      BY DEF Init, Steps
    <2>6. budget \in [writes : Nat, reads : Nat, crashes : Nat]
      BY BoundsAssumption DEF Init
    <2> QED BY <1>1, <2>1, <2>2, <2>3, <2>4, <2>5, <2>6 DEF TypeOK
  <1>3. \A s \in {0, 1, 2} : durable[s] = Zero /\ visible[s] = Zero
    BY SectorAssumption DEF Init, Sectors
  <1>4. ReservedOK(durable) /\ ReservedOK(visible)
    BY <1>3 DEF ReservedOK, Superblocks
  <1>5. CallOK /\ BoundsOK /\ SuperblockOK /\ WalOK
    BY <1>3 DEF Init, BlankStore, CallOK, BoundsOK, SuperblockOK, WalOK, Running, Published,
                NoOp, SnapshotCalls, Commits, ClearIsSafe, durableWal, visibleWal
  <1> QED BY <1>2, <1>4, <1>5 DEF IInv

(***************************************************************************)
(* What the I/O steps write.                                               *)
(***************************************************************************)
\* What superblock_from_store() builds is a superblock.
LEMMA SuperblockType ==
    ASSUME TypeOK PROVE superblock_from_store(superblock_sequence + 1) \in Superblock
  <1>1. Count(table) \in Nat
    BY CountType DEF TypeOK
  <1> QED BY <1>1, SectorAssumption DEF TypeOK, superblock_from_store, Superblock

\* What write_wal_root() writes is a WAL record.
LEMMA WalRecordType ==
    ASSUME TypeOK PROVE write_wal_root[OBJECT_STORE_WAL_SECTOR] \in WalRecord
  <1>1. Count(op.candidate) \in Nat
    BY CountType DEF TypeOK, IsOp
  <1> QED BY SMTT(30), <1>1 DEF TypeOK, IsOp, write_wal_root, WalRecord

\* What write_object_bytes() writes is a sector of the staged object.
LEMMA ObjectBytesType ==
    ASSUME TypeOK, CallOK, pc = "objects",
           NEW s \in DOMAIN write_object_bytes
    PROVE  write_object_bytes[s] \in Content
  <1> DEFINE st == op.staged[op.index]
  <1>1. st \in Staged
    BY SMTT(30), ElementOfSeq DEF TypeOK, IsOp, CallOK
  <1>2. s \in Run(st.first_sector, sector_count(st.val))
    BY DEF write_object_bytes
  <1>3. st.first_sector \in Nat /\ s - st.first_sector \in Nat
    BY <1>1, <1>2 DEF Run, Staged
  <1>4. write_object_bytes[s] = [kind |-> "object", id |-> st.id, version |-> st.version,
                                 val |-> st.val, part |-> s - st.first_sector]
    BY <1>2 DEF write_object_bytes
  <1> QED BY <1>1, <1>3, <1>4 DEF Content, ObjectSector, Staged

\* What write_table_generation() writes in each sector is an entry of the
\* candidate: every rank below the count belongs to one id.
LEMMA TableGenerationType ==
    ASSUME TypeOK, NEW s \in DOMAIN write_table_generation
    PROVE  write_table_generation[s] \in Content
  <1> DEFINE D == DOMAIN op.candidate
             r == s - op.table_sector
  <1>1. IsTable(op.candidate) /\ op.table_sector \in Nat
    BY DEF TypeOK, IsOp
  <1>2. IsFiniteSet(D) /\ Cardinality(D) \in Nat /\ D \in SUBSET Nat
    BY <1>1, CountType, IdsAssumption DEF IsTable, Count
  <1>3. s \in op.table_sector .. op.table_sector + Cardinality(D) - 1
    BY DEF write_table_generation, Run, Count
  <1>4. r \in Nat /\ r < Cardinality(D)
    BY <1>1, <1>2, <1>3
  <1>5. \E i \in D : Cardinality({j \in D : j < i}) = r
    BY <1>2, <1>4, RankExists
  <1>6. write_table_generation[s] =
          op.candidate[CHOOSE i \in D : Cardinality({j \in D : j < i}) = r]
    BY <1>3 DEF write_table_generation, Run, Count
  <1>7. (CHOOSE i \in D : Cardinality({j \in D : j < i}) = r) \in D
    BY <1>5
  <1>8. write_table_generation[s] \in TableEntry
    BY <1>1, <1>6, <1>7 DEF IsTable
  <1> QED BY <1>8 DEF Content

\* Every I/O step writes well-shaped sectors.
LEMMA StepWritesType ==
    ASSUME TypeOK, CallOK, pc \in IoSteps, NEW s \in DOMAIN StepWrites
    PROVE  StepWrites[s] \in Content
  <1>1. CASE pc \in {"publish", "root"}
    <2>1. StepWrites = write_superblock
      BY <1>1 DEF StepWrites
    <2> QED BY <2>1, SuperblockType DEF write_superblock, Content
  <1>2. CASE pc = "objects"
    <2>1. StepWrites = write_object_bytes
      BY <1>2 DEF StepWrites
    <2> QED BY <1>2, <2>1, ObjectBytesType
  <1>3. CASE pc = "table"
    <2>1. StepWrites = write_table_generation
      BY <1>3 DEF StepWrites
    <2> QED BY <2>1, TableGenerationType
  <1>4. CASE pc = "wal"
    <2>1. StepWrites = write_wal_root
      BY <1>4 DEF StepWrites
    <2>2. s = OBJECT_STORE_WAL_SECTOR
      BY <2>1 DEF write_wal_root
    <2> QED BY <2>1, <2>2, WalRecordType DEF Content
  <1>5. CASE pc = "clear"
    <2>1. StepWrites = clear_wal
      BY <1>5 DEF StepWrites
    <2> QED BY <2>1 DEF clear_wal, Content
  <1> QED BY <1>1, <1>2, <1>3, <1>4, <1>5 DEF IoSteps

\* So the disk keeps its shape, however much of a step's writes took effect.
LEMMA OverlayType ==
    ASSUME TypeOK, CallOK, pc \in IoSteps, NEW below \in Int
    PROVE  Overlay(visible, StepWrites, below) \in Disk
  <1>1. \A s \in Sectors : visible[s] \in Content
    BY DEF TypeOK, Disk
  <1> HIDE DEF StepWrites
  <1> QED BY <1>1, StepWritesType DEF Overlay, Disk

(***************************************************************************)
(* The cache and the bitmap.                                               *)
(***************************************************************************)
\* cache_remove_slot() keeps the shape of the cache.
LEMMA CacheRemoveType ==
    ASSUME NEW c \in Seq(CacheSlot), NEW id
    PROVE  cache_remove(c, id) \in Seq(CacheSlot)
  <1> DEFINE index == {k \in DOMAIN c : c[k].id = id}
  <1>1. CASE index = {}
    BY <1>1 DEF cache_remove
  <1>2. CASE index # {}
    <2>1. index \in SUBSET Nat /\ DOMAIN c = 1 .. Len(c) /\ Len(c) \in Nat
      BY LenProperties
    <2>2. Min(index) \in index
      BY <2>1, <1>2, MinProperties
    <2>3. Min(index) \in 1 .. Len(c)
      BY <2>1, <2>2
    <2> DEFINE m == Min(index)
    <2>4. m \in 1 .. Len(c)
      BY <2>3
    <2> HIDE DEF m
    <2>5. SubSeq(c, 1, m - 1) \in Seq(CacheSlot) /\ SubSeq(c, m + 1, Len(c)) \in Seq(CacheSlot)
      BY <2>1, <2>4, SubSeqProperties
    <2>6. cache_remove(c, id) = SubSeq(c, 1, m - 1) \o SubSeq(c, m + 1, Len(c))
      BY <1>2 DEF cache_remove, m
    <2> QED BY <2>5, <2>6, ConcatProperties
  <1> QED BY <1>1, <1>2

\* cache_evict_lru() keeps the shape of the cache.
LEMMA CacheEvictType ==
    ASSUME NEW c \in Seq(CacheSlot), NEW length
    PROVE  cache_evict_lru(c, length) \in Seq(CacheSlot)
  <1> DEFINE Fits(rest) ==
               Len(rest) < CacheSlots /\ ArenaUsed(rest) + length <= ArenaCapacity
             keep == {k \in 1 .. Len(c) + 1 : k > Len(c) \/ Fits(SubSeq(c, k, Len(c)))}
             m == Min(keep)
  <1> HIDE DEF Fits
  <1>1. Len(c) \in Nat
    BY LenProperties
  <1>2. Len(c) + 1 \in keep /\ keep \in SUBSET Nat
    BY <1>1
  <1>3. m \in keep
    BY <1>2, MinProperties
  <1>4. m \in 1 .. Len(c) + 1
    BY <1>3
  <1>5. cache_evict_lru(c, length) = SubSeq(c, m, Len(c))
    BY DEF cache_evict_lru, Fits
  <1> HIDE DEF m
  <1> QED BY <1>1, <1>4, <1>5, SubSeqProperties

\* cache_insert() keeps the shape of the cache.
LEMMA CacheInsertType ==
    ASSUME NEW c \in Seq(CacheSlot), NEW id \in Ids, NEW version \in Nat,
           NEW val \in Values, NEW length \in Nat
    PROVE  cache_insert(c, id, version, val, length) \in Seq(CacheSlot)
  <1> DEFINE span == ((length + 7) \div 8) * 8
             slot == [id |-> id, version |-> version, val |-> val, length |-> span]
             rest == cache_evict_lru(cache_remove(c, id), span)
  <1>1. span \in Nat
    OBVIOUS
  <1>2. slot \in CacheSlot
    BY <1>1 DEF CacheSlot
  <1>3. rest \in Seq(CacheSlot)
    BY CacheRemoveType, CacheEvictType
  <1>4. cache_insert(c, id, version, val, length) \in {c, Append(rest, slot)}
    BY DEF cache_insert
  <1> HIDE DEF rest, slot
  <1>5. Append(rest, slot) \in Seq(CacheSlot)
    BY <1>2, <1>3, AppendProperties
  <1> QED BY <1>4, <1>5

\* Objects have a size in bytes and in sectors.
LEMMA SectorCountType ==
    ASSUME NEW v \in Values PROVE sector_count(v) \in Nat /\ object_byte_count(v) \in Nat
  BY PayloadAssumption DEF sector_count, object_byte_count, OBJECT_STORE_SECTOR_SIZE,
     OBJECT_HEADER_SIZE

\* A run taken by bitmap_allocate() lies behind the reserved sectors, on the
\* disk and below the new next_sector.
LEMMA AllocateFacts ==
    ASSUME TypeOK, NEW first, NEW count \in Nat, bitmap_allocate(first, count)
    PROVE  /\ first \in Nat /\ first >= 3 /\ first + count <= SectorCount
           /\ bitmap' \subseteq Sectors
           /\ next_sector' \in 0 .. SectorCount
           /\ next_sector <= next_sector' /\ first + count <= next_sector'
  <1>1. FreeRuns(count) \in SUBSET Nat /\ FreeRuns(count) # {}
    BY SectorAssumption DEF FreeRuns, bitmap_allocate
  <1>2. first \in FreeRuns(count)
    BY <1>1, MinProperties DEF bitmap_allocate
  <1>3. /\ first \in 3 .. SectorCount - 1 /\ count # 0
        /\ Run(first, count) \subseteq Sectors
    BY <1>2 DEF FreeRuns
  <1>4. first + count - 1 \in Run(first, count)
    BY <1>3, SectorAssumption DEF Run
  <1>5. first + count <= SectorCount
    BY <1>3, <1>4, SectorAssumption DEF Sectors
  <1>6. bitmap' \subseteq Sectors
    BY <1>3 DEF TypeOK, bitmap_allocate
  <1>7. next_sector \in Nat /\ first + count \in Nat
    BY <1>3, SectorAssumption DEF TypeOK
  <1>8. /\ next_sector' \in {next_sector, first + count}
        /\ next_sector' >= next_sector /\ next_sector' >= first + count
    BY <1>7, MaxOfTwo DEF bitmap_allocate
  <1> QED BY <1>3, <1>5, <1>6, <1>7, <1>8, SectorAssumption DEF TypeOK

\* mark_generation() sets bits of the disk only.
LEMMA MarkedType ==
    ASSUME NEW disk, NEW first, NEW count
    PROVE  mark_generation(disk, first, count) \subseteq Sectors
  BY DEF mark_generation, bitmap_set_range

\* rebuild_bitmap() sets bits of the disk only, complete or cut short.
LEMMA RebuildType ==
    ASSUME NEW root, NEW snaps, NEW k
    PROVE  rebuild_bitmap(root, snaps, k) \subseteq Sectors
  <1>1. Reserved \subseteq Sectors
    BY SectorAssumption DEF Reserved, Sectors
  <1>2. \A j \in 1 .. k :
          LET g == MarkedGeneration(root, snaps, j)
          IN  mark_generation(visible, g.table_sector, g.table_count) \subseteq Sectors
    BY MarkedType
  <1> QED BY <1>1, <1>2 DEF rebuild_bitmap

\* A rebuild uses up a failed read only when one is left.
LEMMA SpendReadsType ==
    ASSUME TypeOK, NEW k \in RebuildStops(CurrentGeneration, snapshots),
           SpendReads(CurrentGeneration, snapshots, k)
    PROVE  budget' \in [writes : Nat, reads : Nat, crashes : Nat]
  <1>1. CASE k <= SnapshotLimit /\
             GenerationReadable(MarkedGeneration(CurrentGeneration, snapshots, k + 1))
    <2>1. budget.reads > 0
      BY <1>1 DEF RebuildStops
    <2>2. budget' = [budget EXCEPT !.reads = @ - 1]
      BY <1>1 DEF SpendReads
    <2> QED BY <2>1, <2>2 DEF TypeOK
  <1>2. CASE ~(k <= SnapshotLimit /\
               GenerationReadable(MarkedGeneration(CurrentGeneration, snapshots, k + 1)))
    BY <1>2 DEF SpendReads, TypeOK
  <1> QED BY <1>1, <1>2

\* What object_store_collect() leaves in the bitmap.
LEMMA RebuildStep ==
    ASSUME TypeOK, Rebuild
    PROVE  /\ bitmap' \subseteq Sectors
           /\ budget' \in [writes : Nat, reads : Nat, crashes : Nat]
  BY RebuildType, SpendReadsType DEF Rebuild

(***************************************************************************)
(* Mounting.                                                               *)
(***************************************************************************)
\* The superblock that object_store_mount() picks is valid when one is.
LEMMA ChosenFacts ==
    ASSUME NEW disk, HasSuperblock(disk)
    PROVE  /\ chosen(disk) \in Superblocks
           /\ superblock_is_valid(disk[chosen(disk)])
  BY DEF HasSuperblock, chosen, Superblocks

\* Every disk has the superblock and WAL sectors.
LEMMA ReservedSectors == {0, 1, 2} \subseteq Sectors
  BY SectorAssumption DEF Sectors

\* The root that object_store_mount() loads is well shaped and in bounds.
LEMMA LoadFacts ==
    ASSUME TypeOK, ReservedOK(visible), MountLoads(visible),
           NEW root, root = RootOf(visible), LoadStore(root)
    PROVE  /\ IsTable(table') /\ (Count(table))' = root.table_count
           /\ current_table_sector' = root.table_sector
           /\ current_table_sector' \in Nat /\ current_generation' \in Nat
           /\ superblock_sequence' = visible[chosen(visible)].sequence
           /\ superblock_sequence' \in Nat
           /\ active_superblock_sector' = chosen(visible)
           /\ active_superblock_sector' \in Superblocks
           /\ next_sector' \in 0 .. SectorCount
           /\ snapshots' \in [Slots -> Snapshot]
           /\ recovery_required' = FALSE /\ cache' = <<>>
           /\ StoreIn(next_sector)'
  <1> DEFINE sb == visible[chosen(visible)]
             wal == visible[OBJECT_STORE_WAL_SECTOR]
  <1>1. superblock_is_valid(sb) /\ chosen(visible) \in Superblocks
    BY ChosenFacts DEF MountLoads
  <1>2. chosen(visible) \in Sectors /\ OBJECT_STORE_WAL_SECTOR \in Sectors
    BY <1>1, ReservedSectors DEF Superblocks
  <1>3. sb \in Superblock
    BY <1>1, <1>2, ContentKinds DEF TypeOK, Disk, superblock_is_valid
  <1>4. SnapshotsIn(sb.snapshots, sb.next_sector)
    <2>1. sb # Zero
      BY <1>1 DEF superblock_is_valid, Zero
    <2> QED BY <1>1, <2>1 DEF ReservedOK
  <1>5. /\ root.table_sector \in Nat /\ root.table_count \in Nat /\ root.generation \in Nat
        /\ TableReadable(visible, root.table_sector, root.table_count)
        /\ InBounds(root.table_sector, root.table_count, sb.next_sector)
    <2>1. CASE wal = Zero
      <3>1. root = sb
        BY <2>1 DEF RootOf
      <3>2. TableReadable(visible, sb.table_sector, sb.table_count)
        BY <2>1 DEF MountLoads
      <3>3. InBounds(sb.table_sector, sb.table_count, sb.next_sector)
        BY <1>1, <1>3 DEF superblock_is_valid, InBounds, Superblock
      <3> QED BY <1>3, <3>1, <3>2, <3>3 DEF Superblock
    <2>2. CASE wal # Zero
      <3>1. root = wal
        BY <2>2 DEF RootOf
      <3>2. WalUsable(visible, wal, sb.next_sector)
        BY <2>2 DEF MountLoads
      <3>3. wal \in WalRecord
        BY <1>2, <3>2, ContentKinds DEF TypeOK, Disk, WalUsable, object_wal_validate
      <3>4. InBounds(wal.table_sector, wal.table_count, sb.next_sector)
        BY <1>3, <3>2, <3>3 DEF WalUsable, object_wal_validate, InBounds, WalRecord, Superblock
      <3> QED BY <3>1, <3>2, <3>3, <3>4 DEF WalUsable, object_wal_validate, WalRecord
    <2> QED BY <2>1, <2>2
  <1>6. table' = read_table_generation(visible, root.table_sector, root.table_count)
    BY DEF LoadStore
  <1>7. IsTable(table') /\ (Count(table))' = root.table_count
    <2>1. IsTable(read_table_generation(visible, root.table_sector, root.table_count)) /\
          Count(read_table_generation(visible, root.table_sector, root.table_count)) =
            root.table_count
      BY <1>5, ReadTable DEF TypeOK
    <2>2. (Count(table))' = Count(table')
      BY DEF Count
    <2> QED BY <1>6, <2>1, <2>2
  <1>8. /\ current_table_sector' = root.table_sector /\ current_generation' = root.generation
        /\ superblock_sequence' = sb.sequence /\ active_superblock_sector' = chosen(visible)
        /\ next_sector' = sb.next_sector /\ snapshots' = sb.snapshots
        /\ recovery_required' = FALSE /\ cache' = <<>>
    BY DEF LoadStore
  <1>9. sb.next_sector \in 3 .. SectorCount
    BY <1>1 DEF superblock_is_valid
  <1>10. StoreIn(next_sector)'
    <2>1. InBounds(current_table_sector, Count(table), next_sector)'
      BY <1>5, <1>7, <1>8 DEF InBounds
    <2>2. SnapshotsIn(snapshots, next_sector)'
      BY <1>4, <1>8 DEF SnapshotsIn
    <2> QED BY <1>8, <1>9, <2>1, <2>2 DEF StoreIn
  <1> QED BY <1>1, <1>3, <1>5, <1>7, <1>8, <1>9, <1>10, SectorAssumption DEF Superblock
=============================================================================
