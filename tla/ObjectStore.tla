------------------------------ MODULE ObjectStore -----------------------------
(***************************************************************************)
(* The persistent object store (kernel/obj/object_store.c) on a disk with a *)
(* volatile write cache.  A call runs through its I/O steps one write or    *)
(* flush at a time; between any two of them the machine may lose power,     *)
(* which keeps an arbitrary subset of the sectors written since the last    *)
(* flush.  A write or a flush may report failure whether or not it took     *)
(* effect.                                                                  *)
(***************************************************************************)
EXTENDS ObjectDisk

CONSTANTS
    BatchMax,        \* OBJECT_STORE_PUT_BATCH_MAX
    CacheSlots,      \* OBJECT_STORE_CACHE_SLOTS
    ArenaCapacity,   \* arena_capacity, in bytes
    UINT64_MAX,      \* the last generation, at which commits are refused
    MaxWriteFaults,  \* bound: failed writes and flushes in a behaviour
    MaxReadFaults,   \* bound: failed reads in a behaviour
    MaxCrashes       \* bound: power losses in a behaviour

ASSUME BoundsAssumption ==
    /\ BatchMax \in Nat \ {0} /\ CacheSlots \in Nat \ {0} /\ ArenaCapacity \in Nat
    /\ UINT64_MAX \in Nat
    /\ MaxWriteFaults \in Nat /\ MaxReadFaults \in Nat /\ MaxCrashes \in Nat

VARIABLES
    durable,   \* the disk as of the last flush
    visible,   \* what a read returns: durable plus the writes since
    \* struct object_store
    table, bitmap, next_sector, current_table_sector, current_generation,
    superblock_sequence, active_superblock_sector, recovery_required,
    snapshots,
    cache,     \* the cache slots and their bytes, least recently used first
    \* the call in progress
    pc,        \* "down", "failed" (mount or format returned 0), "ready", or a step
    io,        \* whether the step is about to write its sectors or to flush
    op,        \* the locals of the call
    budget     \* faults and crashes still allowed

diskVars == <<durable, visible>>
rootVars == <<table, current_table_sector, current_generation>>
spaceVars == <<bitmap, next_sector>>
sbVars == <<superblock_sequence, active_superblock_sector>>
storeVars == <<rootVars, spaceVars, sbVars, recovery_required, snapshots, cache>>
ctlVars == <<pc, io, op>>
vars == <<diskVars, storeVars, ctlVars, budget>>

IoSteps == {"publish", "objects", "table", "wal", "root", "clear"}
Steps == {"down", "failed", "ready", "alloc_objects", "alloc_table"} \cup IoSteps
Calls == {"none", "put_many", "delete", "rollback", "create", "discard", "prune",
          "mount", "format"}

Request == [id : Ids, val : Values]
Batches == UNION {[1 .. n -> Request] : n \in 1 .. BatchMax}
Staged == [id : Ids, val : Values, version : Nat, first_sector : Nat]
CacheSlot == [id : Ids, version : Nat, val : Values, length : Nat]

NoOp ==
    [call |-> "none", id |-> 0, staged |-> <<>>, index |-> 0, candidate |-> EmptyTable,
     table_sector |-> 0, saved_next_sector |-> 0, saved |-> [k \in Slots |-> NoSnapshot],
     saved_generation |-> 0, keep |-> 0]

IsOp(o) ==
    /\ o \in [call : Calls, id : Ids \cup {0}, staged : Seq(Staged), index : Nat,
              candidate : {o.candidate}, table_sector : Nat,
              saved_next_sector : 0 .. SectorCount, saved : [Slots -> Snapshot],
              saved_generation : Nat, keep : Nat]
    /\ IsTable(o.candidate)

\* One type invariant: the shape of the disk, of struct object_store and of
\* the locals of the call in progress.
TypeOK ==
    /\ durable \in Disk /\ visible \in Disk
    /\ IsTable(table)
    /\ bitmap \subseteq Sectors
    /\ next_sector \in 0 .. SectorCount
    /\ current_table_sector \in Nat /\ current_generation \in Nat
    /\ superblock_sequence \in Nat /\ active_superblock_sector \in Superblocks
    /\ recovery_required \in BOOLEAN
    /\ snapshots \in [Slots -> Snapshot]
    /\ cache \in Seq(CacheSlot)
    /\ pc \in Steps /\ io \in {"write", "flush"}
    /\ IsOp(op)
    /\ budget \in [writes : Nat, reads : Nat, crashes : Nat]

BlankStore ==
    /\ table = EmptyTable /\ bitmap = {} /\ next_sector = 0
    /\ current_table_sector = 0 /\ current_generation = 0
    /\ superblock_sequence = 0 /\ active_superblock_sector = 0
    /\ recovery_required = FALSE
    /\ snapshots = [k \in Slots |-> NoSnapshot]
    /\ cache = <<>>

\* A blank disk before the first boot.
Init ==
    /\ durable = [s \in Sectors |-> Zero] /\ visible = durable
    /\ BlankStore
    /\ pc = "down" /\ io = "write" /\ op = NoOp
    /\ budget = [writes |-> MaxWriteFaults, reads |-> MaxReadFaults,
                 crashes |-> MaxCrashes]

Goto(step, locals) == pc' = step /\ io' = "write" /\ op' = locals
Return == Goto("ready", NoOp)
Ready == pc = "ready" /\ ~recovery_required

(***************************************************************************)
(* The sector bitmap.                                                      *)
(***************************************************************************)
\* Mutant: the last sector of the run is not tested.
FreeRunsShort(count) ==
    {s \in OBJECT_STORE_FIRST_ALLOCATABLE_SECTOR .. SectorCount - 1 :
        /\ count # 0 /\ Run(s, count) \subseteq Sectors
        /\ Run(s, count - 1) \subseteq Sectors \ bitmap}

FreeRuns(count) ==
    {s \in OBJECT_STORE_FIRST_ALLOCATABLE_SECTOR .. SectorCount - 1 :
        /\ count # 0
        /\ Run(s, count) \subseteq Sectors \ bitmap}

\* First fit; next_sector grows to cover the run.
bitmap_allocate(first, count) ==
    /\ FreeRuns(count) # {}
    /\ first = Min(FreeRuns(count))
    /\ bitmap' = bitmap \cup Run(first, count)
    /\ next_sector' = Max({next_sector, first + count})

\* The generations rebuild_bitmap() marks, in its order: current, then each slot.
MarkedGeneration(root, snaps, k) == IF k = 1 THEN root ELSE snaps[k - 1]

GenerationReadable(g) == TableReadable(visible, g.table_sector, g.table_count)

\* How many generations rebuild_bitmap() marks before it returns: all of them,
\* or those before one that is not readable, now or because a read fails.
RebuildStops(root, snaps) ==
    {k \in 0 .. SnapshotLimit + 1 :
        /\ \A j \in 1 .. k : GenerationReadable(MarkedGeneration(root, snaps, j))
        /\ k <= SnapshotLimit =>
             LET g == MarkedGeneration(root, snaps, k + 1)
             IN  ~GenerationReadable(g) \/ (budget.reads > 0 /\ g.table_count # 0)}

rebuild_bitmap(root, snaps, k) ==
    Reserved \cup
    UNION {LET g == MarkedGeneration(root, snaps, j)
           IN  mark_generation(visible, g.table_sector, g.table_count) : j \in 1 .. k}

CurrentGeneration ==
    [table_sector |-> current_table_sector, table_count |-> Count(table)]

\* A rebuild that stops before a readable generation met a failed read.
SpendReads(root, snaps, k) ==
    IF k <= SnapshotLimit /\ GenerationReadable(MarkedGeneration(root, snaps, k + 1))
    THEN budget' = [budget EXCEPT !.reads = @ - 1]
    ELSE UNCHANGED budget

\* object_store_collect()'s effect on the bitmap, complete or cut short.
Rebuild ==
    \E k \in RebuildStops(CurrentGeneration, snapshots) :
        /\ bitmap' = rebuild_bitmap(CurrentGeneration, snapshots, k)
        /\ SpendReads(CurrentGeneration, snapshots, k)

(***************************************************************************)
(* The read cache: one entry per id at most, bounded by slots and arena.    *)
(***************************************************************************)
ArenaUsed(c) == MapThenSumSet(LAMBDA k : c[k].length, DOMAIN c)

\* cache_remove_slot() of the slot that holds id, if there is one.
cache_remove(c, id) ==
    LET index == {k \in DOMAIN c : c[k].id = id}
    IN  IF index = {} THEN c
        ELSE SubSeq(c, 1, Min(index) - 1) \o SubSeq(c, Min(index) + 1, Len(c))

\* Evict least recently used slots until a slot and length bytes are free, or
\* none is left.
cache_evict_lru(c, length) ==
    LET Fits(rest) == Len(rest) < CacheSlots /\ ArenaUsed(rest) + length <= ArenaCapacity
        keep == {k \in 1 .. Len(c) + 1 : k > Len(c) \/ Fits(SubSeq(c, k, Len(c)))}
    IN  SubSeq(c, Min(keep), Len(c))

cache_insert(c, id, version, val, length) ==
    LET span == ((length + 7) \div 8) * 8
    IN  IF span > ArenaCapacity THEN c
        ELSE Append(cache_evict_lru(cache_remove(c, id), span),
                    [id |-> id, version |-> version, val |-> val, length |-> span])

cache_find(id, version) ==
    {k \in DOMAIN cache : cache[k].id = id /\ cache[k].version = version}

(***************************************************************************)
(* What each I/O step writes.                                              *)
(***************************************************************************)
InactiveSuperblock ==
    IF active_superblock_sector = OBJECT_STORE_SUPERBLOCK_A
    THEN OBJECT_STORE_SUPERBLOCK_B ELSE OBJECT_STORE_SUPERBLOCK_A

superblock_from_store(sequence) ==
    [kind |-> "superblock", sequence |-> sequence, next_sector |-> next_sector,
     table_sector |-> current_table_sector, table_count |-> Count(table),
     generation |-> current_generation, snapshots |-> snapshots]

write_superblock ==
    [s \in {InactiveSuperblock} |-> superblock_from_store(superblock_sequence + 1)]

write_object_bytes ==
    LET st == op.staged[op.index]
    IN  [s \in Run(st.first_sector, sector_count(st.val)) |->
            [kind |-> "object", id |-> st.id, version |-> st.version, val |-> st.val,
             part |-> s - st.first_sector]]

\* One sector per entry, in the order of the ids.
write_table_generation ==
    [s \in Run(op.table_sector, Count(op.candidate)) |->
        LET rank(i) == Cardinality({j \in DOMAIN op.candidate : j < i})
        IN  op.candidate[CHOOSE i \in DOMAIN op.candidate :
                            rank(i) = s - op.table_sector]]

write_wal_root ==
    [s \in {OBJECT_STORE_WAL_SECTOR} |->
        [kind |-> "wal", table_sector |-> op.table_sector,
         table_count |-> Count(op.candidate), generation |-> current_generation + 1]]

clear_wal == [s \in {OBJECT_STORE_WAL_SECTOR} |-> Zero]

StepWrites ==
    CASE pc \in {"publish", "root"} -> write_superblock
      [] pc = "objects" -> write_object_bytes
      [] pc = "table" -> write_table_generation
      [] pc = "wal" -> write_wal_root
      [] pc = "clear" -> clear_wal

\* The disk after the sectors of written that lie below a point were written.
Overlay(disk, written, below) ==
    [s \in Sectors |->
        IF s \in DOMAIN written /\ s < below THEN written[s] ELSE disk[s]]

\* io.write_sector() for every sector of the step.
WriteSectors ==
    /\ pc \in IoSteps /\ io = "write"
    /\ visible' = Overlay(visible, StepWrites, SectorCount)
    /\ io' = "flush"
    /\ UNCHANGED <<durable, storeVars, pc, op, budget>>

\* io.flush() succeeds: everything written is durable.
Flush(step) ==
    /\ pc = step /\ io = "flush"
    /\ durable' = visible
    /\ UNCHANGED visible

\* Mutant: the sequence is not advanced.
SuperblockFlushedSameSequence(step) ==
    /\ Flush(step)
    /\ UNCHANGED superblock_sequence
    /\ active_superblock_sector' = InactiveSuperblock

\* The rest of write_superblock(), once its flush succeeded.
SuperblockFlushed(step) ==
    /\ Flush(step)
    /\ superblock_sequence' = superblock_sequence + 1
    /\ active_superblock_sector' = InactiveSuperblock

(***************************************************************************)
(* object_store_put_many(), object_store_put() being a batch of one.        *)
(***************************************************************************)
NextVersion(id) == IF id \in DOMAIN table THEN table[id].version + 1 ELSE 1

\* Validation and staging; an invalid batch is refused and changes nothing.
object_store_put_many(reqs) ==
    LET ids == {reqs[k].id : k \in DOMAIN reqs}
        staged == [k \in DOMAIN reqs |->
                     [id |-> reqs[k].id, val |-> reqs[k].val,
                      version |-> NextVersion(reqs[k].id), first_sector |-> 0]]
        entry(k) == [kind |-> "entry", id |-> staged[k].id, version |-> staged[k].version,
                     first_sector |-> OBJECT_STORE_FIRST_ALLOCATABLE_SECTOR,
                     sector_count |-> sector_count(staged[k].val)]
    IN  /\ Ready
        /\ current_generation # UINT64_MAX
        /\ \A k \in DOMAIN reqs : object_byte_count(reqs[k].val) <= CacheCapacity
        /\ \A j, k \in DOMAIN reqs : reqs[j].id = reqs[k].id => j = k
        /\ \A i \in ids : NextVersion(i) <= UINT64_MAX
        /\ Cardinality(DOMAIN table \cup ids) <= TableCapacity
        /\ Goto("alloc_objects",
                [NoOp EXCEPT
                   !.call = "put_many", !.staged = staged,
                   !.candidate = [i \in DOMAIN table \cup ids |->
                                    IF i \in ids
                                    THEN entry(CHOOSE k \in DOMAIN reqs : reqs[k].id = i)
                                    ELSE table[i]],
                   !.saved_next_sector = next_sector])
        /\ UNCHANGED <<diskVars, storeVars, budget>>

\* reject_allocations: the runs allocated so far are freed again.
AllocatedRuns ==
    LET n == IF pc = "alloc_objects" THEN op.index ELSE Len(op.staged)
        objects == UNION {Run(op.staged[k].first_sector, sector_count(op.staged[k].val)) :
                          k \in 1 .. n}
    IN  IF pc \in {"alloc_objects", "alloc_table"} THEN objects
        ELSE objects \cup Run(op.table_sector, Count(op.candidate))

RejectAllocations ==
    /\ bitmap' = bitmap \ AllocatedRuns
    /\ next_sector' = op.saved_next_sector
    /\ Return

\* One turn of the loop that allocates the objects' sectors.
AllocateObject ==
    LET k == op.index + 1
        st == op.staged[k]
    IN  /\ pc = "alloc_objects"
        /\ \/ \E first \in Sectors :
                /\ bitmap_allocate(first, sector_count(st.val))
                /\ Goto(IF k = Len(op.staged) THEN "alloc_table" ELSE "alloc_objects",
                        [op EXCEPT !.index = k, !.staged[k].first_sector = first,
                                   !.candidate[st.id].first_sector = first])
           \/ FreeRuns(sector_count(st.val)) = {} /\ RejectAllocations
        /\ UNCHANGED <<diskVars, rootVars, sbVars, recovery_required, snapshots, cache,
                       budget>>

\* Mutant: next_sector is not published before the objects are written.
AllocateTableUnpublished ==
    /\ pc = "alloc_table"
    /\ \/ \E first \in Sectors :
            /\ bitmap_allocate(first, Count(op.candidate))
            /\ Goto("objects", [op EXCEPT !.table_sector = first, !.index = 1])
       \/ FreeRuns(Count(op.candidate)) = {} /\ RejectAllocations
    /\ UNCHANGED <<diskVars, rootVars, sbVars, recovery_required, snapshots, cache,
                   budget>>

AllocateTable ==
    /\ pc = "alloc_table"
    /\ \/ \E first \in Sectors :
            /\ bitmap_allocate(first, Count(op.candidate))
            /\ Goto("publish", [op EXCEPT !.table_sector = first])
       \/ FreeRuns(Count(op.candidate)) = {} /\ RejectAllocations
    /\ UNCHANGED <<diskVars, rootVars, sbVars, recovery_required, snapshots, cache,
                   budget>>

(***************************************************************************)
(* object_store_delete() and the snapshot calls, up to their first write.   *)
(***************************************************************************)
object_store_delete(id) ==
    LET candidate == [i \in DOMAIN table \ {id} |-> table[i]]
        locals(first) == [NoOp EXCEPT !.call = "delete", !.id = id,
                                          !.candidate = candidate, !.table_sector = first]
    IN  /\ Ready
        /\ current_generation # UINT64_MAX
        /\ id \in DOMAIN table
        /\ \/ /\ Count(candidate) = 0
              /\ Goto("publish", locals(0))
              /\ UNCHANGED spaceVars
           \/ \E first \in Sectors :
                /\ bitmap_allocate(first, Count(candidate))
                /\ Goto("publish", locals(first))
        /\ UNCHANGED <<diskVars, rootVars, sbVars, recovery_required, snapshots, cache,
                       budget>>

UsedSlots(snaps) == {k \in Slots : snaps[k].id # 0}

object_store_snapshot_create ==
    LET id == current_generation + 1
        free == {k \in Slots : snapshots[k].id = 0}
    IN  /\ Ready
        /\ current_generation # UINT64_MAX
        /\ current_table_sector >= OBJECT_STORE_FIRST_ALLOCATABLE_SECTOR
        /\ Count(table) # 0
        /\ \A k \in Slots : snapshots[k].id # id
        /\ free # {}
        /\ snapshots' = [snapshots EXCEPT
                           ![Min(free)] = [id |-> id, table_sector |-> current_table_sector,
                                           table_count |-> Count(table)]]
        /\ current_generation' = id
        /\ Goto("publish", [NoOp EXCEPT !.call = "create", !.saved = snapshots,
                                        !.saved_generation = current_generation])
        /\ UNCHANGED <<diskVars, table, current_table_sector, spaceVars, sbVars,
                       recovery_required, cache, budget>>

\* Frees slot k in memory; what a failed write puts back is in op.saved.
DiscardSlot(k, locals) ==
    /\ snapshots' = [snapshots EXCEPT ![k] = NoSnapshot]
    /\ Goto("publish", [locals EXCEPT !.saved = snapshots,
                                      !.saved_generation = current_generation])

object_store_snapshot_discard(k) ==
    /\ Ready
    /\ snapshots[k].id # 0
    /\ DiscardSlot(k, [NoOp EXCEPT !.call = "discard"])
    /\ UNCHANGED <<diskVars, rootVars, spaceVars, sbVars, recovery_required, cache, budget>>

object_store_snapshot_rollback(k) ==
    LET sn == snapshots[k]
    IN  /\ Ready
        /\ current_generation # UINT64_MAX
        /\ sn.id # 0
        /\ sn.table_sector >= OBJECT_STORE_FIRST_ALLOCATABLE_SECTOR
        /\ sn.table_count \in 1 .. TableCapacity
        /\ TableReadable(visible, sn.table_sector, sn.table_count)
        /\ Goto("wal", [NoOp EXCEPT
                          !.call = "rollback", !.table_sector = sn.table_sector,
                          !.candidate = read_table_generation(visible, sn.table_sector,
                                                              sn.table_count)])
        /\ UNCHANGED <<diskVars, storeVars, budget>>

object_store_collect ==
    /\ Ready
    /\ Rebuild
    /\ UNCHANGED <<diskVars, rootVars, next_sector, sbVars, recovery_required, snapshots,
                   cache, ctlVars>>

\* One turn of prune's loop: discard the oldest snapshot, or collect and return.
OldestSlot ==
    CHOOSE k \in UsedSlots(snapshots) :
        \A j \in UsedSlots(snapshots) : snapshots[k].id <= snapshots[j].id

PruneTurn(keep) ==
    \/ /\ Cardinality(UsedSlots(snapshots)) > keep
       /\ DiscardSlot(OldestSlot, [NoOp EXCEPT !.call = "prune", !.keep = keep])
       /\ UNCHANGED <<bitmap, budget>>
    \/ /\ Cardinality(UsedSlots(snapshots)) <= keep
       /\ Rebuild
       /\ Return
       /\ UNCHANGED snapshots

object_store_snapshot_prune(keep) ==
    /\ Ready
    /\ PruneTurn(keep)
    /\ UNCHANGED <<diskVars, rootVars, next_sector, sbVars, recovery_required, cache>>

\* A hit moves the slot to the most recent end, a miss reads the disk and
\* inserts.  An entry that cannot be read leaves the store as it is.
object_store_get(id) ==
    /\ Ready
    /\ id \in DOMAIN table
    /\ LET e == table[id]
           hit == cache_find(id, e.version)
       IN  \/ \E k \in hit : cache' = Append(cache_remove(cache, id), cache[k])
           \/ /\ hit = {}
              /\ ObjectReadable(visible, e)
              /\ cache' = cache_insert(cache, id, e.version, visible[e.first_sector].val,
                                       e.sector_count * OBJECT_STORE_SECTOR_SIZE)
    /\ UNCHANGED <<diskVars, rootVars, spaceVars, sbVars, recovery_required, snapshots,
                   ctlVars, budget>>

(***************************************************************************)
(* object_store_format() and object_store_mount(), up to their first write. *)
(***************************************************************************)
NotMounted == pc \in {"down", "failed"}

ResetStore ==
    /\ table' = EmptyTable /\ current_table_sector' = 0 /\ current_generation' = 0
    /\ superblock_sequence' = 0 /\ recovery_required' = FALSE
    /\ snapshots' = [k \in Slots |-> NoSnapshot] /\ cache' = <<>>

object_store_format ==
    /\ NotMounted
    /\ ResetStore
    /\ active_superblock_sector' = OBJECT_STORE_SUPERBLOCK_A
    /\ bitmap' = Reserved /\ next_sector' = OBJECT_STORE_FIRST_ALLOCATABLE_SECTOR
    /\ Goto("publish", [NoOp EXCEPT !.call = "format"])
    /\ UNCHANGED <<diskVars, budget>>

\* mount or format returns 0; nothing reads the store it leaves.
FailToMount ==
    /\ ResetStore
    /\ active_superblock_sector' = 0 /\ bitmap' = {} /\ next_sector' = 0
    /\ Goto("failed", NoOp)

\* The store that mount loads from the chosen superblock and a root.
LoadStore(root) ==
    LET sb == visible[chosen(visible)]
    IN  /\ table' = read_table_generation(visible, root.table_sector, root.table_count)
        /\ current_table_sector' = root.table_sector
        /\ current_generation' = root.generation
        /\ superblock_sequence' = sb.sequence
        /\ active_superblock_sector' = chosen(visible)
        /\ next_sector' = sb.next_sector
        /\ snapshots' = sb.snapshots
        /\ recovery_required' = FALSE /\ cache' = <<>>

Mountable == NotMounted \/ (pc = "ready" /\ recovery_required)

\* No WAL record: load the superblock's table and rebuild the bitmap.
MountClean ==
    LET sb == visible[chosen(visible)]
    IN  /\ Mountable
        /\ MountLoads(visible)
        /\ visible[OBJECT_STORE_WAL_SECTOR] = Zero
        /\ LoadStore(sb)
        /\ bitmap' = rebuild_bitmap(sb, sb.snapshots, SnapshotLimit + 1)
        /\ Return
        /\ UNCHANGED <<diskVars, budget>>

\* recover_wal(): the record's root goes into the store, then to a superblock.
MountReplay ==
    LET wal == visible[OBJECT_STORE_WAL_SECTOR]
    IN  /\ Mountable
        /\ MountLoads(visible)
        /\ wal # Zero
        /\ LoadStore(wal)
        /\ bitmap' = {}
        /\ Goto("root", [NoOp EXCEPT !.call = "mount"])
        /\ UNCHANGED <<diskVars, budget>>

\* A disk that does not pass, or a read that fails.
MountFails ==
    /\ Mountable
    /\ \/ ~MountLoads(visible) /\ UNCHANGED budget
       \/ /\ budget.reads > 0
          /\ budget' = [budget EXCEPT !.reads = @ - 1]
    /\ FailToMount
    /\ UNCHANGED diskVars

(***************************************************************************)
(* The flush that ends each step, and what the call does next.              *)
(***************************************************************************)
PublishFlushed ==
    /\ SuperblockFlushed("publish")
    /\ \/ /\ op.call = "put_many"
          /\ Goto("objects", [op EXCEPT !.index = 1])
          /\ UNCHANGED <<bitmap, snapshots, budget>>
       \/ /\ op.call = "delete"
          /\ Goto(IF Count(op.candidate) = 0 THEN "wal" ELSE "table", op)
          /\ UNCHANGED <<bitmap, snapshots, budget>>
       \/ /\ op.call \in {"create", "discard"}
          /\ Return
          /\ UNCHANGED <<bitmap, snapshots, budget>>
       \/ /\ op.call = "prune"
          /\ PruneTurn(op.keep)
       \/ /\ op.call = "format"
          /\ Goto(IF op.index = 0 THEN "publish" ELSE "clear", [op EXCEPT !.index = 1])
          /\ UNCHANGED <<bitmap, snapshots, budget>>
    /\ UNCHANGED <<rootVars, next_sector, recovery_required, cache>>

\* Mutant: the WAL record is written before the table it names.
ObjectFlushedNoTable ==
    /\ Flush("objects")
    /\ IF op.index = Len(op.staged) THEN Goto("wal", op)
       ELSE Goto("objects", [op EXCEPT !.index = @ + 1])
    /\ UNCHANGED <<storeVars, budget>>

ObjectFlushed ==
    /\ Flush("objects")
    /\ IF op.index = Len(op.staged) THEN Goto("table", op)
       ELSE Goto("objects", [op EXCEPT !.index = @ + 1])
    /\ UNCHANGED <<storeVars, budget>>

\* Mutant: the table's flush is followed by another write of the table.
TableFlushedAgain ==
    /\ Flush("table")
    /\ Goto("table", op)
    /\ UNCHANGED <<storeVars, budget>>

TableFlushed ==
    /\ Flush("table")
    /\ Goto("wal", op)
    /\ UNCHANGED <<storeVars, budget>>

\* Mutant: the store keeps the previous table's sector.
WalFlushedOldSector ==
    /\ Flush("wal")
    /\ table' = op.candidate
    /\ current_generation' = current_generation + 1
    /\ Goto("root", op)
    /\ UNCHANGED <<current_table_sector, spaceVars, sbVars, recovery_required, snapshots,
                   cache, budget>>

\* The commit point: the store in memory moves to the new generation.
WalFlushed ==
    /\ Flush("wal")
    /\ table' = op.candidate
    /\ current_table_sector' = op.table_sector
    /\ current_generation' = current_generation + 1
    /\ Goto("root", op)
    /\ UNCHANGED <<spaceVars, sbVars, recovery_required, snapshots, cache, budget>>

RootFlushed ==
    /\ SuperblockFlushed("root")
    /\ Goto("clear", op)
    /\ UNCHANGED <<rootVars, spaceVars, recovery_required, snapshots, cache, budget>>

\* Mutant: delete leaves the object's slot.
CacheAfterCallKeepsDeleted ==
    LET st == op.staged[1]
    IN  IF op.call = "put_many" /\ Len(op.staged) = 1
        THEN cache_insert(cache, st.id, st.version, st.val, object_byte_count(st.val))
        ELSE cache

\* put_many caches the object of a batch of one; delete drops the object's slot.
CacheAfterCall ==
    LET st == op.staged[1]
    IN  CASE op.call = "put_many" /\ Len(op.staged) = 1 ->
               cache_insert(cache, st.id, st.version, st.val, object_byte_count(st.val))
          [] op.call = "delete" -> cache_remove(cache, op.id)
          [] OTHER -> cache

ClearFlushed ==
    /\ Flush("clear")
    /\ op.call # "mount"
    /\ cache' = CacheAfterCall
    /\ Return
    /\ UNCHANGED <<rootVars, spaceVars, sbVars, recovery_required, snapshots, budget>>

\* The end of a mount that replayed the WAL: rebuild the bitmap.
MountFlushed ==
    /\ Flush("clear")
    /\ op.call = "mount"
    /\ \E k \in RebuildStops(CurrentGeneration, snapshots) :
         /\ SpendReads(CurrentGeneration, snapshots, k)
         /\ \/ /\ k = SnapshotLimit + 1
               /\ bitmap' = rebuild_bitmap(CurrentGeneration, snapshots, k)
               /\ Return
               /\ UNCHANGED <<rootVars, next_sector, sbVars, recovery_required, snapshots,
                              cache>>
            \/ k <= SnapshotLimit /\ FailToMount

(***************************************************************************)
(* A write or a flush reports failure.  The writes of the step may have      *)
(* taken effect up to any sector; the call then takes its error path.        *)
(***************************************************************************)
IoFails ==
    /\ pc \in IoSteps
    /\ budget.writes > 0
    /\ budget' = [budget EXCEPT !.writes = @ - 1]
    /\ UNCHANGED durable
    /\ \/ /\ io = "write"
          /\ \E below \in 0 .. SectorCount : visible' = Overlay(visible, StepWrites, below)
       \/ io = "flush" /\ UNCHANGED visible

BeforeWal == pc \in {"publish", "objects", "table"}

\* put_many: OBJECT_STORE_BATCH_REJECTED.
PutRejected ==
    /\ op.call = "put_many" /\ BeforeWal
    /\ IoFails
    /\ RejectAllocations
    /\ UNCHANGED <<rootVars, sbVars, recovery_required, snapshots, cache>>

\* delete frees its table's sectors and leaves next_sector.
DeleteRejected ==
    /\ op.call = "delete" /\ BeforeWal
    /\ IoFails
    /\ bitmap' = bitmap \ Run(op.table_sector, Count(op.candidate))
    /\ Return
    /\ UNCHANGED <<rootVars, next_sector, sbVars, recovery_required, snapshots, cache>>

\* create, discard and prune put back the snapshots and the generation.
SnapshotCallFails ==
    /\ op.call \in {"create", "discard", "prune"}
    /\ IoFails
    /\ snapshots' = op.saved
    /\ current_generation' = op.saved_generation
    /\ Return
    /\ UNCHANGED <<table, current_table_sector, spaceVars, sbVars, recovery_required,
                   cache>>

\* Mutant: an ambiguous failure does not quarantine the store.
FailUnquarantined ==
    /\ op.call \in {"put_many", "delete", "rollback"} /\ ~BeforeWal
    /\ IoFails
    /\ Return
    /\ UNCHANGED <<rootVars, spaceVars, sbVars, recovery_required, snapshots, cache>>

\* Mutant: an ambiguous failure frees the call's allocations.
QuarantineFrees ==
    /\ op.call \in {"put_many", "delete", "rollback"} /\ ~BeforeWal
    /\ IoFails
    /\ recovery_required' = TRUE
    /\ bitmap' = bitmap \ AllocatedRuns
    /\ Return
    /\ UNCHANGED <<rootVars, next_sector, sbVars, snapshots, cache>>

\* From the WAL write on, the outcome is unknown: OBJECT_STORE_BATCH_RECOVERY_REQUIRED.
Quarantine ==
    /\ op.call \in {"put_many", "delete", "rollback"} /\ ~BeforeWal
    /\ IoFails
    /\ recovery_required' = TRUE
    /\ Return
    /\ UNCHANGED <<rootVars, spaceVars, sbVars, snapshots, cache>>

MountOrFormatFails ==
    /\ op.call \in {"mount", "format"}
    /\ IoFails
    /\ FailToMount

(***************************************************************************)
(* The environment: the disk's write cache and the power supply.            *)
(***************************************************************************)
Unflushed == {s \in Sectors : visible[s] # durable[s]}

\* The disk a power loss leaves when the sectors of kept had been persisted.
CrashImage(kept) == [s \in Sectors |-> IF s \in kept THEN visible[s] ELSE durable[s]]

Crash ==
    /\ pc # "down"
    /\ budget.crashes > 0
    /\ budget' = [budget EXCEPT !.crashes = @ - 1]
    /\ \E kept \in SUBSET Unflushed : durable' = CrashImage(kept)
    /\ visible' = durable'
    /\ ResetStore
    /\ active_superblock_sector' = 0 /\ bitmap' = {} /\ next_sector' = 0
    /\ Goto("down", NoOp)

PutMany == \E reqs \in Batches : object_store_put_many(reqs)
Delete == \E id \in Ids : object_store_delete(id)
Rollback == \E k \in Slots : object_store_snapshot_rollback(k)
Discard == \E k \in Slots : object_store_snapshot_discard(k)
Prune == \E keep \in 0 .. SnapshotLimit : object_store_snapshot_prune(keep)
Get == \E id \in Ids : object_store_get(id)
\* A caller formats a blank disk.
Format == (\A s \in Reserved : visible[s] = Zero) /\ object_store_format

StoreStep ==
    \/ PutMany \/ AllocateObject \/ AllocateTable \/ Delete
    \/ object_store_snapshot_create \/ Discard \/ Rollback \/ Prune
    \/ object_store_collect \/ Get
    \/ MountClean \/ MountReplay \/ MountFails
    \/ WriteSectors \/ PublishFlushed \/ ObjectFlushed \/ TableFlushed \/ WalFlushed
    \/ RootFlushed \/ ClearFlushed \/ MountFlushed
    \/ PutRejected \/ DeleteRejected \/ SnapshotCallFails \/ Quarantine
    \/ MountOrFormatFails

Next == StoreStep \/ Format \/ Crash

Spec == Init /\ [][Next]_vars

\* The steps of a call in progress.  A call is synchronous kernel code: it takes
\* its next step unless the power fails.
CallStep == pc \notin {"down", "failed", "ready"} /\ StoreStep

FairSpec == Spec /\ WF_vars(CallStep)

(***************************************************************************)
(* Properties.                                                             *)
(***************************************************************************)
Lost == [i \in Ids |-> Unreadable]

\* The objects a mount of this disk would find.
RecoveredContents(disk) ==
    IF ~HasSuperblock(disk) THEN EmptyTable
    ELSE IF MountSucceeds(disk) THEN GenerationContents(disk, RootOf(disk)) ELSE Lost

CrashImages == {CrashImage(kept) : kept \in SUBSET Unflushed}

\* What the call in progress leaves if it takes effect.
CallTarget ==
    LET staged(i) == {k \in DOMAIN op.staged : op.staged[k].id = i}
        st(i) == op.staged[CHOOSE k \in staged(i) : TRUE]
        kept == ContentsOf(visible, op.candidate)
    IN  IF op.call \in {"put_many", "delete", "rollback"}
        THEN [i \in DOMAIN op.candidate |->
                IF staged(i) = {} THEN kept[i]
                ELSE [version |-> st(i).version, val |-> st(i).val]]
        ELSE RecoveredContents(visible)

Durable == INSTANCE DurableObjects
             WITH contents <- RecoveredContents(durable), target <- CallTarget

\* put_many, delete and rollback are atomic and durable through power loss,
\* ambiguous I/O failures and remounts: what the disk recovers to changes only
\* as a whole, from the old objects to those of the call in progress.
AtomicContents == Durable!Spec

\* At no step does a power loss leave a disk object_store_mount() refuses,
\* whichever unflushed sectors it keeps (recover_wal's and
\* superblock_is_valid's bounds against the published next_sector included).
EveryCrashMounts ==
    HasSuperblock(durable) => \A image \in CrashImages : MountSucceeds(image)

\* A store that accepts calls holds in memory exactly what any power loss
\* would recover: an acknowledged put, delete or rollback is never lost.
ReadyIsDurable ==
    Ready => \A image \in CrashImages :
                RecoveredContents(image) = ContentsOf(visible, table)

\* Every entry of a ready store's table can be read back from the disk by
\* object_store_get(), as demo_verify_all() in kernel/boot/main.c expects.
EntriesReadable ==
    Ready => \A i \in DOMAIN table : ObjectReadable(visible, table[i])

\* The store has been mounted or formatted.
Serving == pc \notin {"down", "failed"} /\ op.call \notin {"mount", "format"}

\* The allocator (bitmap_allocate) never regards as free a sector that the
\* table generation or a snapshot of the disk uses, nor, when object or table
\* sectors are about to be written, one that a power loss would recover.  (A
\* store mounted from a superblock whose flush had failed knows fewer snapshots
\* than the durable superblock, until its next superblock is flushed.)
LiveSectorsHeld ==
    Serving => /\ LiveSectors(visible) \subseteq bitmap
               /\ pc \in {"objects", "table"} => LiveSectors(durable) \subseteq bitmap

\* Copy on write: no step overwrites a sector that the disk's recovered
\* generation or one of its snapshots uses.
CopyOnWrite ==
    [][\A s \in LiveSectors(durable) : visible'[s] = durable[s]]_vars

\* A snapshot's table can be read and its objects never change while it
\* exists, whatever is put, deleted, rolled back, collected or recovered.
SnapshotsImmutable ==
    [][HasSuperblock(durable) =>
         \A a \in SnapshotsOf(durable), b \in SnapshotsOf(durable') :
            a.id = b.id =>
                /\ TableReadable(durable', b.table_sector, b.table_count)
                /\ GenerationContents(durable, a) = GenerationContents(durable', b)
      ]_vars

\* When snapshot_create or snapshot_discard returns 1, the superblock mount
\* would choose holds exactly the snapshots the store has in memory.
SnapshotCallsDurable ==
    [][op.call \in {"create", "discard", "prune"} /\
       active_superblock_sector' # active_superblock_sector /\ pc' = "ready" =>
         SnapshotsOf(durable') = {snapshots'[k] : k \in UsedSlots(snapshots')}]_vars

WalAgrees(c) ==
    \/ c = Zero
    \/ /\ c.kind = "wal"
       /\ c.table_sector = current_table_sector
       /\ c.table_count = Count(table)

\* The WAL sector of a serving store is empty or repeats the root in memory:
\* recover_wal() after a power loss never brings back an older root.
NoStaleWal ==
    Serving /\ ~recovery_required =>
        /\ WalAgrees(durable[OBJECT_STORE_WAL_SECTOR])
        /\ pc # "wal" => WalAgrees(visible[OBJECT_STORE_WAL_SECTOR])

\* A version never exceeds the generation, so the check that refuses the last
\* generation also keeps put_many's version + 1 from wrapping to 0.
VersionsBounded ==
    Serving => \A i \in DOMAIN table : table[i].version <= current_generation

\* The table in memory can be relied on: its entries can be read back, the
\* bitmap holds the sectors of everything live, and versions do not wrap
\* (object_store_put_many, rebuild_bitmap).
EntriesSound == EntriesReadable /\ LiveSectorsHeld /\ VersionsBounded

\* Every call returns, prune's loop and put_many's loops included, however its
\* writes and flushes fail.
CallsReturn ==
    pc \notin {"down", "failed", "ready"} ~> pc \in {"down", "failed", "ready"}

\* A cached object whose id and version match the table is the object on disk,
\* so object_store_get() returns the same bytes hot and cold.
CacheCoherent ==
    Ready => \A k \in DOMAIN cache :
        LET slot == cache[k]
        IN  slot.id \in DOMAIN table /\ slot.version = table[slot.id].version =>
              /\ ObjectReadable(visible, table[slot.id])
              /\ visible[table[slot.id].first_sector].val = slot.val
===============================================================================
