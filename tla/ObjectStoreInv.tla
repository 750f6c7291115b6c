---------------------------- MODULE ObjectStoreInv ----------------------------
(***************************************************************************)
(* The inductive invariant behind TypeOK and NoStaleWal.  It speaks of the   *)
(* three reserved sectors, of the root in memory and of the call in          *)
(* progress; the sectors that hold tables and objects do not matter to it,   *)
(* only that the store never writes them over the reserved ones.             *)
(***************************************************************************)
EXTENDS ObjectStore

Running == pc \notin {"down", "failed"}
Commits == {"put_many", "delete", "rollback"}
SnapshotCalls == {"create", "discard", "prune"}

\* A table generation that superblock_is_valid() and recover_wal() accept.
InBounds(first, count, limit) ==
    /\ count <= TableCapacity
    /\ \/ first = 0 /\ count = 0
       \/ first >= OBJECT_STORE_FIRST_ALLOCATABLE_SECTOR /\ first + count <= limit

SnapshotsIn(snaps, limit) ==
    \A k \in Slots : snaps[k].table_sector + snaps[k].table_count <= limit

StoreIn(limit) ==
    /\ limit \in OBJECT_STORE_FIRST_ALLOCATABLE_SECTOR .. SectorCount
    /\ InBounds(current_table_sector, Count(table), limit)
    /\ SnapshotsIn(snapshots, limit)

\* A superblock sector is blank or valid, the WAL sector blank or a record.
ReservedOK(disk) ==
    /\ \A s \in Superblocks :
         \/ disk[s] = Zero
         \/ superblock_is_valid(disk[s]) /\ SnapshotsIn(disk[s].snapshots, disk[s].next_sector)
    /\ \/ disk[OBJECT_STORE_WAL_SECTOR] = Zero
       \/ disk[OBJECT_STORE_WAL_SECTOR].kind = "wal"

\* Which call can be at which step, and how far its loops are.
CallOK ==
    /\ pc \in {"down", "failed", "ready"} => op = NoOp
    /\ recovery_required => pc = "ready"
    /\ pc \in {"alloc_objects", "alloc_table", "objects"} => op.call = "put_many"
    /\ pc = "alloc_objects" => op.index < Len(op.staged)
    /\ pc = "objects" => op.index \in 1 .. Len(op.staged)
    /\ pc = "publish" => op.call \in {"put_many", "delete", "format"} \cup SnapshotCalls
    /\ pc = "table" => op.call \in {"put_many", "delete"}
    /\ pc = "wal" => op.call \in Commits
    /\ pc = "root" => op.call \in Commits \cup {"mount"}
    /\ pc = "clear" => op.call \in Commits \cup {"mount", "format"}
    /\ op.call = "put_many" =>
         /\ Len(op.staged) >= 1
         /\ \A k \in 1 .. Len(op.staged) :
              (pc = "alloc_objects" => k <= op.index) =>
                op.staged[k].first_sector >= OBJECT_STORE_FIRST_ALLOCATABLE_SECTOR

\* Whatever a superblock or a WAL record may be made from lies below the
\* next_sector that the superblock publishes.
BoundsOK ==
    /\ Running => StoreIn(next_sector)
    /\ op.call = "put_many" => Count(op.candidate) <= TableCapacity
    /\ pc \in {"alloc_objects", "alloc_table", "publish", "objects", "table"} /\
       op.call = "put_many" => StoreIn(op.saved_next_sector)
    /\ op.call \in SnapshotCalls => SnapshotsIn(op.saved, next_sector)
    /\ pc \in {"publish", "objects", "table", "wal"} /\ op.call \in Commits =>
         InBounds(op.table_sector, Count(op.candidate), next_sector)

RootIs(c) == c.table_sector = current_table_sector /\ c.table_count = Count(table)

\* The format has written its first superblock, or no format is in progress.
Published == Running /\ (op.call = "format" => op.index = 1)

\* The superblock mount would choose has the root in memory, but for the root
\* step of a commit, when the WAL record has it.
SuperblockOK ==
    /\ Published => /\ visible[active_superblock_sector].kind = "superblock"
                    /\ visible[active_superblock_sector].sequence = superblock_sequence
    /\ Running /\ ~Published =>
         visible[active_superblock_sector] = Zero /\ pc = "publish"
    /\ pc \in {"publish", "root"} /\ io = "flush" =>
         visible[InactiveSuperblock] = superblock_from_store(superblock_sequence + 1)
    /\ Published /\ pc # "root" /\ ~recovery_required => RootIs(visible[chosen(visible)])

durableWal == durable[OBJECT_STORE_WAL_SECTOR]
visibleWal == visible[OBJECT_STORE_WAL_SECTOR]

\* What makes a remount safe: when the record is cleared but the clearing is not
\* yet durable, the superblock that mount chooses repeats the record's root.
ClearIsSafe ==
    visibleWal = Zero =>
        \/ durableWal = Zero
        \/ /\ HasSuperblock(visible)
           /\ durableWal.table_sector = visible[chosen(visible)].table_sector
           /\ durableWal.table_count = visible[chosen(visible)].table_count

\* What the WAL sector can hold at each step.
WalOK ==
    /\ op.call = "format" => durableWal = Zero /\ visibleWal = Zero
    /\ pc = "root" => visibleWal # Zero /\ WalAgrees(visibleWal)
    /\ Running /\ ~recovery_required =>
         /\ (op.call = "mount" /\ pc = "root") \/ WalAgrees(durableWal)
         /\ pc # "wal" => WalAgrees(visibleWal)
    /\ pc = "wal" /\ io = "flush" =>
         visibleWal = write_wal_root[OBJECT_STORE_WAL_SECTOR]
    /\ ~Running \/ recovery_required => ClearIsSafe

\* The inductive invariant: every step of the store, of a failing device and of
\* the power supply keeps it, and it implies TypeOK and NoStaleWal.  Whatever
\* object_store_mount() would choose, replay or skip agrees with the root that
\* the running store has in memory.
IInv ==
    /\ TypeOK /\ ReservedOK(durable) /\ ReservedOK(visible)
    /\ CallOK /\ BoundsOK /\ SuperblockOK /\ WalOK
===============================================================================
