------------------------------ MODULE ObjectDisk ------------------------------
(***************************************************************************)
(* The on-disk format of the object store (kernel/obj/object_store.c): what *)
(* a sector can hold, which sectors a table generation and an object        *)
(* occupy, and what the store's readers make of a disk.  A disk is a        *)
(* function from sector numbers to contents.  Magic numbers and checksums   *)
(* are abstracted to the "kind" of a content: a sector passes the checks of *)
(* one kind only, and a sector that is written is written whole.            *)
(***************************************************************************)
EXTENDS Integers, FiniteSets, Sequences, FiniteSetsExt

CONSTANTS
    Ids,            \* object ids, positive numbers (ordered as object_id_compare)
    Values,         \* object payloads
    PayloadSize,    \* payload_size of each payload, in bytes
    SectorCount,    \* io.sector_count
    CacheCapacity,  \* cache_capacity: bytes of the buffer an object is built in
    TableCapacity,  \* table_capacity
    SnapshotLimit   \* OBJECT_STORE_SNAPSHOT_LIMIT

OBJECT_STORE_SECTOR_SIZE == 512
OBJECT_HEADER_SIZE == 128
OBJECT_STORE_SUPERBLOCK_A == 0
OBJECT_STORE_SUPERBLOCK_B == 1
OBJECT_STORE_WAL_SECTOR == 2
OBJECT_STORE_FIRST_ALLOCATABLE_SECTOR == 3

ASSUME IdsAssumption == IsFiniteSet(Ids) /\ Ids \subseteq Nat \ {0}
ASSUME PayloadAssumption == PayloadSize \in [Values -> Nat]
ASSUME SectorAssumption ==
    SectorCount \in Nat /\ SectorCount >= OBJECT_STORE_FIRST_ALLOCATABLE_SECTOR
ASSUME LimitAssumption ==
    TableCapacity \in Nat \ {0} /\ SnapshotLimit \in Nat /\ CacheCapacity \in Nat

Sectors == 0 .. SectorCount - 1
Superblocks == {OBJECT_STORE_SUPERBLOCK_A, OBJECT_STORE_SUPERBLOCK_B}
Reserved == 0 .. OBJECT_STORE_FIRST_ALLOCATABLE_SECTOR - 1
Slots == 1 .. SnapshotLimit

Run(first, count) == first .. first + count - 1

\* Header and payload, in bytes and in whole sectors.
object_byte_count(v) == OBJECT_HEADER_SIZE + PayloadSize[v]
sector_count(v) ==
    (object_byte_count(v) + OBJECT_STORE_SECTOR_SIZE - 1) \div OBJECT_STORE_SECTOR_SIZE

\* struct object_store_snapshot; id 0 is a free slot.
Snapshot == [id : Nat, table_sector : Nat, table_count : Nat]
NoSnapshot == [id |-> 0, table_sector |-> 0, table_count |-> 0]

Zero == [kind |-> "zero"]

Superblock ==
    [kind : {"superblock"}, sequence : Nat, next_sector : Nat,
     table_sector : Nat, table_count : Nat, generation : Nat,
     snapshots : [Slots -> Snapshot]]

WalRecord ==
    [kind : {"wal"}, table_sector : Nat, table_count : Nat, generation : Nat]

TableEntry ==
    [kind : {"entry"}, id : Ids, version : Nat, first_sector : Nat,
     sector_count : Nat]

\* One sector of an object: its header's id and version, its payload, and
\* which sector of the object this is.
ObjectSector ==
    [kind : {"object"}, id : Ids, version : Nat, val : Values, part : Nat]

Content == {Zero} \cup Superblock \cup WalRecord \cup TableEntry \cup ObjectSector
Disk == [Sectors -> Content]

\* Object tables: the sorted array of struct object_table_entry, as a function.
IsTable(tbl) == DOMAIN tbl \subseteq Ids /\ tbl \in [DOMAIN tbl -> TableEntry]
EmptyTable == [i \in {} |-> 0]
Count(tbl) == Cardinality(DOMAIN tbl)

(***************************************************************************)
(* Readers.                                                                *)
(***************************************************************************)
superblock_is_valid(c) ==
    /\ c.kind = "superblock"
    /\ c.next_sector \in OBJECT_STORE_FIRST_ALLOCATABLE_SECTOR .. SectorCount
    /\ c.table_count <= TableCapacity
    /\ IF c.table_sector = 0
       THEN c.table_count = 0
       ELSE /\ c.table_sector \in
                  OBJECT_STORE_FIRST_ALLOCATABLE_SECTOR .. c.next_sector
            /\ c.table_count <= c.next_sector - c.table_sector

HasSuperblock(disk) == \E s \in Superblocks : superblock_is_valid(disk[s])

\* The superblock sector object_store_mount() picks.
chosen(disk) ==
    LET first == disk[OBJECT_STORE_SUPERBLOCK_A]
        second == disk[OBJECT_STORE_SUPERBLOCK_B]
    IN  IF /\ superblock_is_valid(first)
           /\ superblock_is_valid(second) => first.sequence >= second.sequence
        THEN OBJECT_STORE_SUPERBLOCK_A
        ELSE OBJECT_STORE_SUPERBLOCK_B

\* read_table_generation() returns 1.
TableReadable(disk, first, count) ==
    /\ count <= TableCapacity
    /\ count # 0 =>
         /\ first >= OBJECT_STORE_FIRST_ALLOCATABLE_SECTOR
         /\ count <= SectorCount - first
    /\ \A s \in Run(first, count) :
         /\ disk[s].kind = "entry"
         /\ s # first => disk[s - 1].id < disk[s].id

\* The table read_table_generation() leaves in memory.
read_table_generation(disk, first, count) ==
    LET records == {disk[s] : s \in Run(first, count)}
    IN  [i \in {r.id : r \in records} |-> CHOOSE r \in records : r.id = i]

object_wal_validate(wal) ==
    /\ wal.kind = "wal"
    /\ wal.generation # 0
    /\ wal.table_count = 0 <=> wal.table_sector = 0

\* Mutant: the record of an empty table is refused.
WalUsableNotEmpty(disk, wal, next_sector) ==
    /\ object_wal_validate(wal)
    /\ wal.table_sector \in OBJECT_STORE_FIRST_ALLOCATABLE_SECTOR .. next_sector
    /\ wal.table_count <= next_sector - wal.table_sector
    /\ TableReadable(disk, wal.table_sector, wal.table_count)

\* recover_wal() accepts the record, given the chosen superblock.
WalUsable(disk, wal, next_sector) ==
    /\ object_wal_validate(wal)
    /\ wal.table_count <= TableCapacity
    /\ wal.table_count # 0 =>
         /\ wal.table_sector \in
                OBJECT_STORE_FIRST_ALLOCATABLE_SECTOR .. next_sector
         /\ wal.table_count <= next_sector - wal.table_sector
    /\ TableReadable(disk, wal.table_sector, wal.table_count)

\* The reads of object_store_get() return a valid object for this entry.
ObjectReadable(disk, e) ==
    /\ e.sector_count # 0
    /\ e.first_sector >= OBJECT_STORE_FIRST_ALLOCATABLE_SECTOR
    /\ e.sector_count <= SectorCount - e.first_sector
    /\ e.sector_count <= CacheCapacity \div OBJECT_STORE_SECTOR_SIZE
    /\ LET head == disk[e.first_sector]
       IN  /\ head.kind = "object"
           /\ head.id = e.id /\ head.version = e.version
           /\ \A s \in Run(e.first_sector, e.sector_count) :
                 disk[s] = [head EXCEPT !.part = s - e.first_sector]

\* The bits that bitmap_set_range() sets: those past the disk are ignored.
bitmap_set_range(first, count) == Run(first, count) \cap Sectors

\* The sectors mark_generation() sets for one table generation.
mark_generation(disk, first, count) ==
    bitmap_set_range(first, count) \cup
    UNION {bitmap_set_range(disk[s].first_sector, disk[s].sector_count) :
           s \in Run(first, count)}

(***************************************************************************)
(* What a disk recovers to, should the machine stop now and mount it.       *)
(***************************************************************************)
RootOf(disk) ==
    IF disk[OBJECT_STORE_WAL_SECTOR] = Zero
    THEN disk[chosen(disk)] ELSE disk[OBJECT_STORE_WAL_SECTOR]

SnapshotsOf(disk) ==
    LET sb == disk[chosen(disk)]
    IN  {sb.snapshots[k] : k \in {j \in Slots : sb.snapshots[j].id # 0}}

SnapshotsReadable(disk) ==
    \A sn \in SnapshotsOf(disk) : TableReadable(disk, sn.table_sector, sn.table_count)

\* object_store_mount() reaches its first write, or returns 1 without one,
\* when no read fails.
MountLoads(disk) ==
    LET sb == disk[chosen(disk)]
        wal == disk[OBJECT_STORE_WAL_SECTOR]
    IN  /\ HasSuperblock(disk)
        /\ IF wal = Zero
           THEN TableReadable(disk, sb.table_sector, sb.table_count) /\ SnapshotsReadable(disk)
           ELSE WalUsable(disk, wal, sb.next_sector)

\* object_store_mount() returns 1 on this disk when no read or write fails.
MountSucceeds(disk) == MountLoads(disk) /\ SnapshotsReadable(disk)

Unreadable == [version |-> 0]

\* The objects of a table, read from a disk.
ContentsOf(disk, tbl) ==
    [i \in DOMAIN tbl |->
        IF ObjectReadable(disk, tbl[i])
        THEN [version |-> tbl[i].version, val |-> disk[tbl[i].first_sector].val]
        ELSE Unreadable]

GenerationContents(disk, g) ==
    ContentsOf(disk, read_table_generation(disk, g.table_sector, g.table_count))

\* Sectors that hold the recovered generation and every recovered snapshot.
LiveSectors(disk) ==
    LET gens == IF HasSuperblock(disk) THEN {RootOf(disk)} \cup SnapshotsOf(disk) ELSE {}
    IN  UNION {mark_generation(disk, g.table_sector, g.table_count) : g \in gens}
===============================================================================
