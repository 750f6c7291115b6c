-------------------------- MODULE ObjectStoreProofs ---------------------------
(***************************************************************************)
(* The steps of ObjectStore that write, flush or fail preserve IInv.  With   *)
(* ObjectStoreCallProofs this proves type correctness and that the WAL       *)
(* sector never holds a stale root, for every number of sectors, objects,    *)
(* snapshots, faults and power losses.                                      *)
(***************************************************************************)
EXTENDS ObjectStoreCallProofs

USE DEF OBJECT_STORE_SUPERBLOCK_A, OBJECT_STORE_SUPERBLOCK_B, OBJECT_STORE_WAL_SECTOR,
        OBJECT_STORE_FIRST_ALLOCATABLE_SECTOR


(***************************************************************************)
(* What a write step does to the reserved sectors.                          *)
(***************************************************************************)
\* The next superblock passes superblock_is_valid().
LEMMA NewSuperblock ==
    ASSUME TypeOK, StoreIn(next_sector), NEW new,
           new = superblock_from_store(superblock_sequence + 1)
    PROVE  /\ superblock_is_valid(new) /\ SnapshotsIn(new.snapshots, new.next_sector)
           /\ new.sequence = superblock_sequence + 1 /\ RootIs(new)
  <1>1. /\ new.kind = "superblock" /\ new.sequence = superblock_sequence + 1
        /\ new.next_sector = next_sector /\ new.table_sector = current_table_sector
        /\ new.table_count = Count(table) /\ new.snapshots = snapshots
    BY DEF superblock_from_store
  <1>2. Count(table) \in Nat /\ current_table_sector \in Nat /\ next_sector \in Nat
    BY CountType, SectorAssumption DEF TypeOK
  <1>3. superblock_is_valid(new)
    BY <1>1, <1>2 DEF superblock_is_valid, StoreIn, InBounds
  <1> QED BY <1>1, <1>3 DEF StoreIn, RootIs

\* The two superblock sectors.
LEMMA ActiveOrInactive ==
    ASSUME TypeOK
    PROVE  /\ {active_superblock_sector, InactiveSuperblock} = {0, 1}
           /\ active_superblock_sector # InactiveSuperblock
  BY DEF TypeOK, Superblocks, InactiveSuperblock

\* Objects and tables are never written to a reserved sector.
LEMMA DataWrites ==
    ASSUME IInv, pc \in {"objects", "table"}, NEW s \in DOMAIN StepWrites
    PROVE  s \notin {0, 1, 2}
  <1>1. CASE pc = "objects"
    <2> DEFINE st == op.staged[op.index]
    <2>1. /\ op.call = "put_many" /\ op.staged \in Seq(Staged)
          /\ op.index \in 1 .. Len(op.staged)
      BY <1>1 DEF IInv, CallOK, TypeOK, IsOp
    <2>2. st.first_sector >= 3
      BY <1>1, <2>1 DEF IInv, CallOK
    <2>3. st \in Staged
      BY <2>1, ElementOfSeq
    <2>4. StepWrites = write_object_bytes
      BY <1>1 DEF StepWrites
    <2>5. s \in Run(st.first_sector, sector_count(st.val))
      BY <2>4 DEF write_object_bytes
    <2> QED BY <2>2, <2>3, <2>5, SectorCountType DEF Run, Staged
  <1>2. CASE pc = "table"
    <2>1. StepWrites = write_table_generation
      BY <1>2 DEF StepWrites
    <2>2. s \in Run(op.table_sector, Count(op.candidate))
      BY <2>1 DEF write_table_generation
    <2>3. InBounds(op.table_sector, Count(op.candidate), next_sector)
      BY <1>2 DEF IInv, CallOK, BoundsOK, Commits
    <2>4. op.table_sector \in Nat /\ Count(op.candidate) \in Nat
      BY CountType DEF IInv, TypeOK, IsOp
    <2> QED BY <2>2, <2>3, <2>4 DEF Run, InBounds
  <1> QED BY <1>1, <1>2

\* The sectors of a superblock step and of a WAL step.
LEMMA ReservedWrites ==
    ASSUME IInv, pc \in IoSteps, NEW below \in Nat, NEW disk,
           disk = Overlay(visible, StepWrites, below)
    PROVE  /\ disk[active_superblock_sector] = visible[active_superblock_sector]
           /\ pc \notin {"publish", "root"} => disk[0] = visible[0] /\ disk[1] = visible[1]
           /\ pc \notin {"wal", "clear"} => disk[2] = visible[2]
           /\ pc \in {"publish", "root"} =>
                disk[InactiveSuperblock] =
                  IF InactiveSuperblock < below
                  THEN superblock_from_store(superblock_sequence + 1)
                  ELSE visible[InactiveSuperblock]
           /\ pc = "wal" => disk[2] = IF 2 < below THEN write_wal_root[2] ELSE visible[2]
           /\ pc = "clear" => disk[2] = IF 2 < below THEN Zero ELSE visible[2]
  <1>1. \A s \in {0, 1, 2} :
          disk[s] = IF s \in DOMAIN StepWrites /\ s < below THEN StepWrites[s] ELSE visible[s]
    BY ReservedSectors DEF Overlay
  <1>2. /\ {active_superblock_sector, InactiveSuperblock} = {0, 1}
        /\ active_superblock_sector # InactiveSuperblock
    BY ActiveOrInactive DEF IInv
  <1>3. CASE pc \in {"publish", "root"}
    <2>1. StepWrites = write_superblock
      BY <1>3 DEF StepWrites
    <2>2. /\ DOMAIN StepWrites = {InactiveSuperblock}
          /\ StepWrites[InactiveSuperblock] = superblock_from_store(superblock_sequence + 1)
      BY <2>1 DEF write_superblock
    <2> QED BY <1>1, <1>2, <1>3, <2>2
  <1>4. CASE pc \in {"objects", "table"}
    <2>1. \A s \in {0, 1, 2} : s \notin DOMAIN StepWrites
      BY <1>4, DataWrites
    <2> QED BY <1>1, <1>2, <1>4, <2>1
  <1>5. CASE pc = "wal"
    <2>1. StepWrites = write_wal_root /\ DOMAIN write_wal_root = {2}
      BY <1>5 DEF StepWrites, write_wal_root
    <2> QED BY <1>1, <1>2, <1>5, <2>1
  <1>6. CASE pc = "clear"
    <2>1. StepWrites = clear_wal /\ DOMAIN clear_wal = {2} /\ clear_wal[2] = Zero
      BY <1>6 DEF StepWrites, clear_wal
    <2> QED BY <1>1, <1>2, <1>6, <2>1
  <1> QED BY <1>3, <1>4, <1>5, <1>6 DEF IoSteps

\* A step's writes leave the reserved sectors blank or valid.
LEMMA WritesReserved ==
    ASSUME IInv, pc \in IoSteps, NEW below \in Nat, NEW disk,
           disk = Overlay(visible, StepWrites, below)
    PROVE  ReservedOK(disk)
  <1> DEFINE new == superblock_from_store(superblock_sequence + 1)
  <1>1. ReservedOK(visible) /\ TypeOK /\ StoreIn(next_sector)
    BY DEF IInv, BoundsOK, Running, IoSteps
  <1>2. superblock_is_valid(new) /\ SnapshotsIn(new.snapshots, new.next_sector)
    BY <1>1, NewSuperblock
  <1>3. write_wal_root[2].kind = "wal"
    BY DEF write_wal_root
  <1>4. /\ {active_superblock_sector, InactiveSuperblock} = {0, 1}
    BY <1>1, ActiveOrInactive
  <1>5. \A s \in {0, 1} : disk[s] = visible[s] \/ disk[s] = new
    <2>1. CASE pc \in {"publish", "root"}
      <3>1. /\ disk[active_superblock_sector] = visible[active_superblock_sector]
            /\ disk[InactiveSuperblock] \in {visible[InactiveSuperblock], new}
        <4> HIDE DEF new
        <4> QED BY <2>1, ReservedWrites DEF new
      <3> HIDE DEF new
      <3> QED BY <1>4, <3>1
    <2>2. CASE pc \notin {"publish", "root"}
      BY <2>2, ReservedWrites
    <2> QED BY <2>1, <2>2
  <1>6. disk[2] = visible[2] \/ disk[2] = Zero \/ disk[2] = write_wal_root[2]
    BY ReservedWrites DEF IoSteps
  <1> HIDE DEF new
  <1> QED BY <1>1, <1>2, <1>3, <1>5, <1>6 DEF ReservedOK, Superblocks

\* A superblock with the next sequence number is the one mount chooses.
LEMMA NewIsChosen ==
    ASSUME IInv, Running, NEW disk,
           disk[active_superblock_sector] = visible[active_superblock_sector],
           disk[InactiveSuperblock] = superblock_from_store(superblock_sequence + 1)
    PROVE  chosen(disk) = InactiveSuperblock
  <1> DEFINE new == superblock_from_store(superblock_sequence + 1)
             old == visible[active_superblock_sector]
  <1>1. TypeOK /\ StoreIn(next_sector) /\ superblock_sequence \in Nat
    BY DEF IInv, BoundsOK, TypeOK
  <1>2. superblock_is_valid(new) /\ new.sequence = superblock_sequence + 1
    BY <1>1, NewSuperblock
  <1>3. ~superblock_is_valid(old) \/ old.sequence = superblock_sequence
    BY DEF IInv, SuperblockOK, superblock_is_valid, Zero
  <1>4. disk[active_superblock_sector] = old /\ disk[InactiveSuperblock] = new
    OBVIOUS
  <1>5. active_superblock_sector \in {0, 1}
    BY <1>1 DEF TypeOK, Superblocks
  <1> HIDE DEF new, old
  <1>6. CASE active_superblock_sector = 0
    <2>1. InactiveSuperblock = 1
      BY <1>6 DEF InactiveSuperblock
    <2> QED BY <1>1, <1>2, <1>3, <1>4, <1>6, <2>1 DEF chosen
  <1>7. CASE active_superblock_sector = 1
    <2>1. InactiveSuperblock = 0
      BY <1>7 DEF InactiveSuperblock
    <2> QED BY <1>1, <1>2, <1>3, <1>4, <1>7, <2>1 DEF chosen
  <1> QED BY <1>5, <1>6, <1>7

\* The root of the superblock that mount chooses, whatever part of a step's
\* writes took effect.
LEMMA WriteOutcome ==
    ASSUME IInv, pc \in IoSteps, NEW disk,
           disk = visible \/ \E below \in 0 .. SectorCount :
                                disk = Overlay(visible, StepWrites, below)
    PROVE  /\ disk \in Disk /\ ReservedOK(disk)
           /\ disk[active_superblock_sector] = visible[active_superblock_sector]
           /\ Published /\ pc # "root" => RootIs(disk[chosen(disk)])
           /\ Published => HasSuperblock(disk)
           /\ pc \notin {"wal", "clear"} => disk[2] = visible[2]
           /\ pc = "wal" => disk[2] \in {visible[2], write_wal_root[2]}
           /\ pc = "clear" => disk[2] \in {visible[2], Zero}
  <1> DEFINE new == superblock_from_store(superblock_sequence + 1)
  <1>1. /\ TypeOK /\ CallOK /\ ReservedOK(visible) /\ StoreIn(next_sector) /\ Running
        /\ ~recovery_required
    BY DEF IInv, BoundsOK, Running, IoSteps, CallOK
  <1>2. /\ disk \in Disk /\ ReservedOK(disk)
        /\ disk[active_superblock_sector] = visible[active_superblock_sector]
    <2>1. CASE disk = visible
      BY <1>1, <2>1 DEF TypeOK
    <2>2. CASE \E below \in 0 .. SectorCount : disk = Overlay(visible, StepWrites, below)
      <3> PICK below \in 0 .. SectorCount : disk = Overlay(visible, StepWrites, below)
        BY <2>2
      <3>1. below \in Nat /\ below \in Int
        BY SectorAssumption
      <3>2. disk \in Disk
        BY <1>1, <3>1, OverlayType
      <3> QED BY <3>1, <3>2, WritesReserved, ReservedWrites
    <2> QED BY <2>1, <2>2
  <1>3. /\ pc \notin {"wal", "clear"} => disk[2] = visible[2]
        /\ pc = "wal" => disk[2] \in {visible[2], write_wal_root[2]}
        /\ pc = "clear" => disk[2] \in {visible[2], Zero}
        /\ \/ disk[0] = visible[0] /\ disk[1] = visible[1]
           \/ pc \in {"publish", "root"} /\ disk[InactiveSuperblock] = new
    <2>1. CASE disk = visible
      BY <2>1
    <2>2. CASE \E below \in 0 .. SectorCount : disk = Overlay(visible, StepWrites, below)
      <3> PICK below \in 0 .. SectorCount : disk = Overlay(visible, StepWrites, below)
        BY <2>2
      <3>1. below \in Nat
        BY SectorAssumption
      <3>2. {active_superblock_sector, InactiveSuperblock} = {0, 1}
        BY <1>1, ActiveOrInactive
      <3> HIDE DEF new
      <3> QED BY <3>1, <3>2, ReservedWrites DEF new
    <2> QED BY <2>1, <2>2
  <1>4. CASE disk[0] = visible[0] /\ disk[1] = visible[1]
    <2>1. chosen(disk) = chosen(visible) /\ chosen(visible) \in {0, 1}
      BY <1>4 DEF chosen
    <2>2. Published /\ pc # "root" => RootIs(disk[chosen(disk)])
      BY <1>1, <1>4, <2>1 DEF IInv, SuperblockOK
    <2>3. Published => HasSuperblock(disk)
      <3>1. Published => visible[active_superblock_sector] # Zero
        BY DEF IInv, SuperblockOK, Zero
      <3> QED BY <1>1, <1>4, <3>1 DEF ReservedOK, HasSuperblock, Superblocks, TypeOK
    <2> QED BY <1>2, <1>3, <2>2, <2>3
  <1>5. CASE disk[InactiveSuperblock] = new
    <2>1. chosen(disk) = InactiveSuperblock
      BY <1>1, <1>2, <1>5, NewIsChosen
    <2>2. RootIs(new) /\ superblock_is_valid(new)
      BY <1>1, NewSuperblock
    <2>3. InactiveSuperblock \in Superblocks
      BY DEF InactiveSuperblock, Superblocks
    <2> HIDE DEF new
    <2> QED BY <1>2, <1>3, <1>5, <2>1, <2>2, <2>3 DEF HasSuperblock
  <1> QED BY <1>3, <1>4, <1>5

\* The writes of a step preserve the invariant.
LEMMA WriteSectorsStep == ASSUME IInv, WriteSectors PROVE IInv'
  <1>1. /\ pc \in IoSteps /\ io = "write" /\ io' = "flush"
        /\ visible' = Overlay(visible, StepWrites, SectorCount)
        /\ UNCHANGED <<durable, storeVars, pc, op, budget>>
    BY DEF WriteSectors
  <1>2. Running /\ ~recovery_required /\ TypeOK
    BY <1>1 DEF IInv, CallOK, Running, IoSteps
  <1>3. /\ visible' \in Disk /\ ReservedOK(visible')
        /\ visible'[active_superblock_sector] = visible[active_superblock_sector]
        /\ Published /\ pc # "root" => RootIs(visible'[chosen(visible')])
        /\ pc \notin {"wal", "clear"} => visible'[2] = visible[2]
    <2>1. SectorCount \in 0 .. SectorCount
      BY SectorAssumption
    <2> QED BY <1>1, <2>1, WriteOutcome
  <1>4. /\ pc \in {"publish", "root"} =>
             visible'[InactiveSuperblock] = superblock_from_store(superblock_sequence + 1)
        /\ pc = "wal" => visible'[2] = write_wal_root[2]
        /\ pc = "clear" => visible'[2] = Zero
    <2>1. InactiveSuperblock \in {0, 1}
      BY DEF InactiveSuperblock
    <2> QED BY <1>1, <2>1, ReservedWrites, SectorAssumption
  <1>5. UNCHANGED <<table, current_table_sector, current_generation, bitmap, next_sector,
                    superblock_sequence, active_superblock_sector, recovery_required,
                    snapshots, cache>>
    BY <1>1 DEF storeVars, rootVars, spaceVars, sbVars
  <1>6. (Count(table))' = Count(table) /\ (Count(op.candidate))' = Count(op.candidate)
    BY <1>1, <1>5 DEF Count
  <1>7. TypeOK'
    BY SMTT(30), <1>1, <1>2, <1>3, <1>5 DEF TypeOK, IsOp
  <1>8. ReservedOK(durable)' /\ ReservedOK(visible)'
    BY <1>1, <1>3 DEF IInv, ReservedOK
  <1>9. CallOK'
    BY <1>1, <1>5 DEF IInv, CallOK
  <1>10. BoundsOK'
    BY <1>1, <1>5, <1>6 DEF IInv, BoundsOK, Running, StoreIn, InBounds, SnapshotsIn
  <1>11. SuperblockOK'
    <2>1. Published' <=> Published
      BY <1>1 DEF Published, Running
    <2>2. InactiveSuperblock' = InactiveSuperblock
      BY <1>5 DEF InactiveSuperblock
    <2>3. superblock_from_store(superblock_sequence + 1)' =
          superblock_from_store(superblock_sequence + 1)
      BY <1>5, <1>6 DEF superblock_from_store
    <2>4. Published /\ pc # "root" => RootIs(visible[chosen(visible)])'
      BY <1>3, <1>5, <1>6 DEF RootIs, chosen
    <2>5. Running' /\ ~Published' => visible[active_superblock_sector] = Zero /\ pc = "publish"
      BY <1>2, <2>1 DEF IInv, SuperblockOK
    <2>6. Published' => /\ visible[active_superblock_sector].kind = "superblock"
                        /\ visible[active_superblock_sector].sequence = superblock_sequence
      BY <2>1 DEF IInv, SuperblockOK
    <2> QED BY <1>1, <1>3, <1>4, <1>5, <2>1, <2>2, <2>3, <2>4, <2>5, <2>6 DEF SuperblockOK
  <1>12. WalOK'
    <2>1. durableWal' = durableWal
      BY <1>1 DEF durableWal
    <2>2. visibleWal' = visible'[2] /\ visibleWal = visible[2]
      BY DEF visibleWal
    <2>3. op.call = "format" => durableWal' = Zero /\ visibleWal' = Zero
      BY <1>1, <1>3, <1>4, <2>1, <2>2 DEF IInv, WalOK, CallOK, Commits, IoSteps
    <2>5. pc = "root" => visibleWal' # Zero /\ WalAgrees(visibleWal)'
      BY <1>3, <1>5, <1>6, <2>2 DEF IInv, WalOK, WalAgrees
    <2>6. (op.call = "mount" /\ pc = "root") \/ WalAgrees(durableWal)'
      BY <1>2, <1>5, <1>6, <2>1 DEF IInv, WalOK, WalAgrees
    <2>7. pc # "wal" => WalAgrees(visibleWal)'
      BY <1>2, <1>3, <1>4, <1>5, <1>6, <2>2 DEF IInv, WalOK, WalAgrees
    <2>8. pc = "wal" => visibleWal' = (write_wal_root[OBJECT_STORE_WAL_SECTOR])'
      BY <1>1, <1>4, <1>5, <1>6, <2>2 DEF write_wal_root
    <2> QED BY <1>1, <1>2, <1>5, <2>3, <2>5, <2>6, <2>7, <2>8 DEF WalOK, Running
  <1> QED BY <1>7, <1>8, <1>9, <1>10, <1>11, <1>12 DEF IInv

(***************************************************************************)
(* Failed writes and flushes.                                              *)
(***************************************************************************)
\* What is left of the disk when a write or a flush reports failure.
LEMMA IoFailsFacts ==
    ASSUME IInv, IoFails
    PROVE  /\ pc \in IoSteps /\ Running /\ ~recovery_required
           /\ durable' = durable /\ durable' \in Disk /\ ReservedOK(durable)'
           /\ visible' \in Disk /\ ReservedOK(visible)'
           /\ budget' \in [writes : Nat, reads : Nat, crashes : Nat]
           /\ visible'[active_superblock_sector] = visible[active_superblock_sector]
           /\ Published /\ pc # "root" => RootIs(visible'[chosen(visible')])
           /\ Published => HasSuperblock(visible')
           /\ pc \notin {"wal", "clear"} => visible'[2] = visible[2]
           /\ pc = "wal" => visible'[2] \in {visible[2], write_wal_root[2]}
           /\ pc = "clear" => visible'[2] \in {visible[2], Zero}
  <1>1. /\ pc \in IoSteps /\ budget.writes > 0 /\ durable' = durable
        /\ budget' = [budget EXCEPT !.writes = @ - 1]
        /\ \/ visible' = visible
           \/ \E below \in 0 .. SectorCount : visible' = Overlay(visible, StepWrites, below)
    BY DEF IoFails
  <1>2. Running /\ ~recovery_required
    BY <1>1 DEF IInv, CallOK, Running, IoSteps
  <1>3. budget' \in [writes : Nat, reads : Nat, crashes : Nat]
    BY SMTT(30), <1>1 DEF IInv, TypeOK
  <1>4. durable' \in Disk /\ ReservedOK(durable)'
    BY <1>1 DEF IInv, TypeOK, ReservedOK
  <1>5. /\ visible' \in Disk /\ ReservedOK(visible')
        /\ visible'[active_superblock_sector] = visible[active_superblock_sector]
        /\ Published /\ pc # "root" => RootIs(visible'[chosen(visible')])
        /\ Published => HasSuperblock(visible')
        /\ pc \notin {"wal", "clear"} => visible'[2] = visible[2]
        /\ pc = "wal" => visible'[2] \in {visible[2], write_wal_root[2]}
        /\ pc = "clear" => visible'[2] \in {visible[2], Zero}
    BY <1>1, WriteOutcome
  <1> QED BY <1>1, <1>2, <1>3, <1>4, <1>5

\* A call that fails before its WAL write, its store in memory put back.
LEMMA CallFails ==
    ASSUME IInv, IoFails, pc \notin {"wal", "root", "clear"},
           op.call \notin {"format", "mount"},
           Return, bitmap' \subseteq Sectors, next_sector' \in 0 .. SectorCount,
           current_generation' \in Nat, snapshots' \in [Slots -> Snapshot],
           UNCHANGED <<table, current_table_sector, sbVars, recovery_required, cache>>,
           StoreIn(next_sector)'
    PROVE  IInv'
  <1>1. /\ pc \in IoSteps /\ Running /\ ~recovery_required
        /\ durable' = durable /\ durable' \in Disk /\ ReservedOK(durable)'
        /\ visible' \in Disk /\ ReservedOK(visible)'
        /\ budget' \in [writes : Nat, reads : Nat, crashes : Nat]
        /\ visible'[active_superblock_sector] = visible[active_superblock_sector]
        /\ Published /\ pc # "root" => RootIs(visible'[chosen(visible')])
        /\ pc \notin {"wal", "clear"} => visible'[2] = visible[2]
    BY IoFailsFacts
  <1>2. pc' = "ready" /\ io' = "write" /\ op' = NoOp /\ op'.call = "none"
    BY DEF Return, Goto, NoOp
  <1>3. Published
    BY <1>1 DEF Published
  <1>4. IsOp(op)' /\ CallOK' /\ BoundsOK'
    BY <1>2, AtRest
  <1>5. TypeOK'
    BY <1>1, <1>2, <1>4 DEF IInv, TypeOK, Steps, sbVars
  <1>6. (Count(table))' = Count(table)
    BY DEF Count
  <1>7. SuperblockOK'
    <2>1. RootIs(visible[chosen(visible)])'
      BY <1>1, <1>3, <1>6 DEF RootIs, chosen
    <2>2. /\ visible[active_superblock_sector].kind = "superblock"
          /\ visible[active_superblock_sector].sequence = superblock_sequence
      BY <1>3 DEF IInv, SuperblockOK
    <2> QED BY <1>1, <1>2, <2>1, <2>2 DEF SuperblockOK, Published, Running, sbVars
  <1>8. WalOK'
    <2>1. WalAgrees(durableWal) /\ WalAgrees(visibleWal)
      BY <1>1 DEF IInv, WalOK
    <2>2. WalAgrees(durableWal)' /\ WalAgrees(visibleWal)'
      BY <1>1, <1>6, <2>1 DEF WalAgrees, durableWal, visibleWal
    <2> QED BY <1>1, <1>2, <2>2 DEF WalOK, Running
  <1> QED BY <1>1, <1>4, <1>5, <1>7, <1>8 DEF IInv

\* OBJECT_STORE_BATCH_REJECTED after a failed write or flush preserves the invariant.
LEMMA PutRejectedStep == ASSUME IInv, PutRejected PROVE IInv'
  <1>1. /\ op.call = "put_many" /\ pc \in {"publish", "objects", "table"}
        /\ IoFails /\ Return
        /\ bitmap' = bitmap \ AllocatedRuns /\ next_sector' = op.saved_next_sector
        /\ UNCHANGED <<rootVars, sbVars, recovery_required, snapshots, cache>>
    BY DEF PutRejected, BeforeWal, RejectAllocations
  <1>2. StoreIn(op.saved_next_sector) /\ op.saved_next_sector \in 0 .. SectorCount
    BY <1>1 DEF IInv, BoundsOK, TypeOK, IsOp
  <1>3. UNCHANGED <<table, current_table_sector, snapshots>>
    BY <1>1 DEF rootVars
  <1>4. StoreIn(next_sector)'
    BY <1>1, <1>2, <1>3, StoreInKept
  <1>5. /\ bitmap' \subseteq Sectors /\ current_generation' \in Nat
        /\ snapshots' \in [Slots -> Snapshot]
    BY <1>1 DEF IInv, TypeOK, rootVars
  <1> QED BY <1>1, <1>2, <1>3, <1>4, <1>5, CallFails

\* A delete that fails before its WAL write preserves the invariant.
LEMMA DeleteRejectedStep == ASSUME IInv, DeleteRejected PROVE IInv'
  <1>1. /\ op.call = "delete" /\ pc \in {"publish", "objects", "table"}
        /\ IoFails /\ Return
        /\ bitmap' \subseteq bitmap
        /\ UNCHANGED <<rootVars, next_sector, sbVars, recovery_required, snapshots, cache>>
    BY DEF DeleteRejected, BeforeWal
  <1>2. StoreIn(next_sector)
    BY <1>1 DEF IInv, BoundsOK, Running
  <1>3. UNCHANGED <<table, current_table_sector, snapshots>>
    BY <1>1 DEF rootVars
  <1>4. StoreIn(next_sector)'
    BY <1>1, <1>2, <1>3, StoreInKept
  <1>5. /\ bitmap' \subseteq Sectors /\ current_generation' \in Nat
        /\ snapshots' \in [Slots -> Snapshot] /\ next_sector' \in 0 .. SectorCount
    BY <1>1 DEF IInv, TypeOK, rootVars
  <1> QED BY <1>1, <1>3, <1>4, <1>5, CallFails

\* create, discard or prune failing to write its superblock preserves the invariant.
LEMMA SnapshotCallFailsStep == ASSUME IInv, SnapshotCallFails PROVE IInv'
  <1>1. /\ op.call \in {"create", "discard", "prune"}
        /\ IoFails /\ Return
        /\ snapshots' = op.saved /\ current_generation' = op.saved_generation
        /\ UNCHANGED <<table, current_table_sector, spaceVars, sbVars, recovery_required, cache>>
    BY DEF SnapshotCallFails
  <1>2. pc = "publish"
    BY <1>1 DEF IInv, CallOK, Commits, IoFails, IoSteps
  <1>3. StoreIn(next_sector) /\ SnapshotsIn(op.saved, next_sector)
    BY <1>1, <1>2 DEF IInv, BoundsOK, Running, SnapshotCalls
  <1>4. (Count(table))' = Count(table)
    BY <1>1 DEF Count
  <1>5. StoreIn(next_sector)'
    BY <1>1, <1>3, <1>4 DEF StoreIn, InBounds, SnapshotsIn, spaceVars
  <1>6. /\ bitmap' \subseteq Sectors /\ current_generation' \in Nat
        /\ snapshots' \in [Slots -> Snapshot] /\ next_sector' \in 0 .. SectorCount
    BY <1>1 DEF IInv, TypeOK, IsOp, spaceVars
  <1> QED BY <1>1, <1>2, <1>5, <1>6, CallFails

\* Why a quarantined or failed store may be mounted again: a WAL record is only
\* cleared once the superblock has its root.
LEMMA FailedClearIsSafe ==
    ASSUME IInv, IoFails, pc \in {"wal", "root", "clear"} \/ op.call = "format"
    PROVE  ClearIsSafe'
  <1> SUFFICES ASSUME visibleWal' = Zero, durableWal' # Zero
               PROVE  /\ HasSuperblock(visible)'
                      /\ durableWal'.table_sector = visible'[chosen(visible')].table_sector
                      /\ durableWal'.table_count = visible'[chosen(visible')].table_count
    BY DEF ClearIsSafe, chosen
  <1>1. /\ Running /\ ~recovery_required /\ durable' = durable
        /\ Published /\ pc # "root" => RootIs(visible'[chosen(visible')])
        /\ Published => HasSuperblock(visible')
        /\ pc \notin {"wal", "clear"} => visible'[2] = visible[2]
    BY IoFailsFacts
  <1>2. op.call # "format"
    BY <1>1 DEF IInv, WalOK, durableWal
  <1>3. Published
    BY <1>1, <1>2 DEF Published
  <1>4. pc # "root"
    BY <1>1 DEF IInv, WalOK, visibleWal
  <1>5. WalAgrees(durableWal) /\ durableWal # Zero
    BY <1>1, <1>4 DEF IInv, WalOK, durableWal
  <1>6. RootIs(visible'[chosen(visible')]) /\ HasSuperblock(visible)'
    BY <1>1, <1>3, <1>4 DEF HasSuperblock
  <1> QED BY <1>1, <1>5, <1>6 DEF WalAgrees, RootIs, durableWal

\* OBJECT_STORE_BATCH_RECOVERY_REQUIRED preserves the invariant.
LEMMA QuarantineStep == ASSUME IInv, Quarantine PROVE IInv'
  <1>1. /\ op.call \in Commits /\ IoFails /\ pc \in {"wal", "root", "clear"}
        /\ recovery_required' = TRUE
        /\ pc' = "ready" /\ io' = "write" /\ op' = NoOp /\ op'.call = "none"
        /\ UNCHANGED <<rootVars, spaceVars, sbVars, snapshots, cache>>
    BY DEF Quarantine, Commits, BeforeWal, IoFails, IoSteps, Return, Goto, NoOp
  <1>2. /\ Running /\ durable' \in Disk /\ ReservedOK(durable)'
        /\ visible' \in Disk /\ ReservedOK(visible)'
        /\ budget' \in [writes : Nat, reads : Nat, crashes : Nat]
        /\ visible'[active_superblock_sector] = visible[active_superblock_sector]
    BY <1>1, IoFailsFacts
  <1>3. StoreIn(next_sector)'
    BY <1>1, <1>2, StoreInKept DEF IInv, BoundsOK, rootVars, spaceVars
  <1>4. IsOp(op)' /\ CallOK' /\ BoundsOK'
    BY <1>1, <1>3, AtRest
  <1>5. TypeOK'
    <2>1. recovery_required' \in BOOLEAN
      BY <1>1
    <2> QED BY <1>1, <1>2, <1>4, <2>1 DEF IInv, TypeOK, Steps, rootVars, spaceVars, sbVars
  <1>6. SuperblockOK'
    <2>1. Published
      BY <1>1, <1>2 DEF Published, Commits
    <2>2. /\ visible[active_superblock_sector].kind = "superblock"
          /\ visible[active_superblock_sector].sequence = superblock_sequence
      BY <2>1 DEF IInv, SuperblockOK
    <2> QED BY <1>1, <1>2, <2>2 DEF SuperblockOK, Published, Running, sbVars
  <1>7. WalOK'
    BY <1>1, FailedClearIsSafe DEF WalOK
  <1> QED BY <1>2, <1>4, <1>5, <1>6, <1>7 DEF IInv

\* A mount or format whose write or flush fails preserves the invariant.
LEMMA MountOrFormatFailsStep == ASSUME IInv, MountOrFormatFails PROVE IInv'
  <1>1. op.call \in {"mount", "format"} /\ IoFails /\ FailToMount
    BY DEF MountOrFormatFails
  <1>2. /\ durable' \in Disk /\ ReservedOK(durable)'
        /\ visible' \in Disk /\ ReservedOK(visible)'
        /\ budget' \in [writes : Nat, reads : Nat, crashes : Nat]
    BY <1>1, IoFailsFacts
  <1>3. pc \in {"wal", "root", "clear"} \/ op.call = "format"
    BY <1>1 DEF IInv, CallOK, SnapshotCalls, IoFails, IoSteps
  <1>4. ClearIsSafe'
    BY <1>1, <1>3, FailedClearIsSafe
  <1> QED BY <1>1, <1>2, <1>4, NotRunning DEF FailToMount, Goto

(***************************************************************************)
(* Flushes.                                                                *)
(***************************************************************************)
\* A flush makes the reserved sectors durable as they are.
LEMMA FlushFacts ==
    ASSUME IInv, NEW step \in IoSteps, Flush(step)
    PROVE  /\ pc = step /\ io = "flush" /\ Running /\ ~recovery_required /\ StoreIn(next_sector)
           /\ visible' = visible /\ durable' = visible /\ chosen(visible') = chosen(visible)
           /\ durable' \in Disk /\ visible' \in Disk
           /\ ReservedOK(durable)' /\ ReservedOK(visible)'
           /\ durableWal' = visibleWal /\ visibleWal' = visibleWal
  <1>1. pc = step /\ io = "flush" /\ visible' = visible /\ durable' = visible
    BY DEF Flush
  <1>2. Running /\ ~recovery_required /\ StoreIn(next_sector)
    BY <1>1 DEF IInv, CallOK, BoundsOK, Running, IoSteps
  <1>3. durable' \in Disk /\ visible' \in Disk /\ ReservedOK(durable)' /\ ReservedOK(visible)'
    BY <1>1 DEF IInv, TypeOK, ReservedOK
  <1> QED BY <1>1, <1>2, <1>3 DEF durableWal, visibleWal

\* A flush between two steps of a call that leaves the root in memory alone.
LEMMA FlushKeepsRoot ==
    ASSUME IInv, NEW step \in {"publish", "objects", "table", "clear"}, Flush(step),
           Published, Published', pc' \notin {"down", "failed", "root"}, io' = "write",
           op'.call = "format" => op.call = "format", op'.call # "mount",
           UNCHANGED <<table, current_table_sector, sbVars, recovery_required>>
    PROVE  SuperblockOK' /\ WalOK'
  <1>1. /\ pc = step /\ Running /\ ~recovery_required /\ visible' = visible
        /\ chosen(visible') = chosen(visible)
        /\ durableWal' = visibleWal /\ visibleWal' = visibleWal
    BY FlushFacts DEF IoSteps
  <1>2. (Count(table))' = Count(table)
    BY DEF Count
  <1>3. RootIs(visible[chosen(visible)])'
    <2>1. RootIs(visible[chosen(visible)])
      BY <1>1 DEF IInv, SuperblockOK
    <2> QED BY <1>1, <1>2, <2>1 DEF RootIs, chosen
  <1>4. /\ visible[active_superblock_sector].kind = "superblock"
        /\ visible[active_superblock_sector].sequence = superblock_sequence
    BY DEF IInv, SuperblockOK
  <1>5. SuperblockOK'
    BY <1>1, <1>3, <1>4 DEF SuperblockOK, sbVars
  <1>6. WalAgrees(durableWal)' /\ WalAgrees(visibleWal)'
    <2>1. WalAgrees(visibleWal)
      BY <1>1 DEF IInv, WalOK
    <2> QED BY <1>1, <1>2, <2>1 DEF WalAgrees
  <1>7. op'.call = "format" => durableWal' = Zero /\ visibleWal' = Zero
    BY <1>1 DEF IInv, WalOK
  <1>8. WalOK'
    BY <1>1, <1>6, <1>7 DEF WalOK, Running
  <1> QED BY <1>5, <1>8

\* The superblock that a flush makes durable is the one mount chooses.
LEMMA SuperblockFlushKeepsRoot ==
    ASSUME IInv, NEW step \in {"publish", "root"}, SuperblockFlushed(step),
           Published', pc' \notin {"down", "failed", "root"}, io' = "write",
           op'.call = "format" => op.call = "format", op'.call = "mount" => op.call = "mount",
           UNCHANGED <<table, current_table_sector, recovery_required>>
    PROVE  SuperblockOK' /\ WalOK'
  <1> DEFINE new == superblock_from_store(superblock_sequence + 1)
  <1>1. /\ pc = step /\ io = "flush" /\ Running /\ ~recovery_required /\ visible' = visible
        /\ chosen(visible') = chosen(visible) /\ StoreIn(next_sector)
        /\ durableWal' = visibleWal /\ visibleWal' = visibleWal
        /\ superblock_sequence' = superblock_sequence + 1
        /\ active_superblock_sector' = InactiveSuperblock
    BY FlushFacts DEF IoSteps, SuperblockFlushed
  <1>2. visible[InactiveSuperblock] = new
    BY <1>1 DEF IInv, SuperblockOK
  <1>3. chosen(visible) = InactiveSuperblock
    BY <1>1, <1>2, NewIsChosen
  <1>4. superblock_is_valid(new) /\ RootIs(new) /\ new.sequence = superblock_sequence + 1
    BY <1>1, NewSuperblock DEF IInv
  <1>5. (Count(table))' = Count(table)
    BY DEF Count
  <1> HIDE DEF new
  <1>6. RootIs(visible[chosen(visible)])'
    BY <1>1, <1>2, <1>3, <1>4, <1>5 DEF RootIs
  <1>7. SuperblockOK'
    BY <1>1, <1>2, <1>4, <1>6 DEF SuperblockOK, superblock_is_valid
  <1>8. WalAgrees(durableWal)' /\ WalAgrees(visibleWal)'
    <2>1. WalAgrees(visibleWal)
      BY <1>1 DEF IInv, WalOK
    <2> QED BY <1>1, <1>5, <2>1 DEF WalAgrees
  <1>9. op'.call = "format" => durableWal' = Zero /\ visibleWal' = Zero
    BY <1>1 DEF IInv, WalOK
  <1>10. WalOK'
    BY <1>1, <1>8, <1>9 DEF WalOK, Running
  <1> QED BY <1>7, <1>10

\* A turn of the loop over the staged objects preserves the invariant.
LEMMA ObjectFlushedStep == ASSUME IInv, ObjectFlushed PROVE IInv'
  <1>1. /\ Flush("objects") /\ UNCHANGED <<storeVars, budget>>
        /\ IF op.index = Len(op.staged) THEN Goto("table", op)
           ELSE Goto("objects", [op EXCEPT !.index = @ + 1])
    BY DEF ObjectFlushed
  <1>2. /\ pc = "objects" /\ Running /\ ~recovery_required /\ StoreIn(next_sector)
        /\ durable' \in Disk /\ visible' \in Disk
        /\ ReservedOK(durable)' /\ ReservedOK(visible)'
    BY <1>1, FlushFacts DEF IoSteps
  <1>3. /\ op.call = "put_many" /\ op.index \in 1 .. Len(op.staged) /\ TypeOK
        /\ op \in [call : Calls, id : Ids \cup {0}, staged : Seq(Staged), index : Nat,
                   candidate : {op.candidate}, table_sector : Nat,
                   saved_next_sector : 0 .. SectorCount, saved : [Slots -> Snapshot],
                   saved_generation : Nat, keep : Nat]
        /\ IsTable(op.candidate)
    BY <1>2 DEF IInv, CallOK, TypeOK, IsOp
  <1>4. /\ op'.call = "put_many" /\ op'.staged = op.staged /\ op'.candidate = op.candidate
        /\ op'.table_sector = op.table_sector /\ op'.saved_next_sector = op.saved_next_sector
        /\ io' = "write"
        /\ pc' = "table" \/ (pc' = "objects" /\ op'.index \in 1 .. Len(op.staged))
    <2>1. CASE op.index = Len(op.staged)
      BY <1>1, <1>3, <2>1 DEF Goto
    <2>2. CASE op.index # Len(op.staged)
      <3>1. op' = [op EXCEPT !.index = op.index + 1] /\ pc' = "objects" /\ io' = "write"
        BY <1>1, <2>2 DEF Goto
      <3>2. op'.index = op.index + 1
        BY <1>3, <3>1
      <3>3. op.index + 1 \in 1 .. Len(op.staged)
        BY <1>3, <2>2, LenProperties
      <3> QED BY <1>3, <3>1, <3>2, <3>3
    <2> QED BY <2>1, <2>2
  <1>5. IsOp(op)'
    <2>1. op' \in [call : Calls, id : Ids \cup {0}, staged : Seq(Staged), index : Nat,
                   candidate : {op.candidate}, table_sector : Nat,
                   saved_next_sector : 0 .. SectorCount, saved : [Slots -> Snapshot],
                   saved_generation : Nat, keep : Nat]
      <3>1. op' \in {op, [op EXCEPT !.index = op.index + 1]}
        BY <1>1 DEF Goto
      <3> QED BY <1>3, <3>1
    <2> QED BY <1>3, <1>4, <2>1 DEF IsOp
  <1>6. UNCHANGED <<table, current_table_sector, current_generation, bitmap, next_sector, sbVars,
                    superblock_sequence, active_superblock_sector, recovery_required,
                    snapshots, cache, budget>>
    BY <1>1 DEF storeVars, rootVars, spaceVars, sbVars
  <1>7. TypeOK'
    BY SMTT(30), <1>2, <1>3, <1>4, <1>5, <1>6 DEF TypeOK, Steps, IoSteps
  <1>8. CallOK'
    BY <1>2, <1>3, <1>4, <1>6 DEF IInv, CallOK
  <1>9. BoundsOK'
    <2>1. (Count(table))' = Count(table) /\ (Count(op.candidate))' = Count(op.candidate)
      BY <1>4, <1>6 DEF Count
    <2>2. /\ StoreIn(op.saved_next_sector) /\ Count(op.candidate) <= TableCapacity
          /\ InBounds(op.table_sector, Count(op.candidate), next_sector)
      BY <1>2, <1>3 DEF IInv, BoundsOK, Commits
    <2>3. StoreIn(next_sector)' /\ StoreIn(op.saved_next_sector)'
      BY <1>2, <1>4, <1>6, <2>1, <2>2 DEF StoreIn, InBounds, SnapshotsIn
    <2>4. InBounds(op.table_sector, Count(op.candidate), next_sector)'
      BY <1>4, <1>6, <2>1, <2>2 DEF InBounds
    <2> QED BY <1>4, <2>1, <2>2, <2>3, <2>4 DEF BoundsOK, SnapshotCalls
  <1>10. SuperblockOK' /\ WalOK'
    <2>1. Published /\ Published'
      BY <1>2, <1>3, <1>4 DEF Published, Running
    <2> QED BY <1>1, <1>4, <1>6, <2>1, FlushKeepsRoot
  <1> QED BY <1>2, <1>7, <1>8, <1>9, <1>10 DEF IInv

\* The flush of the table generation preserves the invariant.
LEMMA TableFlushedStep == ASSUME IInv, TableFlushed PROVE IInv'
  <1>1. /\ Flush("table") /\ UNCHANGED <<storeVars, budget>>
        /\ pc' = "wal" /\ io' = "write" /\ op' = op
    BY DEF TableFlushed, Goto
  <1>2. /\ pc = "table" /\ Running /\ ~recovery_required /\ StoreIn(next_sector)
        /\ durable' \in Disk /\ visible' \in Disk
        /\ ReservedOK(durable)' /\ ReservedOK(visible)'
    BY <1>1, FlushFacts DEF IoSteps
  <1>3. op.call \in {"put_many", "delete"} /\ TypeOK /\ op.call \in Commits
    BY <1>2 DEF IInv, CallOK, Commits
  <1>4. UNCHANGED <<table, current_table_sector, current_generation, bitmap, next_sector, sbVars,
                    superblock_sequence, active_superblock_sector, recovery_required,
                    snapshots, cache, budget>>
    BY <1>1 DEF storeVars, rootVars, spaceVars, sbVars
  <1>5. TypeOK'
    BY SMTT(30), <1>1, <1>2, <1>3, <1>4 DEF TypeOK, Steps, IoSteps, IsOp
  <1>6. CallOK'
    BY <1>1, <1>2, <1>3, <1>4 DEF IInv, CallOK
  <1>7. BoundsOK'
    <2>1. (Count(table))' = Count(table) /\ (Count(op.candidate))' = Count(op.candidate)
      BY <1>1, <1>4 DEF Count
    <2>2. InBounds(op.table_sector, Count(op.candidate), next_sector)
      BY <1>2, <1>3 DEF IInv, BoundsOK
    <2>3. StoreIn(next_sector)'
      BY <1>2, <1>4, <2>1 DEF StoreIn, InBounds, SnapshotsIn
    <2>4. InBounds(op.table_sector, Count(op.candidate), next_sector)'
      BY <1>1, <1>4, <2>1, <2>2 DEF InBounds
    <2> QED BY <1>1, <1>3, <2>3, <2>4 DEF BoundsOK, SnapshotCalls, InBounds
  <1>8. SuperblockOK' /\ WalOK'
    <2>1. Published /\ Published'
      BY <1>1, <1>2, <1>3 DEF Published, Running
    <2> QED BY <1>1, <1>3, <1>4, <2>1, FlushKeepsRoot
  <1> QED BY <1>2, <1>5, <1>6, <1>7, <1>8 DEF IInv

\* The commit point: the record that is now durable is the root in memory.
LEMMA WalFlushedStep == ASSUME IInv, WalFlushed PROVE IInv'
  <1>1. /\ Flush("wal") /\ table' = op.candidate /\ current_table_sector' = op.table_sector
        /\ current_generation' = current_generation + 1
        /\ pc' = "root" /\ io' = "write" /\ op' = op
        /\ UNCHANGED <<spaceVars, sbVars, recovery_required, snapshots, cache, budget>>
    BY DEF WalFlushed, Goto
  <1>2. /\ pc = "wal" /\ io = "flush" /\ Running /\ ~recovery_required /\ StoreIn(next_sector)
        /\ visible' = visible /\ durable' \in Disk /\ visible' \in Disk
        /\ ReservedOK(durable)' /\ ReservedOK(visible)'
        /\ durableWal' = visibleWal /\ visibleWal' = visibleWal
    BY <1>1, FlushFacts DEF IoSteps
  <1>3. /\ op.call \in Commits /\ TypeOK /\ IsTable(op.candidate) /\ op.table_sector \in Nat
        /\ op.call \notin {"format", "mount"}
    BY <1>2 DEF IInv, CallOK, TypeOK, IsOp, Commits
  <1>4. UNCHANGED <<bitmap, next_sector, superblock_sequence, active_superblock_sector>>
    BY <1>1 DEF spaceVars, sbVars
  <1>5. TypeOK'
    <2>1. IsTable(table)' /\ IsOp(op)'
      BY <1>1, <1>3 DEF TypeOK
    <2>2. current_generation' \in Nat /\ current_table_sector' \in Nat
      BY <1>1, <1>3 DEF TypeOK
    <2> QED BY <1>1, <1>2, <1>3, <1>4, <2>1, <2>2 DEF TypeOK, Steps, IoSteps
  <1>6. CallOK'
    BY <1>1, <1>2, <1>3 DEF IInv, CallOK
  <1>7. (Count(table))' = Count(op.candidate) /\ (Count(op.candidate))' = Count(op.candidate)
    BY <1>1 DEF Count
  <1>8. BoundsOK'
    <2>1. InBounds(op.table_sector, Count(op.candidate), next_sector)
      BY <1>2, <1>3 DEF IInv, BoundsOK
    <2>2. StoreIn(next_sector)'
      BY <1>1, <1>2, <1>4, <1>7, <2>1 DEF StoreIn, InBounds, SnapshotsIn
    <2> QED BY <1>1, <1>3, <1>7, <2>1, <2>2 DEF BoundsOK, SnapshotCalls, Commits, InBounds
  <1>9. SuperblockOK'
    <2>1. Published /\ Published'
      BY <1>1, <1>2, <1>3 DEF Published, Running
    <2> QED BY <1>1, <1>2, <1>4, <2>1 DEF IInv, SuperblockOK
  <1>10. WalOK'
    <2>1. visibleWal = write_wal_root[OBJECT_STORE_WAL_SECTOR]
      BY <1>2 DEF IInv, WalOK
    <2>2. /\ visibleWal.kind = "wal" /\ visibleWal.table_sector = op.table_sector
          /\ visibleWal.table_count = Count(op.candidate)
      BY <2>1 DEF write_wal_root
    <2>3. visibleWal # Zero
      BY <2>2 DEF Zero
    <2>4. WalAgrees(durableWal)' /\ WalAgrees(visibleWal)'
      BY <1>1, <1>2, <1>7, <2>2 DEF WalAgrees
    <2> QED BY <1>1, <1>2, <1>3, <2>3, <2>4 DEF WalOK, Running
  <1> QED BY <1>2, <1>5, <1>6, <1>8, <1>9, <1>10 DEF IInv

\* The superblock takes over the root that the WAL record has.
LEMMA RootFlushedStep == ASSUME IInv, RootFlushed PROVE IInv'
  <1>1. /\ SuperblockFlushed("root") /\ Flush("root")
        /\ superblock_sequence' = superblock_sequence + 1
        /\ active_superblock_sector' = InactiveSuperblock
        /\ pc' = "clear" /\ io' = "write" /\ op' = op
        /\ UNCHANGED <<rootVars, spaceVars, recovery_required, snapshots, cache, budget>>
    BY DEF RootFlushed, SuperblockFlushed, Goto
  <1>2. /\ pc = "root" /\ Running /\ ~recovery_required /\ StoreIn(next_sector)
        /\ durable' \in Disk /\ visible' \in Disk
        /\ ReservedOK(durable)' /\ ReservedOK(visible)'
    BY <1>1, FlushFacts DEF IoSteps
  <1>3. op.call \in Commits \cup {"mount"} /\ TypeOK
    BY <1>2 DEF IInv, CallOK
  <1>4. UNCHANGED <<table, current_table_sector, current_generation, bitmap, next_sector>>
    BY <1>1 DEF rootVars, spaceVars
  <1>5. TypeOK'
    <2>1. superblock_sequence' \in Nat /\ active_superblock_sector' \in Superblocks
      BY <1>1, <1>3 DEF TypeOK, InactiveSuperblock, Superblocks
    <2> QED BY SMTT(30), <1>1, <1>2, <1>3, <1>4, <2>1 DEF TypeOK, Steps, IoSteps, IsOp
  <1>6. CallOK'
    BY <1>1, <1>2, <1>3 DEF IInv, CallOK
  <1>7. BoundsOK'
    <2>1. (Count(table))' = Count(table) /\ (Count(op.candidate))' = Count(op.candidate)
      BY <1>1, <1>4 DEF Count
    <2>2. StoreIn(next_sector)'
      BY <1>1, <1>2, <1>4, <2>1 DEF StoreIn, InBounds, SnapshotsIn
    <2> QED BY <1>1, <1>3, <2>1, <2>2 DEF IInv, BoundsOK, SnapshotCalls, Commits
  <1>8. SuperblockOK' /\ WalOK'
    <2>1. Published'
      BY <1>1, <1>3 DEF Published, Running, Commits
    <2> QED BY <1>1, <1>4, <2>1, SuperblockFlushKeepsRoot
  <1> QED BY <1>2, <1>5, <1>6, <1>7, <1>8 DEF IInv

\* What put_many and delete leave in the cache.
LEMMA CacheAfterCallType ==
    ASSUME TypeOK PROVE CacheAfterCall \in Seq(CacheSlot)
  <1> DEFINE st == op.staged[1]
  <1>1. cache \in Seq(CacheSlot)
    BY DEF TypeOK
  <1>2. CASE op.call = "put_many" /\ Len(op.staged) = 1
    <2>1. st \in Staged
      BY <1>2, ElementOfSeq DEF TypeOK, IsOp
    <2>2. object_byte_count(st.val) \in Nat
      BY <2>1, SectorCountType DEF Staged
    <2>3. cache_insert(cache, st.id, st.version, st.val, object_byte_count(st.val))
            \in Seq(CacheSlot)
      BY <1>1, <2>1, <2>2, CacheInsertType DEF Staged
    <2> QED BY <1>2, <2>3 DEF CacheAfterCall
  <1>3. CASE op.call = "delete"
    BY <1>1, <1>3, CacheRemoveType DEF CacheAfterCall
  <1>4. CASE ~(op.call = "put_many" /\ Len(op.staged) = 1) /\ op.call # "delete"
    BY <1>1, <1>4 DEF CacheAfterCall
  <1> QED BY <1>2, <1>3, <1>4

\* The end of a call that cleared the WAL.
LEMMA ClearReturns ==
    ASSUME IInv, Flush("clear"), Return, bitmap' \subseteq Sectors, cache' \in Seq(CacheSlot),
           budget' \in [writes : Nat, reads : Nat, crashes : Nat],
           UNCHANGED <<rootVars, next_sector, sbVars, recovery_required, snapshots>>
    PROVE  IInv'
  <1>1. /\ pc = "clear" /\ Running /\ ~recovery_required /\ StoreIn(next_sector)
        /\ durable' \in Disk /\ visible' \in Disk
        /\ ReservedOK(durable)' /\ ReservedOK(visible)'
    BY FlushFacts DEF IoSteps
  <1>2. pc' = "ready" /\ io' = "write" /\ op' = NoOp /\ op'.call = "none"
    BY DEF Return, Goto, NoOp
  <1>3. UNCHANGED <<table, current_table_sector, snapshots>>
    BY DEF rootVars
  <1>4. StoreIn(next_sector)'
    BY <1>1, <1>3, StoreInKept
  <1>5. IsOp(op)' /\ CallOK' /\ BoundsOK'
    BY <1>1, <1>2, <1>4, AtRest
  <1>6. TypeOK'
    BY <1>1, <1>2, <1>5 DEF IInv, TypeOK, Steps, rootVars, sbVars
  <1>7. Published /\ Published'
    BY <1>1, <1>2 DEF IInv, SuperblockOK, Published, Running
  <1>8. SuperblockOK' /\ WalOK'
    BY <1>2, <1>3, <1>7, FlushKeepsRoot
  <1> QED BY <1>1, <1>5, <1>6, <1>8 DEF IInv

\* The end of put_many, delete, rollback and format preserves the invariant.
LEMMA ClearFlushedStep == ASSUME IInv, ClearFlushed PROVE IInv'
  <1>1. cache' \in Seq(CacheSlot)
    BY CacheAfterCallType DEF ClearFlushed, IInv
  <1>2. bitmap' \subseteq Sectors /\ budget' \in [writes : Nat, reads : Nat, crashes : Nat]
    BY DEF ClearFlushed, IInv, TypeOK, spaceVars
  <1> QED BY <1>1, <1>2, ClearReturns DEF ClearFlushed, spaceVars

\* The end of a mount that replayed the WAL preserves the invariant.
LEMMA MountFlushedStep == ASSUME IInv, MountFlushed PROVE IInv'
  <1> PICK k \in RebuildStops(CurrentGeneration, snapshots) :
             /\ SpendReads(CurrentGeneration, snapshots, k)
             /\ \/ /\ k = SnapshotLimit + 1
                   /\ bitmap' = rebuild_bitmap(CurrentGeneration, snapshots, k)
                   /\ Return
                   /\ UNCHANGED <<rootVars, next_sector, sbVars, recovery_required, snapshots,
                                  cache>>
                \/ k <= SnapshotLimit /\ FailToMount
    BY DEF MountFlushed
  <1>1. Flush("clear")
    BY DEF MountFlushed
  <1>2. budget' \in [writes : Nat, reads : Nat, crashes : Nat]
    BY SpendReadsType DEF IInv
  <1>3. CASE /\ bitmap' = rebuild_bitmap(CurrentGeneration, snapshots, k) /\ Return
             /\ UNCHANGED <<rootVars, next_sector, sbVars, recovery_required, snapshots, cache>>
    <2>1. bitmap' \subseteq Sectors
      BY <1>3, RebuildType
    <2>2. cache' \in Seq(CacheSlot)
      BY <1>3 DEF IInv, TypeOK
    <2> QED BY <1>1, <1>2, <1>3, <2>1, <2>2, ClearReturns
  <1>4. CASE FailToMount
    <2>1. /\ durable' \in Disk /\ visible' \in Disk
          /\ ReservedOK(durable)' /\ ReservedOK(visible)'
          /\ durableWal' = visibleWal /\ visibleWal' = visibleWal
      BY <1>1, FlushFacts DEF IoSteps
    <2>2. ClearIsSafe'
      BY <2>1 DEF ClearIsSafe
    <2> QED BY <1>2, <1>4, <2>1, <2>2, NotRunning DEF FailToMount, Goto
  <1> QED BY <1>3, <1>4

\* The flush of the superblock that publishes next_sector, the snapshots or a
\* new format preserves the invariant.
LEMMA PublishFlushedStep == ASSUME IInv, PublishFlushed PROVE IInv'
  <1>1. /\ SuperblockFlushed("publish") /\ Flush("publish")
        /\ superblock_sequence' = superblock_sequence + 1
        /\ active_superblock_sector' = InactiveSuperblock
        /\ UNCHANGED <<rootVars, next_sector, recovery_required, cache>>
    BY DEF PublishFlushed, SuperblockFlushed
  <1>2. /\ pc = "publish" /\ Running /\ ~recovery_required /\ StoreIn(next_sector)
        /\ durable' \in Disk /\ visible' \in Disk
        /\ ReservedOK(durable)' /\ ReservedOK(visible)'
    BY <1>1, FlushFacts DEF IoSteps
  <1>3. TypeOK
    BY DEF IInv
  <1>4. UNCHANGED <<table, current_table_sector, current_generation>> /\ ~recovery_required'
    BY <1>1, <1>2 DEF rootVars
  <1>5. superblock_sequence' \in Nat /\ active_superblock_sector' \in Superblocks
    BY <1>1, <1>3 DEF TypeOK, InactiveSuperblock, Superblocks
  <1>6. ASSUME snapshots' \in [Slots -> Snapshot], bitmap' \subseteq Sectors,
               budget' \in [writes : Nat, reads : Nat, crashes : Nat],
               pc' \in Steps, pc' \notin {"down", "failed", "root"}, io' = "write",
               IsOp(op)', CallOK', BoundsOK', op'.call # "mount",
               op'.call = "format" => op.call = "format" /\ op'.index = 1
        PROVE  IInv'
    <2>1. TypeOK'
      BY <1>1, <1>2, <1>3, <1>4, <1>5, <1>6 DEF TypeOK
    <2>2. Published'
      BY <1>6 DEF Published, Running
    <2>3. SuperblockOK' /\ WalOK'
      BY <1>1, <1>4, <1>6, <2>2, SuperblockFlushKeepsRoot
    <2> QED BY <1>2, <1>6, <2>1, <2>3 DEF IInv
  <1>7. /\ op \in [call : Calls, id : Ids \cup {0}, staged : Seq(Staged), index : Nat,
                   candidate : {op.candidate}, table_sector : Nat,
                   saved_next_sector : 0 .. SectorCount, saved : [Slots -> Snapshot],
                   saved_generation : Nat, keep : Nat]
        /\ IsTable(op.candidate)
    BY <1>3 DEF TypeOK, IsOp
  <1>8. ASSUME UNCHANGED snapshots PROVE StoreIn(next_sector)'
    BY <1>1, <1>2, <1>4, <1>8, StoreInKept
  <1>9. CASE /\ op.call = "put_many" /\ Goto("objects", [op EXCEPT !.index = 1])
             /\ UNCHANGED <<bitmap, snapshots, budget>>
    <2>1. /\ pc' = "objects" /\ io' = "write" /\ op' = [op EXCEPT !.index = 1]
      BY <1>9 DEF Goto
    <2>2. /\ op'.call = "put_many" /\ op'.index = 1 /\ op'.staged = op.staged
          /\ op'.candidate = op.candidate /\ op'.table_sector = op.table_sector
          /\ op'.saved_next_sector = op.saved_next_sector
      BY <1>7, <1>9, <2>1
    <2>3. IsOp(op)'
      <3>1. op' \in [call : Calls, id : Ids \cup {0}, staged : Seq(Staged), index : Nat,
                     candidate : {op.candidate}, table_sector : Nat,
                     saved_next_sector : 0 .. SectorCount, saved : [Slots -> Snapshot],
                     saved_generation : Nat, keep : Nat]
        BY <1>7, <2>1
      <3> QED BY <1>7, <2>2, <3>1 DEF IsOp
    <2>4. CallOK'
      <3>1. Len(op.staged) >= 1 /\ Len(op.staged) \in Nat
        BY <1>7, <1>9, LenProperties DEF IInv, CallOK
      <3>2. \A k \in 1 .. Len(op.staged) : op.staged[k].first_sector >= 3
        BY <1>2, <1>9 DEF IInv, CallOK
      <3> QED BY <1>4, <2>1, <2>2, <3>1, <3>2 DEF CallOK
    <2>5. BoundsOK'
      <3>1. (Count(table))' = Count(table) /\ (Count(op.candidate))' = Count(op.candidate)
        BY <1>4, <2>2 DEF Count
      <3>2. /\ StoreIn(op.saved_next_sector) /\ Count(op.candidate) <= TableCapacity
            /\ InBounds(op.table_sector, Count(op.candidate), next_sector)
        BY <1>2, <1>9 DEF IInv, BoundsOK, Commits
      <3>3. StoreIn(next_sector)' /\ StoreIn(op.saved_next_sector)'
        BY <1>4, <1>8, <1>9, <2>2, <3>1, <3>2 DEF StoreIn, InBounds, SnapshotsIn
      <3>4. InBounds(op.table_sector, Count(op.candidate), next_sector)'
        BY <1>1, <2>2, <3>1, <3>2 DEF InBounds
      <3> QED BY <2>2, <3>1, <3>2, <3>3, <3>4 DEF BoundsOK, SnapshotCalls
    <2> QED BY <1>3, <1>6, <1>9, <2>1, <2>2, <2>3, <2>4, <2>5 DEF TypeOK, Steps, IoSteps
  <1>10. CASE /\ op.call = "delete"
              /\ Goto(IF Count(op.candidate) = 0 THEN "wal" ELSE "table", op)
              /\ UNCHANGED <<bitmap, snapshots, budget>>
    <2>1. pc' \in {"wal", "table"} /\ io' = "write" /\ op' = op
      BY <1>10 DEF Goto
    <2>2. IsOp(op)'
      BY <1>3, <2>1 DEF TypeOK
    <2>3. CallOK'
      BY <1>4, <1>10, <2>1 DEF CallOK, Commits
    <2>4. BoundsOK'
      <3>1. (Count(op.candidate))' = Count(op.candidate)
        BY <2>1 DEF Count
      <3>2. InBounds(op.table_sector, Count(op.candidate), next_sector)
        BY <1>2, <1>10 DEF IInv, BoundsOK, Commits
      <3>3. InBounds(op.table_sector, Count(op.candidate), next_sector)'
        BY <1>1, <2>1, <3>1, <3>2 DEF InBounds
      <3> QED BY <1>8, <1>10, <2>1, <3>3 DEF BoundsOK, SnapshotCalls
    <2> QED BY <1>3, <1>6, <1>10, <2>1, <2>2, <2>3, <2>4 DEF TypeOK, Steps, IoSteps
  <1>11. CASE op.call \in {"create", "discard"} /\ Return /\ UNCHANGED <<bitmap, snapshots, budget>>
    <2>1. pc' = "ready" /\ io' = "write" /\ op' = NoOp /\ op'.call = "none"
      BY <1>11 DEF Return, Goto, NoOp
    <2>2. IsOp(op)' /\ CallOK' /\ BoundsOK'
      BY <1>4, <1>8, <1>11, <2>1, AtRest
    <2> QED BY <1>3, <1>6, <1>11, <2>1, <2>2 DEF TypeOK, Steps
  <1>12. CASE op.call = "prune" /\ PruneTurn(op.keep)
    <2>1. op.keep \in Nat
      BY <1>7
    <2>2. /\ snapshots' \in [Slots -> Snapshot] /\ bitmap' \subseteq Sectors
          /\ budget' \in [writes : Nat, reads : Nat, crashes : Nat]
          /\ pc' \in {"publish", "ready"} /\ io' = "write" /\ op'.call \in {"prune", "none"}
          /\ IsOp(op)' /\ CallOK' /\ BoundsOK'
      BY <1>1, <1>2, <1>3, <1>4, <1>12, <2>1, PruneShape
    <2>3. pc' \in Steps
      BY <2>2 DEF Steps, IoSteps
    <2> QED BY <1>6, <2>2, <2>3
  <1>13. CASE /\ op.call = "format"
              /\ Goto(IF op.index = 0 THEN "publish" ELSE "clear", [op EXCEPT !.index = 1])
              /\ UNCHANGED <<bitmap, snapshots, budget>>
    <2>1. pc' \in {"publish", "clear"} /\ io' = "write" /\ op' = [op EXCEPT !.index = 1]
      BY <1>13 DEF Goto
    <2>2. op'.call = "format" /\ op'.index = 1 /\ op'.candidate = op.candidate
      BY <1>7, <1>13, <2>1
    <2>3. IsOp(op)'
      <3>1. op' \in [call : Calls, id : Ids \cup {0}, staged : Seq(Staged), index : Nat,
                     candidate : {op.candidate}, table_sector : Nat,
                     saved_next_sector : 0 .. SectorCount, saved : [Slots -> Snapshot],
                     saved_generation : Nat, keep : Nat]
        BY <1>7, <2>1
      <3> QED BY <1>7, <2>2, <3>1 DEF IsOp
    <2>4. CallOK' /\ BoundsOK'
      BY <1>4, <1>8, <1>13, <2>1, <2>2 DEF CallOK, BoundsOK, SnapshotCalls, Commits
    <2> QED BY <1>3, <1>6, <1>13, <2>1, <2>2, <2>3, <2>4 DEF TypeOK, Steps, IoSteps
  <1> QED BY <1>9, <1>10, <1>11, <1>12, <1>13 DEF PublishFlushed

(***************************************************************************)
(* The theorems.                                                           *)
(***************************************************************************)
\* Every step, and a stutter, preserves the invariant.
LEMMA Inductive == IInv /\ [Next]_vars => IInv'
  <1> SUFFICES ASSUME IInv, [Next]_vars PROVE IInv'
    OBVIOUS
  <1>1. CASE StoreStep
    BY <1>1, PutManyStep, AllocateObjectStep, AllocateTableStep, DeleteStep, CreateStep,
       DiscardStep, RollbackStep, PruneStep, CollectStep, GetStep, MountCleanStep,
       MountReplayStep, MountFailsStep, WriteSectorsStep, PublishFlushedStep,
       ObjectFlushedStep, TableFlushedStep, WalFlushedStep, RootFlushedStep,
       ClearFlushedStep, MountFlushedStep, PutRejectedStep, DeleteRejectedStep,
       SnapshotCallFailsStep, QuarantineStep, MountOrFormatFailsStep
       DEF StoreStep
  <1>2. CASE Format
    BY <1>2, FormatStep
  <1>3. CASE Crash
    BY <1>3, CrashStep
  <1>4. CASE UNCHANGED vars
    <2>1. UNCHANGED <<durable, visible, table, bitmap, next_sector, current_table_sector,
                      current_generation, superblock_sequence, active_superblock_sector,
                      recovery_required, snapshots, cache, pc, io, op, budget>>
      BY <1>4 DEF vars, diskVars, storeVars, rootVars, spaceVars, sbVars, ctlVars
    <2>2. TypeOK'
      BY SMTT(30), <2>1 DEF IInv, TypeOK, IsTable, IsOp
    <2>3. ReservedOK(durable)' /\ ReservedOK(visible)' /\ CallOK'
      BY <2>1 DEF IInv, ReservedOK, CallOK
    <2>4. (Count(table))' = Count(table) /\ (Count(op.candidate))' = Count(op.candidate)
      BY <2>1 DEF Count
    <2>5. BoundsOK'
      BY <2>1, <2>4 DEF IInv, BoundsOK, Running, StoreIn, InBounds, SnapshotsIn
    <2>6. SuperblockOK'
      BY <2>1, <2>4 DEF IInv, SuperblockOK, Published, Running, InactiveSuperblock,
                        superblock_from_store, RootIs, chosen
    <2>7. WalOK'
      BY <2>1, <2>4 DEF IInv, WalOK, Running, WalAgrees, ClearIsSafe, HasSuperblock, chosen,
                        durableWal, visibleWal, write_wal_root
    <2> QED BY <2>2, <2>3, <2>5, <2>6, <2>7 DEF IInv
  <1> QED BY <1>1, <1>2, <1>3, <1>4 DEF Next

\* What the inductive invariant says of every reachable state.
THEOREM InvariantHolds == Spec => []IInv
  <1>1. Init => IInv
    BY TypeInit
  <1>2. IInv /\ [Next]_vars => IInv'
    BY Inductive
  <1> QED BY <1>1, <1>2, PTL DEF Spec

\* The store in memory, the locals of every call and both views of the disk keep
\* their shape: the bitmap and next_sector stay within the disk, however
\* bitmap_allocate(), reject_allocations, mount and power loss are interleaved.
THEOREM TypeCorrect == Spec => []TypeOK
  <1>1. IInv => TypeOK
    BY DEF IInv
  <1> QED BY <1>1, InvariantHolds, PTL

\* The WAL sector of a serving store is empty or repeats the root in memory, on
\* the disk and in its write cache: recover_wal() after a power loss never brings
\* back an older root than the one put_many, delete and rollback went on from.
THEOREM WalNeverStale == Spec => []NoStaleWal
  <1>1. IInv => NoStaleWal
    <2> SUFFICES ASSUME IInv, Serving, ~recovery_required
                 PROVE  /\ WalAgrees(durable[OBJECT_STORE_WAL_SECTOR])
                        /\ pc # "wal" => WalAgrees(visible[OBJECT_STORE_WAL_SECTOR])
      BY DEF NoStaleWal
    <2>1. Running /\ op.call # "mount"
      BY DEF Serving, Running
    <2> QED BY <2>1 DEF IInv, WalOK, durableWal, visibleWal
  <1> QED BY <1>1, InvariantHolds, PTL
=============================================================================
