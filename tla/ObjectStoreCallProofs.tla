------------------------ MODULE ObjectStoreCallProofs -------------------------
(***************************************************************************)
(* The steps of ObjectStore that do not write: the start of every call, its   *)
(* allocations, mount, format and power loss each preserve IInv.             *)
(***************************************************************************)
EXTENDS ObjectStoreLemmas

USE DEF OBJECT_STORE_SUPERBLOCK_A, OBJECT_STORE_SUPERBLOCK_B, OBJECT_STORE_WAL_SECTOR,
        OBJECT_STORE_FIRST_ALLOCATABLE_SECTOR

(***************************************************************************)
(* Steps that do not touch the disk.                                       *)
(***************************************************************************)
\* Between calls and while a call allocates, the reserved sectors agree with
\* the store in memory, and go on doing so while neither changes.
LEMMA CallStarts ==
    ASSUME IInv, pc \in {"ready", "alloc_objects", "alloc_table"}, ~recovery_required,
           UNCHANGED <<durable, visible, table, current_table_sector,
                       superblock_sequence, active_superblock_sector, recovery_required>>,
           pc' \in {"ready", "alloc_objects", "alloc_table", "publish", "wal"},
           pc' \in {"publish", "wal"} => io' = "write",
           op'.call \notin {"format", "mount"}
    PROVE  /\ ReservedOK(durable)' /\ ReservedOK(visible)'
           /\ SuperblockOK' /\ WalOK'
  <1>1. Published /\ Running /\ op.call # "mount"
    BY DEF IInv, CallOK, Running, Published, NoOp
  <1>2. ReservedOK(durable)' /\ ReservedOK(visible)'
    BY DEF IInv, ReservedOK
  <1>3. (Count(table))' = Count(table)
    BY DEF Count
  <1>4. SuperblockOK'
    <2>1. RootIs(visible[chosen(visible)]) /\ Published'
      BY <1>1 DEF IInv, SuperblockOK, Published, Running
    <2>2. RootIs(visible[chosen(visible)])'
      BY <2>1, <1>3 DEF RootIs, chosen
    <2> QED BY <1>1, <2>1, <2>2 DEF IInv, SuperblockOK, Running
  <1>5. WalOK'
    <2>1. WalAgrees(durableWal) /\ WalAgrees(visibleWal)
      BY <1>1 DEF IInv, WalOK, Running
    <2>2. WalAgrees(durableWal)' /\ WalAgrees(visibleWal)'
      BY <2>1, <1>3 DEF WalAgrees, durableWal, visibleWal
    <2> QED BY <2>2 DEF WalOK, Running
  <1> QED BY <1>2, <1>4, <1>5

\* Staging a batch preserves the invariant.
LEMMA PutManyStep == ASSUME IInv, PutMany PROVE IInv'
  <1> PICK reqs \in Batches : object_store_put_many(reqs)
    BY DEF PutMany
  <1> DEFINE ids == {reqs[k].id : k \in DOMAIN reqs}
             staged == [k \in DOMAIN reqs |->
                          [id |-> reqs[k].id, val |-> reqs[k].val,
                           version |-> NextVersion(reqs[k].id), first_sector |-> 0]]
             entry(k) == [kind |-> "entry", id |-> staged[k].id, version |-> staged[k].version,
                          first_sector |-> OBJECT_STORE_FIRST_ALLOCATABLE_SECTOR,
                          sector_count |-> sector_count(staged[k].val)]
             candidate == [i \in DOMAIN table \cup ids |->
                             IF i \in ids
                             THEN entry(CHOOSE k \in DOMAIN reqs : reqs[k].id = i)
                             ELSE table[i]]
             locals == [NoOp EXCEPT !.call = "put_many", !.staged = staged,
                                    !.candidate = candidate,
                                    !.saved_next_sector = next_sector]
  <1>1. /\ Ready /\ Cardinality(DOMAIN table \cup ids) <= TableCapacity
        /\ Goto("alloc_objects", locals)
        /\ UNCHANGED <<diskVars, storeVars, budget>>
    BY DEF object_store_put_many
  <1>2. PICK n \in Nat \ {0} : reqs \in [1 .. n -> Request]
    BY BoundsAssumption DEF Batches
  <1>3. DOMAIN reqs = 1 .. n /\ \A k \in 1 .. n : reqs[k].id \in Ids /\ reqs[k].val \in Values
    BY <1>2 DEF Request
  <1>4. \A i \in Ids : NextVersion(i) \in Nat
    BY DEF NextVersion, IInv, TypeOK, IsTable, TableEntry
  <1>5. \A k \in 1 .. n : staged[k] \in Staged
    BY <1>3, <1>4 DEF Staged
  <1>6. staged \in Seq(Staged) /\ Len(staged) = n
    BY <1>3, <1>5, IsASeq, LenProperties
  <1>7. \A k \in 1 .. n : entry(k) \in TableEntry
    BY <1>5, SectorCountType DEF Staged, TableEntry
  <1>8. IsTable(candidate)
    <2>1. DOMAIN table \subseteq Ids /\ \A i \in DOMAIN table : table[i] \in TableEntry
      BY DEF IInv, TypeOK, IsTable
    <2>2. ids \subseteq Ids
      BY <1>3
    <2>3. \A i \in ids : (CHOOSE k \in DOMAIN reqs : reqs[k].id = i) \in 1 .. n
      BY <1>3
    <2>4. \A i \in DOMAIN table \cup ids : candidate[i] \in TableEntry
      <3> HIDE DEF entry
      <3> QED BY <1>7, <2>1, <2>3
    <2> HIDE DEF entry
    <2> QED BY <2>1, <2>2, <2>4 DEF IsTable
  <1>9. Count(candidate) <= TableCapacity
    <2> HIDE DEF entry
    <2> QED BY <1>1 DEF Count
  <1> HIDE DEF candidate, staged
  <1>10. next_sector \in 0 .. SectorCount
    BY DEF IInv, TypeOK
  <1>11. /\ locals.call = "put_many" /\ locals.staged = staged
         /\ locals.candidate = candidate /\ locals.saved_next_sector = next_sector
         /\ locals.index = 0
    BY DEF NoOp
  <1>12. IsOp(locals)
    <2>1. locals \in [call : Calls, id : Ids \cup {0}, staged : Seq(Staged), index : Nat,
                      candidate : {candidate}, table_sector : Nat,
                      saved_next_sector : 0 .. SectorCount, saved : [Slots -> Snapshot],
                      saved_generation : Nat, keep : Nat]
      BY <1>6, <1>10, NoSnapshotsType DEF NoOp, Calls
    <2> HIDE DEF locals
    <2> QED BY <1>8, <1>11, <2>1 DEF IsOp
  <1> HIDE DEF locals
  <1>13. pc' = "alloc_objects" /\ io' = "write" /\ op' = locals /\ pc = "ready" /\ ~recovery_required
    BY <1>1 DEF Goto, Ready
  <1>14. TypeOK'
    BY <1>1, <1>12, <1>13 DEF IInv, TypeOK, Steps, diskVars, storeVars, rootVars, spaceVars, sbVars
  <1>15. CallOK'
    <2>1. Len(staged) >= 1
      BY <1>6
    <2> QED BY <1>1, <1>6, <1>11, <1>13, <2>1 DEF IInv, CallOK, storeVars
  <1>16. BoundsOK'
    <2>1. StoreIn(next_sector) /\ UNCHANGED <<table, current_table_sector, snapshots, next_sector>>
      BY <1>1, <1>13 DEF IInv, BoundsOK, Running, storeVars, rootVars, spaceVars
    <2>2. StoreIn(next_sector)' /\ StoreIn(op.saved_next_sector)'
      BY <2>1, <1>11, <1>13 DEF StoreIn, InBounds, SnapshotsIn, Count
    <2>3. (Count(op.candidate))' <= TableCapacity
      BY <1>9, <1>11, <1>13 DEF Count
    <2> QED BY <1>11, <1>13, <2>2, <2>3 DEF BoundsOK, SnapshotCalls, Commits
  <1>17. ReservedOK(durable)' /\ ReservedOK(visible)' /\ SuperblockOK' /\ WalOK'
    BY <1>1, <1>11, <1>13, CallStarts DEF diskVars, storeVars, rootVars, sbVars
  <1> QED BY <1>14, <1>15, <1>16, <1>17 DEF IInv

\* A store at rest has no call to constrain.
LEMMA AtRest ==
    ASSUME op' = NoOp, pc' \in {"down", "failed", "ready"},
           recovery_required' => pc' = "ready",
           pc' = "ready" => StoreIn(next_sector)'
    PROVE  IsOp(op)' /\ CallOK' /\ BoundsOK'
  <1>1. IsOp(op)'
    BY NoOpType
  <1>2. op'.call = "none"
    BY DEF NoOp
  <1>3. CallOK'
    BY <1>2 DEF CallOK
  <1>4. BoundsOK'
    BY <1>2 DEF BoundsOK, Running, SnapshotCalls, Commits
  <1> QED BY <1>1, <1>3, <1>4

\* Raising next_sector keeps everything below it.
LEMMA StoreInGrows ==
    ASSUME TypeOK, NEW n \in Nat, StoreIn(n), NEW m \in Nat, n <= m, m <= SectorCount
    PROVE  StoreIn(m)
  <1>1. Count(table) \in Nat /\ current_table_sector \in Nat /\ SectorCount \in Nat
    BY CountType, SectorAssumption DEF TypeOK
  <1>2. \A k \in Slots : snapshots[k].table_sector \in Nat /\ snapshots[k].table_count \in Nat
    BY DEF TypeOK, Snapshot
  <1>3. n \in 3 .. SectorCount /\ InBounds(current_table_sector, Count(table), n)
    BY DEF StoreIn
  <1>4. InBounds(current_table_sector, Count(table), m)
    BY <1>1, <1>3 DEF InBounds
  <1>5. SnapshotsIn(snapshots, m)
    BY <1>2 DEF StoreIn, SnapshotsIn
  <1>6. m \in 3 .. SectorCount
    BY <1>1, <1>3
  <1> QED BY <1>4, <1>5, <1>6 DEF StoreIn

\* StoreIn depends on the root and on the snapshots only.
LEMMA StoreInKept ==
    ASSUME NEW n, StoreIn(n), UNCHANGED <<table, current_table_sector, snapshots>>,
           next_sector' = n
    PROVE  StoreIn(next_sector)'
  <1>1. (Count(table))' = Count(table)
    BY DEF Count
  <1> QED BY <1>1 DEF StoreIn, InBounds, SnapshotsIn

\* put_many's reject_allocations, when no disk sector changes.
LEMMA RejectAllocating ==
    ASSUME IInv, pc \in {"alloc_objects", "alloc_table"}, RejectAllocations,
           UNCHANGED <<diskVars, rootVars, sbVars, recovery_required, snapshots, cache, budget>>
    PROVE  IInv'
  <1>1. /\ op.call = "put_many" /\ ~recovery_required
        /\ StoreIn(op.saved_next_sector) /\ op.saved_next_sector \in 0 .. SectorCount
    BY DEF IInv, CallOK, BoundsOK, TypeOK, IsOp
  <1>2. /\ pc' = "ready" /\ io' = "write" /\ op' = NoOp
        /\ next_sector' = op.saved_next_sector /\ bitmap' \subseteq bitmap
    BY DEF RejectAllocations, Return, Goto
  <1>3. StoreIn(next_sector)'
    BY <1>1, <1>2, StoreInKept DEF rootVars
  <1>4. IsOp(op)' /\ CallOK' /\ BoundsOK'
    BY <1>1, <1>2, <1>3, AtRest
  <1>5. TypeOK'
    BY <1>1, <1>2, <1>4 DEF IInv, TypeOK, diskVars, rootVars, sbVars, Steps
  <1>6. op'.call = "none"
    BY <1>2 DEF NoOp
  <1>7. ReservedOK(durable)' /\ ReservedOK(visible)' /\ SuperblockOK' /\ WalOK'
    BY <1>1, <1>2, <1>6, CallStarts DEF diskVars, rootVars, sbVars
  <1> QED BY <1>4, <1>5, <1>7 DEF IInv

\* Allocating an object's sectors, or rejecting the batch, preserves the invariant.
LEMMA AllocateObjectStep == ASSUME IInv, AllocateObject PROVE IInv'
  <1> DEFINE k == op.index + 1
             st == op.staged[k]
             locals(first) == [op EXCEPT !.index = k, !.staged[k].first_sector = first,
                                         !.candidate[st.id].first_sector = first]
  <1>1. /\ pc = "alloc_objects" /\ op.call = "put_many" /\ ~recovery_required
        /\ UNCHANGED <<diskVars, rootVars, sbVars, recovery_required, snapshots, cache, budget>>
    BY DEF AllocateObject, IInv, CallOK
  <1>2. CASE FreeRuns(sector_count(st.val)) = {} /\ RejectAllocations
    BY <1>1, <1>2, RejectAllocating
  <1>3. ASSUME NEW first \in Sectors, bitmap_allocate(first, sector_count(st.val)),
               Goto(IF k = Len(op.staged) THEN "alloc_table" ELSE "alloc_objects", locals(first))
        PROVE  IInv'
    <2>1. /\ op.index \in Nat /\ op.staged \in Seq(Staged) /\ Len(op.staged) \in Nat
          /\ k \in 1 .. Len(op.staged) /\ DOMAIN op.staged = 1 .. Len(op.staged)
      <3>1. op.index \in Nat /\ op.staged \in Seq(Staged) /\ op.index < Len(op.staged)
        BY <1>1 DEF IInv, TypeOK, IsOp, CallOK
      <3> QED BY <3>1, LenProperties
    <2>2. \A j \in 1 .. Len(op.staged) : op.staged[j] \in Staged
      BY <2>1, ElementOfSeq
    <2>3. sector_count(st.val) \in Nat
      BY <2>1, <2>2, SectorCountType DEF Staged
    <2>4. /\ first \in Nat /\ first >= 3 /\ bitmap' \subseteq Sectors
          /\ next_sector' \in 0 .. SectorCount /\ next_sector <= next_sector'
      BY <1>3, <2>3, AllocateFacts DEF IInv
    <2> DEFINE staged == [op.staged EXCEPT ![k].first_sector = first]
               candidate == [op.candidate EXCEPT ![st.id].first_sector = first]
    <2>5. /\ \A j \in 1 .. Len(op.staged) : staged[j] \in Staged
          /\ DOMAIN staged = 1 .. Len(op.staged)
          /\ \A j \in 1 .. Len(op.staged) :
               staged[j].first_sector = IF j = k THEN first ELSE op.staged[j].first_sector
      BY <2>1, <2>2, <2>4 DEF Staged
    <2>6. staged \in Seq(Staged) /\ Len(staged) = Len(op.staged)
      <3> HIDE DEF staged
      <3>1. staged \in [1 .. Len(op.staged) -> Staged]
        <4>1. staged = [j \in 1 .. Len(op.staged) |-> staged[j]]
          BY <2>1 DEF staged
        <4> QED BY <2>5, <4>1
      <3> QED BY <3>1, <2>1, IsASeq, LenProperties
    <2>7. IsTable(candidate) /\ Count(candidate) = Count(op.candidate)
      <3>1. IsTable(op.candidate)
        BY DEF IInv, TypeOK, IsOp
      <3>2. DOMAIN candidate = DOMAIN op.candidate
        OBVIOUS
      <3>3. \A i \in DOMAIN op.candidate : candidate[i] \in TableEntry
        BY <2>4, <3>1 DEF IsTable, TableEntry
      <3>4. candidate \in [DOMAIN op.candidate -> TableEntry]
        BY <3>3
      <3> HIDE DEF candidate
      <3> QED BY <3>1, <3>2, <3>4 DEF IsTable, Count
    <2>8. /\ op'.call = "put_many" /\ op'.index = k /\ op'.staged = staged
          /\ op'.candidate = candidate /\ op'.table_sector = op.table_sector
          /\ op'.saved_next_sector = op.saved_next_sector
      <3>1. op' = locals(first)
        BY <1>3 DEF Goto
      <3> QED BY <3>1, <1>1 DEF IInv, TypeOK, IsOp
    <2>9. IsOp(op')
      <3>1. op' = [op EXCEPT !.index = k, !.staged = staged, !.candidate = candidate]
        <4>1. op' = locals(first)
          BY <1>3 DEF Goto
        <4> QED BY <4>1, <1>1 DEF IInv, TypeOK, IsOp
      <3> HIDE DEF staged, candidate
      <3>2. op' \in [call : Calls, id : Ids \cup {0}, staged : Seq(Staged), index : Nat,
                     candidate : {candidate}, table_sector : Nat,
                     saved_next_sector : 0 .. SectorCount, saved : [Slots -> Snapshot],
                     saved_generation : Nat, keep : Nat]
        <4>1. op \in [call : Calls, id : Ids \cup {0}, staged : Seq(Staged), index : Nat,
                      candidate : {op.candidate}, table_sector : Nat,
                      saved_next_sector : 0 .. SectorCount, saved : [Slots -> Snapshot],
                      saved_generation : Nat, keep : Nat]
          BY DEF IInv, TypeOK, IsOp
        <4>2. k \in Nat
          BY <2>1
        <4> HIDE DEF k
        <4> QED BY <2>6, <3>1, <4>1, <4>2
      <3> QED BY <2>7, <2>8, <3>2 DEF IsOp
    <2> HIDE DEF staged, candidate
    <2>10. io' = "write" /\ pc' = IF k = Len(op.staged) THEN "alloc_table" ELSE "alloc_objects"
      BY <1>3 DEF Goto
    <2>11. TypeOK'
      BY <1>1, <2>4, <2>9, <2>10 DEF IInv, TypeOK, Steps, diskVars, rootVars, sbVars
    <2>12. CallOK'
      <3>1. pc' = "alloc_objects" => op'.index < Len(op'.staged)
        BY <2>1, <2>6, <2>8, <2>10
      <3>2. \A j \in 1 .. Len(op'.staged) :
              (pc' = "alloc_objects" => j <= op'.index) => op'.staged[j].first_sector >= 3
        <4> SUFFICES ASSUME NEW j \in 1 .. Len(op.staged), pc' = "alloc_objects" => j <= k
                     PROVE  staged[j].first_sector >= 3
          BY <2>6, <2>8
        <4>1. j <= k
          BY <2>1, <2>10
        <4>2. CASE j = k
          BY <2>4, <2>5, <4>2
        <4>3. CASE j # k
          <5>1. j <= op.index
            BY <2>1, <4>1, <4>3
          <5> QED BY <1>1, <2>5, <4>3, <5>1 DEF IInv, CallOK
        <4> QED BY <4>2, <4>3
      <3>3. Len(op'.staged) >= 1
        BY <2>1, <2>6, <2>8
      <3> QED BY <1>1, <2>8, <2>10, <3>1, <3>2, <3>3 DEF CallOK
    <2>13. BoundsOK'
      <3>1. StoreIn(next_sector) /\ StoreIn(op.saved_next_sector) /\ next_sector \in Nat
        BY <1>1, SectorAssumption DEF IInv, BoundsOK, Running, TypeOK
      <3>2. StoreIn(next_sector')
        BY <2>4, <3>1, StoreInGrows, SectorAssumption DEF IInv
      <3>3. (Count(table))' = Count(table) /\ (Count(op.candidate))' = Count(op.candidate)
        BY <1>1, <2>7, <2>8 DEF Count, rootVars
      <3>4. StoreIn(next_sector)' /\ StoreIn(op.saved_next_sector)'
        BY <1>1, <2>8, <3>1, <3>2, <3>3 DEF StoreIn, InBounds, SnapshotsIn, rootVars
      <3>5. Count(op.candidate) <= TableCapacity
        BY <1>1 DEF IInv, BoundsOK
      <3> QED BY <2>8, <2>10, <3>3, <3>4, <3>5 DEF BoundsOK, SnapshotCalls, Commits
    <2>14. ReservedOK(durable)' /\ ReservedOK(visible)' /\ SuperblockOK' /\ WalOK'
      BY <1>1, <2>8, <2>10, CallStarts DEF diskVars, rootVars, sbVars
    <2> QED BY <2>11, <2>12, <2>13, <2>14 DEF IInv
  <1> QED BY <1>2, <1>3 DEF AllocateObject

\* Allocating the table's sectors, or rejecting the batch, preserves the invariant.
LEMMA AllocateTableStep == ASSUME IInv, AllocateTable PROVE IInv'
  <1> DEFINE count == Count(op.candidate)
  <1>1. /\ pc = "alloc_table" /\ op.call = "put_many" /\ ~recovery_required
        /\ UNCHANGED <<diskVars, rootVars, sbVars, recovery_required, snapshots, cache, budget>>
    BY DEF AllocateTable, IInv, CallOK
  <1>2. CASE FreeRuns(count) = {} /\ RejectAllocations
    BY <1>1, <1>2, RejectAllocating
  <1>3. ASSUME NEW first \in Sectors, bitmap_allocate(first, count),
               Goto("publish", [op EXCEPT !.table_sector = first])
        PROVE  IInv'
    <2>1. count \in Nat
      BY CountType DEF IInv, TypeOK, IsOp
    <2>2. /\ first \in Nat /\ first >= 3 /\ bitmap' \subseteq Sectors
          /\ next_sector' \in 0 .. SectorCount /\ next_sector <= next_sector'
          /\ first + count <= next_sector'
      BY <1>3, <2>1, AllocateFacts DEF IInv
    <2>3. /\ pc' = "publish" /\ io' = "write" /\ op' = [op EXCEPT !.table_sector = first]
      BY <1>3 DEF Goto
    <2>4. op \in [call : Calls, id : Ids \cup {0}, staged : Seq(Staged), index : Nat,
                  candidate : {op.candidate}, table_sector : Nat,
                  saved_next_sector : 0 .. SectorCount, saved : [Slots -> Snapshot],
                  saved_generation : Nat, keep : Nat]
      BY DEF IInv, TypeOK, IsOp
    <2>5. /\ op'.call = "put_many" /\ op'.staged = op.staged /\ op'.table_sector = first
          /\ op'.candidate = op.candidate /\ op'.saved_next_sector = op.saved_next_sector
      BY <1>1, <2>3, <2>4
    <2>6. IsOp(op')
      <3>1. op' \in [call : Calls, id : Ids \cup {0}, staged : Seq(Staged), index : Nat,
                     candidate : {op.candidate}, table_sector : Nat,
                     saved_next_sector : 0 .. SectorCount, saved : [Slots -> Snapshot],
                     saved_generation : Nat, keep : Nat]
        BY SMTT(30), <2>2, <2>3, <2>4
      <3> QED BY <2>5, <3>1 DEF IInv, TypeOK, IsOp
    <2>7. TypeOK'
      BY <1>1, <2>2, <2>3, <2>6 DEF IInv, TypeOK, Steps, IoSteps, diskVars, rootVars, sbVars
    <2>8. CallOK'
      BY <1>1, <2>3, <2>5 DEF IInv, CallOK
    <2>9. BoundsOK'
      <3>1. /\ StoreIn(next_sector) /\ StoreIn(op.saved_next_sector) /\ next_sector \in Nat
            /\ count <= TableCapacity
        BY <1>1, SectorAssumption DEF IInv, BoundsOK, Running, TypeOK
      <3>2. StoreIn(next_sector')
        BY <2>2, <3>1, StoreInGrows, SectorAssumption DEF IInv
      <3>3. (Count(table))' = Count(table) /\ (Count(op.candidate))' = count
        BY <1>1, <2>5 DEF Count, rootVars
      <3>4. StoreIn(next_sector)' /\ StoreIn(op.saved_next_sector)'
        BY <1>1, <2>5, <3>1, <3>2, <3>3 DEF StoreIn, InBounds, SnapshotsIn, rootVars
      <3>5. InBounds(op.table_sector, Count(op.candidate), next_sector)'
        BY <2>2, <2>5, <3>1, <3>3 DEF InBounds
      <3> QED BY <2>3, <2>5, <3>1, <3>3, <3>4, <3>5 DEF BoundsOK, SnapshotCalls
    <2>10. ReservedOK(durable)' /\ ReservedOK(visible)' /\ SuperblockOK' /\ WalOK'
      BY <1>1, <2>3, <2>5, CallStarts DEF diskVars, rootVars, sbVars
    <2> QED BY <2>7, <2>8, <2>9, <2>10 DEF IInv
  <1> QED BY <1>2, <1>3 DEF AllocateTable

\* The locals of delete and rollback.
CommitOp(call, id, candidate, first) ==
    [NoOp EXCEPT !.call = call, !.id = id, !.candidate = candidate, !.table_sector = first]

\* They are well shaped.
LEMMA CommitLocals ==
    ASSUME NEW call \in Calls, NEW id \in Ids \cup {0}, NEW candidate, IsTable(candidate),
           NEW first \in Nat
    PROVE  /\ IsOp(CommitOp(call, id, candidate, first))
           /\ CommitOp(call, id, candidate, first).call = call
           /\ CommitOp(call, id, candidate, first).candidate = candidate
           /\ CommitOp(call, id, candidate, first).table_sector = first
  <1> DEFINE locals == CommitOp(call, id, candidate, first)
  <1>1. /\ locals.call = call /\ locals.candidate = candidate /\ locals.table_sector = first
    BY DEF NoOp, CommitOp
  <1>2. <<>> \in Seq(Staged) /\ 0 \in 0 .. SectorCount
    BY SectorAssumption
  <1>3. locals \in [call : Calls, id : Ids \cup {0}, staged : Seq(Staged), index : Nat,
                    candidate : {candidate}, table_sector : Nat,
                    saved_next_sector : 0 .. SectorCount, saved : [Slots -> Snapshot],
                    saved_generation : Nat, keep : Nat]
    BY <1>2, NoSnapshotsType DEF NoOp, CommitOp
  <1> HIDE DEF locals
  <1>4. IsOp(locals)
    BY <1>1, <1>3 DEF IsOp
  <1> QED BY <1>1, <1>4 DEF locals

\* Staging a delete and allocating its table preserves the invariant.
LEMMA DeleteStep == ASSUME IInv, Delete PROVE IInv'
  <1> PICK id \in Ids : object_store_delete(id)
    BY DEF Delete
  <1> DEFINE candidate == [i \in DOMAIN table \ {id} |-> table[i]]
             locals(first) == CommitOp("delete", id, candidate, first)
  <1>1. /\ pc = "ready" /\ ~recovery_required /\ id \in DOMAIN table
        /\ UNCHANGED <<diskVars, rootVars, sbVars, recovery_required, snapshots, cache, budget>>
    BY DEF object_store_delete, Ready
  <1>2. IsTable(candidate) /\ Count(candidate) \in Nat /\ Count(candidate) <= TableCapacity
    <2>1. IsTable(table) /\ IsTable(candidate)
      BY DEF IInv, TypeOK, IsTable
    <2>2. Count(candidate) <= Count(table)
      BY <2>1, CountType, FS_Subset, FS_CardinalityType DEF Count
    <2>3. Count(table) <= TableCapacity
      BY <1>1 DEF IInv, BoundsOK, Running, StoreIn, InBounds
    <2>4. Count(candidate) \in Nat /\ Count(table) \in Nat
      BY <2>1, CountType
    <2> HIDE DEF candidate
    <2> QED BY <2>1, <2>2, <2>3, <2>4, LimitAssumption
  <1> HIDE DEF candidate
  <1>3. ASSUME NEW first \in Nat, Goto("publish", locals(first)),
               bitmap' \subseteq Sectors, next_sector' \in 0 .. SectorCount,
               next_sector <= next_sector',
               InBounds(first, Count(candidate), next_sector')
        PROVE  IInv'
    <2>1. pc' = "publish" /\ io' = "write" /\ op' = locals(first)
      BY <1>3 DEF Goto
    <2>2. /\ IsOp(op') /\ op'.call = "delete" /\ op'.candidate = candidate
          /\ op'.table_sector = first
      <3>1. "delete" \in Calls /\ id \in Ids \cup {0}
        BY DEF Calls
      <3> QED BY <1>2, <2>1, <3>1, CommitLocals
    <2>3. TypeOK'
      BY <1>1, <1>3, <2>1, <2>2 DEF IInv, TypeOK, Steps, IoSteps, diskVars, rootVars, sbVars
    <2>4. CallOK'
      BY <1>1, <2>1, <2>2 DEF IInv, CallOK
    <2>5. BoundsOK'
      <3>1. StoreIn(next_sector) /\ next_sector \in Nat
        BY <1>1, SectorAssumption DEF IInv, BoundsOK, Running, TypeOK
      <3>2. StoreIn(next_sector')
        BY <1>3, <3>1, StoreInGrows, SectorAssumption DEF IInv
      <3>3. StoreIn(next_sector)'
        BY <1>1, <3>2, StoreInKept DEF rootVars
      <3>4. (Count(op.candidate))' = Count(candidate)
        BY <2>2 DEF Count
      <3>5. InBounds(op.table_sector, Count(op.candidate), next_sector)'
        BY <1>3, <2>2, <3>4 DEF InBounds
      <3> QED BY <2>2, <3>3, <3>5 DEF BoundsOK, SnapshotCalls
    <2>6. ReservedOK(durable)' /\ ReservedOK(visible)' /\ SuperblockOK' /\ WalOK'
      BY <1>1, <2>1, <2>2, CallStarts DEF diskVars, rootVars, sbVars
    <2> QED BY <2>3, <2>4, <2>5, <2>6 DEF IInv
  <1>4. CASE Count(candidate) = 0 /\ Goto("publish", locals(0)) /\ UNCHANGED spaceVars
    <2>1. InBounds(0, Count(candidate), next_sector')
      BY <1>4, LimitAssumption DEF InBounds
    <2>2. bitmap' \subseteq Sectors /\ next_sector' \in 0 .. SectorCount /\ next_sector <= next_sector'
      BY <1>4, SectorAssumption DEF spaceVars, IInv, TypeOK
    <2> HIDE DEF locals
    <2>3. 0 \in Nat
      OBVIOUS
    <2> QED BY <1>3, <1>4, <2>1, <2>2, <2>3
  <1>5. ASSUME NEW first \in Sectors, bitmap_allocate(first, Count(candidate)),
               Goto("publish", locals(first))
        PROVE  IInv'
    <2>1. /\ first \in Nat /\ first >= 3 /\ bitmap' \subseteq Sectors
          /\ next_sector' \in 0 .. SectorCount /\ next_sector <= next_sector'
          /\ first + Count(candidate) <= next_sector'
      BY <1>2, <1>5, AllocateFacts DEF IInv
    <2>2. InBounds(first, Count(candidate), next_sector')
      BY <1>2, <2>1 DEF InBounds
    <2> QED BY <1>3, <1>5, <2>1, <2>2
  <1> QED BY <1>4, <1>5 DEF object_store_delete, CommitOp, candidate

\* The locals of the snapshot calls: what a failed write puts back.
SnapshotOp(call, keep, saved, generation) ==
    [NoOp EXCEPT !.call = call, !.keep = keep, !.saved = saved, !.saved_generation = generation]

\* They are well shaped.
LEMMA SnapshotLocals ==
    ASSUME NEW call \in Calls, NEW keep \in Nat, NEW saved \in [Slots -> Snapshot],
           NEW generation \in Nat
    PROVE  /\ IsOp(SnapshotOp(call, keep, saved, generation))
           /\ SnapshotOp(call, keep, saved, generation).call = call
           /\ SnapshotOp(call, keep, saved, generation).saved = saved
  <1> DEFINE locals == SnapshotOp(call, keep, saved, generation)
  <1>1. /\ locals.call = call /\ locals.saved = saved /\ locals.candidate = EmptyTable
    BY DEF NoOp, SnapshotOp
  <1>2. <<>> \in Seq(Staged) /\ 0 \in 0 .. SectorCount
    BY SectorAssumption
  <1>3. locals \in [call : Calls, id : Ids \cup {0}, staged : Seq(Staged), index : Nat,
                    candidate : {EmptyTable}, table_sector : Nat,
                    saved_next_sector : 0 .. SectorCount, saved : [Slots -> Snapshot],
                    saved_generation : Nat, keep : Nat]
    BY <1>2 DEF NoOp, SnapshotOp
  <1> HIDE DEF locals
  <1>4. IsOp(locals)
    BY <1>1, <1>3, EmptyTableType DEF IsOp
  <1> QED BY <1>1, <1>4 DEF locals

\* A snapshot call about to write its superblock.
LEMMA SnapshotCallShape ==
    ASSUME TypeOK, StoreIn(next_sector), NEW call \in SnapshotCalls, NEW keep \in Nat,
           Goto("publish", SnapshotOp(call, keep, snapshots, current_generation)),
           SnapshotsIn(snapshots', next_sector), ~recovery_required',
           UNCHANGED <<table, current_table_sector, next_sector>>
    PROVE  /\ pc' = "publish" /\ io' = "write" /\ op'.call = call
           /\ IsOp(op)' /\ CallOK' /\ BoundsOK'
  <1>1. /\ pc' = "publish" /\ io' = "write"
        /\ op' = SnapshotOp(call, keep, snapshots, current_generation)
    BY DEF Goto
  <1>2. call \in Calls
    BY DEF SnapshotCalls, Calls
  <1>3. IsOp(op') /\ op'.call = call /\ op'.saved = snapshots
    BY <1>1, <1>2, SnapshotLocals DEF TypeOK
  <1>4. CallOK'
    BY <1>1, <1>3 DEF CallOK, SnapshotCalls
  <1>5. BoundsOK'
    <2>1. (Count(table))' = Count(table)
      BY DEF Count
    <2>2. StoreIn(next_sector)'
      BY <2>1 DEF StoreIn, InBounds, SnapshotsIn
    <2>3. SnapshotsIn(op.saved, next_sector)'
      BY <1>3 DEF StoreIn, SnapshotsIn
    <2> QED BY <1>3, <2>2, <2>3 DEF BoundsOK, SnapshotCalls, Commits
  <1> QED BY <1>1, <1>3, <1>4, <1>5

\* Freeing a slot keeps the others in bounds.
LEMMA FreedSlot ==
    ASSUME TypeOK, StoreIn(next_sector), NEW k
    PROVE  /\ [snapshots EXCEPT ![k] = NoSnapshot] \in [Slots -> Snapshot]
           /\ SnapshotsIn([snapshots EXCEPT ![k] = NoSnapshot], next_sector)
  <1>1. snapshots \in [Slots -> Snapshot] /\ next_sector \in Nat
    BY SectorAssumption DEF TypeOK
  <1>2. NoSnapshot \in Snapshot /\ NoSnapshot.table_sector + NoSnapshot.table_count = 0
    BY DEF NoSnapshot, Snapshot
  <1>3. \A j \in Slots : snapshots[j].table_sector + snapshots[j].table_count <= next_sector
    BY DEF StoreIn, SnapshotsIn
  <1> DEFINE freed == [snapshots EXCEPT ![k] = NoSnapshot]
  <1>4. \A j \in Slots : freed[j] \in {snapshots[j], NoSnapshot}
    BY <1>1
  <1>5. \A j \in Slots : freed[j].table_sector + freed[j].table_count <= next_sector
    <2> HIDE DEF freed
    <2> QED BY <1>1, <1>2, <1>3, <1>4
  <1>6. freed \in [Slots -> Snapshot]
    BY <1>1, <1>2
  <1> QED BY <1>5, <1>6 DEF SnapshotsIn

\* Freeing a slot and going on to write the superblock.
LEMMA DiscardShape ==
    ASSUME TypeOK, StoreIn(next_sector), NEW k, NEW call \in {"discard", "prune"},
           NEW keep \in Nat,
           DiscardSlot(k, [NoOp EXCEPT !.call = call, !.keep = keep]), ~recovery_required',
           UNCHANGED <<table, current_table_sector, next_sector>>
    PROVE  /\ snapshots' \in [Slots -> Snapshot]
           /\ pc' = "publish" /\ io' = "write" /\ op'.call = call
           /\ IsOp(op)' /\ CallOK' /\ BoundsOK'
  <1>1. /\ snapshots' = [snapshots EXCEPT ![k] = NoSnapshot]
        /\ Goto("publish", [[NoOp EXCEPT !.call = call, !.keep = keep] EXCEPT
                              !.saved = snapshots, !.saved_generation = current_generation])
    BY DEF DiscardSlot
  <1>2. [[NoOp EXCEPT !.call = call, !.keep = keep] EXCEPT
           !.saved = snapshots, !.saved_generation = current_generation] =
        SnapshotOp(call, keep, snapshots, current_generation)
    BY DEF NoOp, SnapshotOp
  <1>3. Goto("publish", SnapshotOp(call, keep, snapshots, current_generation))
    BY <1>1, <1>2
  <1>4. snapshots' \in [Slots -> Snapshot] /\ SnapshotsIn(snapshots', next_sector)
    BY <1>1, FreedSlot
  <1>5. call \in SnapshotCalls
    BY DEF SnapshotCalls
  <1> QED BY <1>3, <1>4, <1>5, SnapshotCallShape

\* Keeping no snapshots is the default.
LEMMA KeepZero ==
    ASSUME NEW c PROVE [NoOp EXCEPT !.call = c] = [NoOp EXCEPT !.call = c, !.keep = 0]
  <1>1. NoOp = [NoOp EXCEPT !.keep = 0]
    BY DEF NoOp
  <1>2. [NoOp EXCEPT !.call = c] = [[NoOp EXCEPT !.keep = 0] EXCEPT !.call = c]
    BY <1>1, Zenon
  <1>3. [[NoOp EXCEPT !.keep = 0] EXCEPT !.call = c] = [NoOp EXCEPT !.call = c, !.keep = 0]
    BY DEF NoOp
  <1> QED BY <1>2, <1>3

\* The locals of snapshot_create.
LEMMA CreateLocals ==
    ASSUME NEW c, NEW s, NEW g
    PROVE  [NoOp EXCEPT !.call = c, !.saved = s, !.saved_generation = g] = SnapshotOp(c, 0, s, g)
  <1>1. [[NoOp EXCEPT !.call = c] EXCEPT !.saved = s, !.saved_generation = g] =
        [[NoOp EXCEPT !.call = c, !.keep = 0] EXCEPT !.saved = s, !.saved_generation = g]
    BY KeepZero, Zenon
  <1>2. [[NoOp EXCEPT !.call = c] EXCEPT !.saved = s, !.saved_generation = g] =
        [NoOp EXCEPT !.call = c, !.saved = s, !.saved_generation = g]
    BY DEF NoOp
  <1>3. [[NoOp EXCEPT !.call = c, !.keep = 0] EXCEPT !.saved = s, !.saved_generation = g] =
        SnapshotOp(c, 0, s, g)
    BY DEF NoOp, SnapshotOp
  <1> QED BY <1>1, <1>2, <1>3

\* Taking a snapshot in memory preserves the invariant.
LEMMA CreateStep == ASSUME IInv, object_store_snapshot_create PROVE IInv'
  <1> DEFINE id == current_generation + 1
             free == {k \in Slots : snapshots[k].id = 0}
             taken == [id |-> id, table_sector |-> current_table_sector, table_count |-> Count(table)]
  <1>1. /\ pc = "ready" /\ ~recovery_required
        /\ snapshots' = [snapshots EXCEPT ![Min(free)] = taken]
        /\ current_generation' = id
        /\ Goto("publish", [NoOp EXCEPT !.call = "create", !.saved = snapshots,
                                        !.saved_generation = current_generation])
        /\ UNCHANGED <<diskVars, table, current_table_sector, spaceVars, sbVars,
                       recovery_required, cache, budget>>
    BY DEF object_store_snapshot_create, Ready
  <1>2. TypeOK /\ StoreIn(next_sector)
    BY <1>1 DEF IInv, BoundsOK, Running
  <1>3. /\ Count(table) \in Nat /\ current_table_sector \in Nat /\ current_generation \in Nat
        /\ next_sector \in Nat
    BY <1>2, CountType, SectorAssumption DEF TypeOK
  <1>4. taken \in Snapshot /\ taken.table_sector + taken.table_count <= next_sector
    BY <1>2, <1>3 DEF Snapshot, StoreIn, InBounds
  <1> DEFINE m == Min(free)
  <1> HIDE DEF taken, m
  <1>5. snapshots' = [snapshots EXCEPT ![m] = taken]
    BY <1>1 DEF m
  <1>6. snapshots' \in [Slots -> Snapshot]
    BY <1>2, <1>4, <1>5 DEF TypeOK
  <1>7. SnapshotsIn(snapshots', next_sector)
    <2>1. \A j \in Slots : snapshots'[j] \in {snapshots[j], taken}
      BY <1>2, <1>5 DEF TypeOK
    <2> QED BY <1>2, <1>4, <2>1 DEF StoreIn, SnapshotsIn
  <1>8. Goto("publish", SnapshotOp("create", 0, snapshots, current_generation))
    <2>1. [NoOp EXCEPT !.call = "create", !.saved = snapshots,
                       !.saved_generation = current_generation] =
          SnapshotOp("create", 0, snapshots, current_generation)
      BY CreateLocals
    <2> QED BY <1>1, <2>1
  <1>9. pc' = "publish" /\ io' = "write" /\ op'.call = "create" /\ IsOp(op)' /\ CallOK' /\ BoundsOK'
    <2>1. "create" \in SnapshotCalls /\ 0 \in Nat
      BY DEF SnapshotCalls
    <2>2. ~recovery_required' /\ UNCHANGED <<table, current_table_sector, next_sector>>
      BY <1>1 DEF spaceVars
    <2> QED BY <1>2, <1>7, <1>8, <2>1, <2>2, SnapshotCallShape
  <1>10. TypeOK'
    BY <1>1, <1>2, <1>3, <1>6, <1>9 DEF TypeOK, Steps, IoSteps, diskVars, spaceVars, sbVars
  <1>11. ReservedOK(durable)' /\ ReservedOK(visible)' /\ SuperblockOK' /\ WalOK'
    BY <1>1, <1>9, CallStarts DEF diskVars, sbVars
  <1> QED BY <1>9, <1>10, <1>11 DEF IInv

\* Freeing a snapshot's slot in memory preserves the invariant.
LEMMA DiscardStep == ASSUME IInv, Discard PROVE IInv'
  <1> PICK k \in Slots : object_store_snapshot_discard(k)
    BY DEF Discard
  <1>1. /\ pc = "ready" /\ ~recovery_required
        /\ DiscardSlot(k, [NoOp EXCEPT !.call = "discard"])
        /\ UNCHANGED <<diskVars, rootVars, spaceVars, sbVars, recovery_required, cache, budget>>
    BY DEF object_store_snapshot_discard, Ready
  <1>2. TypeOK /\ StoreIn(next_sector)
    BY <1>1 DEF IInv, BoundsOK, Running
  <1>3. DiscardSlot(k, [NoOp EXCEPT !.call = "discard", !.keep = 0])
    <2>1. [NoOp EXCEPT !.call = "discard"] = [NoOp EXCEPT !.call = "discard", !.keep = 0]
      BY KeepZero
    <2> QED BY <1>1, <2>1
  <1>4. /\ snapshots' \in [Slots -> Snapshot]
        /\ pc' = "publish" /\ io' = "write" /\ op'.call = "discard"
        /\ IsOp(op)' /\ CallOK' /\ BoundsOK'
    <2>1. ~recovery_required' /\ UNCHANGED <<table, current_table_sector, next_sector>>
      BY <1>1 DEF rootVars, spaceVars
    <2>2. 0 \in Nat /\ "discard" \in {"discard", "prune"}
      OBVIOUS
    <2> QED BY <1>2, <1>3, <2>1, <2>2, DiscardShape
  <1>5. TypeOK'
    BY <1>1, <1>2, <1>4 DEF TypeOK, Steps, IoSteps, diskVars, rootVars, spaceVars, sbVars
  <1>6. ReservedOK(durable)' /\ ReservedOK(visible)' /\ SuperblockOK' /\ WalOK'
    BY <1>1, <1>4, CallStarts DEF diskVars, rootVars, sbVars
  <1> QED BY <1>4, <1>5, <1>6 DEF IInv

\* A turn of prune's loop, from its first call or after a discard's flush.
LEMMA PruneShape ==
    ASSUME TypeOK, StoreIn(next_sector), NEW keep \in Nat, PruneTurn(keep), ~recovery_required',
           UNCHANGED <<table, current_table_sector, next_sector>>
    PROVE  /\ snapshots' \in [Slots -> Snapshot]
           /\ bitmap' \subseteq Sectors
           /\ budget' \in [writes : Nat, reads : Nat, crashes : Nat]
           /\ pc' \in {"publish", "ready"} /\ io' = "write" /\ op'.call \in {"prune", "none"}
           /\ IsOp(op)' /\ CallOK' /\ BoundsOK'
  <1>1. CASE /\ DiscardSlot(OldestSlot, [NoOp EXCEPT !.call = "prune", !.keep = keep])
             /\ UNCHANGED <<bitmap, budget>>
    <2>1. "prune" \in {"discard", "prune"}
      OBVIOUS
    <2>2. /\ snapshots' \in [Slots -> Snapshot]
          /\ pc' = "publish" /\ io' = "write" /\ op'.call = "prune"
          /\ IsOp(op)' /\ CallOK' /\ BoundsOK'
      BY <1>1, <2>1, DiscardShape
    <2> QED BY <1>1, <2>2 DEF TypeOK
  <1>2. CASE Rebuild /\ Return /\ UNCHANGED snapshots
    <2>1. pc' = "ready" /\ io' = "write" /\ op' = NoOp
      BY <1>2 DEF Return, Goto
    <2>2. StoreIn(next_sector)'
      BY <1>2, StoreInKept
    <2>3. IsOp(op)' /\ CallOK' /\ BoundsOK'
      BY <2>1, <2>2, AtRest
    <2>4. op'.call = "none"
      BY <2>1 DEF NoOp
    <2>5. bitmap' \subseteq Sectors /\ budget' \in [writes : Nat, reads : Nat, crashes : Nat]
      BY <1>2, RebuildStep
    <2> QED BY <1>2, <2>1, <2>3, <2>4, <2>5 DEF TypeOK
  <1> QED BY <1>1, <1>2 DEF PruneTurn

\* The first turn of prune's loop preserves the invariant.
LEMMA PruneStep == ASSUME IInv, Prune PROVE IInv'
  <1> PICK keep \in 0 .. SnapshotLimit : object_store_snapshot_prune(keep)
    BY DEF Prune
  <1>1. /\ pc = "ready" /\ ~recovery_required /\ PruneTurn(keep)
        /\ UNCHANGED <<diskVars, rootVars, next_sector, sbVars, recovery_required, cache>>
    BY DEF object_store_snapshot_prune, Ready
  <1>2. TypeOK /\ StoreIn(next_sector)
    BY <1>1 DEF IInv, BoundsOK, Running
  <1>3. /\ snapshots' \in [Slots -> Snapshot]
        /\ bitmap' \subseteq Sectors
        /\ budget' \in [writes : Nat, reads : Nat, crashes : Nat]
        /\ pc' \in {"publish", "ready"} /\ io' = "write" /\ op'.call \in {"prune", "none"}
        /\ IsOp(op)' /\ CallOK' /\ BoundsOK'
    <2>1. keep \in Nat
      BY LimitAssumption
    <2>2. ~recovery_required' /\ UNCHANGED <<table, current_table_sector, next_sector>>
      BY <1>1 DEF rootVars
    <2> QED BY <1>1, <1>2, <2>1, <2>2, PruneShape
  <1>4. TypeOK'
    BY <1>1, <1>2, <1>3 DEF TypeOK, Steps, IoSteps, diskVars, rootVars, sbVars
  <1>5. ReservedOK(durable)' /\ ReservedOK(visible)' /\ SuperblockOK' /\ WalOK'
    BY <1>1, <1>3, CallStarts DEF diskVars, rootVars, sbVars
  <1> QED BY <1>3, <1>4, <1>5 DEF IInv

\* Loading a snapshot's table as the candidate preserves the invariant.
LEMMA RollbackStep == ASSUME IInv, Rollback PROVE IInv'
  <1> PICK k \in Slots : object_store_snapshot_rollback(k)
    BY DEF Rollback
  <1> DEFINE sn == snapshots[k]
             candidate == read_table_generation(visible, sn.table_sector, sn.table_count)
  <1>1. /\ pc = "ready" /\ ~recovery_required
        /\ sn.table_sector >= 3 /\ sn.table_count \in 1 .. TableCapacity
        /\ TableReadable(visible, sn.table_sector, sn.table_count)
        /\ Goto("wal", [NoOp EXCEPT !.call = "rollback", !.table_sector = sn.table_sector,
                                    !.candidate = candidate])
        /\ UNCHANGED <<diskVars, storeVars, budget>>
    BY DEF object_store_snapshot_rollback, Ready
  <1>2. TypeOK /\ StoreIn(next_sector)
    BY <1>1 DEF IInv, BoundsOK, Running
  <1>3. sn.table_sector \in Nat /\ sn.table_count \in Nat
    BY <1>2 DEF TypeOK, Snapshot
  <1>4. IsTable(candidate) /\ Count(candidate) = sn.table_count
    BY <1>1, <1>2, <1>3, ReadTable DEF TypeOK
  <1> HIDE DEF candidate
  <1>5. /\ pc' = "wal" /\ io' = "write"
        /\ op' = [NoOp EXCEPT !.call = "rollback", !.table_sector = sn.table_sector,
                              !.candidate = candidate]
    BY <1>1 DEF Goto
  <1>6. /\ IsOp(op') /\ op'.call = "rollback" /\ op'.table_sector = sn.table_sector
        /\ op'.candidate = candidate
    <2>1. <<>> \in Seq(Staged) /\ 0 \in 0 .. SectorCount
      BY SectorAssumption
    <2>2. op' \in [call : Calls, id : Ids \cup {0}, staged : Seq(Staged), index : Nat,
                   candidate : {candidate}, table_sector : Nat,
                   saved_next_sector : 0 .. SectorCount, saved : [Slots -> Snapshot],
                   saved_generation : Nat, keep : Nat]
      BY <1>3, <1>5, <2>1, NoSnapshotsType DEF NoOp, Calls
    <2>3. op'.call = "rollback" /\ op'.table_sector = sn.table_sector /\ op'.candidate = candidate
      BY <1>5 DEF NoOp
    <2> QED BY <1>4, <2>2, <2>3 DEF IsOp
  <1>7. TypeOK'
    BY <1>1, <1>2, <1>5, <1>6 DEF TypeOK, Steps, IoSteps, diskVars, storeVars, rootVars,
                                  spaceVars, sbVars
  <1>8. CallOK'
    BY <1>1, <1>5, <1>6 DEF IInv, CallOK, Commits, storeVars
  <1>9. BoundsOK'
    <2>1. UNCHANGED <<table, current_table_sector, snapshots, next_sector>>
      BY <1>1 DEF storeVars, rootVars, spaceVars
    <2>2. StoreIn(next_sector)'
      BY <1>2, <2>1, StoreInKept
    <2>3. (Count(op.candidate))' = sn.table_count
      BY <1>4, <1>6 DEF Count
    <2>4. sn.table_sector + sn.table_count <= next_sector
      BY <1>2 DEF StoreIn, SnapshotsIn
    <2>5. InBounds(op.table_sector, Count(op.candidate), next_sector)'
      BY <1>1, <1>3, <1>6, <2>1, <2>3, <2>4, LimitAssumption DEF InBounds
    <2> QED BY <1>5, <1>6, <2>2, <2>5 DEF BoundsOK, SnapshotCalls
  <1>10. ReservedOK(durable)' /\ ReservedOK(visible)' /\ SuperblockOK' /\ WalOK'
    BY <1>1, <1>5, <1>6, CallStarts DEF diskVars, storeVars, rootVars, sbVars
  <1> QED BY <1>7, <1>8, <1>9, <1>10 DEF IInv

\* collect and get leave the store at rest.
LEMMA StaysReady ==
    ASSUME IInv, Ready, bitmap' \subseteq Sectors, cache' \in Seq(CacheSlot),
           budget' \in [writes : Nat, reads : Nat, crashes : Nat],
           UNCHANGED <<diskVars, rootVars, next_sector, sbVars, recovery_required, snapshots,
                       ctlVars>>
    PROVE  IInv'
  <1>1. /\ pc = "ready" /\ pc' = "ready" /\ op = NoOp /\ op' = NoOp /\ ~recovery_required
        /\ op'.call = "none"
    BY DEF Ready, ctlVars, IInv, CallOK, NoOp
  <1>2. StoreIn(next_sector)'
    BY <1>1, StoreInKept DEF IInv, BoundsOK, Running, rootVars
  <1>3. IsOp(op)' /\ CallOK' /\ BoundsOK'
    BY <1>1, <1>2, AtRest
  <1>4. TypeOK'
    BY <1>3 DEF IInv, TypeOK, diskVars, rootVars, sbVars, ctlVars
  <1>5. ReservedOK(durable)' /\ ReservedOK(visible)' /\ SuperblockOK' /\ WalOK'
    BY <1>1, CallStarts DEF diskVars, rootVars, sbVars
  <1> QED BY <1>3, <1>4, <1>5 DEF IInv

\* object_store_collect() preserves the invariant.
LEMMA CollectStep == ASSUME IInv, object_store_collect PROVE IInv'
  <1>1. bitmap' \subseteq Sectors /\ budget' \in [writes : Nat, reads : Nat, crashes : Nat]
    BY RebuildStep DEF object_store_collect, IInv
  <1>2. cache' \in Seq(CacheSlot)
    BY DEF object_store_collect, IInv, TypeOK
  <1> QED BY <1>1, <1>2, StaysReady DEF object_store_collect

\* object_store_get() preserves the invariant, hit or miss.
LEMMA GetStep == ASSUME IInv, Get PROVE IInv'
  <1> PICK id \in Ids : object_store_get(id)
    BY DEF Get
  <1> DEFINE e == table[id]
             hit == cache_find(id, e.version)
  <1>1. /\ Ready /\ id \in DOMAIN table
        /\ UNCHANGED <<diskVars, rootVars, spaceVars, sbVars, recovery_required, snapshots,
                       ctlVars, budget>>
    BY DEF object_store_get
  <1>2. cache \in Seq(CacheSlot) /\ e \in TableEntry
    BY <1>1 DEF IInv, TypeOK, IsTable
  <1>3. cache' \in Seq(CacheSlot)
    <2>1. ASSUME NEW k \in hit, cache' = Append(cache_remove(cache, id), cache[k])
          PROVE  cache' \in Seq(CacheSlot)
      <3>1. cache[k] \in CacheSlot
        BY <1>2, ElementOfSeq, LenProperties DEF cache_find
      <3>2. cache_remove(cache, id) \in Seq(CacheSlot)
        BY <1>2, CacheRemoveType
      <3> QED BY <2>1, <3>1, <3>2, AppendProperties
    <2>2. CASE /\ ObjectReadable(visible, e)
               /\ cache' = cache_insert(cache, id, e.version, visible[e.first_sector].val,
                                        e.sector_count * OBJECT_STORE_SECTOR_SIZE)
      <3>1. visible[e.first_sector] \in Content /\ visible[e.first_sector].kind = "object"
        BY SMTT(30), <1>2, <2>2, SectorAssumption
           DEF ObjectReadable, IInv, TypeOK, Disk, Sectors, TableEntry
      <3>2. visible[e.first_sector].val \in Values
        BY <3>1, ContentKinds DEF ObjectSector
      <3>3. e.version \in Nat /\ e.sector_count * OBJECT_STORE_SECTOR_SIZE \in Nat
        BY <1>2 DEF TableEntry, OBJECT_STORE_SECTOR_SIZE
      <3> QED BY <1>2, <2>2, <3>2, <3>3, CacheInsertType
    <2> QED BY <2>1, <2>2 DEF object_store_get
  <1>4. bitmap' \subseteq Sectors /\ budget' \in [writes : Nat, reads : Nat, crashes : Nat]
    BY <1>1 DEF IInv, TypeOK, spaceVars
  <1> QED BY <1>1, <1>3, <1>4, StaysReady DEF spaceVars

(***************************************************************************)
(* Mount, format and power loss, up to their first write.                  *)
(***************************************************************************)
\* A store that is not mounted constrains the disk alone.
LEMMA NotRunning ==
    ASSUME pc' \in {"down", "failed"}, io' = "write", op' = NoOp, ResetStore,
           active_superblock_sector' = 0, bitmap' = {}, next_sector' = 0,
           durable' \in Disk, visible' \in Disk,
           budget' \in [writes : Nat, reads : Nat, crashes : Nat],
           ReservedOK(durable)', ReservedOK(visible)', ClearIsSafe'
    PROVE  IInv'
  <1>1. IsOp(op)' /\ CallOK' /\ BoundsOK'
    BY AtRest DEF ResetStore
  <1>2. op'.call = "none"
    BY DEF NoOp
  <1>3. TypeOK'
    <2>1. IsTable(table)' /\ snapshots' \in [Slots -> Snapshot]
      BY EmptyTableType, NoSnapshotsType DEF ResetStore
    <2>2. cache' \in Seq(CacheSlot) /\ recovery_required' \in BOOLEAN
      <3>1. cache' \in Seq(CacheSlot)
        BY DEF ResetStore
      <3>2. recovery_required' \in BOOLEAN
        BY DEF ResetStore
      <3> QED BY <3>1, <3>2
    <2>3. /\ bitmap' \subseteq Sectors /\ next_sector' \in 0 .. SectorCount
          /\ current_table_sector' \in Nat /\ current_generation' \in Nat
          /\ superblock_sequence' \in Nat /\ active_superblock_sector' \in Superblocks
      BY SectorAssumption DEF ResetStore, Superblocks
    <2> QED BY <1>1, <2>1, <2>2, <2>3 DEF TypeOK, Steps
  <1>4. SuperblockOK' /\ WalOK'
    BY <1>2 DEF SuperblockOK, WalOK, Published, Running
  <1> QED BY <1>1, <1>3, <1>4 DEF IInv

\* A mount that returns 0 before it writes preserves the invariant.
LEMMA MountFailsStep == ASSUME IInv, MountFails PROVE IInv'
  <1>1. (~Running \/ recovery_required) /\ UNCHANGED diskVars /\ FailToMount
    BY DEF MountFails, Mountable, NotMounted, Running
  <1>2. ClearIsSafe'
    BY <1>1 DEF IInv, WalOK, ClearIsSafe, durableWal, visibleWal, HasSuperblock, chosen, diskVars
  <1>3. /\ durable' \in Disk /\ visible' \in Disk /\ ReservedOK(durable)' /\ ReservedOK(visible)'
    BY <1>1 DEF IInv, TypeOK, ReservedOK, diskVars
  <1>4. budget' \in [writes : Nat, reads : Nat, crashes : Nat]
    BY DEF MountFails, IInv, TypeOK
  <1> QED BY <1>1, <1>2, <1>3, <1>4, NotRunning DEF FailToMount, Goto

\* After a power loss everything the disk holds is durable.
LEMMA CrashStep == ASSUME IInv, Crash PROVE IInv'
  <1> PICK kept \in SUBSET Unflushed : durable' = CrashImage(kept)
    BY DEF Crash
  <1>1. durable \in Disk /\ visible \in Disk
    BY DEF IInv, TypeOK
  <1>2. durable' \in Disk /\ visible' = durable'
    BY <1>1 DEF CrashImage, Disk, Crash
  <1>3. \A s \in Sectors : durable'[s] \in {durable[s], visible[s]}
    BY DEF CrashImage
  <1>4. ReservedOK(durable)'
    <2>1. \A s \in {0, 1, 2} : durable'[s] \in {durable[s], visible[s]}
      BY <1>3, ReservedSectors
    <2>2. ReservedOK(durable) /\ ReservedOK(visible)
      BY DEF IInv
    <2> QED BY <2>1, <2>2 DEF ReservedOK, Superblocks
  <1>5. ReservedOK(visible)' /\ ClearIsSafe'
    BY <1>2, <1>4 DEF ReservedOK, ClearIsSafe, durableWal, visibleWal
  <1>6. budget' \in [writes : Nat, reads : Nat, crashes : Nat]
    BY SMTT(30) DEF Crash, IInv, TypeOK
  <1> QED BY <1>2, <1>4, <1>5, <1>6, NotRunning DEF Crash, Goto

\* The superblock that mount chooses is active afterwards.
LEMMA MountCleanStep == ASSUME IInv, MountClean PROVE IInv'
  <1> DEFINE sb == visible[chosen(visible)]
  <1>1. /\ (~Running \/ recovery_required) /\ UNCHANGED <<diskVars, budget>>
        /\ MountLoads(visible) /\ visibleWal = Zero /\ LoadStore(sb)
        /\ bitmap' = rebuild_bitmap(sb, sb.snapshots, SnapshotLimit + 1)
        /\ pc' = "ready" /\ io' = "write" /\ op' = NoOp
    BY DEF MountClean, Mountable, NotMounted, Running, Return, Goto, visibleWal
  <1>2. sb = RootOf(visible)
    BY <1>1 DEF RootOf, visibleWal
  <1>3. /\ IsTable(table') /\ (Count(table))' = sb.table_count
        /\ current_table_sector' = sb.table_sector
        /\ current_table_sector' \in Nat /\ current_generation' \in Nat
        /\ superblock_sequence' = sb.sequence /\ superblock_sequence' \in Nat
        /\ active_superblock_sector' = chosen(visible)
        /\ active_superblock_sector' \in Superblocks
        /\ next_sector' \in 0 .. SectorCount
        /\ snapshots' \in [Slots -> Snapshot]
        /\ recovery_required' = FALSE /\ cache' = <<>>
        /\ StoreIn(next_sector)'
    BY <1>1, <1>2, LoadFacts DEF IInv
  <1>4. superblock_is_valid(sb) /\ HasSuperblock(visible)
    BY <1>1, ChosenFacts DEF MountLoads
  <1>5. IsOp(op)' /\ CallOK' /\ BoundsOK' /\ op'.call = "none"
    BY <1>1, <1>3, AtRest DEF NoOp
  <1>6. TypeOK'
    <2>1. bitmap' \subseteq Sectors
      BY <1>1, RebuildType
    <2>2. cache' \in Seq(CacheSlot) /\ recovery_required' \in BOOLEAN
      <3>1. cache' \in Seq(CacheSlot)
        BY <1>3
      <3>2. recovery_required' \in BOOLEAN
        BY <1>3
      <3> QED BY <3>1, <3>2
    <2> QED BY <1>1, <1>3, <1>5, <2>1, <2>2 DEF IInv, TypeOK, Steps, diskVars
  <1>7. ReservedOK(durable)' /\ ReservedOK(visible)'
    BY <1>1 DEF IInv, ReservedOK, diskVars
  <1>8. SuperblockOK'
    <2>1. visible' = visible /\ chosen(visible)' = chosen(visible)
      BY <1>1 DEF diskVars, chosen
    <2>2. RootIs(visible[chosen(visible)])'
      BY <1>3, <2>1 DEF RootIs
    <2>3. sb.kind = "superblock"
      BY <1>4 DEF superblock_is_valid
    <2> QED BY <1>1, <1>3, <1>5, <2>1, <2>2, <2>3 DEF SuperblockOK, Published, Running
  <1>9. WalOK'
    <2>1. WalAgrees(durableWal)'
      <3>1. ClearIsSafe /\ ReservedOK(durable)
        BY <1>1 DEF IInv, WalOK
      <3>2. \/ durableWal = Zero
            \/ durableWal.kind = "wal" /\ durableWal.table_sector = sb.table_sector
               /\ durableWal.table_count = sb.table_count
        BY <1>1, <3>1 DEF ClearIsSafe, ReservedOK, durableWal
      <3> QED BY <1>1, <1>3, <3>2 DEF WalAgrees, durableWal, diskVars
    <2>2. WalAgrees(visibleWal)'
      BY <1>1 DEF WalAgrees, visibleWal, diskVars
    <2> QED BY <1>1, <1>3, <1>5, <2>1, <2>2 DEF WalOK, Running
  <1> QED BY <1>5, <1>6, <1>7, <1>8, <1>9 DEF IInv

\* A mount that finds a WAL record has that record's root in memory.
LEMMA MountReplayStep == ASSUME IInv, MountReplay PROVE IInv'
  <1> DEFINE sb == visible[chosen(visible)]
  <1>1. /\ UNCHANGED <<diskVars, budget>>
        /\ MountLoads(visible) /\ visibleWal # Zero /\ LoadStore(visibleWal) /\ bitmap' = {}
        /\ pc' = "root" /\ io' = "write" /\ op' = [NoOp EXCEPT !.call = "mount"]
    BY DEF MountReplay, Goto, visibleWal
  <1>2. visibleWal = RootOf(visible)
    BY <1>1 DEF RootOf, visibleWal
  <1>3. /\ IsTable(table') /\ (Count(table))' = visibleWal.table_count
        /\ current_table_sector' = visibleWal.table_sector
        /\ current_table_sector' \in Nat /\ current_generation' \in Nat
        /\ superblock_sequence' = sb.sequence /\ superblock_sequence' \in Nat
        /\ active_superblock_sector' = chosen(visible)
        /\ active_superblock_sector' \in Superblocks
        /\ next_sector' \in 0 .. SectorCount
        /\ snapshots' \in [Slots -> Snapshot]
        /\ recovery_required' = FALSE /\ cache' = <<>>
        /\ StoreIn(next_sector)'
    BY <1>1, <1>2, LoadFacts DEF IInv
  <1>4. superblock_is_valid(sb)
    BY <1>1, ChosenFacts DEF MountLoads
  <1>5. IsOp(op') /\ op'.call = "mount"
    <2>1. <<>> \in Seq(Staged) /\ 0 \in 0 .. SectorCount
      BY SectorAssumption
    <2>2. op' \in [call : Calls, id : Ids \cup {0}, staged : Seq(Staged), index : Nat,
                   candidate : {EmptyTable}, table_sector : Nat,
                   saved_next_sector : 0 .. SectorCount, saved : [Slots -> Snapshot],
                   saved_generation : Nat, keep : Nat]
      BY <1>1, <2>1, NoSnapshotsType DEF NoOp, Calls
    <2>3. op'.call = "mount" /\ op'.candidate = EmptyTable
      BY <1>1 DEF NoOp
    <2> QED BY <2>2, <2>3, EmptyTableType DEF IsOp
  <1>6. TypeOK'
    <2>1. cache' \in Seq(CacheSlot) /\ recovery_required' \in BOOLEAN
      <3>1. cache' \in Seq(CacheSlot)
        BY <1>3
      <3>2. recovery_required' \in BOOLEAN
        BY <1>3
      <3> QED BY <3>1, <3>2
    <2> QED BY <1>1, <1>3, <1>5, <2>1 DEF IInv, TypeOK, Steps, IoSteps, diskVars
  <1>7. ReservedOK(durable)' /\ ReservedOK(visible)'
    BY <1>1 DEF IInv, ReservedOK, diskVars
  <1>8. CallOK' /\ BoundsOK'
    BY <1>1, <1>3, <1>5 DEF CallOK, BoundsOK, SnapshotCalls, Commits
  <1>9. SuperblockOK'
    <2>1. sb.kind = "superblock" /\ visible' = visible
      BY <1>1, <1>4 DEF superblock_is_valid, diskVars
    <2> QED BY <1>1, <1>3, <1>5, <2>1 DEF SuperblockOK, Published, Running
  <1>10. WalOK'
    <2>1. visibleWal.kind = "wal"
      BY <1>1 DEF IInv, ReservedOK, visibleWal
    <2>2. WalAgrees(visibleWal)' /\ visibleWal' # Zero
      BY <1>1, <1>3, <2>1 DEF WalAgrees, visibleWal, diskVars
    <2> QED BY <1>1, <1>3, <1>5, <2>2 DEF WalOK, Running
  <1> QED BY <1>6, <1>7, <1>8, <1>9, <1>10 DEF IInv

\* A format starts on a disk whose WAL sector is blank, durably too: had a clear
\* been pending, one of the superblocks would be valid.
LEMMA FormatStep == ASSUME IInv, Format PROVE IInv'
  <1>1. /\ \A s \in Reserved : visible[s] = Zero
        /\ ~Running /\ ResetStore /\ active_superblock_sector' = 0 /\ bitmap' = Reserved
        /\ next_sector' = 3 /\ UNCHANGED <<diskVars, budget>>
        /\ pc' = "publish" /\ io' = "write" /\ op' = [NoOp EXCEPT !.call = "format"]
    BY DEF Format, object_store_format, NotMounted, Running, Goto
  <1>2. visible[0] = Zero /\ visible[1] = Zero /\ visibleWal = Zero
    BY <1>1 DEF Reserved, visibleWal
  <1>3. durableWal = Zero
    <2>1. ~HasSuperblock(visible)
      BY <1>2 DEF HasSuperblock, superblock_is_valid, Superblocks, Zero
    <2> QED BY <1>1, <1>2, <2>1 DEF IInv, WalOK, ClearIsSafe
  <1>4. IsOp(op') /\ op'.call = "format" /\ op'.index = 0
    <2>1. <<>> \in Seq(Staged) /\ 0 \in 0 .. SectorCount
      BY SectorAssumption
    <2>2. op' \in [call : Calls, id : Ids \cup {0}, staged : Seq(Staged), index : Nat,
                   candidate : {EmptyTable}, table_sector : Nat,
                   saved_next_sector : 0 .. SectorCount, saved : [Slots -> Snapshot],
                   saved_generation : Nat, keep : Nat]
      BY <1>1, <2>1, NoSnapshotsType DEF NoOp, Calls
    <2>3. op'.call = "format" /\ op'.candidate = EmptyTable /\ op'.index = 0
      BY <1>1 DEF NoOp
    <2> QED BY <2>2, <2>3, EmptyTableType DEF IsOp
  <1>5. TypeOK'
    <2>1. IsTable(table)' /\ snapshots' \in [Slots -> Snapshot]
      BY <1>1, EmptyTableType, NoSnapshotsType DEF ResetStore
    <2>2. cache' \in Seq(CacheSlot) /\ recovery_required' \in BOOLEAN
      <3>1. cache' \in Seq(CacheSlot)
        BY <1>1 DEF ResetStore
      <3>2. recovery_required' \in BOOLEAN
        BY <1>1 DEF ResetStore
      <3> QED BY <3>1, <3>2
    <2>3. /\ bitmap' \subseteq Sectors /\ next_sector' \in 0 .. SectorCount
          /\ current_table_sector' \in Nat /\ current_generation' \in Nat
          /\ superblock_sequence' \in Nat /\ active_superblock_sector' \in Superblocks
      BY <1>1, SectorAssumption DEF ResetStore, Superblocks, Reserved, Sectors
    <2> QED BY <1>1, <1>4, <2>1, <2>2, <2>3 DEF IInv, TypeOK, Steps, IoSteps, diskVars
  <1>6. ReservedOK(durable)' /\ ReservedOK(visible)'
    BY <1>1 DEF IInv, ReservedOK, diskVars
  <1>7. CallOK'
    BY <1>1, <1>4 DEF CallOK, ResetStore
  <1>8. BoundsOK'
    <2>1. (Count(table))' = 0 /\ current_table_sector' = 0
      BY <1>1, EmptyTableType DEF ResetStore, Count
    <2>2. SnapshotsIn(snapshots, next_sector)'
      BY <1>1 DEF ResetStore, SnapshotsIn, NoSnapshot
    <2>3. StoreIn(next_sector)'
      BY <1>1, <2>1, <2>2, SectorAssumption, LimitAssumption DEF StoreIn, InBounds
    <2> QED BY <1>4, <2>3 DEF BoundsOK, SnapshotCalls, Commits
  <1>9. SuperblockOK'
    BY <1>1, <1>2, <1>4 DEF SuperblockOK, Published, Running, diskVars
  <1>10. WalOK'
    BY <1>1, <1>2, <1>3, <1>4
       DEF WalOK, WalAgrees, Running, durableWal, visibleWal, diskVars, ResetStore
  <1> QED BY <1>5, <1>6, <1>7, <1>8, <1>9, <1>10 DEF IInv
=============================================================================
