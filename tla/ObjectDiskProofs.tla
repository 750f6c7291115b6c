--------------------------- MODULE ObjectDiskProofs ---------------------------
(***************************************************************************)
(* Facts about the on-disk format that the proofs about the store rest on:  *)
(* least and greatest elements, the order in which a table generation's     *)
(* entries lie on the disk, and what reading one back gives.                *)
(***************************************************************************)
EXTENDS ObjectDisk, TLAPS, FiniteSetTheorems, WellFoundedInduction

\* A nonempty set of naturals has a least element.
LEMMA LeastNat ==
    ASSUME NEW S \in SUBSET Nat, S # {}
    PROVE  \E n \in S : \A m \in S : n <= m
  <1>1. \E n \in S : \A m \in S : ~(<<m, n>> \in OpToRel(<, Nat))
    BY WFMin, NatLessThanWellFounded
  <1>2. PICK n \in S : \A m \in S : ~(<<m, n>> \in OpToRel(<, Nat))
    BY <1>1
  <1>3. \A m \in S : ~(m < n)
    BY <1>2 DEF OpToRel
  <1> QED BY <1>3

\* Min, with which bitmap_allocate takes the first free run.
LEMMA MinProperties ==
    ASSUME NEW S \in SUBSET Nat, S # {}
    PROVE  Min(S) \in S /\ \A m \in S : Min(S) <= m
  BY LeastNat DEF Min

\* Max of two, with which bitmap_allocate raises next_sector.
LEMMA MaxOfTwo ==
    ASSUME NEW a \in Nat, NEW b \in Nat
    PROVE  Max({a, b}) \in {a, b} /\ Max({a, b}) >= a /\ Max({a, b}) >= b
  <1>1. \E x \in {a, b} : \A y \in {a, b} : x >= y
    BY SMT
  <1> QED BY <1>1 DEF Max

\* A nonempty finite set of naturals has a greatest element.
LEMMA GreatestNat ==
    ASSUME NEW S \in SUBSET Nat, IsFiniteSet(S), S # {}
    PROVE  \E n \in S : \A m \in S : m <= n
  <1> DEFINE above(i) == {j \in S : j > i}
             size == [i \in S |-> Cardinality(above(i))]
             sizes == {size[i] : i \in S}
  <1>1. \A i \in S : IsFiniteSet(above(i)) /\ Cardinality(above(i)) \in Nat
    BY FS_Subset, FS_CardinalityType
  <1>2. sizes \in SUBSET Nat /\ sizes # {}
    BY <1>1
  <1>3. \E z \in sizes : \A y \in sizes : z <= y
    <2> HIDE DEF sizes
    <2> QED BY <1>2, LeastNat
  <1>4. PICK n \in S : \A i \in S : size[n] <= size[i]
    BY <1>3
  <1>5. ASSUME NEW m \in S, m > n PROVE FALSE
    <2>0. \A i \in S : i \in Nat
      OBVIOUS
    <2>1. above(m) \subseteq above(n) /\ m \in above(n) /\ m \notin above(m)
      <3>1. \A j \in S : j > m => j > n
        BY <1>5, <2>0
      <3>2. ~(m > m)
        BY <2>0
      <3> QED BY <3>1, <3>2, <1>5
    <2>2. /\ Cardinality(above(m)) <= Cardinality(above(n))
          /\ Cardinality(above(n)) = Cardinality(above(m)) => above(n) = above(m)
      <3> HIDE DEF above
      <3> QED BY <2>1, <1>1, FS_Subset
    <2>3. Cardinality(above(n)) # Cardinality(above(m))
      <3> HIDE DEF above
      <3> QED BY <2>1, <2>2
    <2> QED BY <2>2, <2>3, <1>1, <1>4
  <1> QED BY <1>5

\* In a finite set of numbers every position is taken: write_table_generation
\* has an entry for each of its sectors.
LEMMA RankExists ==
    ASSUME NEW S \in SUBSET Nat, IsFiniteSet(S), NEW r \in Nat, r < Cardinality(S)
    PROVE  \E i \in S : Cardinality({j \in S : j < i}) = r
  <1> DEFINE below(i) == {j \in S : j < i}
  <1>0. \A i \in S : i \in Nat
    OBVIOUS
  <1>1. \A i \in S : IsFiniteSet(below(i)) /\ Cardinality(below(i)) \in Nat
    BY FS_Subset, FS_CardinalityType
  <1>2. SUFFICES ASSUME \A i \in S : Cardinality(below(i)) # r PROVE FALSE
    OBVIOUS
  <1> DEFINE A == {i \in S : Cardinality(below(i)) < r}
             B == {i \in S : Cardinality(below(i)) > r}
  <1>3. \A i \in S : i \in A \/ i \in B
    BY <1>1, <1>2
  <1>4. IsFiniteSet(A) /\ IsFiniteSet(B)
    BY FS_Subset
  <1>5. \A a \in A : below(a) \subseteq A
    <2>1. SUFFICES ASSUME NEW a \in A, NEW j \in below(a) PROVE j \in A
      OBVIOUS
    <2>2. below(j) \subseteq below(a)
      <3>1. \A i \in S : i < j => i < a
        BY <1>0
      <3> QED BY <3>1
    <2>3. Cardinality(below(j)) <= Cardinality(below(a))
      BY <2>2, <1>1, FS_Subset
    <2> QED BY <2>3, <1>1
  <1>6. Cardinality(A) <= r /\ Cardinality(A) \in Nat
    <2>1. CASE A = {}
      <3>1. Cardinality(A) = 0
        BY <2>1, FS_EmptySet
      <3> QED BY <3>1
    <2>2. CASE A # {}
      <3>1. PICK a \in A : \A m \in A : m <= a
        BY <2>2, <1>4, GreatestNat
      <3>2. \A m \in A : m = a \/ m < a
        BY <3>1, <1>0
      <3>3. A = below(a) \cup {a}
        BY <3>2, <1>5
      <3>4. a \notin below(a)
        BY <1>0
      <3>5. Cardinality(A) = Cardinality(below(a)) + 1
        BY <3>3, <3>4, <1>1, FS_AddElement
      <3> HIDE DEF below
      <3>6. Cardinality(below(a)) < r
        OBVIOUS
      <3> QED BY <3>5, <3>6, <1>1
    <2> QED BY <2>1, <2>2
  <1>7. B # {}
    <2>1. SUFFICES ASSUME B = {} PROVE FALSE
      OBVIOUS
    <2>2. S = A
      BY <2>1, <1>3
    <2> HIDE DEF A
    <2> QED BY <2>2, <1>6
  <1>8. PICK b \in B : \A m \in B : b <= m
    BY <1>7, LeastNat
  <1>9. below(b) \subseteq A
    <2>1. \A i \in S : i < b => i \notin B
      BY <1>8, <1>0
    <2> QED BY <2>1, <1>3
  <1>10. Cardinality(below(b)) <= Cardinality(A)
    BY <1>9, <1>4, FS_Subset
  <1> QED BY <1>10, <1>6, <1>1

\* What kind of content a sector holds decides its fields.
LEMMA ContentKinds ==
    ASSUME NEW c \in Content
    PROVE  /\ c.kind \in {"zero", "superblock", "wal", "entry", "object"}
           /\ c.kind = "superblock" => c \in Superblock
           /\ c.kind = "wal" => c \in WalRecord
           /\ c.kind = "entry" => c \in TableEntry
           /\ c.kind = "object" => c \in ObjectSector
           /\ c.kind = "zero" => c = Zero
  BY DEF Content, Zero, Superblock, WalRecord, TableEntry, ObjectSector

\* A table that read_table_generation() accepts lies on the disk, every sector an entry.
LEMMA ReadableRun ==
    ASSUME NEW disk \in Disk, NEW first \in Nat, NEW count \in Nat,
           TableReadable(disk, first, count)
    PROVE  /\ Run(first, count) \subseteq Sectors
           /\ \A s \in Run(first, count) : disk[s] \in TableEntry
  <1>1. Run(first, count) \subseteq Sectors
    BY SectorAssumption DEF Run, Sectors, TableReadable
  <1>2. ASSUME NEW s \in Run(first, count) PROVE disk[s] \in TableEntry
    <2>1. disk[s] \in Content
      BY <1>1 DEF Disk
    <2>2. disk[s].kind = "entry"
      BY DEF TableReadable
    <2> QED BY <2>1, <2>2, ContentKinds
  <1> QED BY <1>1, <1>2

\* read_table_generation() compares neighbours only; by transitivity all the
\* ids of a readable generation ascend.
LEMMA ReadableAscends ==
    ASSUME NEW disk \in Disk, NEW first \in Nat, NEW count \in Nat,
           TableReadable(disk, first, count),
           NEW a \in Run(first, count), NEW b \in Run(first, count), a < b
    PROVE  disk[a].id < disk[b].id
  <1>1. \A s \in Run(first, count) : s \in Nat /\ disk[s].id \in Nat
    <2>1. \A s \in Run(first, count) : s \in Nat
      BY DEF Run
    <2>2. \A s \in Run(first, count) : disk[s].id \in Ids
      BY ReadableRun DEF TableEntry
    <2> QED BY <2>1, <2>2, IdsAssumption
  <1> DEFINE T == {s \in Run(first, count) : a < s /\ ~(disk[a].id < disk[s].id)}
  <1>2. SUFFICES ASSUME T # {} PROVE FALSE
    OBVIOUS
  <1>3. T \in SUBSET Nat
    BY <1>1
  <1>4. PICK c \in T : \A m \in T : c <= m
    BY <1>2, <1>3, LeastNat
  <1>5. c - 1 \in Run(first, count) /\ c # first /\ a <= c - 1
    BY <1>1 DEF Run
  <1>6. disk[c - 1].id < disk[c].id
    BY <1>5 DEF TableReadable
  <1>7. CASE c - 1 = a
    BY <1>7, <1>6
  <1>8. CASE c - 1 # a
    <2>1. c - 1 \notin T
      BY <1>4, <1>1
    <2>2. disk[a].id < disk[c - 1].id
      BY <2>1, <1>5, <1>8, <1>1
    <2> QED BY <2>2, <1>6, <1>1, <1>5
  <1> QED BY <1>7, <1>8

\* Reading a readable generation back gives a table of exactly its count.
LEMMA ReadTable ==
    ASSUME NEW disk \in Disk, NEW first \in Nat, NEW count \in Nat,
           TableReadable(disk, first, count)
    PROVE  /\ IsTable(read_table_generation(disk, first, count))
           /\ Count(read_table_generation(disk, first, count)) = count
  <1> DEFINE R == Run(first, count)
             records == {disk[s] : s \in R}
             ids == {r.id : r \in records}
             tbl == read_table_generation(disk, first, count)
             f == [s \in R |-> disk[s].id]
  <1>1. \A s \in R : disk[s] \in TableEntry /\ s \in Nat
    BY ReadableRun DEF Run
  <1>2. tbl = [i \in ids |-> CHOOSE r \in records : r.id = i]
    BY DEF read_table_generation
  <1>3. \A r \in records : r \in TableEntry
    BY <1>1
  <1>4. IsTable(tbl)
    <2>1. ids \subseteq Ids
      BY <1>3 DEF TableEntry
    <2>2. \A i \in ids : tbl[i] \in records
      BY <1>2
    <2> QED BY <1>2, <1>3, <2>1, <2>2 DEF IsTable
  <1>5. f \in Bijection(R, ids)
    <2>1. f \in [R -> ids]
      OBVIOUS
    <2>2. ASSUME NEW a \in R, NEW b \in R, f[a] = f[b] PROVE a = b
      <3>1. disk[a].id \in Nat /\ disk[b].id \in Nat
        BY <1>1, IdsAssumption DEF TableEntry
      <3>2. ~(a < b) /\ ~(b < a)
        BY <3>1, <2>2, ReadableAscends
      <3> QED BY <3>2, <1>1
    <2>3. \A i \in ids : \E s \in R : f[s] = i
      OBVIOUS
    <2> QED BY <2>1, <2>2, <2>3 DEF Bijection, Injection, Surjection, IsInjective
  <1>6. IsFiniteSet(R) /\ Cardinality(R) = count
    <2>1. IsFiniteSet(first .. first + count - 1) /\
          Cardinality(first .. first + count - 1) =
            IF first > first + count - 1 THEN 0 ELSE first + count - 1 - first + 1
      BY FS_Interval
    <2> QED BY <2>1 DEF Run
  <1>7. Cardinality(ids) = count
    BY <1>5, <1>6, FS_Bijection DEF ExistsBijection
  <1> QED BY <1>2, <1>4, <1>7 DEF Count

\* The number of entries of a table.
LEMMA CountType ==
    ASSUME NEW tbl, IsTable(tbl)
    PROVE  Count(tbl) \in Nat /\ IsFiniteSet(DOMAIN tbl)
  BY IdsAssumption, FS_Subset, FS_CardinalityType DEF IsTable, Count
=============================================================================
