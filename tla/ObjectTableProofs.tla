-------------------------- MODULE ObjectTableProofs --------------------------
(***************************************************************************)
(* The object table is sorted and implements the map, whatever its         *)
(* capacity and the ids.  The invariant is the one of every bisection:     *)
(* what lies before the lower bound precedes the id that is looked for,    *)
(* and what lies from the upper bound on does not, nor has it that id when *)
(* object_table_find has gone past it.                                     *)
(***************************************************************************)
EXTENDS ObjectTable, FiniteSetTheorems, TLAPS

\* The call in progress and the bounds of its search.
Bisecting ==
    /\ call \in [op : {"find", "upsert", "remove"}, entry : Entry]
    /\ call.op \in {"find", "upsert", "remove"} /\ call.entry \in Entry /\ call.entry.id \in Ids
    /\ call.op = "upsert" => call.entry.version # 0
    /\ left <= right
    /\ \A i \in Slots : i < left => Precedes(entries[i].id, call.entry.id)
    /\ \A i \in Slots : right <= i /\ i < count => ~Precedes(entries[i].id, call.entry.id)
    /\ call.op = "find" => \A i \in Slots : right <= i /\ i < count => entries[i].id # call.entry.id

IInv ==
    /\ entries \in [Slots -> Entry \cup {EmptyEntry}]
    /\ count \in 0..Capacity /\ left \in 0..count /\ right \in 0..count
    /\ \A i \in Slots : i < count => entries[i] \in Entries
    /\ StrictlySorted
    /\ call # Idle => Bisecting

\* Ids are in a strict total order (object_id_compare).
LEMMA PrecedesOrder ==
    /\ \A a \in ObjectIds : ~Precedes(a, a)
    /\ \A a, b, c \in ObjectIds : Precedes(a, b) /\ Precedes(b, c) => Precedes(a, c)
    /\ \A a, b \in ObjectIds : a # b => Precedes(a, b) \/ Precedes(b, a)
<1>1. \A a \in ObjectIds : a.high \in Nat /\ a.low \in Nat
  BY TableAssumption DEF ObjectIds
<1>2. \A a, b \in ObjectIds : a.high = b.high /\ a.low = b.low => a = b
  BY DEF ObjectIds
<1>3. \A a \in ObjectIds : ~Precedes(a, a)
  BY <1>1 DEF Precedes
<1>4. \A a, b, c \in ObjectIds : Precedes(a, b) /\ Precedes(b, c) => Precedes(a, c)
  BY <1>1 DEF Precedes
<1>5. \A a, b \in ObjectIds : a # b => Precedes(a, b) \/ Precedes(b, a)
  BY <1>1, <1>2 DEF Precedes
<1> QED
  BY <1>3, <1>4, <1>5

\* Both facts of the bounds about the middle of the search (Middle).
LEMMA MiddleInside ==
    ASSUME NEW l \in Nat, NEW r \in Nat, l < r
    PROVE  l + ((r - l) \div 2) \in Nat /\ l <= l + ((r - l) \div 2) /\ l + ((r - l) \div 2) < r
OBVIOUS

\* The empty table satisfies the invariant (object_table_init).
LEMMA InitIInv == TableInit => IInv
BY TableAssumption DEF TableInit, IInv, StrictlySorted, Slots

\* A call that starts searches the whole array.
LEMMA CallIInv ==
    ASSUME IInv, NEW op \in {"find", "upsert", "remove"}, NEW e \in Entry, Call(op, e)
    PROVE  IInv'
<1>1. CASE e.id \in Ids /\ (op = "upsert" => e.version # 0)
  <2>1. /\ call' = [op |-> op, entry |-> e] /\ left' = 0 /\ right' = count
        /\ entries' = entries /\ count' = count
    BY <1>1 DEF Call
  <2>2. call'.op = op /\ call'.entry = e
    BY <2>1
  <2>3. Bisecting'
    BY <1>1, <2>1, <2>2, TableAssumption DEF Bisecting, IInv, Slots
  <2> QED
    BY <2>1, <2>3, TableAssumption DEF IInv, StrictlySorted, Slots
<1>2. CASE ~(e.id \in Ids /\ (op = "upsert" => e.version # 0))
  <2>1. UNCHANGED <<entries, count, call, left, right>>
    BY <1>2 DEF Call
  <2> QED
    BY <2>1 DEF IInv, StrictlySorted, Bisecting
<1> QED
  BY <1>1, <1>2

\* A call that returns leaves an idle, sorted table if it leaves the entries.
LEMMA ReturnIInv ==
    ASSUME IInv, NEW a, Return(a), UNCHANGED <<entries, count>>
    PROVE  IInv'
BY TableAssumption DEF IInv, Return, StrictlySorted

\* A turn of the loop keeps what is known of both sides (Bisect).
LEMMA BisectIInv ==
    ASSUME IInv, Bisect
    PROVE  IInv'
<1> USE TableAssumption
<1> DEFINE at == entries[Middle]
<1>1. call # Idle /\ left < right /\ Bisecting /\ entries' = entries /\ count' = count
  BY DEF Bisect, IInv
<1>2. Middle \in Slots /\ left <= Middle /\ Middle < right /\ Middle < count
  BY <1>1, MiddleInside DEF IInv, Middle, Slots
<1>3. /\ at.id \in ObjectIds /\ call.entry.id \in ObjectIds
      /\ \A i \in Slots : i < count => entries[i].id \in ObjectIds
  BY <1>1, <1>2 DEF IInv, Bisecting, Entries, Entry, Ids
<1>4. CASE Precedes(at.id, call.entry.id)
  <2>1. left' = Middle + 1 /\ right' = right /\ call' = call
    BY <1>4 DEF Bisect, Above
  <2>2. \A i \in Slots : i < Middle => Precedes(entries[i].id, at.id)
    BY <1>2 DEF IInv, StrictlySorted, Slots
  <2>3. \A i \in Slots : i < left' => Precedes(entries[i].id, call.entry.id)
    <3> SUFFICES ASSUME NEW i \in Slots, i < left' PROVE Precedes(entries[i].id, call.entry.id)
      OBVIOUS
    <3>1. CASE i = Middle
      BY <3>1, <1>4
    <3>2. CASE i < Middle
      BY <3>2, <2>2, <1>2, <1>3, <1>4, PrecedesOrder DEF IInv, Slots
    <3> QED
      BY <2>1, <3>1, <3>2, <1>2 DEF Slots, IInv
  <2>4. left' \in 0..count /\ left' <= right'
    BY <1>2, <2>1 DEF IInv, Slots
  <2>5. Bisecting'
    BY <1>1, <2>1, <2>3, <2>4 DEF Bisecting
  <2> QED
    BY <1>1, <2>1, <2>4, <2>5 DEF IInv, StrictlySorted
<1>5. CASE ~Precedes(at.id, call.entry.id) /\ call.op = "find" /\ ~Precedes(call.entry.id, at.id)
  BY <1>5, ReturnIInv DEF Bisect
<1>6. CASE ~Precedes(at.id, call.entry.id) /\ ~(call.op = "find" /\ ~Precedes(call.entry.id, at.id))
  <2>1. right' = Middle /\ left' = left /\ call' = call
    BY <1>6 DEF Bisect, Below
  <2>2. \A i \in Slots : Middle < i /\ i < count => Precedes(at.id, entries[i].id)
    BY <1>2 DEF IInv, StrictlySorted, Slots
  <2>3. \A i \in Slots : right' <= i /\ i < count => ~Precedes(entries[i].id, call.entry.id)
    <3> SUFFICES ASSUME NEW i \in Slots, Middle <= i, i < count
                 PROVE  ~Precedes(entries[i].id, call.entry.id)
      BY <2>1
    <3>1. CASE i = Middle
      BY <3>1, <1>6
    <3>2. CASE Middle < i
      BY <3>2, <2>2, <1>3, <1>6, PrecedesOrder
    <3> QED
      BY <3>1, <3>2, <1>2 DEF Slots
  <2>4. right' \in 0..count /\ left' <= right'
    BY <1>2, <2>1 DEF IInv, Slots
  <2>6. ASSUME call.op = "find", NEW i \in Slots, right' <= i, i < count
        PROVE  entries[i].id # call.entry.id
    <3>1. Precedes(call.entry.id, at.id)
      BY <1>6, <2>6
    <3>2. CASE i = Middle
      BY <3>1, <3>2, <1>3, PrecedesOrder, Zenon
    <3>3. CASE Middle < i
      BY <3>1, <3>3, <2>2, <2>6, <1>3, PrecedesOrder, Zenon
    <3> QED
      BY <2>1, <2>6, <3>2, <3>3, <1>2 DEF Slots
  <2>5. Bisecting'
    BY <1>1, <2>1, <2>3, <2>4, <2>6 DEF Bisecting
  <2> QED
    BY <1>1, <2>1, <2>4, <2>5 DEF IInv, StrictlySorted
<1> QED
  BY <1>4, <1>5, <1>6

\* An entry put in at the end of the search, or in place of the one found
\* there, leaves the array sorted (object_table_upsert).
LEMMA UpsertIInv ==
    ASSUME IInv, object_table_upsert
    PROVE  IInv'
<1> USE TableAssumption
<1> DEFINE e == call.entry
<1>1. call # Idle /\ Bisecting /\ left = right /\ call.op = "upsert"
  BY DEF object_table_upsert, Searched, IInv, Bisecting
<1>2. e \in Entries /\ e \in Entry /\ e.id \in ObjectIds
  BY <1>1 DEF Bisecting, Entries, Entry, Ids
<1>3. \A i \in Slots : i < count => entries[i].id \in ObjectIds
  BY DEF IInv, Entries, Entry
<1>4. CASE At(e.id) /\ Newer(e)
  <2>1. /\ entries' = [entries EXCEPT ![left] = e] /\ count' = count
        /\ call' = Idle /\ left' = 0 /\ right' = 0
    BY <1>4 DEF object_table_upsert, Return
  <2>2. left \in Slots /\ left < count /\ entries[left].id = e.id
    BY <1>4 DEF At, IInv, Slots
  <2>3. \A i \in Slots : entries'[i].id = entries[i].id
    BY <2>1, <2>2 DEF IInv
  <2>4. StrictlySorted'
    BY <2>1, <2>2, <2>3 DEF IInv, StrictlySorted, Slots
  <2> QED
    BY <2>1, <2>2, <2>4, <1>2 DEF IInv
<1>5. CASE ~At(e.id) /\ count # Capacity
  <2>1. /\ entries' = ShiftedUp(e) /\ count' = count + 1
        /\ call' = Idle /\ left' = 0 /\ right' = 0
    BY <1>5 DEF object_table_upsert, Return
  <2>2. left \in Slots /\ count \in Slots /\ left <= count
    BY <1>1, <1>5 DEF IInv, Slots
  <2>3. \A i \in Slots : /\ i < left => entries'[i] = entries[i]
                         /\ i = left => entries'[i] = e
                         /\ left < i /\ i <= count => entries'[i] = entries[i - 1]
                         /\ count < i => entries'[i] = entries[i]
    BY <2>1, <2>2 DEF ShiftedUp, Slots, IInv
  <2>4. \A i \in Slots : i < left => Precedes(entries[i].id, e.id)
    BY <1>1 DEF Bisecting
  <2>5. \A i \in Slots : left <= i /\ i < count => Precedes(e.id, entries[i].id)
    <3> SUFFICES ASSUME NEW i \in Slots, left <= i, i < count PROVE Precedes(e.id, entries[i].id)
      OBVIOUS
    <3>1. left < count /\ entries[left].id # e.id /\ ~Precedes(entries[left].id, e.id)
      BY <1>1, <1>5, <2>2 DEF At, Bisecting, IInv, Slots
    <3>2. Precedes(e.id, entries[left].id)
      BY <3>1, <2>2, <1>2, <1>3, PrecedesOrder
    <3>3. CASE i = left
      BY <3>2, <3>3
    <3>4. CASE left < i
      <4>1. Precedes(entries[left].id, entries[i].id)
        BY <3>1, <3>4, <2>2 DEF IInv, StrictlySorted, Slots
      <4> QED
        BY <4>1, <3>1, <3>2, <2>2, <1>2, <1>3, PrecedesOrder
    <3> QED
      BY <3>3, <3>4 DEF Slots, IInv
  <2>6. ASSUME NEW i \in 0..count, NEW j \in 0..count, i < j
        PROVE  Precedes(entries'[i].id, entries'[j].id)
    <3>1. i \in Slots /\ j \in Slots
      BY <2>2 DEF Slots, IInv
    <3>2. CASE j < left
      <4>1. i < left /\ i \in 0..count - 1 /\ j \in 0..count - 1
        BY <3>2, <2>2, <2>6 DEF Slots, IInv
      <4>2. entries'[i] = entries[i] /\ entries'[j] = entries[j]
        BY <4>1, <3>1, <3>2, <2>3, Zenon
      <4>3. Precedes(entries[i].id, entries[j].id)
        BY <4>1, <2>6, Zenon DEF IInv, StrictlySorted
      <4> QED
        BY <4>2, <4>3, Zenon
    <3>3. CASE j = left
      <4>1. entries'[i] = entries[i] /\ entries'[j] = e
        BY <3>1, <3>3, <2>3, <2>6, Zenon
      <4>2. Precedes(entries[i].id, e.id)
        BY <3>1, <3>3, <2>4, <2>6, Zenon
      <4> QED
        BY <4>1, <4>2, Zenon
    <3>4. CASE left < j
      <4>1. j - 1 \in Slots /\ left <= j - 1 /\ j - 1 < count /\ j <= count /\ j - 1 \in 0..count - 1
        BY <3>4, <2>2 DEF Slots, IInv
      <4>2. entries'[j] = entries[j - 1]
        BY <4>1, <3>1, <3>4, <2>3, Zenon
      <4>3. CASE i < left
        <5>1. i \in 0..count - 1 /\ i < j - 1
          BY <4>1, <4>3, <2>2 DEF Slots, IInv
        <5>2. entries'[i] = entries[i]
          BY <3>1, <4>3, <2>3, Zenon
        <5>3. Precedes(entries[i].id, entries[j - 1].id)
          BY <4>1, <5>1, Zenon DEF IInv, StrictlySorted
        <5> QED
          BY <4>2, <5>2, <5>3, Zenon
      <4>4. CASE i = left
        <5>1. entries'[i] = e
          BY <3>1, <4>4, <2>3, Zenon
        <5>2. Precedes(e.id, entries[j - 1].id)
          BY <4>1, <2>5, Zenon
        <5> QED
          BY <4>2, <5>1, <5>2, Zenon
      <4>5. CASE left < i
        <5>1. i - 1 \in 0..count - 1 /\ i - 1 < j - 1 /\ i <= count
          BY <4>5, <4>1, <2>2, <2>6 DEF Slots, IInv
        <5>2. entries'[i] = entries[i - 1]
          BY <3>1, <4>5, <5>1, <2>3, Zenon
        <5>3. Precedes(entries[i - 1].id, entries[j - 1].id)
          BY <4>1, <5>1, Zenon DEF IInv, StrictlySorted
        <5> QED
          BY <4>2, <5>2, <5>3, Zenon
      <4> QED
        BY <4>3, <4>4, <4>5, <2>2 DEF Slots
    <3> QED
      BY <3>2, <3>3, <3>4, <2>2 DEF Slots
  <2>7. \A i \in Slots : i >= count + 1 => entries'[i] = EmptyEntry
    BY <2>3, <2>2 DEF IInv, StrictlySorted, Slots
  <2>8. \A i \in Slots : i < count + 1 => entries'[i] \in Entries
    BY <2>3, <2>2, <1>2 DEF IInv, Slots
  <2>9. entries' \in [Slots -> Entry \cup {EmptyEntry}]
    BY <2>1, <2>2, <1>2 DEF ShiftedUp, IInv, Slots
  <2>10. StrictlySorted'
    BY <2>1, <2>6, <2>7, <2>2 DEF StrictlySorted, IInv, Slots
  <2> QED
    BY <2>1, <2>2, <2>8, <2>9, <2>10 DEF IInv, Slots
<1>6. CASE (At(e.id) /\ ~Newer(e)) \/ (~At(e.id) /\ count = Capacity)
  <2>1. Return([op |-> "refused"]) /\ UNCHANGED <<entries, count>>
    BY <1>6 DEF object_table_upsert
  <2> QED
    BY <2>1, ReturnIInv
<1> QED
  BY <1>4, <1>5, <1>6

\* Closing the gap keeps the order (object_table_remove).
LEMMA RemoveIInv ==
    ASSUME IInv, object_table_remove
    PROVE  IInv'
<1> USE TableAssumption
<1>1. CASE At(call.entry.id)
  <2>1. /\ entries' = ShiftedDown /\ count' = count - 1
        /\ call' = Idle /\ left' = 0 /\ right' = 0
    BY <1>1 DEF object_table_remove, Return
  <2>2. left \in Slots /\ left < count /\ count \in 1..Capacity
    BY <1>1 DEF At, IInv, Slots
  <2>3. \A i \in Slots : /\ i < left => entries'[i] = entries[i]
                         /\ left <= i /\ i < count - 1 => entries'[i] = entries[i + 1]
                         /\ i >= count - 1 => entries'[i] = EmptyEntry
    BY <2>1, <2>2 DEF ShiftedDown, Slots, IInv, StrictlySorted
  <2>4. StrictlySorted'
    <3>1. ASSUME NEW i \in 0..count - 2, NEW j \in 0..count - 2, i < j
          PROVE  Precedes(entries'[i].id, entries'[j].id)
      <4>1. ASSUME NEW k \in 0..count - 2
            PROVE  \/ k < left /\ k \in 0..count - 1 /\ entries'[k] = entries[k]
                   \/ left <= k /\ k + 1 \in 0..count - 1 /\ entries'[k] = entries[k + 1]
        <5>1. k \in Slots /\ k < count - 1 /\ k \in 0..count - 1 /\ k + 1 \in 0..count - 1
          BY <2>2 DEF Slots
        <5>2. k < left \/ left <= k
          BY <2>2 DEF Slots
        <5> QED
          BY <5>1, <5>2, <2>3, Zenon
      <4>2. \E k, l \in 0..count - 1 : k < l /\ entries'[i] = entries[k] /\ entries'[j] = entries[l]
        <5>1. CASE i < left /\ j < left
          BY <4>1, <5>1, <3>1, <2>2 DEF Slots
        <5>2. CASE i < left /\ left <= j
          <6>1. i < j + 1 /\ ~(left <= i) /\ ~(j < left)
            BY <3>1, <5>2, <2>2 DEF Slots
          <6> QED
            BY <4>1, <6>1, Zenon
        <5>3. CASE left <= i
          <6>1. i + 1 < j + 1 /\ ~(i < left) /\ ~(j < left)
            BY <3>1, <5>3, <2>2 DEF Slots
          <6> QED
            BY <4>1, <6>1, Zenon
        <5> QED
          BY <5>1, <5>2, <5>3, <2>2 DEF Slots
      <4> QED
        BY <4>2, Zenon DEF IInv, StrictlySorted
    <3> QED
      BY <3>1, <2>1, <2>2, <2>3 DEF StrictlySorted, Slots, IInv
  <2>5. \A i \in Slots : i < count - 1 => entries'[i] \in Entries
    BY <2>2, <2>3 DEF IInv, Slots
  <2>6. entries' \in [Slots -> Entry \cup {EmptyEntry}]
    BY <2>1, <2>2 DEF ShiftedDown, IInv, Slots
  <2> QED
    BY <2>1, <2>2, <2>4, <2>5, <2>6 DEF IInv, Slots
<1>2. CASE ~At(call.entry.id)
  BY <1>2, ReturnIInv DEF object_table_remove
<1> QED
  BY <1>1, <1>2

\* Every step preserves the invariant.
LEMMA NextIInv ==
    ASSUME IInv, [TableNext]_tableVars
    PROVE  IInv'
<1>1. CASE \E op \in {"find", "upsert", "remove"}, e \in Entry : Call(op, e)
  BY <1>1, CallIInv
<1>2. CASE Bisect
  BY <1>2, BisectIInv
<1>3. CASE object_table_find
  BY <1>3, ReturnIInv DEF object_table_find
<1>4. CASE object_table_upsert
  BY <1>4, UpsertIInv
<1>5. CASE object_table_remove
  BY <1>5, RemoveIInv
<1>6. CASE UNCHANGED tableVars
  BY <1>6 DEF tableVars, IInv, StrictlySorted, Bisecting
<1> QED
  BY <1>1, <1>2, <1>3, <1>4, <1>5, <1>6 DEF TableNext, CallStep

\* The array of the object table is strictly sorted by id and cleared behind
\* its last entry, and the bounds of a search stay within it, for every
\* capacity and every set of ids (object_table_upsert, object_table_remove).
THEOREM TableSafe == TableSpec => []TableSound
<1>1. IInv => TableSound
  BY DEF IInv, Bisecting, TableSound, TableTypeOK
<1> QED
  BY <1>1, InitIInv, NextIInv, PTL DEF TableSpec
-----------------------------------------------------------------------------
(***************************************************************************)
(* The table implements the map.                                           *)
(***************************************************************************)

\* Two places never hold the same id, so the stored entries are as many as the
\* places in use (object_table.count).
LEMMA StoredCounted ==
    ASSUME IInv
    PROVE  /\ IsFiniteSet(Stored) /\ Cardinality(Stored) = count
           /\ \A i, j \in 0..count - 1 : entries[i].id = entries[j].id => i = j
<1> USE TableAssumption
<1>1. count \in Nat /\ \A i \in 0..count - 1 : i \in Slots /\ entries[i].id \in ObjectIds
  BY DEF IInv, Slots, Entries, Entry
<1>2. ASSUME NEW i \in 0..count - 1, NEW j \in 0..count - 1, entries[i].id = entries[j].id
      PROVE  i = j
  <2>1. ~(i < j) /\ ~(j < i)
    <3>1. i < j => Precedes(entries[i].id, entries[j].id)
      BY DEF IInv, StrictlySorted
    <3>2. j < i => Precedes(entries[j].id, entries[i].id)
      BY DEF IInv, StrictlySorted
    <3> QED
      BY <3>1, <3>2, <1>1, <1>2, PrecedesOrder, Zenon
  <2> QED
    BY <2>1, <1>1
<1> DEFINE f == [i \in 0..count - 1 |-> entries[i]]
<1>3. f \in Bijection(0..count - 1, Stored)
  <2>1. f \in [0..count - 1 -> Stored]
    BY DEF Stored
  <2>2. \A i, j \in 0..count - 1 : f[i] = f[j] => i = j
    BY <1>2
  <2>3. \A e \in Stored : \E i \in 0..count - 1 : f[i] = e
    BY DEF Stored
  <2> QED
    BY <2>1, <2>2, <2>3 DEF Bijection, Injection, Surjection, IsInjective
<1>4. IsFiniteSet(0..count - 1) /\ Cardinality(0..count - 1) = count
  BY <1>1, FS_Interval
<1>5. IsFiniteSet(Stored) /\ Cardinality(Stored) = Cardinality(0..count - 1)
  <2>1. ExistsBijection(0..count - 1, Stored)
    BY <1>3 DEF ExistsBijection
  <2> QED
    BY <2>1, <1>4, FS_Bijection, Zenon
<1> QED
  BY <1>2, <1>4, <1>5

\* ObjectMap counts with the same Cardinality (object_table.count).
LEMMA MapCardinality == Map!Cardinality(Stored) = Cardinality(Stored)
BY DEF Map!Cardinality, Cardinality

\* Where the bisection ends is the only place the id can be (object_table_find,
\* object_table_upsert, object_table_remove).
LEMMA OnlyAtTheEnd ==
    ASSUME IInv, call # Idle, left >= right
    PROVE  /\ \A i \in 0..count - 1 : entries[i].id = call.entry.id => i = left
           /\ ~At(call.entry.id) => \A o \in Stored : o.id # call.entry.id
<1> USE TableAssumption
<1> DEFINE id == call.entry.id
<1>1. Bisecting /\ left = right /\ id \in ObjectIds
  BY DEF IInv, Bisecting, Ids
<1>2. ASSUME NEW i \in 0..count - 1, entries[i].id = id
      PROVE  i = left
  <2>1. i \in Slots /\ i < count
    BY DEF IInv, Slots
  <2>2. ~(i < left)
    BY <2>1, <1>1, <1>2, PrecedesOrder, Zenon DEF Bisecting
  <2>3. ~(left < i)
    <3> SUFFICES ASSUME left < i PROVE FALSE
      OBVIOUS
    <3>1. left \in Slots /\ left < count /\ left \in 0..count - 1 /\ right <= left
      BY <2>1, <1>1 DEF IInv, Slots
    <3>2. ~Precedes(entries[left].id, id)
      BY <3>1, <1>1, Zenon DEF Bisecting
    <3>3. Precedes(entries[left].id, entries[i].id)
      BY <3>1, Zenon DEF IInv, StrictlySorted
    <3> QED
      BY <3>2, <3>3, <1>2, Zenon
  <2> QED
    BY <2>1, <2>2, <2>3 DEF IInv, Slots
<1>3. ASSUME ~At(id), NEW o \in Stored, o.id = id PROVE FALSE
  <2>1. PICK i \in 0..count - 1 : o = entries[i]
    BY DEF Stored
  <2>2. i = left
    BY <2>1, <1>2, <1>3
  <2> QED
    BY <2>1, <2>2, <1>3 DEF At, IInv
<1> QED
  BY <1>2, <1>3

\* A bisection that returns an entry found the one with the id it looked for.
LEMMA BisectRefines ==
    ASSUME IInv, Bisect
    PROVE  (UNCHANGED <<Stored, answer>>) \/ Map!Next
<1> USE TableAssumption
<1> DEFINE at == entries[Middle]
           id == call.entry.id
<1>1. call # Idle /\ left < right /\ Bisecting /\ entries' = entries /\ count' = count
  BY DEF Bisect, IInv
<1>2. Stored' = Stored
  BY <1>1 DEF Stored
<1>3. CASE Precedes(at.id, id) \/ call.op # "find" \/ Precedes(id, at.id)
  BY <1>2, <1>3 DEF Bisect
<1>4. CASE ~Precedes(at.id, id) /\ call.op = "find" /\ ~Precedes(id, at.id)
  <2>1. Middle \in 0..count - 1 /\ Middle \in Slots
    BY <1>1, MiddleInside DEF IInv, Middle, Slots
  <2>2. at \in Stored
    BY <2>1 DEF Stored
  <2>3. at.id \in ObjectIds /\ id \in ObjectIds /\ id \in Ids
    BY <1>1, <2>1 DEF IInv, Bisecting, Entries, Entry, Ids, Slots
  <2>4. at.id = id
    BY <2>3, <1>4, PrecedesOrder, Zenon
  <2>5. answer' = [op |-> "find", id |-> id, entry |-> at]
    BY <1>4 DEF Bisect, Return
  <2>6. Map!Find(id)
    BY <1>2, <2>2, <2>4, <2>5, Zenon DEF Map!Find
  <2> QED
    BY <2>3, <2>6, Zenon DEF Map!Next
<1> QED
  BY <1>3, <1>4

\* object_table_find misses only what is not stored.
LEMMA FindRefines ==
    ASSUME IInv, object_table_find
    PROVE  Map!Next
<1>1. /\ call # Idle /\ call.op = "find" /\ left >= right /\ Bisecting
      /\ entries' = entries /\ count' = count /\ answer' = [op |-> "absent", id |-> call.entry.id]
  BY DEF object_table_find, Searched, Return, IInv
<1>2. Stored' = Stored /\ call.entry.id \in Ids
  BY <1>1 DEF Stored, Bisecting
<1> QED
  <2>1. CASE ~At(call.entry.id)
    BY <1>1, <1>2, <2>1, OnlyAtTheEnd, Zenon DEF Map!Next, Map!Find
  <2>2. CASE At(call.entry.id)
    BY <1>1, <2>2, TableAssumption DEF At, Bisecting, IInv, Slots
  <2> QED
    BY <2>1, <2>2

\* object_table_upsert replaces an older version, puts in a new object, or is
\* refused for a reason.
LEMMA UpsertRefines ==
    ASSUME IInv, object_table_upsert
    PROVE  Map!Next
<1> USE TableAssumption
<1> DEFINE e == call.entry
<1>1. call # Idle /\ left >= right /\ Bisecting /\ left = right /\ call.op = "upsert"
  BY DEF object_table_upsert, Searched, IInv, Bisecting
<1>2. e \in Entries
  BY <1>1 DEF Bisecting, Entries, Entry, Ids
<1>3. ASSUME At(e.id)
      PROVE  left \in 0..count - 1 /\ left \in Slots /\ entries[left] \in Stored
  BY <1>3 DEF At, IInv, Slots, Stored
<1>4. CASE At(e.id) /\ Newer(e)
  <2>1. entries' = [entries EXCEPT ![left] = e] /\ count' = count /\ answer' = [op |-> "done"]
    BY <1>4 DEF object_table_upsert, Return
  <2>2. entries[left].id = e.id /\ entries[left].version < e.version
    <3>1. entries[left].version \in Nat /\ e.version \in Nat
      BY <1>2, <1>3, <1>4 DEF IInv, Entries, Entry, At
    <3> QED
      BY <3>1, <1>4 DEF At, Newer
  <2>3. \A i \in 0..count - 1 : i \in Slots /\ entries'[i] = (IF i = left THEN e ELSE entries[i])
    BY <2>1 DEF IInv, Slots
  <2>4. \A i \in 0..count - 1 : i # left => entries[i] # entries[left]
    BY <1>3, <1>4, StoredCounted, Zenon
  <2>5. Stored' = (Stored \ {entries[left]}) \cup {e}
    <3>1. Stored' = {entries'[i] : i \in 0..count - 1}
      BY <2>1 DEF Stored
    <3>2. ASSUME NEW o \in Stored' PROVE o \in (Stored \ {entries[left]}) \cup {e}
      BY <3>1, <3>2, <2>3, <2>4, Zenon DEF Stored
    <3>3. ASSUME NEW o \in (Stored \ {entries[left]}) \cup {e} PROVE o \in Stored'
      BY <3>1, <3>3, <2>3, <1>3, <1>4, Zenon DEF Stored
    <3> QED
      BY <3>2, <3>3, Zenon
  <2> QED
    BY <1>2, <1>3, <1>4, <2>1, <2>2, <2>5, Zenon DEF Map!Next, Map!Replace
<1>5. CASE ~At(e.id) /\ count # Capacity
  <2>1. entries' = ShiftedUp(e) /\ count' = count + 1 /\ answer' = [op |-> "done"]
    BY <1>5 DEF object_table_upsert, Return
  <2>2. \A o \in Stored : o.id # e.id
    BY <1>1, <1>5, OnlyAtTheEnd
  <2>3. Cardinality(Stored) < Capacity
    BY <1>5, StoredCounted DEF IInv
  <2>4. left \in 0..count /\ count + 1 - 1 = count /\ 0..count \subseteq Slots
    BY <1>5 DEF IInv, Slots
  <2>5. \A i \in 0..count : entries'[i] = IF i = left THEN e
                                           ELSE IF left < i THEN entries[i - 1] ELSE entries[i]
    BY <2>1, <2>4 DEF ShiftedUp, Slots, IInv
  <2>6. Stored' = Stored \cup {e}
    <3>1. Stored' = {entries'[i] : i \in 0..count}
      <4>1. count' - 1 = count
        BY <2>1 DEF IInv
      <4> QED
        BY <4>1 DEF Stored
    <3>2. ASSUME NEW i \in 0..count PROVE entries'[i] \in Stored \cup {e}
      <4>1. i # left => (IF left < i THEN i - 1 ELSE i) \in 0..count - 1
        BY <2>4 DEF IInv
      <4> QED
        BY <4>1, <2>5, Zenon DEF Stored
    <3>3. ASSUME NEW i \in 0..count - 1 PROVE entries[i] \in Stored'
      <4>1. CASE i < left
        <5>1. i \in 0..count /\ i # left /\ ~(left < i)
          BY <4>1, <2>4 DEF IInv
        <5> QED
          BY <5>1, <3>1, <2>5, Zenon
      <4>2. CASE left <= i
        <5>1. i + 1 \in 0..count /\ i + 1 # left /\ left < i + 1 /\ (i + 1) - 1 = i
          BY <4>2, <2>4 DEF IInv
        <5>2. entries'[i + 1] = entries[i]
          BY <5>1, <2>5
        <5> QED
          BY <5>1, <5>2, <3>1, Zenon
      <4> QED
        BY <4>1, <4>2, <2>4 DEF IInv
    <3>4. e \in Stored'
      BY <3>1, <2>4, <2>5, Zenon
    <3> QED
      BY <3>1, <3>2, <3>3, <3>4, Zenon DEF Stored
  <2>7. Map!Insert(e)
    BY <2>1, <2>2, <2>3, <2>6, MapCardinality DEF Map!Insert
  <2> QED
    BY <1>2, <2>7, Zenon DEF Map!Next
<1>6. CASE (At(e.id) /\ ~Newer(e)) \/ (~At(e.id) /\ count = Capacity)
  <2>1. answer' = [op |-> "refused"] /\ entries' = entries /\ count' = count
    BY <1>6 DEF object_table_upsert, Return
  <2>2. Stored' = Stored
    BY <2>1 DEF Stored
  <2>3. \/ \E o \in Stored : o.id = e.id /\ e.version <= o.version
        \/ (\A o \in Stored : o.id # e.id) /\ Cardinality(Stored) = Capacity
    <3>1. CASE At(e.id) /\ ~Newer(e)
      <4>1. entries[left].version \in Nat /\ e.version \in Nat
        BY <1>2, <1>3, <3>1 DEF IInv, Entries, Entry, At
      <4>2. entries[left].id = e.id /\ e.version <= entries[left].version
        BY <4>1, <3>1 DEF At, Newer
      <4> QED
        BY <4>2, <1>3, <3>1, Zenon
    <3>2. CASE ~At(e.id) /\ count = Capacity
      BY <3>2, <1>1, OnlyAtTheEnd, StoredCounted, Zenon
    <3> QED
      BY <1>6, <3>1, <3>2
  <2>4. Map!RefuseUpsert(e)
    BY <2>1, <2>2, <2>3, MapCardinality DEF Map!RefuseUpsert
  <2> QED
    BY <1>2, <2>4, Zenon DEF Map!Next
<1> QED
  BY <1>4, <1>5, <1>6

\* object_table_remove takes out the one entry with the id.
LEMMA RemoveRefines ==
    ASSUME IInv, object_table_remove
    PROVE  Map!Next
<1> USE TableAssumption
<1> DEFINE id == call.entry.id
<1>1. call # Idle /\ left >= right /\ Bisecting /\ id \in Ids
  BY DEF object_table_remove, Searched, IInv, Bisecting
<1>2. CASE At(id)
  <2>1. entries' = ShiftedDown /\ count' = count - 1 /\ answer' = [op |-> "done"]
    BY <1>2 DEF object_table_remove, Return
  <2>2. /\ left \in 0..count - 1 /\ entries[left].id = id /\ entries[left] \in Stored
        /\ count \in Nat /\ 0..count - 1 \subseteq Slots
    BY <1>2 DEF At, IInv, Slots, Stored
  <2>3. \A i \in 0..count - 2 : entries'[i] = IF left <= i THEN entries[i + 1] ELSE entries[i]
    BY <2>1, <2>2 DEF ShiftedDown, Slots
  <2>4. \A i \in 0..count - 1 : i # left => entries[i] # entries[left]
    BY <2>2, StoredCounted, Zenon
  <2>5. Stored' = Stored \ {entries[left]}
    <3>1. Stored' = {entries'[i] : i \in 0..count - 2}
      <4>1. count' - 1 = count - 2
        BY <2>1, <2>2
      <4> QED
        BY <4>1 DEF Stored
    <3>2. ASSUME NEW i \in 0..count - 2 PROVE entries'[i] \in Stored \ {entries[left]}
      <4>1. CASE left <= i
        <5>1. i + 1 \in 0..count - 1 /\ i + 1 # left
          BY <4>1, <2>2
        <5> QED
          BY <4>1, <5>1, <2>3, <2>4, Zenon DEF Stored
      <4>2. CASE ~(left <= i)
        <5>1. i \in 0..count - 1 /\ i # left
          BY <4>2, <2>2
        <5> QED
          BY <4>2, <5>1, <2>3, <2>4, Zenon DEF Stored
      <4> QED
        BY <4>1, <4>2
    <3>3. ASSUME NEW i \in 0..count - 1, i # left PROVE entries[i] \in Stored'
      <4>1. CASE i < left
        <5>1. i \in 0..count - 2 /\ ~(left <= i)
          BY <4>1, <2>2
        <5> QED
          BY <5>1, <3>1, <2>3, Zenon
      <4>2. CASE left < i
        <5>1. i - 1 \in 0..count - 2 /\ left <= i - 1 /\ (i - 1) + 1 = i
          BY <4>2, <2>2
        <5>2. entries'[i - 1] = entries[i]
          BY <5>1, <2>3
        <5> QED
          BY <5>1, <5>2, <3>1, Zenon
      <4> QED
        BY <4>1, <4>2, <3>3, <2>2
    <3> QED
      BY <3>1, <3>2, <3>3, Zenon DEF Stored
  <2>6. Map!Remove(id)
    BY <2>1, <2>2, <2>5 DEF Map!Remove
  <2> QED
    BY <1>1, <2>6, Zenon DEF Map!Next
<1>3. CASE ~At(id)
  <2>1. answer' = [op |-> "refused"] /\ entries' = entries /\ count' = count
    BY <1>3 DEF object_table_remove, Return
  <2>2. Stored' = Stored
    BY <2>1 DEF Stored
  <2>3. Map!RefuseRemove(id)
    BY <1>1, <1>3, <2>1, <2>2, OnlyAtTheEnd DEF Map!RefuseRemove
  <2> QED
    BY <1>1, <2>3, Zenon DEF Map!Next
<1> QED
  BY <1>2, <1>3

\* Every step of the table is a step of the map or changes nothing in it.
LEMMA NextRefines ==
    ASSUME IInv, [TableNext]_tableVars
    PROVE  [Map!Next]_<<Stored, answer>>
<1>1. ASSUME NEW op \in {"find", "upsert", "remove"}, NEW e \in Entry, Call(op, e)
      PROVE  [Map!Next]_<<Stored, answer>>
  <2>1. Stored' = Stored /\ (answer' = answer \/ answer' = [op |-> "invalid"])
    BY <1>1 DEF Call, Stored
  <2> QED
    BY <2>1 DEF Map!Next, Map!RefuseInvalid
<1>2. CASE Bisect
  BY <1>2, BisectRefines
<1>3. CASE object_table_find
  BY <1>3, FindRefines
<1>4. CASE object_table_upsert
  BY <1>4, UpsertRefines
<1>5. CASE object_table_remove
  BY <1>5, RemoveRefines
<1>6. CASE UNCHANGED tableVars
  BY <1>6 DEF tableVars, Stored
<1> QED
  BY <1>1, <1>2, <1>3, <1>4, <1>5, <1>6 DEF TableNext, CallStep

\* object_table.c implements the map for every capacity and every set of ids:
\* the bisections and the shifts never lose, duplicate or confuse an object.
THEOREM TableImplementsMap == TableSpec => ImplementsMap
<1>1. TableInit => Map!Init
  BY DEF TableInit, Map!Init, Stored
<1> QED
  BY <1>1, InitIInv, NextIInv, NextRefines, PTL DEF TableSpec, ImplementsMap, Map!Spec
=============================================================================
