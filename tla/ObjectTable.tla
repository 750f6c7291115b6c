----------------------------- MODULE ObjectTable -----------------------------
(***************************************************************************)
(* The object table: an array of entries in the order of their ids.        *)
(* object_table_find, object_table_upsert and object_table_remove search   *)
(* it by bisection, here one turn of the loop at a time, and shift the     *)
(* entries behind the place they change.  An entry's sectors are carried   *)
(* along with its version and are left out.                                *)
(***************************************************************************)
EXTENDS Integers, FiniteSets

CONSTANTS Highs, Lows,  \* the values of the two words of an object id
          Versions,     \* the versions; 0 is not one an entry can have
          Capacity

ASSUME TableAssumption ==
    /\ Highs \subseteq Nat /\ Lows \subseteq Nat /\ Versions \subseteq Nat
    /\ Capacity \in Nat \ {0}

VARIABLES entries, count,  \* struct object_table
          call,            \* the call that runs: its operation and argument
          left, right,     \* the bounds of its search
          answer           \* what the last call returned

tableVars == <<entries, count, call, left, right, answer>>

ObjectIds == [high : Highs, low : Lows]
Entry == [id : ObjectIds, version : Versions]
Slots == 0..Capacity - 1

object_id_is_zero(id) == id.high = 0 /\ id.low = 0

Ids == {id \in ObjectIds : ~object_id_is_zero(id)}

\* What object_table_upsert accepts.
Entries == {e \in Entry : ~object_id_is_zero(e.id) /\ e.version # 0}

EmptyEntry == [id |-> [high |-> 0, low |-> 0], version |-> 0]

\* object_id_compare(a, b) < 0.
Precedes(a, b) == a.high < b.high \/ (a.high = b.high /\ a.low < b.low)

Idle == [op |-> "none"]

TableInit ==
    /\ entries = [i \in Slots |-> EmptyEntry] /\ count = 0
    /\ call = Idle /\ left = 0 /\ right = 0 /\ answer = [op |-> "none"]

\* A call starts: the arguments are checked, and the search covers the array.
Call(op, e) ==
    /\ call = Idle
    /\ IF e.id \in Ids /\ (op = "upsert" => e.version # 0)
       THEN /\ call' = [op |-> op, entry |-> e] /\ left' = 0 /\ right' = count
            /\ UNCHANGED answer
       ELSE answer' = [op |-> "invalid"] /\ UNCHANGED <<call, left, right>>
    /\ UNCHANGED <<entries, count>>

Middle == left + ((right - left) \div 2)

Return(a) == answer' = a /\ call' = Idle /\ left' = 0 /\ right' = 0

Above == left' = Middle + 1 /\ UNCHANGED right

Below == right' = Middle /\ UNCHANGED left

\* One turn of the loop.  Only object_table_find returns from it.
Bisect ==
    /\ call # Idle /\ left < right
    /\ LET at == entries[Middle] IN
       IF Precedes(at.id, call.entry.id)
       THEN Above /\ UNCHANGED <<call, answer>>
       ELSE IF call.op = "find" /\ ~Precedes(call.entry.id, at.id)
       THEN Return([op |-> "find", id |-> call.entry.id, entry |-> at])
       ELSE Below /\ UNCHANGED <<call, answer>>
    /\ UNCHANGED <<entries, count>>

Searched(op) == call # Idle /\ call.op = op /\ left >= right

object_table_find ==
    /\ Searched("find")
    /\ Return([op |-> "absent", id |-> call.entry.id])
    /\ UNCHANGED <<entries, count>>

At(id) == left < count /\ entries[left].id = id

\* Mutant: an equal version is taken.
NewerOrEqual(e) == e.version >= entries[left].version

Newer(e) == e.version > entries[left].version

\* Mutant: the entry is put where the search ended, and nothing is moved.
ShiftedUpNot(e) == [entries EXCEPT ![left] = e]

\* The entries from the place on move up by one.
ShiftedUp(e) ==
    [i \in Slots |-> IF i = left THEN e
                     ELSE IF left < i /\ i <= count THEN entries[i - 1] ELSE entries[i]]

object_table_upsert ==
    /\ Searched("upsert")
    /\ LET e == call.entry IN
       IF At(e.id)
       THEN IF Newer(e)
            THEN /\ entries' = [entries EXCEPT ![left] = e]
                 /\ UNCHANGED count /\ Return([op |-> "done"])
            ELSE Return([op |-> "refused"]) /\ UNCHANGED <<entries, count>>
       ELSE IF count = Capacity
       THEN Return([op |-> "refused"]) /\ UNCHANGED <<entries, count>>
       ELSE entries' = ShiftedUp(e) /\ count' = count + 1 /\ Return([op |-> "done"])

\* The entries behind the place move down by one, and the last is cleared.
ShiftedDown ==
    [i \in Slots |-> IF i = count - 1 THEN EmptyEntry
                     ELSE IF left <= i /\ i < count - 1 THEN entries[i + 1] ELSE entries[i]]

object_table_remove ==
    /\ Searched("remove")
    /\ IF At(call.entry.id)
       THEN entries' = ShiftedDown /\ count' = count - 1 /\ Return([op |-> "done"])
       ELSE Return([op |-> "refused"]) /\ UNCHANGED <<entries, count>>

CallStep == Bisect \/ object_table_find \/ object_table_upsert \/ object_table_remove

TableNext == CallStep \/ \E op \in {"find", "upsert", "remove"}, e \in Entry : Call(op, e)

\* The kernel runs a call to its end.
TableSpec == TableInit /\ [][TableNext]_tableVars /\ WF_tableVars(CallStep)

-----------------------------------------------------------------------------
TableTypeOK ==
    /\ entries \in [Slots -> Entry \cup {EmptyEntry}] /\ count \in 0..Capacity
    /\ left \in 0..count /\ right \in 0..count
    /\ call = Idle \/ call \in [op : {"find", "upsert", "remove"}, entry : Entry]

\* The array stays strictly in the order of the ids through every shift, which
\* is what every later bisection relies on (object_table_upsert,
\* object_table_remove); behind the last entry it is cleared.
StrictlySorted ==
    /\ \A i, j \in 0..count - 1 : i < j => Precedes(entries[i].id, entries[j].id)
    /\ \A i \in Slots : i >= count => entries[i] = EmptyEntry

\* The table is sound between any two turns of a search.
TableSound == TableTypeOK /\ StrictlySorted

\* The stored entries, and the table as a map of them.
Stored == {entries[i] : i \in 0..count - 1}

Map == INSTANCE ObjectMap WITH objects <- Stored

\* The bisections never miss: find answers with the stored entry exactly if
\* there is one, upsert replaces only an older version of the same object and
\* is refused only by a newer one or a full table, and remove takes out that
\* object and no other (object_table.c implements ObjectMap).
ImplementsMap == Map!Spec

\* Every call returns: each turn of the loop narrows the search.
SearchesEnd == (call # Idle) ~> (call = Idle)
=============================================================================
