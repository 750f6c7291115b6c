------------------------------ MODULE ObjectMap ------------------------------
(***************************************************************************)
(* What the object table promises: a bounded set of objects, at most one   *)
(* version of each, in which a version only ever grows until the object is *)
(* removed, and answers that agree with it.                                *)
(***************************************************************************)
EXTENDS Naturals, FiniteSets

CONSTANTS Entries,   \* the entries that can be stored: records with id and version
          Ids,       \* the ids
          Capacity

VARIABLES objects, answer

Init == objects = {} /\ answer = [op |-> "none"]

Find(id) ==
    /\ \/ \E e \in objects : e.id = id /\ answer' = [op |-> "find", id |-> id, entry |-> e]
       \/ (\A e \in objects : e.id # id) /\ answer' = [op |-> "absent", id |-> id]
    /\ UNCHANGED objects

Insert(e) ==
    /\ \A o \in objects : o.id # e.id
    /\ Cardinality(objects) < Capacity
    /\ objects' = objects \cup {e} /\ answer' = [op |-> "done"]

Replace(e) ==
    \E o \in objects :
        /\ o.id = e.id /\ o.version < e.version
        /\ objects' = (objects \ {o}) \cup {e} /\ answer' = [op |-> "done"]

Remove(id) ==
    \E o \in objects :
        o.id = id /\ objects' = objects \ {o} /\ answer' = [op |-> "done"]

\* A call is refused only for a reason.
RefuseUpsert(e) ==
    /\ \/ \E o \in objects : o.id = e.id /\ e.version <= o.version
       \/ (\A o \in objects : o.id # e.id) /\ Cardinality(objects) = Capacity
    /\ answer' = [op |-> "refused"] /\ UNCHANGED objects

RefuseRemove(id) ==
    (\A o \in objects : o.id # id) /\ answer' = [op |-> "refused"] /\ UNCHANGED objects

RefuseInvalid == answer' = [op |-> "invalid"] /\ UNCHANGED objects

Next ==
    \/ \E e \in Entries : Insert(e) \/ Replace(e) \/ RefuseUpsert(e)
    \/ \E id \in Ids : Find(id) \/ Remove(id) \/ RefuseRemove(id)
    \/ RefuseInvalid

Spec == Init /\ [][Next]_<<objects, answer>>
=============================================================================
