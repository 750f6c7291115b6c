--------------------------- MODULE CapabilityTable ---------------------------
(***************************************************************************)
(* Capabilities, the capability table of one component and the derivation  *)
(* graph that spans all of them, as operators on values: the code of       *)
(* kernel/cap/capability.c, cap_table.c and derivation.c.                  *)
(*                                                                         *)
(* A capability is an object with a non-empty set of rights.  Its badge is *)
(* data no function of these files looks at and is left out.  A table has  *)
(* a fixed number of slots, a generation counter per slot that the code    *)
(* advances when it claims the slot, and the slot a local child was        *)
(* derived from.  The derivation graph is a set of (parent, child) pairs   *)
(* of references, a reference being the owner, the slot and the slot's     *)
(* generation; the array order of the records is not observable.           *)
(***************************************************************************)
EXTENDS Naturals, FiniteSets, FiniteSetsExt

CONSTANTS SlotCount,      \* CAP_TABLE_SLOTS
          MaxGeneration,  \* UINT32_MAX, the generation that retires a slot
          DerivationMax   \* CAP_DERIVATION_MAX

ASSUME TableConstants ==
    SlotCount \in Nat \ {0} /\ MaxGeneration \in Nat \ {0} /\ DerivationMax \in Nat

Slots == 0 .. SlotCount - 1

Rights == {"READ", "WRITE", "SEND", "GRANT"}

\* The zero object id, a zeroed struct capability, and CAP_SLOT_NONE.
NoObject == <<>>
NoCap == [object |-> NoObject, rights |-> {}]
NoSlot == SlotCount

Table(Objects) ==
    [slots : [Slots -> [object : Objects \cup {NoObject}, rights : SUBSET Rights]],
     generations : [Slots -> 0 .. MaxGeneration],
     parents : [Slots -> Slots \cup {NoSlot}]]

capability_is_valid(cap) ==
    cap.object # NoObject /\ cap.rights # {} /\ cap.rights \subseteq Rights

capability_allows(cap, required) ==
    capability_is_valid(cap) /\ required # {} /\ required \subseteq cap.rights

\* capability_derive succeeds on this condition, with the child below.
CanDerive(parent, rights) ==
    /\ capability_allows(parent, {"GRANT"})
    /\ rights # {}
    /\ rights \subseteq parent.rights

DerivedCapability(parent, rights) == [object |-> parent.object, rights |-> rights]

-----------------------------------------------------------------------------
(* cap_table.c *)

capability_table_init ==
    [slots |-> [s \in Slots |-> NoCap],
     generations |-> [s \in Slots |-> 0],
     parents |-> [s \in Slots |-> NoSlot]]

\* capability_table_get does not return NULL.
capability_table_get(t, s) ==
    s \in Slots /\ capability_is_valid(t.slots[s]) /\ t.generations[s] # 0

capability_table_generation(t, s) ==
    IF capability_table_get(t, s) THEN t.generations[s] ELSE 0

\* The slots capability_table_claim_slot may take: empty, and not worn out.
Claimable(t) ==
    {s \in Slots : t.slots[s].object = NoObject /\ t.generations[s] # MaxGeneration}

ClaimedSlot(t) == Min(Claimable(t))

\* The table after the first claimable slot is taken for cap.
WithCapability(t, cap, parent) ==
    LET s == ClaimedSlot(t)
    IN  [slots |-> [t.slots EXCEPT ![s] = cap],
         generations |-> [t.generations EXCEPT ![s] = @ + 1],
         parents |-> [t.parents EXCEPT ![s] = parent]]

capability_table_insert_root(t, cap) == WithCapability(t, cap, NoSlot)

capability_table_derive(t, parent, rights) ==
    WithCapability(t, DerivedCapability(t.slots[parent], rights), parent)

\* The slots the do-while of capability_table_revoke marks.
LocalSubtree(t, slot) ==
    LET marked[n \in 0 .. Cardinality(Slots)] ==
          IF n = 0 THEN {slot}
          ELSE LET m == marked[n - 1] IN m \cup {s \in Slots : t.parents[s] \in m}
    IN  marked[Cardinality(Slots)]

\* Mutant: a cleared slot starts again at generation zero.
ForgetSlots(t, cleared) ==
    [t EXCEPT !.slots = [s \in Slots |-> IF s \in cleared THEN NoCap ELSE @[s]],
              !.generations = [s \in Slots |-> IF s \in cleared THEN 0 ELSE @[s]],
              !.parents = [s \in Slots |-> IF s \in cleared THEN NoSlot ELSE @[s]]]

ClearSlots(t, cleared) ==
    [t EXCEPT !.slots = [s \in Slots |-> IF s \in cleared THEN NoCap ELSE @[s]],
              !.parents = [s \in Slots |-> IF s \in cleared THEN NoSlot ELSE @[s]]]

\* The slots that name the object; capability_table_find takes the first.
SlotsNaming(t, object) ==
    {s \in Slots : capability_table_get(t, s) /\ t.slots[s].object = object}

\* The walk of capability_table_is_valid reaches a root within CAP_TABLE_SLOTS
\* steps, every step from a child to a parent that may have derived it.
capability_table_is_valid(t) ==
    \A s \in Slots :
        IF t.slots[s].object = NoObject
        THEN t.slots[s] = NoCap /\ t.parents[s] = NoSlot
        ELSE /\ capability_table_get(t, s)
             /\ \/ t.parents[s] = NoSlot
                \/ /\ capability_table_get(t, t.parents[s])
                   /\ t.slots[s].object = t.slots[t.parents[s]].object
                   /\ CanDerive(t.slots[t.parents[s]], t.slots[s].rights)
                   /\ \E root \in Slots : /\ t.parents[root] = NoSlot
                                          /\ s \in LocalSubtree(t, root)

\* component_capability_table_valid: also nothing at or past the slot count.
TableFitsCount(t, count) ==
    /\ capability_table_is_valid(t)
    /\ \A s \in Slots : s >= count => ~capability_table_get(t, s)

\* The loop that shrinks capability_count past empty slots at the end.
ShrunkCount(t, count) ==
    Max({0} \cup {s + 1 : s \in {x \in Slots : x < count /\ capability_table_get(t, x)}})

-----------------------------------------------------------------------------
(* derivation.c *)

Reference(owner, slot, generation) == <<owner, slot, generation>>

capability_ref_is_valid(ref) == ref[2] \in Slots /\ ref[3] # 0

Edge(parent, child) == [parent |-> parent, child |-> child]

\* The fixpoint of capability_derivation_remove_subtree: all proper descendants.
Descendants(graph, root) ==
    LET found[n \in 0 .. Cardinality(graph)] ==
          IF n = 0 THEN {}
          ELSE LET f == found[n - 1]
               IN  f \cup {e.child : e \in {x \in graph : x.parent \in f \cup {root}}}
    IN  found[Cardinality(graph)]

capability_derivation_table_is_valid(graph) ==
    /\ Cardinality(graph) <= DerivationMax
    /\ \A e \in graph :
        /\ capability_ref_is_valid(e.parent) /\ capability_ref_is_valid(e.child)
        /\ \A f \in graph : f.child = e.child => f = e
        /\ e.child \notin Descendants(graph, e.child)

capability_derivation_add(graph, parent, child) == graph \cup {Edge(parent, child)}

CanAddDerivation(graph, parent, child) ==
    /\ capability_derivation_table_is_valid(graph)
    /\ parent # child
    /\ Cardinality(graph) # DerivationMax
    /\ \A e \in graph : e.child # child
    /\ capability_derivation_table_is_valid(capability_derivation_add(graph, parent, child))

\* capability_derivation_parent: the parents recorded for a child (at most one).
RecordedParents(graph, child) ==
    {e.parent : e \in {x \in graph : x.child = child /\ capability_ref_is_valid(child)}}
=============================================================================
