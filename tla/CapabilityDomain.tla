-------------------------- MODULE CapabilityDomain --------------------------
(***************************************************************************)
(* The capability domain of one store: kernel/cap/domain.c, with the       *)
(* component operations of kernel/wasm/component.c and the system calls of *)
(* kernel/wasm/syscalls.c that change what it owns.                        *)
(*                                                                         *)
(* A handler runs between capability_domain_begin and the commit.  While   *)
(* it runs, its calls change the live components, the lineage and the      *)
(* provenance ledger, and mark what has to be written; commit writes only  *)
(* what is marked, in one batch of the object store.  The batch commits,   *)
(* is rejected, or leaves the store in need of recovery with the outcome   *)
(* unknown until the restart.  A crash may happen at any point: what is on *)
(* disk is resumed and capability_domain_open checks it.                   *)
(*                                                                         *)
(* Object ids are pairs: <<c, 0>> is the root object of component c and    *)
(* <<c, n>> the n-th object c created.  A message carries the slot of the  *)
(* attached capability; `granted' in it is a ghost, the generation the     *)
(* slot had when the message was sent.  The ledger is the set of objects   *)
(* that have a bucket; the events in a bucket are left out.                *)
(***************************************************************************)
EXTENDS CapabilityTable, Sequences, SequencesExt

CONSTANTS Components,   \* the components that may be installed
          ChildRights,  \* the rights a guest asks for when it derives
          MailboxMax,   \* COMPONENT_MAILBOX_BYTES, in messages
          LedgerMax,    \* PROVENANCE_OBJECTS
          BatchMax,     \* OBJECT_STORE_PUT_BATCH_MAX
          MaxObjects,   \* bound: objects a component creates
          MaxCalls,     \* bound: system calls and faults, over all handlers
          MaxFaults,    \* bound: failed handlers and store calls
          InitDerives,  \* jani_init may derive a capability
          DeleteFails   \* object_store_delete may fail on its own

ASSUME DomainConstants ==
    /\ ChildRights \subseteq SUBSET Rights
    /\ MailboxMax \in Nat /\ LedgerMax \in Nat /\ BatchMax \in Nat
    /\ MaxObjects \in Nat /\ MaxCalls \in Nat /\ MaxFaults \in Nat
    /\ InitDerives \in BOOLEAN /\ DeleteFails \in BOOLEAN

VARIABLES
    mode,   \* "up", "halted" (recovery required) or "refused" (open failed)
    set,    \* the running components, struct component_set
    dom,    \* what a handler changes: comp (struct component), lineage, ledger
    tx,     \* the transaction: active, what is marked dirty, the staged writes
    saved,  \* what capability_domain_begin copied
    disk,   \* the objects of the store
    calls,  \* how many system calls were made, for the bound
    faults  \* how many faults happened, for the bound

domainVars == <<mode, set, dom, tx, saved, disk, calls, faults>>

Root(c) == <<c, 0>>
Objects == Components \X (0 .. MaxObjects)

Idle == [active |-> FALSE, owner |-> {}, tables |-> {}, states |-> {},
         lineage |-> FALSE, ledger |-> FALSE, writes |-> {}]

ZeroComponent ==
    [table |-> capability_table_init, count |-> 0, next |-> 0,
     mailbox |-> <<>>, dirty |-> FALSE, exited |-> FALSE]

\* domain->saved after finish: freed.
NoSaved == [comp |-> [c \in Components |-> ZeroComponent], lineage |-> {}, ledger |-> {}]

Captable(c) == [table |-> c.table, count |-> c.count, next |-> c.next]

DomainInit ==
    /\ mode = "up" /\ set = {} /\ tx = Idle /\ calls = 0 /\ faults = 0
    /\ dom = NoSaved /\ saved = NoSaved
    /\ disk = [registry |-> {}, used |-> {}, objects |-> {},
               captable |-> [c \in Components |-> Captable(ZeroComponent)],
               state |-> [c \in Components |-> <<>>],
               lineage |-> {}, hasLineage |-> FALSE, ledger |-> {}]

Fault == faults < MaxFaults /\ calls + faults < MaxCalls /\ faults' = faults + 1

-----------------------------------------------------------------------------
(* References and the consistency check of domain.c *)

RefOf(cs, c, s) == Reference(c, s, capability_table_generation(cs[c].table, s))

\* capability_domain_resolve finds a capability: the owner runs here and the
\* slot still has the generation of the reference.  (component_is_fenced is
\* false for every member: fences belong to migration.)
Resolves(members, cs, ref) ==
    /\ ref[1] \in members
    /\ capability_table_get(cs[ref[1]].table, ref[2])
    /\ capability_table_generation(cs[ref[1]].table, ref[2]) = ref[3]

CapOf(cs, ref) == cs[ref[1]].table.slots[ref[2]]

graph_matches(members, cs, graph) ==
    /\ \A e \in graph :
        /\ Resolves(members, cs, e.parent) /\ Resolves(members, cs, e.child)
        /\ CapOf(cs, e.parent).object = CapOf(cs, e.child).object
        /\ CanDerive(CapOf(cs, e.parent), CapOf(cs, e.child).rights)
    /\ \A c \in members :
        /\ capability_table_is_valid(cs[c].table)
        /\ \A s \in Slots :
            LET local == cs[c].table.parents[s]
                parents == RecordedParents(graph, RefOf(cs, c, s))
            IN  /\ local # NoSlot => parents = {RefOf(cs, c, local)}
                /\ \A p \in parents : p[1] = c => local = p[2]

\* The edges the legacy branch of capability_domain_open takes from the tables.
LocalAncestry(members, cs) ==
    UNION {{Edge(RefOf(cs, c, cs[c].table.parents[s]), RefOf(cs, c, s)) :
              s \in {x \in Slots : cs[c].table.parents[x] # NoSlot}} : c \in members}

\* capability_domain_open over resumed components: load the lineage, or build
\* and write it once, and refuse when it does not match the tables.
capability_domain_open(members, cs, d) ==
    LET edges == IF d.hasLineage THEN d.lineage ELSE LocalAncestry(members, cs)
        fits == /\ capability_derivation_table_is_valid(edges)
                /\ \A c \in members : TableFitsCount(cs[c].table, cs[c].count)
                /\ graph_matches(members, cs, edges)
    IN  /\ mode' = IF fits THEN "up" ELSE "refused"
        /\ set' = members /\ tx' = Idle /\ saved' = NoSaved
        /\ dom' = [comp |-> cs, lineage |-> edges, ledger |-> d.ledger]
        /\ disk' = [d EXCEPT !.lineage = edges, !.hasLineage = TRUE]
        /\ UNCHANGED calls

-----------------------------------------------------------------------------
(* Installation, the kernel's grants, and restart *)

\* component_capability_insert: widen the first slot that names the object, or
\* take a new one.
Inserted(c, object, rights) ==
    LET found == SlotsNaming(c.table, object)
        s == IF found # {} THEN Min(found) ELSE ClaimedSlot(c.table)
        t == IF found # {} THEN [c.table EXCEPT !.slots[s].rights = @ \cup rights]
             ELSE capability_table_insert_root(c.table, [object |-> object, rights |-> rights])
    IN  [c EXCEPT !.table = t, !.count = Max({@, s + 1}), !.dirty = TRUE]

CanInsert(c, object) ==
    /\ capability_table_is_valid(c.table)
    /\ SlotsNaming(c.table, object) # {} \/ Claimable(c.table) # {}

\* component_capability_derive, the call of a handler outside a domain.
LocallyDerived(c, slot, rights) ==
    LET s == ClaimedSlot(c.table)
    IN  [c EXCEPT !.table = capability_table_derive(c.table, slot, rights),
                  !.count = Max({@, s + 1}), !.dirty = TRUE]

\* jani_init runs before the component joins a domain: it may create an object,
\* written at once, and derive from the capability it got for it.
Initialised(c, creates, derives) ==
    LET own == [Inserted(ZeroComponent, Root(c), {"READ", "SEND"}) EXCEPT !.next = 1]
        made == [Inserted(own, <<c, 1>>, {"READ", "WRITE", "GRANT"}) EXCEPT !.next = 2]
    IN  CASE derives -> LocallyDerived(made, 1, {"READ"})
          [] creates /\ ~derives -> made
          [] OTHER -> own

\* component_install, then component_set_add and capability_domain_open.
Install(c) ==
    /\ mode = "up" /\ ~tx.active /\ c \notin disk.used
    /\ \A x \in set : ~dom.comp[x].dirty
    /\ UNCHANGED faults
    /\ \E creates \in BOOLEAN, derives \in {FALSE, InitDerives} :
        /\ derives => creates
        /\ LET new == [Initialised(c, creates, derives) EXCEPT !.dirty = FALSE]
               made == {Root(c)} \cup {o \in {<<c, 1>>} : creates}
           IN  capability_domain_open(set \cup {c}, [dom.comp EXCEPT ![c] = new],
                   [disk EXCEPT !.registry = @ \cup {c}, !.used = @ \cup {c},
                                !.objects = @ \cup made, !.captable[c] = Captable(new)])

\* The kernel gives a component the right to send to another one, outside a
\* handler: the table is dirty until the next commit.
GrantRoot(c, d) ==
    /\ mode = "up" /\ ~tx.active /\ c \in set /\ d \in set /\ c # d
    /\ CanInsert(dom.comp[c], Root(d))
    /\ dom' = [dom EXCEPT !.comp[c] = Inserted(@, Root(d), {"SEND"})]
    /\ UNCHANGED <<mode, set, tx, saved, disk, calls, faults>>

\* component_resume: a component as its table and state objects describe it.
Resumed(c) ==
    [table |-> disk.captable[c].table, count |-> disk.captable[c].count,
     next |-> disk.captable[c].next, mailbox |-> disk.state[c],
     dirty |-> FALSE, exited |-> FALSE]

\* A crash or a restart: everything the registry names is resumed from disk.
Restart ==
    /\ UNCHANGED faults
    /\ capability_domain_open(disk.registry,
        [c \in Components |-> IF c \in disk.registry THEN Resumed(c) ELSE ZeroComponent], disk)

-----------------------------------------------------------------------------
(* The transaction.  w is the working state, [dom, tx]. *)

Work == [dom |-> dom, tx |-> tx]

\* scheduler_step picks a component that may run; capability_domain_begin.
Begin(c) ==
    /\ mode = "up" /\ ~tx.active /\ c \in set /\ ~dom.comp[c].exited
    /\ tx' = [Idle EXCEPT !.active = TRUE, !.owner = c]
    /\ saved' = dom
    /\ UNCHANGED <<mode, set, dom, disk, calls, faults>>

\* capability_domain_abort; the scheduler then retires the component until the
\* next restart.
Abort(retired) ==
    /\ dom' = [saved EXCEPT !.comp = [c \in Components |->
                 [saved.comp[c] EXCEPT !.exited = @ \/ c \in retired]]]
    /\ tx' = Idle /\ saved' = NoSaved

\* The handler traps, exits, or fails in another way before the commit.
HandlerFails ==
    /\ tx.active /\ Fault /\ Abort({tx.owner})
    /\ UNCHANGED <<mode, set, disk, calls>>


DirtyTables(w) == {c \in set : w.dom.comp[c].dirty \/ c \in w.tx.tables}

\* The number of requests in the batch; the trace of the scheduler is one more.
BatchSize(w) ==
    Cardinality(w.tx.writes) + Cardinality(DirtyTables(w)) + Cardinality(w.tx.states)
      + (IF w.tx.lineage THEN 1 ELSE 0) + (IF w.tx.ledger THEN 1 ELSE 0)

\* The store after the batch: only what is marked is written.
Written(w) ==
    [disk EXCEPT
        !.objects = @ \cup w.tx.writes,
        !.captable = [c \in Components |->
                        IF c \in DirtyTables(w) THEN Captable(w.dom.comp[c]) ELSE @[c]],
        !.state = [c \in Components |->
                     IF c \in w.tx.states THEN w.dom.comp[c].mailbox ELSE @[c]],
        !.lineage = IF w.tx.lineage THEN w.dom.lineage ELSE @,
        !.ledger = IF w.tx.ledger THEN w.dom.ledger ELSE @]

\* The batch can be built: the graph matches and everything encodes and fits.
Acceptable(w, extra) ==
    /\ graph_matches(set, w.dom.comp, w.dom.lineage)
    /\ BatchSize(w) + extra <= BatchMax
    /\ \A c \in DirtyTables(w) : TableFitsCount(w.dom.comp[c].table, w.dom.comp[c].count)
    /\ w.tx.lineage => capability_derivation_table_is_valid(w.dom.lineage)

CleanDomain(d) ==
    [d EXCEPT !.comp = [c \in Components |-> [@[c] EXCEPT !.dirty = FALSE]]]

\* The end of scheduler_step: the state of the owner and the trace join the
\* batch, and capability_domain_commit gets one of the store's three answers.
Commit ==
    LET w == [Work EXCEPT !.tx.states = @ \cup {tx.owner}]
    IN  /\ tx.active
        /\ \/ /\ Acceptable(w, 1)
              /\ disk' = Written(w) /\ dom' = CleanDomain(dom)
              /\ tx' = Idle /\ saved' = NoSaved
              /\ UNCHANGED <<mode, set, faults>>
           \/ /\ Abort({tx.owner})                              \* rejected
              /\ IF Acceptable(w, 1) THEN Fault ELSE UNCHANGED faults
              /\ UNCHANGED <<mode, set, disk>>
           \/ /\ Acceptable(w, 1)                               \* recovery required
              /\ Fault /\ mode' = "halted" /\ Abort({tx.owner})
              /\ disk' \in {disk, Written(w)}
              /\ UNCHANGED set
        /\ UNCHANGED calls

-----------------------------------------------------------------------------
(* The operations of domain.c a handler reaches *)

\* capability_domain_use: the attempt is recorded, allowed or not; a new object
\* needs a free bucket, and without one the use is refused.
HasBucket(w, object) == object \in w.dom.ledger \/ Cardinality(w.dom.ledger) < LedgerMax

Recorded(w, object) ==
    IF HasBucket(w, object)
    THEN [w EXCEPT !.dom.ledger = @ \cup {object}, !.tx.ledger = TRUE] ELSE w

capability_domain_use(w, cap, rights) ==
    HasBucket(w, cap.object) /\ capability_allows(cap, rights)

\* capability_domain_write: the object is staged already, or there is room.
capability_domain_write(w, object) ==
    object \in w.tx.writes \/ Cardinality(w.tx.writes) < BatchMax

\* capability_domain_read sees the staged writes over the store.
capability_domain_read(w, object) == object \in w.tx.writes \cup disk.objects

capability_domain_derive(w, c, slot, rights) ==
    LET t == w.dom.comp[c].table
        s == ClaimedSlot(t)
        parent == RefOf(w.dom.comp, c, slot)
        child == Reference(c, s, t.generations[s] + 1)
    IN  IF Claimable(t) # {} /\ CanAddDerivation(w.dom.lineage, parent, child)
        THEN [w EXCEPT !.dom.comp[c].table = capability_table_derive(t, slot, rights),
                       !.dom.comp[c].count = Max({@, s + 1}),
                       !.dom.lineage = capability_derivation_add(@, parent, child),
                       !.tx.lineage = TRUE, !.tx.tables = @ \cup {c}]
        ELSE w

\* capability_domain_send of a message with or without a capability.
capability_domain_send(w, c, d, source, rights) ==
    LET sender == w.dom.comp[c]
        t == w.dom.comp[d].table
        cap == sender.table.slots[source]
        s == ClaimedSlot(t)
        parent == RefOf(w.dom.comp, c, source)
        child == Reference(d, s, t.generations[s] + 1)
        push(x, slot, granted) ==
            [x EXCEPT !.dom.comp[d].mailbox = Append(@, [slot |-> slot, granted |-> granted]),
                      !.tx.states = @ \cup {d}]
    IN  IF Len(w.dom.comp[d].mailbox) = MailboxMax THEN w
        ELSE IF source = NoSlot THEN push(w, NoSlot, 0)
        ELSE IF /\ capability_table_get(sender.table, source) /\ CanDerive(cap, rights)
                /\ capability_domain_read(w, cap.object)
                /\ Claimable(t) # {} /\ CanAddDerivation(w.dom.lineage, parent, child)
        THEN push([w EXCEPT
                    !.dom.comp[d].table = WithCapability(t, DerivedCapability(cap, rights),
                                                         IF c = d THEN source ELSE NoSlot),
                    !.dom.comp[d].count = Max({@, s + 1}),
                    !.dom.lineage = capability_derivation_add(@, parent, child),
                    !.tx.lineage = TRUE, !.tx.tables = @ \cup {d}], s, child[3])
        ELSE w

\* Mutant: queued messages keep the slot.
KeepAttachment(mailbox, cleared) == mailbox

\* strip_attachment: a queued message no longer names a cleared slot.
strip_attachment(mailbox, cleared) ==
    [i \in DOMAIN mailbox |-> IF mailbox[i].slot \in cleared
                              THEN [slot |-> NoSlot, granted |-> 0] ELSE mailbox[i]]

\* Mutant: only what the component itself derived goes.
RevokedLocally(w, c, slots) ==
    {RefOf(w.dom.comp, c, s) : s \in UNION {LocalSubtree(w.dom.comp[c].table, x) : x \in slots}}

\* What a revocation takes: the slots and all that was derived from them.
Revoked(w, c, slots) ==
    LET roots == {RefOf(w.dom.comp, c, s) : s \in slots}
    IN  roots \cup UNION {Descendants(w.dom.lineage, r) : r \in roots}

\* capability_domain_revoke: the slots, everything derived from them in any
\* table, and the queued attachments that name any of it.
capability_domain_revoke(w, c, slots) ==
    LET gone == Revoked(w, c, slots)
        cleared(d) == {r[2] : r \in {x \in gone : x[1] = d}}
        owners == {r[1] : r \in gone}
        after(d) == LET t == ClearSlots(w.dom.comp[d].table, cleared(d))
                    IN  [w.dom.comp[d] EXCEPT
                           !.table = t, !.count = ShrunkCount(t, @),
                           !.mailbox = strip_attachment(@, cleared(d))]
    IN  IF \E r \in gone : ~Resolves(set, w.dom.comp, r) THEN w
        ELSE [w EXCEPT
                !.dom.comp = [d \in Components |-> IF d \in owners THEN after(d) ELSE @[d]],
                !.dom.lineage = {e \in @ : e.child \notin gone},
                !.tx.lineage = TRUE, !.tx.tables = @ \cup owners,
                !.tx.states = @ \cup {d \in owners :
                                         after(d).mailbox # w.dom.comp[d].mailbox}]

\* capability_domain_uninstall: revoke everything the component holds, commit,
\* take it off the registry, delete its module, and only then drop it from the
\* set.  Each store call may fail, or need recovery with its outcome unknown.
Uninstall(c) ==
    LET held == {s \in Slots : capability_table_get(dom.comp[c].table, s)}
        w == capability_domain_revoke([dom |-> dom, tx |-> Idle], c, held)
        unregistered == [Written(w) EXCEPT !.registry = @ \ {c}]
        dropped == [CleanDomain(w.dom) EXCEPT !.comp[c] = ZeroComponent]
    IN  /\ mode = "up" /\ ~tx.active /\ c \in set /\ c \in disk.registry
        /\ Acceptable(w, 0)
        /\ \/ /\ disk' = unregistered /\ dom' = dropped /\ set' = set \ {c}
              /\ UNCHANGED <<mode, faults>>
           \/ /\ Fault /\ disk' = Written(w) /\ dom' = CleanDomain(w.dom)    \* registry not written
              /\ UNCHANGED <<mode, set>>
           \/ /\ DeleteFails /\ Fault                                     \* module not deleted
              /\ disk' = unregistered /\ dom' = CleanDomain(w.dom)
              /\ UNCHANGED <<mode, set>>
           \/ /\ Fault /\ mode' = "halted" /\ dom' = dom                    \* recovery required
              /\ disk' \in {disk, Written(w), unregistered}
              /\ UNCHANGED set
        /\ UNCHANGED <<tx, saved, calls>>

-----------------------------------------------------------------------------
(* The system calls of syscalls.c that reach the domain *)

\* slot_object: the guest names a live slot below its slot count.
slot_object(c, s) ==
    s < dom.comp[c].count /\ capability_table_get(dom.comp[c].table, s)

Call(w) ==
    /\ calls' = calls + 1 /\ dom' = w.dom /\ tx' = w.tx
    /\ UNCHANGED <<mode, set, saved, disk, faults>>

\* jani_object_create: capability first, then the staged object.
jani_object_create(c) ==
    LET id == <<c, dom.comp[c].next>>
    IN  /\ dom.comp[c].next \in 1 .. MaxObjects
        /\ CanInsert(dom.comp[c], id) /\ capability_domain_write(Work, id)
        /\ Call([Work EXCEPT
                   !.dom.comp[c] = [Inserted(@, id, {"READ", "WRITE", "GRANT"}) EXCEPT !.next = @ + 1],
                   !.tx.writes = @ \cup {id}])

\* jani_object_read and jani_object_size.
jani_object_read(c, s) ==
    /\ slot_object(c, s)
    /\ Call(Recorded(Work, dom.comp[c].table.slots[s].object))

jani_object_write(c, s) ==
    LET cap == dom.comp[c].table.slots[s]
        w == Recorded(Work, cap.object)
        stored == /\ capability_domain_use(Work, cap, {"WRITE"})
                  /\ capability_domain_read(w, cap.object)
                  /\ capability_domain_write(w, cap.object)
    IN  /\ slot_object(c, s)
        /\ Call(IF stored THEN [w EXCEPT !.tx.writes = @ \cup {cap.object}] ELSE w)

jani_cap_drop(c, s) ==
    /\ slot_object(c, s)
    /\ Call(capability_domain_revoke(Work, c, {s}))

jani_cap_derive(c, s, rights) ==
    LET cap == dom.comp[c].table.slots[s]
        w == Recorded(Work, cap.object)
    IN  /\ slot_object(c, s) /\ CanDerive(cap, rights)
        /\ Call(IF capability_domain_use(Work, cap, {"GRANT"})
                THEN capability_domain_derive(w, c, s, rights) ELSE w)

jani_cap_revoke(c, s) ==
    LET cap == dom.comp[c].table.slots[s]
        w == Recorded(Work, cap.object)
    IN  /\ slot_object(c, s) /\ capability_allows(cap, {"GRANT"})
        /\ Call(IF capability_domain_use(Work, cap, {"GRANT"})
                THEN capability_domain_revoke(w, c, {s}) ELSE w)

jani_message_send(c, target, source, rights) ==
    LET cap == dom.comp[c].table.slots[target]
        w == Recorded(Work, cap.object)
        d == cap.object[1]
        reaches == /\ capability_domain_use(Work, cap, {"SEND"})
                   /\ cap.object = Root(d) /\ d \in set /\ ~dom.comp[d].exited
    IN  /\ slot_object(c, target)
        /\ Call(IF reaches THEN capability_domain_send(w, c, d, source, rights) ELSE w)

jani_message_recv(c) ==
    /\ dom.comp[c].mailbox # <<>>
    /\ Call([Work EXCEPT !.dom.comp[c].mailbox = Tail(@)])

SystemCall(c) ==
    \/ jani_object_create(c)
    \/ jani_message_recv(c)
    \/ \E s \in Slots : \/ jani_object_read(c, s)
                        \/ jani_object_write(c, s)
                        \/ jani_cap_drop(c, s)
                        \/ jani_cap_revoke(c, s)
                        \/ jani_message_send(c, s, NoSlot, {})
    \/ \E s \in Slots, rights \in ChildRights :
          \/ jani_cap_derive(c, s, rights)
          \/ \E target \in Slots : jani_message_send(c, target, s, rights)

DomainNext ==
    \/ \E c \in Components : Install(c) \/ Begin(c) \/ Uninstall(c)
    \/ \E c, d \in Components : GrantRoot(c, d)
    \/ tx.active /\ calls + faults < MaxCalls /\ SystemCall(tx.owner)
    \/ HandlerFails \/ Commit \/ Restart

DomainSpec == DomainInit /\ [][DomainNext]_domainVars

-----------------------------------------------------------------------------
(* Properties *)

Message == [slot : Slots \cup {NoSlot}, granted : 0 .. MaxGeneration]

DomainState ==
    [comp : [Components -> [table : Table(Objects), count : 0 .. SlotCount,
                            next : 0 .. MaxObjects + 1, mailbox : Seq(Message),
                            dirty : BOOLEAN, exited : BOOLEAN]],
     lineage : SUBSET [parent : Components \X Slots \X (1 .. MaxGeneration),
                       child : Components \X Slots \X (1 .. MaxGeneration)],
     ledger : SUBSET Objects]

\* Type correctness: the live components, the lineage, the ledger and their
\* saved copy have the shapes of struct component and struct capability_domain,
\* and every bound of the structs holds.
DomainTypeOK ==
    /\ mode \in {"up", "halted", "refused"} /\ set \subseteq Components
    /\ dom \in DomainState /\ saved \in DomainState
    /\ \A c \in Components : Len(dom.comp[c].mailbox) <= MailboxMax
    /\ Cardinality(dom.lineage) <= DerivationMax /\ Cardinality(dom.ledger) <= LedgerMax

\* Between handlers the store holds what runs: the commit of domain.c marks
\* everything the calls of the handler changed, in any component, so a crash
\* loses nothing.  Only a table the kernel widened outside a handler waits, and
\* then its capabilities_dirty says so.
LiveIsDurable ==
    mode = "up" /\ ~tx.active =>
        /\ dom.lineage = disk.lineage /\ dom.ledger = disk.ledger
        /\ \A c \in set :
             /\ dom.comp[c].mailbox = disk.state[c]
             /\ Captable(dom.comp[c]) = disk.captable[c] \/ dom.comp[c].dirty

\* Whatever was committed before a restart, component_captable_read and the
\* graph_matches of capability_domain_open accept it.
RestartReopens == mode # "refused"

\* At every moment, inside a handler too, every derivation resolves to live
\* slots, the child's rights are among its parent's, and the local parents of
\* the tables agree with the lineage: the check of commit never fails.
LineageMatchesTables == mode = "up" => graph_matches(set, dom.comp, dom.lineage)

\* A capability attached to a queued message is the one that was granted with
\* it: revoking it, or dropping it unread, strips the message, so a reused slot
\* is never handed over by an old message.
AttachmentsAreGranted ==
    mode = "up" => \A c \in set : \A i \in DOMAIN dom.comp[c].mailbox :
        LET m == dom.comp[c].mailbox[i]
        IN  m.slot # NoSlot => capability_table_generation(dom.comp[c].table, m.slot) = m.granted

\* No table on disk names an object that is not: jani_object_create commits the
\* capability and the object in one batch or not at all.
DurableCapabilitiesHaveObjects ==
    \A c \in disk.registry : \A s \in Slots :
        LET cap == disk.captable[c].table.slots[s]
        IN  cap # NoCap => cap.object \in disk.objects

LiveRefs == {r \in {RefOf(dom.comp, c, s) : c \in set, s \in Slots} : r[3] # 0}

\* Revocation is complete: in whatever step a reference stops resolving, by
\* jani_cap_revoke, jani_cap_drop, uninstall, abort or restart, everything that
\* was derived from it, in any component, stops resolving in the same step.
RevocationIsComplete ==
    [][mode' # "refused" => \A r \in LiveRefs : ~Resolves(set', dom'.comp, r) =>
         \A d \in Descendants(dom.lineage, r) : ~Resolves(set', dom'.comp, d)]_domainVars

\* A durable reference (owner, slot, generation) names one capability for ever:
\* on disk a slot's generation never goes back, and under one generation the
\* slot never changes to another object or comes back after it was cleared.
ReferencesAreNeverReused ==
    [][\A c \in disk.registry \cap disk'.registry : \A s \in Slots :
         LET t == disk.captable[c].table
             u == disk'.captable[c].table
         IN  /\ u.generations[s] >= t.generations[s]
             /\ u.generations[s] = t.generations[s] =>
                  u.slots[s].object \in {t.slots[s].object, NoObject}]_domainVars

\* The tables, the lineage and the queued messages of all components describe
\* one set of capabilities, inside a handler and between handlers.
CapabilitiesAgree == DomainTypeOK /\ LineageMatchesTables /\ AttachmentsAreGranted

=============================================================================
