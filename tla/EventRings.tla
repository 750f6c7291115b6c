----------------------------- MODULE EventRings -----------------------------
(***************************************************************************)
(* The two logs a component can query: the provenance ledger, which has a  *)
(* ring of events per object (kernel/cap/provenance.c), and the trace of   *)
(* the scheduler, one ring for all components (kernel/sched/scheduler.c).  *)
(*                                                                         *)
(* A handler runs as a transaction.  The ledger is saved when it begins,   *)
(* restored when it fails, and written when it was appended to; the trace  *)
(* is staged with every commit and is never taken back, so that a failure  *)
(* stays visible.  Both are validated when they are read again at boot.    *)
(*                                                                         *)
(* An event is who did it and a stamp that stands for its time, operation  *)
(* and result.  `past' is a ghost: the events a log was given, oldest      *)
(* first.  It travels with the log it describes.                           *)
(***************************************************************************)
EXTENDS Naturals, Sequences, FiniteSets, SequencesExt

CONSTANTS Recorders,    \* the components of the domain, a sequence
          RingObjects,  \* the objects whose uses are recorded
          NoBucket,     \* the zero object id
          PROVENANCE_OBJECTS, PROVENANCE_EVENTS, SCHED_TRACE_MAX,
          MaxEvents,    \* events given to either log
          MaxLogFaults  \* commits that fail with the outcome unknown

ASSUME RingSizes ==
    /\ PROVENANCE_OBJECTS \in Nat \ {0} /\ PROVENANCE_EVENTS \in Nat \ {0}
    /\ SCHED_TRACE_MAX \in Nat \ {0} /\ NoBucket \notin RingObjects

VARIABLES ledger,    \* domain->provenance
          trace,     \* trace, trace_count and trace_next of the scheduler
          logSaved,  \* domain->saved_provenance
          dirty,     \* domain->provenance_dirty
          runner,    \* the component whose handler runs, or 0
          halted,    \* domain->halted
          logDisk,   \* the two objects in the store
          stamp,     \* the next event's stamp
          logFaults  \* failed commits with unknown outcome so far

ringsVars == <<ledger, trace, logSaved, dirty, runner, halted, logDisk, stamp, logFaults>>

Buckets == 0 .. PROVENANCE_OBJECTS - 1

NoEvent == [by |-> 0, stamp |-> 0]

EmptyRing(size) == [count |-> 0, next |-> 0, events |-> [i \in 0 .. size - 1 |-> NoEvent]]

Pushed(ring, size, event) ==
    [count |-> IF ring.count < size THEN ring.count + 1 ELSE ring.count,
     next |-> (ring.next + 1) % size,
     events |-> [ring.events EXCEPT ![ring.next] = event]]

\* The index of the event of the given age, 0 for the newest.
Aged(ring, size, age) == (ring.next + size - age - 1) % size

EmptyLedger ==
    [object |-> [b \in Buckets |-> NoBucket],
     ring |-> [b \in Buckets |-> EmptyRing(PROVENANCE_EVENTS)],
     past |-> [o \in RingObjects |-> <<>>]]

EmptyTrace == [ring |-> EmptyRing(SCHED_TRACE_MAX), past |-> <<>>]

------------------------------------------------------------------------------
(* The ledger *)

\* The bucket of an object: its own, else the first free one, else none.
Candidates(l, o) ==
    LET own == {b \in Buckets : l.object[b] = o}
        free == {b \in Buckets : l.object[b] = NoBucket}
    IN  IF own # {} THEN own ELSE {b \in free : \A c \in free : b <= c}

provenance_append(l, o, event) ==
    LET b == CHOOSE x \in Candidates(l, o) : TRUE
    IN  [object |-> [l.object EXCEPT ![b] = o],
         ring |-> [l.ring EXCEPT ![b] = Pushed(@, PROVENANCE_EVENTS, event)],
         past |-> [l.past EXCEPT ![o] = Append(@, event)]]

provenance_query(l, o, age) ==
    LET found == {b \in Buckets : l.object[b] = o /\ age < l.ring[b].count}
    IN  IF found = {} THEN NoEvent
        ELSE LET r == l.ring[CHOOSE b \in found : TRUE]
             IN  r.events[Aged(r, PROVENANCE_EVENTS, age)]

\* What a ring of the given size must look like on disk.
RingValid(r, size) ==
    /\ r.count <= size /\ r.next < size /\ (r.count < size => r.next = r.count)
    /\ \A i \in 0 .. size - 1 : (i >= r.count) = (r.events[i] = NoEvent)

provenance_validate(l) ==
    /\ \A b \in Buckets :
          IF l.object[b] = NoBucket THEN l.ring[b] = EmptyRing(PROVENANCE_EVENTS)
          ELSE l.ring[b].count > 0 /\ RingValid(l.ring[b], PROVENANCE_EVENTS)
    /\ \A b, c \in Buckets : l.object[b] = l.object[c] => b = c \/ l.object[b] = NoBucket

------------------------------------------------------------------------------
(* The trace *)

emit_trace(t, event) ==
    [ring |-> Pushed(t.ring, SCHED_TRACE_MAX, event), past |-> Append(t.past, event)]

\* Walks from the newest event to the oldest and counts the owner's.
scheduler_trace_query(t, owner, age) ==
    LET at(i) == t.ring.events[Aged(t.ring, SCHED_TRACE_MAX, i)]
        mine == {i \in 0 .. t.ring.count - 1 : at(i).by = owner}
        hits == {i \in mine : Cardinality({j \in mine : j < i}) = age}
    IN  IF hits = {} THEN NoEvent ELSE at(CHOOSE i \in hits : TRUE)

scheduler_trace_validate(t) == RingValid(t.ring, SCHED_TRACE_MAX)

------------------------------------------------------------------------------
(* Handlers *)

RingsInit ==
    /\ ledger = EmptyLedger /\ trace = EmptyTrace /\ logSaved = EmptyLedger
    /\ dirty = FALSE /\ runner = 0 /\ halted = FALSE
    /\ logDisk = [ledger |-> EmptyLedger, trace |-> EmptyTrace]
    /\ stamp = 1 /\ logFaults = 0

\* The waits of the components in `who' whose reason changed, then, when a
\* handler is chosen, its begin and its run.
Traced(who) == FoldLeft(LAMBDA t, c : emit_trace(t, [by |-> c, stamp |-> stamp]), trace, who)

Waiting(who) == SelectSeq(Recorders, LAMBDA c : c \in who)

scheduler_step(c, who) ==
    /\ runner = 0 /\ ~halted /\ stamp <= MaxEvents
    /\ trace' = Traced(Waiting(who \ {c}) \o <<c>>)
    /\ runner' = c /\ logSaved' = ledger /\ dirty' = FALSE
    /\ stamp' = stamp + 1
    /\ UNCHANGED <<ledger, halted, logDisk, logFaults>>

\* A step that chooses nobody; a service swap traces one component like this.
NothingRuns(who) ==
    /\ runner = 0 /\ ~halted /\ stamp <= MaxEvents /\ who # {}
    /\ trace' = Traced(Waiting(who)) /\ stamp' = stamp + 1
    /\ UNCHANGED <<ledger, logSaved, dirty, runner, halted, logDisk, logFaults>>

\* Mutant: the ledger is not marked when the object has a bucket already.
UseUnmarked(o) ==
    /\ runner # 0 /\ stamp <= MaxEvents /\ Candidates(ledger, o) # {}
    /\ ledger' = provenance_append(ledger, o, [by |-> runner, stamp |-> stamp])
    /\ dirty' = (dirty \/ \A b \in Buckets : ledger.object[b] # o)
    /\ stamp' = stamp + 1
    /\ UNCHANGED <<trace, logSaved, runner, halted, logDisk, logFaults>>

\* A use of a capability for o; refused, and not recorded, without a bucket.
RecordUse(o) ==
    /\ runner # 0 /\ stamp <= MaxEvents /\ Candidates(ledger, o) # {}
    /\ ledger' = provenance_append(ledger, o, [by |-> runner, stamp |-> stamp])
    /\ dirty' = TRUE /\ stamp' = stamp + 1
    /\ UNCHANGED <<trace, logSaved, runner, halted, logDisk, logFaults>>

\* An allocation of the running guest.
account_allocation ==
    /\ runner # 0 /\ stamp <= MaxEvents
    /\ trace' = Traced(<<runner>>) /\ stamp' = stamp + 1
    /\ UNCHANGED <<ledger, logSaved, dirty, runner, halted, logDisk, logFaults>>

\* trace_stage and the ledger in the batch of the commit.
Staged == [ledger |-> IF dirty THEN ledger ELSE logDisk.ledger, trace |-> trace]

CommitLogs ==
    /\ runner # 0
    /\ logDisk' = Staged /\ runner' = 0
    /\ UNCHANGED <<ledger, trace, logSaved, dirty, halted, stamp, logFaults>>

\* The handler fails or its batch is rejected, or the batch's outcome is
\* unknown and the domain halts: abort, and TRACE_FAIL.
Fail ==
    /\ runner # 0 /\ stamp <= MaxEvents
    /\ ledger' = logSaved /\ runner' = 0
    /\ trace' = Traced(<<runner>>) /\ stamp' = stamp + 1
    /\ \/ UNCHANGED <<logDisk, halted, logFaults>>
       \/ /\ logFaults < MaxLogFaults /\ logFaults' = logFaults + 1
          /\ halted' = TRUE /\ logDisk' \in {logDisk, Staged}
    /\ UNCHANGED <<logSaved, dirty>>

\* scheduler_init and capability_domain_open read what is there.
RestartLogs ==
    /\ scheduler_trace_validate(logDisk.trace) /\ provenance_validate(logDisk.ledger)
    /\ ledger' = logDisk.ledger /\ trace' = logDisk.trace /\ logSaved' = EmptyLedger
    /\ dirty' = FALSE /\ runner' = 0 /\ halted' = FALSE
    /\ UNCHANGED <<logDisk, stamp, logFaults>>

RingsNext ==
    \/ \E c \in ToSet(Recorders), who \in SUBSET ToSet(Recorders) : scheduler_step(c, who)
    \/ \E who \in SUBSET ToSet(Recorders) : NothingRuns(who)
    \/ \E o \in RingObjects : RecordUse(o)
    \/ account_allocation \/ CommitLogs \/ Fail \/ RestartLogs

RingsSpec == RingsInit /\ [][RingsNext]_ringsVars

------------------------------------------------------------------------------
(* Properties *)

RingType(size) == [count : 0 .. size, next : 0 .. size - 1,
                   events : [0 .. size - 1 -> [by : Nat, stamp : Nat]]]

\* Types of the logs, in memory and on disk.
RingsTypeOK ==
    /\ \A l \in {ledger, logSaved, logDisk.ledger} : \A b \in Buckets :
          l.object[b] \in RingObjects \cup {NoBucket} /\ l.ring[b] \in RingType(PROVENANCE_EVENTS)
    /\ \A t \in {trace, logDisk.trace} : t.ring \in RingType(SCHED_TRACE_MAX)
    /\ runner \in ToSet(Recorders) \cup {0} /\ dirty \in BOOLEAN /\ halted \in BOOLEAN

\* The age-th event from the end of a sequence that remembers `size' events.
Recent(past, size, age) ==
    IF age < size /\ age < Len(past) THEN past[Len(past) - age] ELSE NoEvent

\* provenance_query and scheduler_trace_query return the event of that age, as
\* long as their rings remember it, and none beyond: no wrap, restart, failed
\* handler or event of another object or component changes which.
QueriesRecall ==
    /\ \A l \in {ledger, logDisk.ledger}, o \in RingObjects, age \in 0 .. PROVENANCE_EVENTS :
          provenance_query(l, o, age) = Recent(l.past[o], PROVENANCE_EVENTS, age)
    /\ \A t \in {trace, logDisk.trace}, c \in ToSet(Recorders), age \in 0 .. SCHED_TRACE_MAX :
          LET kept == SubSeq(t.past, IF Len(t.past) > SCHED_TRACE_MAX
                                     THEN Len(t.past) - SCHED_TRACE_MAX + 1 ELSE 1, Len(t.past))
              mine == SelectSeq(kept, LAMBDA e : e.by = c)
          IN  scheduler_trace_query(t, c, age) = Recent(mine, SCHED_TRACE_MAX, age)

\* What the commits write is accepted when it is read at boot: no sequence of
\* handlers leaves a log that keeps the domain or the scheduler from starting.
LogsReload == scheduler_trace_validate(logDisk.trace) /\ provenance_validate(logDisk.ledger)

\* Between handlers the ledger in memory is the durable one, unless the
\* outcome of a commit is unknown: a failed handler leaves nothing in it.
LedgerIsCommitted == runner = 0 /\ ~halted => ledger = logDisk.ledger

\* The logs recall: queries answer with the events that were recorded, a commit
\* keeps them and a failed handler leaves none, and a restart reads them back.
LogsRecall == RingsTypeOK /\ QueriesRecall /\ LogsReload /\ LedgerIsCommitted
=============================================================================
