------------------------------ MODULE Replica ------------------------------
(***************************************************************************)
(* The replication of objects between a pair of nodes: kernel/net/         *)
(* replica.c over the data types of module Crdt.                           *)
(*                                                                         *)
(* Each node has a catalog of scopes (an object, the epoch of its grant    *)
(* and the rights of the peer) and one state per scope, all of it in its   *)
(* object store.  The owner of an object shares it with rights; grants and *)
(* summaries are sent round and round, and a summary that differs is       *)
(* answered by an update with the whole state, which is merged.            *)
(*                                                                         *)
(* A batch commits, is rejected, or leaves the store in need of recovery   *)
(* with its outcome unknown, and the node halted until it restarts.        *)
(* Packets of an established session arrive in order, at most once, or not *)
(* at all (module NetSession); a session ends when either node restarts.   *)
(* The digest in a summary stands for the state it is the digest of.       *)
(***************************************************************************)
EXTENDS Crdt, Sequences, SequencesExt

CONSTANTS Objects,            \* the objects created
          Owner,              \* [Objects -> Node]
          Kind,               \* [Objects -> {"LWW", "ORSET"}]
          Values,             \* what is written and added
          SharedRights,       \* the rights given, sets of "READ" and "WRITE"
          ObjectsMax,         \* REPLICA_OBJECTS_MAX, 8
          MaxEdits,           \* bound: edits
          MaxShares,          \* bound: changes of a grant
          MaxReplicaFlight,   \* bound: replies, and other packets, in flight in one direction
          MaxReplicaCrashes,  \* bound: crashes
          MaxReplicaFaults    \* bound: batches rejected or left to recovery

ASSUME ReplicaConstants ==
    /\ Owner \in [Objects -> Node] /\ Kind \in [Objects -> {"LWW", "ORSET"}]
    /\ SharedRights \subseteq SUBSET {"READ", "WRITE"}
    /\ ObjectsMax \in Nat \ {0} /\ DotsMax \in Nat
    /\ MaxEdits \in Nat /\ MaxShares \in Nat /\ MaxReplicaFlight \in Nat \ {0}
    /\ MaxReplicaCrashes \in Nat /\ MaxReplicaFaults \in Nat

VARIABLES
    disk,         \* per node the catalog and the states, as committed
    mem,          \* per node struct replica: catalog, position, halted
    flight,       \* per node the packets on the way to it
    replicaLink,  \* per node "fresh", or "bound" to a boot of the other
    history,      \* ghost: the edits that were committed
    replicaSpent  \* what the bounds count

replicaVars == <<disk, mem, flight, replicaLink, history, replicaSpent>>

Other(n) == 1 - n

NoState == [kind |-> "none"]

\* Position 0 .. 2c-1 of the round over c scopes: the grants, then the
\* summaries (cursor and send_grant).
replica_open(d) == [catalog |-> d.catalog, pos |-> 0, halted |-> FALSE]

Blank == [catalog |-> <<>>, state |-> [o \in Objects |-> NoState]]

ReplicaInit ==
    /\ disk = [n \in Node |-> Blank]
    /\ mem = [n \in Node |-> replica_open(Blank)]
    /\ flight = [n \in Node |-> <<>>]
    /\ replicaLink = [n \in Node |-> "fresh"]
    /\ history = {}
    /\ replicaSpent = [edits |-> 0, shares |-> 0, crashes |-> 0, faults |-> 0]

ReplicaLinked == \A n \in Node : replicaLink[n] = "bound"

-----------------------------------------------------------------------------
(* Catalogs *)

Positions(c, o) == {i \in DOMAIN c : c[i].id = o}
Has(c, o) == Positions(c, o) # {}

\* find_scope
find_scope(c, o) == c[CHOOSE i \in Positions(c, o) : TRUE]

Owned(n, o) == Owner[o] = n
CanSend(n, s) == (IF Owned(n, s.id) THEN "READ" ELSE "WRITE") \in s.rights
CanReceive(n, s) == (IF Owned(n, s.id) THEN "WRITE" ELSE "READ") \in s.rights

\* What decode and replica_open check of a store.
CatalogValid(d) ==
    /\ Len(d.catalog) <= ObjectsMax
    /\ \A i, j \in DOMAIN d.catalog : d.catalog[i].id = d.catalog[j].id => i = j
    /\ \A i \in DOMAIN d.catalog :
          /\ d.catalog[i].epoch > 0
          /\ LET s == d.state[d.catalog[i].id]
             IN  s.kind = Kind[d.catalog[i].id] /\ valid(s)

ReplicaFault ==
    /\ replicaSpent.faults < MaxReplicaFaults
    /\ replicaSpent' = [replicaSpent EXCEPT !.faults = @ + 1]

Changed(old, new) ==
    CHOOSE i \in DOMAIN new : /\ i > Len(old) \/ old[i] # new[i]
                              /\ \A j \in 1 .. i - 1 : j <= Len(old) /\ old[j] = new[j]

\* publish: one batch with the catalog, a state, or both.  After a change of
\* the catalog the round starts again at the scope that changed.
publish(n, new, edits, count) ==
    \/ /\ disk' = [disk EXCEPT ![n] = new]
       /\ mem' = IF new.catalog = mem[n].catalog THEN mem
                 ELSE [mem EXCEPT ![n].catalog = new.catalog,
                                  ![n].pos = Changed(mem[n].catalog, new.catalog) - 1]
       /\ history' = history \cup edits /\ replicaSpent' = count
    \/ ReplicaFault /\ UNCHANGED <<disk, mem, history>>
    \/ /\ ReplicaFault /\ mem' = [mem EXCEPT ![n].halted = TRUE]
       /\ \/ UNCHANGED <<disk, history>>
          \/ disk' = [disk EXCEPT ![n] = new] /\ history' = history \cup edits

-----------------------------------------------------------------------------
(* The coordinator's calls *)

replica_create(n, o) ==
    /\ ~mem[n].halted /\ Owned(n, o) /\ disk[n].state[o] = NoState
    /\ Len(mem[n].catalog) < ObjectsMax
    /\ publish(n, [catalog |-> Append(mem[n].catalog, [id |-> o, epoch |-> 1, rights |-> {}]),
                   state |-> [disk[n].state EXCEPT ![o] = net_crdt_init(Kind[o])]], {}, replicaSpent)
    /\ UNCHANGED <<flight, replicaLink>>

\* New rights are a new epoch.
Shared(s, rights) == [s EXCEPT !.epoch = @ + 1, !.rights = rights]

replica_share(n, o, rights) ==
    LET c == mem[n].catalog
    IN  /\ ~mem[n].halted /\ Owned(n, o) /\ Has(c, o) /\ find_scope(c, o).rights # rights
        /\ replicaSpent.shares < MaxShares
        /\ publish(n, [disk[n] EXCEPT !.catalog =
                          [i \in DOMAIN c |-> IF c[i].id = o THEN Shared(c[i], rights) ELSE c[i]]],
                   {}, [replicaSpent EXCEPT !.shares = @ + 1])
        /\ UNCHANGED <<flight, replicaLink>>

\* The edits of mutate that succeed, with what the history records of each.
Edits(n, s) ==
    IF s.kind = "LWW"
    THEN {[state |-> net_crdt_set(s, n, v),
           done |-> [op |-> "set", value |-> v, observed |-> {}]] : v \in Values}
    ELSE {[state |-> net_crdt_add(s, n, v),
           done |-> [op |-> "add", value |-> v, observed |-> {}]] :
             v \in IF HasRoom(s) THEN Values ELSE {}}
         \cup {[state |-> net_crdt_remove(s, n, v),
                done |-> [op |-> "remove", value |-> v,
                          observed |-> {Key(d) : d \in Observed(s, v)}]] : v \in Values}

\* replica_set, replica_add and replica_remove.
mutate(n, o) ==
    LET c == mem[n].catalog
        s == disk[n].state[o]
    IN  /\ ~mem[n].halted /\ Has(c, o) /\ replicaSpent.edits < MaxEdits
        /\ Owned(n, o) \/ "WRITE" \in find_scope(c, o).rights
        /\ \E e \in Edits(n, s) :
              publish(n, [disk[n] EXCEPT !.state[o] = e.state],
                      IF e.done.op = "remove" /\ e.done.observed = {} THEN {}
                      ELSE {[id |-> o, node |-> n, counter |-> s.vector[n] + 1,
                             timestamp |-> s.timestamp + 1, done |-> e.done]},
                      [replicaSpent EXCEPT !.edits = @ + 1])
        /\ UNCHANGED <<flight, replicaLink>>

-----------------------------------------------------------------------------
(* Packets *)

Sends(n, pos) ==
    LET c == mem[n].catalog
        s == c[(pos % Len(c)) + 1]
    IN  IF pos < Len(c) THEN Owned(n, s.id) /\ (s.rights # {} \/ s.epoch > 1) ELSE s.rights # {}

\* The packet a position stands for.
PacketAt(n, pos) ==
    LET c == mem[n].catalog
        s == c[(pos % Len(c)) + 1]
    IN  IF pos < Len(c)
        THEN [kind |-> "GRANT", id |-> s.id, epoch |-> s.epoch, rights |-> s.rights]
        ELSE [kind |-> "SUMMARY", id |-> s.id, epoch |-> s.epoch, state |-> disk[n].state[s.id]]

\* There is room on the way for replies, and for the packets of the round.
Room(queue, kinds) == Len(SelectSeq(queue, LAMBDA p : p.kind \in kinds)) < MaxReplicaFlight

PutReplica(queue, p) == IF Room(queue, {"UPDATE"}) THEN Append(queue, p) ELSE queue

\* replica_next_packet: the next position of the round that has something to
\* send.
replica_next_packet(n) ==
    LET size == 2 * Len(mem[n].catalog)
        at(k) == (mem[n].pos + k) % size
    IN  /\ ~mem[n].halted /\ ReplicaLinked /\ size > 0
        /\ Room(flight[Other(n)], {"GRANT", "SUMMARY"})
        /\ \E k \in 0 .. size - 1 :
              /\ Sends(n, at(k)) /\ \A j \in 0 .. k - 1 : ~Sends(n, at(j))
              /\ flight' = [flight EXCEPT ![Other(n)] = Append(@, PacketAt(n, at(k)))]
              /\ mem' = [mem EXCEPT ![n].pos = at(k + 1)]
        /\ UNCHANGED <<disk, replicaLink, history, replicaSpent>>

Ignored == UNCHANGED <<disk, mem, history, replicaSpent>>


NewerGrant(s, p) == p.epoch > s.epoch

\* accept_grant
accept_grant(n, p) ==
    LET c == mem[n].catalog
    IN  \/ /\ Has(c, p.id)
           /\ \/ /\ NewerGrant(find_scope(c, p.id), p)
                 /\ publish(n, [disk[n] EXCEPT !.catalog =
                        [i \in DOMAIN c |-> IF c[i].id # p.id THEN c[i]
                                            ELSE [c[i] EXCEPT !.epoch = p.epoch,
                                                              !.rights = p.rights]]], {}, replicaSpent)
              \/ ~NewerGrant(find_scope(c, p.id), p) /\ Ignored
        \/ /\ ~Has(c, p.id)
           /\ \/ /\ p.rights # {} /\ Len(c) < ObjectsMax
                 /\ publish(n, [catalog |-> Append(c, [id |-> p.id, epoch |-> p.epoch,
                                                       rights |-> p.rights]),
                                state |-> [disk[n].state EXCEPT
                                              ![p.id] = net_crdt_init(Kind[p.id])]], {}, replicaSpent)
              \/ (p.rights = {} \/ Len(c) = ObjectsMax) /\ Ignored

\* A summary or an update for a scope of this epoch that is shared, an update
\* only by a peer that may write.
Accepts(n, p) ==
    LET c == mem[n].catalog
    IN  /\ Has(c, p.id) /\ find_scope(c, p.id).epoch = p.epoch
        /\ IF p.kind = "UPDATE" THEN CanReceive(n, find_scope(c, p.id))
           ELSE find_scope(c, p.id).rights # {}

\* A summary that differs is answered with the state.
Answers(n, p) == CanSend(n, find_scope(mem[n].catalog, p.id)) /\ p.state # disk[n].state[p.id]

\* replica_receive
replica_receive(n) ==
    LET p == Head(flight[n])
        rest == Tail(flight[n])
        silent == flight' = [flight EXCEPT ![n] = rest]
        s == disk[n].state[p.id]
    IN  /\ flight[n] # <<>>
        /\ \/ mem[n].halted /\ silent /\ Ignored
           \/ ~mem[n].halted /\ p.kind = "GRANT" /\ silent /\ accept_grant(n, p)
           \/ ~mem[n].halted /\ p.kind # "GRANT" /\ ~Accepts(n, p) /\ silent /\ Ignored
           \/ /\ ~mem[n].halted /\ p.kind = "UPDATE" /\ Accepts(n, p) /\ silent
              /\ IF CanMerge(s, p.state) /\ net_crdt_merge(s, p.state) # s
                 THEN publish(n, [disk[n] EXCEPT !.state[p.id] = net_crdt_merge(s, p.state)],
                              {}, replicaSpent)
                 ELSE Ignored
           \/ /\ ~mem[n].halted /\ p.kind = "SUMMARY" /\ Accepts(n, p)
              /\ Ignored
              /\ IF Answers(n, p)
                 THEN flight' = [flight EXCEPT ![n] = rest,
                         ![Other(n)] = PutReplica(@, [kind |-> "UPDATE", id |-> p.id,
                                               epoch |-> p.epoch, state |-> s])]
                 ELSE silent
        /\ UNCHANGED replicaLink

-----------------------------------------------------------------------------
(* The network and restarts *)

\* The packets are in order: one that is lost may as well be lost at the end
\* of its way.
ReplicaLose ==
    /\ \E n \in Node : flight[n] # <<>> /\ flight' = [flight EXCEPT ![n] = Tail(@)]
    /\ UNCHANGED <<disk, mem, replicaLink, history, replicaSpent>>

ReplicaRestart(n) ==
    /\ mem' = [mem EXCEPT ![n] = replica_open(disk[n])]
    /\ replicaLink' = [replicaLink EXCEPT ![n] = "fresh"]
    /\ flight' = [m \in Node |-> <<>>]
    /\ UNCHANGED <<disk, history>>

ReplicaCrash(n) ==
    /\ replicaSpent.crashes < MaxReplicaCrashes
    /\ replicaSpent' = [replicaSpent EXCEPT !.crashes = @ + 1]
    /\ ReplicaRestart(n)

\* A node that is halted, or bound to a boot of the peer that is over, is
\* restarted by its operator.
ReplicaRejoin(n) ==
    /\ mem[n].halted \/ (replicaLink[n] = "bound" /\ replicaLink[Other(n)] = "fresh")
    /\ ReplicaRestart(n) /\ UNCHANGED replicaSpent

ReplicaEstablish ==
    /\ \A n \in Node : replicaLink[n] = "fresh"
    /\ replicaLink' = [n \in Node |-> "bound"]
    /\ UNCHANGED <<disk, mem, flight, history, replicaSpent>>

ReplicaNext ==
    \/ \E n \in Node, o \in Objects :
          \/ replica_create(n, o) \/ mutate(n, o)
          \/ \E rights \in SharedRights : replica_share(n, o, rights)
    \/ \E n \in Node : replica_next_packet(n) \/ replica_receive(n) \/ ReplicaCrash(n) \/ ReplicaRejoin(n)
    \/ ReplicaLose \/ ReplicaEstablish

ReplicaSpec == ReplicaInit /\ [][ReplicaNext]_replicaVars

Receives(n, kind, o) ==
    /\ flight[n] # <<>> /\ Head(flight[n]).kind = kind /\ Head(flight[n]).id = o
    /\ replica_receive(n)

\* The main loop calls net_peer_step for ever (strong, because what disables
\* replica_next_packet is the bound on packets in flight), what is sent for
\* ever arrives some time, and the operator restarts what waits for it.
ReplicaFairness ==
    /\ \A n \in Node : /\ SF_replicaVars(replica_next_packet(n)) /\ WF_replicaVars(ReplicaRejoin(n))
                       /\ \A kind \in {"GRANT", "SUMMARY", "UPDATE"}, o \in Objects :
                             SF_replicaVars(Receives(n, kind, o))
    /\ WF_replicaVars(ReplicaEstablish)

ReplicaFairSpec == ReplicaSpec /\ ReplicaFairness

-----------------------------------------------------------------------------
(* Properties *)

\* The copies of an object: on both disks and in the packets on the way.
Copies(o) ==
    {disk[n].state[o] : n \in {m \in Node : disk[m].state[o] # NoState}}
      \cup UNION {{flight[n][i].state :
                     i \in {j \in DOMAIN flight[n] : /\ flight[n][j].kind # "GRANT"
                                                    /\ flight[n][j].id = o}} : n \in Node}

\* Type correctness.
ReplicaTypeOK ==
    /\ \A n \in Node :
          /\ \A i \in DOMAIN mem[n].catalog :
                mem[n].catalog[i] \in [id : Objects, epoch : 1 .. MaxShares + MaxReplicaFaults + 1,
                                       rights : SUBSET {"READ", "WRITE"}]
          /\ mem[n].pos \in 0 .. 2 * Len(mem[n].catalog)
          /\ mem[n].catalog = disk[n].catalog \/ mem[n].halted
          /\ Len(flight[n]) <= 2 * MaxReplicaFlight
    /\ replicaLink \in [Node -> {"fresh", "bound"}]

\* A store that replica_open would refuse is never written: the catalog and
\* every state in it pass the checks of decode, whatever the order of edits,
\* merges and crashes.
StoreReopens == \A n \in Node : CatalogValid(disk[n])

\* The edits of an object that a version vector covers.
Covered(o, vector) == {e \in history : e.id = o /\ e.counter <= vector[e.node]}

\* What those edits come to.
Reconstructed(o, vector) ==
    LET known == Covered(o, vector)
        adds == {e \in known : e.done.op = "add"}
        gone == UNION {e.done.observed : e \in known}
        last == CHOOSE e \in known : \A f \in known \ {e} :
                    e.timestamp > f.timestamp \/ (e.timestamp = f.timestamp /\ e.node > f.node)
    IN  IF Kind[o] = "ORSET"
        THEN [net_crdt_init("ORSET") EXCEPT !.vector = vector,
                 !.dots = {[node |-> e.node, counter |-> e.counter, value |-> e.done.value,
                            removed |-> <<e.node, e.counter>> \in gone] : e \in adds}]
        ELSE IF known = {} THEN net_crdt_init("LWW")
        ELSE [net_crdt_init("LWW") EXCEPT !.vector = vector, !.timestamp = last.timestamp,
                 !.author = last.node, !.value = last.done.value]

\* Every copy of an object, stored or on the way, is exactly what the edits its
\* version vector covers come to: the last write, or the adds without the
\* removes that observed them.  So copies with equal vectors are equal, no two
\* copies conflict, and no edit is lost, invented or revived by a merge.
VectorDeterminesState == \A o \in Objects : \A s \in Copies(o) : s = Reconstructed(o, s.vector)

\* The peer's view of a grant is the owner's view of some time, and of now when
\* the epochs are equal: accept_grant relies on it.
GrantsFollowOwner ==
    \A o \in Objects :
        LET own == disk[Owner[o]].catalog
            peer == disk[Other(Owner[o])].catalog
        IN  Has(peer, o) =>
                /\ Has(own, o) /\ find_scope(peer, o).epoch <= find_scope(own, o).epoch
                /\ find_scope(peer, o).epoch = find_scope(own, o).epoch =>
                       find_scope(peer, o).rights = find_scope(own, o).rights

\* Catalogs, grants and copies agree with the edits that were made.
ReplicaSound == ReplicaTypeOK /\ StoreReopens /\ VectorDeterminesState /\ GrantsFollowOwner

\* A node's state of an object only grows: counters do not go back, a dot stays,
\* a dot that was removed is not revived, a write gives way only to a later one.
StatesGrow ==
    [][\A n \in Node, o \in Objects :
          LET s == disk[n].state[o]
              t == disk'[n].state[o]
          IN  s # NoState =>
                 /\ \A m \in Node : t.vector[m] >= s.vector[m]
                 /\ \A d \in s.dots : \E e \in t.dots :
                       Key(e) = Key(d) /\ e.value = d.value /\ (d.removed => e.removed)
                 /\ ~Later(s, t)]_replicaVars

\* What a node knows covers what the other does.
KnowsAll(n, o) ==
    /\ disk[n].state[o] # NoState
    /\ \A m \in Node : disk[n].state[o].vector[m] >= disk[Other(n)].state[o].vector[m]

=============================================================================
