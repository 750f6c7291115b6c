-------------------------------- MODULE Crdt --------------------------------
(***************************************************************************)
(* The replicated data types of kernel/net/crdt.zig: a last-writer-wins    *)
(* register and an observed-remove set, both with a version vector of the  *)
(* two nodes.  The array of dots is kept sorted by (node, counter) without *)
(* repetitions, so that equal sets have equal bytes: here it is a set.     *)
(* Counters and timestamps are below UINT64_MAX.                           *)
(***************************************************************************)
EXTENDS Naturals, FiniteSets

CONSTANTS DotsMax,  \* NET_CRDT_DOTS_MAX, 16
          NoValue   \* the value of length 0

Node == {0, 1}

Larger(a, b) == IF a < b THEN b ELSE a

Joined(u, v) == [n \in Node |-> Larger(u[n], v[n])]

Key(d) == <<d.node, d.counter>>

\* valid: what every call checks of its input, and decode of a stored record.
valid(s) ==
    \/ /\ s.kind = "LWW" /\ s.dots = {}
       /\ IF s.timestamp = 0 THEN s.author = 0 /\ s.vector = [n \in Node |-> 0]
          ELSE s.vector[s.author] # 0 /\ \A n \in Node : s.timestamp >= s.vector[n]
    \/ /\ s.kind = "ORSET" /\ s.timestamp = 0 /\ s.author = 0
       /\ Cardinality(s.dots) <= DotsMax
       /\ \A d \in s.dots : d.counter \in 1 .. s.vector[d.node]
       /\ \A d, e \in s.dots : Key(d) = Key(e) => d = e

net_crdt_init(kind) ==
    [kind |-> kind, vector |-> [n \in Node |-> 0], timestamp |-> 0, author |-> 0,
     value |-> NoValue, dots |-> {}]

net_crdt_set(s, node, value) ==
    [s EXCEPT !.value = value, !.author = node, !.timestamp = @ + 1, !.vector[node] = @ + 1]

HasRoom(s) == Cardinality(s.dots) < DotsMax

net_crdt_add(s, node, value) ==
    [s EXCEPT !.vector[node] = @ + 1,
              !.dots = @ \cup {[node |-> node, counter |-> s.vector[node] + 1,
                                value |-> value, removed |-> FALSE]}]

\* The dots a remove of the value takes away.
Observed(s, value) == {d \in s.dots : d.value = value /\ ~d.removed}

\* Mutant: a remove is not counted.
RemoveUncounted(s, node, value) ==
    [s EXCEPT !.dots = {IF d \in Observed(s, value) THEN [d EXCEPT !.removed = TRUE] ELSE d :
                        d \in @}]

net_crdt_remove(s, node, value) ==
    [s EXCEPT !.dots = {IF d \in Observed(s, value) THEN [d EXCEPT !.removed = TRUE] ELSE d :
                        d \in @},
              !.vector[node] = IF Observed(s, value) = {} THEN @ ELSE @ + 1]

\* b is the later write: by timestamp, then by author.
Later(b, a) == b.timestamp > a.timestamp \/ (b.timestamp = a.timestamp /\ b.author > a.author)

\* The merge succeeds: one write has one value, one dot has one value, and the
\* dots of both fit.
CanMerge(a, b) ==
    IF a.kind = "LWW"
    THEN a.timestamp = b.timestamp /\ a.author = b.author => a.value = b.value
    ELSE /\ \A d \in a.dots, e \in b.dots : Key(d) = Key(e) => d.value = e.value
         /\ Cardinality({Key(d) : d \in a.dots \cup b.dots}) <= DotsMax

\* Mutant: the register takes what arrives.
MergeTakesRemote(a, b) ==
    [(IF a.kind = "LWW" THEN b ELSE [a EXCEPT !.dots = b.dots])
        EXCEPT !.vector = Joined(a.vector, b.vector)]

net_crdt_merge(a, b) ==
    LET both == a.dots \cup b.dots
        next == IF a.kind = "LWW" THEN IF Later(b, a) THEN b ELSE a
                ELSE [a EXCEPT !.dots = {[d EXCEPT !.removed = \E e \in both :
                                                      Key(e) = Key(d) /\ e.removed] : d \in both}]
    IN  [next EXCEPT !.vector = Joined(a.vector, b.vector)]
=============================================================================
