------------------------------ MODULE Virtqueue ------------------------------
(***************************************************************************)
(* A virtqueue as drivers/virtqueue.c drives it: one chain in flight at a  *)
(* time, always descriptor 0, completions found by polling.  A queue is a  *)
(* record; the indices are the 16-bit counters of the rings, here modulo   *)
(* IndexMod, and the rings have Size slots.                                *)
(***************************************************************************)
EXTENDS Naturals

CONSTANTS IndexMod,  \* 2^16 in the code
          Size       \* the queue's size, at most VIRTQUEUE_MAX_SIZE

\* The ring's slots are taken modulo Size, the counters modulo IndexMod.
ASSUME SizeDivides == Size \in 1..IndexMod /\ IndexMod % Size = 0

RingSlots == 0..Size - 1

\* After virtqueue_setup: zeroed rings.
EmptyQueue ==
    [avail |-> 0, usedIdx |-> 0, ring |-> [i \in RingSlots |-> [id |-> 0, len |-> 0]],
     lastUsed |-> 0, capacity |-> 0, inFlight |-> FALSE, failed |-> FALSE]

Submittable(q) == ~q.inFlight /\ ~q.failed

\* virtqueue_submit_async: the chain's writable bytes are remembered.
virtqueue_submit_async(q, capacity) ==
    [q EXCEPT !.avail = (@ + 1) % IndexMod, !.capacity = capacity, !.inFlight = TRUE]

fail_queue(q) == [q EXCEPT !.failed = TRUE, !.inFlight = FALSE]

\* virtqueue_poll_used's verdict on the used ring.
virtqueue_poll_used(q) ==
    LET entry == q.ring[q.lastUsed % Size] IN
    CASE q.failed -> "FAILED"
      [] ~q.failed /\ q.usedIdx = q.lastUsed -> "EMPTY"
      [] ~q.failed /\ q.usedIdx # q.lastUsed ->
           IF /\ q.inFlight
              /\ (q.usedIdx + IndexMod - q.lastUsed) % IndexMod = 1
              /\ entry.id = 0 /\ entry.len <= q.capacity
           THEN "COMPLETE" ELSE "FAILED"

\* The length a completion reports.
UsedLength(q) == q.ring[q.lastUsed % Size].len

\* The queue once that verdict has been taken.
Polled(q) ==
    CASE virtqueue_poll_used(q) = "FAILED" -> fail_queue(q)
      [] virtqueue_poll_used(q) = "EMPTY" -> q
      [] virtqueue_poll_used(q) = "COMPLETE" ->
           [q EXCEPT !.lastUsed = q.usedIdx, !.capacity = 0, !.inFlight = FALSE]

-----------------------------------------------------------------------------
\* The device's side (external): it puts an entry in the used ring.
DeviceUsed(q, id, len) ==
    [q EXCEPT !.ring[q.usedIdx % Size] = [id |-> id, len |-> len],
              !.usedIdx = (@ + 1) % IndexMod]
=============================================================================
