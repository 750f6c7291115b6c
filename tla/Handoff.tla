------------------------------ MODULE Handoff ------------------------------
(***************************************************************************)
(* What the migration of a component promises: the component runs in one   *)
(* place, goes from the source to the target once, with the state it had,  *)
(* and every message posted at the source afterwards reaches its mailbox   *)
(* once and in order.                                                      *)
(***************************************************************************)
EXTENDS Naturals, Sequences

VARIABLES home,       \* where the component is
          value,      \* its state
          posted,     \* how many messages were posted for it after it left
          delivered   \* the messages its mailbox has received

vars == <<home, value, posted, delivered>>

Init == home = "source" /\ value = 0 /\ posted = 0 /\ delivered = <<>>

Run ==
    /\ home \in {"source", "target"} /\ value' = value + 1
    /\ UNCHANGED <<home, posted, delivered>>

Depart == home = "source" /\ home' = "moving" /\ UNCHANGED <<value, posted, delivered>>

Arrive == home = "moving" /\ home' = "target" /\ UNCHANGED <<value, posted, delivered>>

Post ==
    /\ home = "target" /\ posted = Len(delivered) /\ posted' = posted + 1
    /\ UNCHANGED <<home, value, delivered>>

Deliver ==
    /\ home = "target" /\ Len(delivered) < posted
    /\ delivered' = Append(delivered, Len(delivered) + 1)
    /\ UNCHANGED <<home, value, posted>>

Next == Run \/ Depart \/ Arrive \/ Post \/ Deliver

Spec == Init /\ [][Next]_vars
=============================================================================
