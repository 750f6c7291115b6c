---------------------------- MODULE DurableObjects ----------------------------
(***************************************************************************)
(* What the object store promises of its durable contents: a map from ids   *)
(* to objects that changes in one piece.  While a call is in progress it    *)
(* has a target; the contents a power loss would leave are the old map or   *)
(* the target, never a mixture and never anything else.                     *)
(***************************************************************************)
EXTENDS Naturals

CONSTANTS Ids, Values

VARIABLES
    contents,  \* the objects a mount would find now
    target     \* the objects the call in progress may leave; contents if none

Object == [version : Nat \ {0}, val : Values]
IsContents(m) == DOMAIN m \subseteq Ids /\ \A i \in DOMAIN m : m[i] \in Object

Init == contents = [i \in {} |-> 0] /\ target = contents

\* A call begins, and fixes what it will leave if it takes effect.
Submit == target = contents /\ IsContents(target') /\ UNCHANGED contents

\* The call takes effect, now or when a power loss or a remount decides it.
Commit == contents' = target /\ UNCHANGED target

\* The call is rejected, or a power loss undoes it.
Withdraw == target' = contents /\ UNCHANGED contents

Next == Submit \/ Commit \/ Withdraw

Spec == Init /\ [][Next]_<<contents, target>>
===============================================================================
