------------------------------ MODULE MCDomain ------------------------------
(***************************************************************************)
(* Instances for TLC of the capability domain, and of the logs kept beside *)
(* it.  The model of the logs shares no state with the domain's, so a      *)
(* behaviour is one of either: running names it, and the other keeps its   *)
(* initial state.                                                          *)
(***************************************************************************)
EXTENDS CapabilityDomain, EventRings, TLC

VARIABLE running

PassOn == {{"READ", "GRANT"}}
TwoComponents == <<1, 2>>

\* Components are compared for equality only.
Symmetry == Permutations(Components)

Init == running \in {"domain", "logs"} /\ DomainInit /\ RingsInit

Next ==
    \/ running = "domain" /\ DomainNext /\ UNCHANGED <<running, ringsVars>>
    \/ running = "logs" /\ RingsNext /\ UNCHANGED <<running, domainVars>>

vars == <<running, domainVars, ringsVars>>

Spec == Init /\ [][Next]_vars
=============================================================================
