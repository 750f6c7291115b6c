----------------------------- MODULE MCNetwork ------------------------------
(***************************************************************************)
(* Instances for TLC of the protocols between two nodes: the session, the  *)
(* migration of a component and the replication of objects.  The models of *)
(* the latter two start from what the session promises, so they share no   *)
(* state with it: a behaviour is one of one protocol, which running names, *)
(* and the others keep their initial state.                                *)
(***************************************************************************)
EXTENDS NetSession, Migration, Replica, TLC

CONSTANTS doc, v1

VARIABLE running

\* One object, of node 0.
OneOwner == doc :> 0

Register == doc :> "LWW"
Set == doc :> "ORSET"

ReadOrWrite == {{"READ"}, {"READ", "WRITE"}}

Symmetry == Permutations(Nodes)

Init ==
    /\ running \in {"session", "migration", "replica"}
    /\ SessionInit /\ MigrationInit /\ ReplicaInit

Session == running = "session" /\ UNCHANGED <<running, migrationVars, replicaVars>>
Moving == running = "migration" /\ UNCHANGED <<running, sessionVars, replicaVars>>
Replicating == running = "replica" /\ UNCHANGED <<running, sessionVars, migrationVars>>

Next ==
    \/ Session /\ SessionNext
    \/ Moving /\ MigrationNext
    \/ Replicating /\ ReplicaNext

vars == <<running, sessionVars, migrationVars, replicaVars>>

Spec == Init /\ [][Next]_vars

(***************************************************************************)
(* The fairness of the three specifications.  One protocol runs, so one    *)
(* condition of strong fairness serves an action of each: node n's packet  *)
(* leaves, and one of a kind arrives at n.                                 *)
(***************************************************************************)
Leaves(n) ==
    \/ Session /\ StepSends(n)
    \/ Replicating /\ replica_next_packet(n)

Arrives(n, kind) ==
    \/ Session /\ kind = "SUMMARY" /\ StepTakesHello(n)
    \/ Moving /\ kind = "SUMMARY" /\ IF n = 0 THEN SourceReceives ELSE TargetReceives
    \/ Replicating /\ \E o \in Objects : Receives(n, kind, o)

Fairness ==
    /\ \A n \in Node :
          /\ SF_vars(Leaves(n))
          /\ \A kind \in {"GRANT", "SUMMARY", "UPDATE"} : SF_vars(Arrives(n, kind))
          /\ WF_vars(Replicating /\ ReplicaRejoin(n))
    /\ WF_vars(Replicating /\ ReplicaEstablish)
    /\ WF_vars(Moving /\ migration_next_packet)
    /\ WF_vars(Moving /\ migration_attach_target)
    /\ WF_vars(Moving /\ TargetRuns)
    /\ WF_vars(Moving /\ MigrationRejoin)
    /\ WF_vars(Moving /\ MigrationEstablish)

FairSpec == Spec /\ Fairness

\* NetSession's BothSidesEstablish: both nodes reach an active session of the
\* same two boots, though any single packet may be lost (net_peer_step).
SessionsEstablish == running = "session" => BothSidesEstablish
=============================================================================
