----------------------------- MODULE Migration -----------------------------
(***************************************************************************)
(* The migration of one component from a source node to a target node:     *)
(* kernel/net/migration.c, driven as kernel/net/demo.c drives it.          *)
(*                                                                         *)
(* The source takes the component off its registry and writes a fence in   *)
(* one batch, sends the bundle stop-and-wait, and after the import keeps   *)
(* forwarding messages through a durable outbox.  The target publishes the *)
(* objects, the registry and a receipt in one batch.  A batch commits, is  *)
(* rejected, or leaves the store in need of recovery with the outcome      *)
(* unknown; then the node is halted until it restarts.  Either node may    *)
(* crash at any time.                                                      *)
(*                                                                         *)
(* Under an established session packets arrive in order, at most once, or  *)
(* not at all (module NetSession), so each direction is a queue that may   *)
(* lose any of its packets.  A session is bound to the boots of both       *)
(* nodes: when one restarts the other one has to restart too before they   *)
(* can talk again.                                                         *)
(*                                                                         *)
(* The bundle is Chunks chunks, numbered; a chunk carries its number for   *)
(* its content and the digest of the bundle is the complete sequence.  A   *)
(* message forwarded is its sequence number; `applied' is a ghost, all the *)
(* messages that were ever put into the target's mailbox.                  *)
(***************************************************************************)
EXTENDS Naturals, Sequences, SequencesExt

CONSTANTS Chunks,               \* the chunks of the bundle
          MailboxMax,           \* COMPONENT_MAILBOX_BYTES, in messages
          MaxForwards,          \* bound: messages forwarded
          MaxRuns,              \* bound: handlers run
          MaxMigrationFlight,   \* bound: packets in flight in one direction
          MaxMigrationCrashes,  \* bound: crashes
          MaxMigrationFaults    \* bound: batches rejected or left to recovery

ASSUME MigrationConstants ==
    /\ Chunks \in Nat /\ MailboxMax \in Nat \ {0} /\ MaxForwards \in Nat /\ MaxRuns \in Nat
    /\ MaxMigrationFlight \in Nat \ {0} /\ MaxMigrationCrashes \in Nat /\ MaxMigrationFaults \in Nat

VARIABLES
    sdisk,               \* the source's store: registered, fence, and the outbox
    tdisk,               \* the target's store: receipt, component state and mailbox
    src,                 \* struct migration of the source, and its running component
    dst,                 \* struct migration of the target
    toTarget, toSource,  \* the packets in flight
    migrationLink,       \* per node "fresh", or "bound" to a boot of the other
    migrationSpent       \* what the bounds count

migrationVars == <<sdisk, tdisk, src, dst, toTarget, toSource, migrationLink, migrationSpent>>

Full == [i \in 1 .. Chunks |-> i]

\* Nothing received: m->bundle = NULL.
NoBundle == <<0>>

\* migration_open on the source: after a restart migration_resume_source takes
\* up the fence when the objects still have its digest; the registry says
\* whether the component runs.
OpenSource(d) ==
    [running |-> d.registered, source |-> d.fence /\ d.value = d.digest,
     phase |-> IF d.target THEN 3 ELSE 0, received |-> 0, target |-> d.target, sequence |-> d.sequence, halted |-> FALSE]

OpenTarget == [bundle |-> NoBundle, attached |-> FALSE, halted |-> FALSE]

MigrationInit ==
    /\ sdisk = [registered |-> TRUE, fence |-> FALSE, target |-> FALSE, sequence |-> 0,
                outbox |-> 0, value |-> 0, digest |-> 0]
    /\ tdisk = [receipts |-> 0, sequence |-> 0, mailbox |-> <<>>, value |-> 0, applied |-> <<>>]
    /\ src = OpenSource(sdisk) /\ dst = OpenTarget
    /\ toTarget = <<>> /\ toSource = <<>>
    /\ migrationLink = [source |-> "fresh", target |-> "fresh"]
    /\ migrationSpent = [runs |-> 0, crashes |-> 0, faults |-> 0]

MigrationLinked == migrationLink.source = "bound" /\ migrationLink.target = "bound"

-----------------------------------------------------------------------------
(* commit: a batch of the object store *)

Committed == UNCHANGED migrationSpent
MigrationFault ==
    /\ migrationSpent.faults < MaxMigrationFaults
    /\ migrationSpent' = [migrationSpent EXCEPT !.faults = @ + 1]

\* Put a packet on the way when the queue has room; otherwise it is lost.
PutMigration(queue, p) == IF Len(queue) < MaxMigrationFlight THEN Append(queue, p) ELSE queue

-----------------------------------------------------------------------------
(* The source *)

\* The source stays stopped on an uncertain commit.
AfterUncertainFence(s) == [s EXCEPT !.halted = TRUE, !.running = FALSE]

\* The batch of migration_begin: registry removal, and the fence with the
\* digest of the component's objects.
Fenced == [sdisk EXCEPT !.registered = FALSE, !.fence = TRUE, !.digest = sdisk.value]

\* migration_begin, between handlers.
migration_begin ==
    LET fenced == Fenced
    IN  /\ ~src.halted /\ ~src.source /\ src.running /\ ~sdisk.fence
        /\ \/ /\ Committed /\ sdisk' = fenced
              /\ src' = [src EXCEPT !.running = FALSE, !.source = TRUE, !.phase = 0]
           \/ MigrationFault /\ UNCHANGED <<sdisk, src>>
           \/ /\ MigrationFault /\ sdisk' \in {sdisk, fenced}
              /\ src' = AfterUncertainFence(src)
        /\ UNCHANGED <<tdisk, dst, toTarget, toSource, migrationLink>>

\* The packet migration_next_packet produces.
SourcePacket ==
    CASE src.phase = 3 -> [op |-> "FORWARD", sequence |-> sdisk.outbox]
      [] src.phase = 0 -> [op |-> "BEGIN", offset |-> src.received]
      [] src.phase = 1 /\ src.received = Chunks -> [op |-> "END", offset |-> src.received]
      [] OTHER -> [op |-> "CHUNK", offset |-> src.received]

migration_next_packet ==
    /\ ~src.halted /\ src.source /\ MigrationLinked /\ Len(toTarget) < MaxMigrationFlight
    /\ src.phase = 3 => sdisk.outbox # 0
    /\ toTarget' = Append(toTarget, SourcePacket)
    /\ UNCHANGED <<sdisk, tdisk, src, dst, toSource, migrationLink, migrationSpent>>


AcksForward(p) == p.sequence = src.sequence

\* An ACK without a target moves the transfer on by one chunk, after a BEGIN
\* to where the target is.
AckAdvances(p) ==
    /\ src.phase # 3 /\ p.offset >= src.received
    /\ src.phase = 1 => p.offset <= src.received + 1

\* migration_receive of an acknowledgement.
SourceReceives ==
    LET p == Head(toSource)
        cleared == [sdisk EXCEPT !.outbox = 0]
        arrived == [sdisk EXCEPT !.target = TRUE]
        known == [src EXCEPT !.target = TRUE, !.phase = 3, !.received = 0]
        halts == src' = [src EXCEPT !.halted = TRUE]
    IN  /\ toSource # <<>> /\ toSource' = Tail(toSource)
        /\ \/ /\ src.halted \/ ~src.source                       \* refused
              /\ Committed /\ UNCHANGED <<sdisk, src>>
           \/ /\ ~src.halted /\ src.source /\ p.op = "FORWARD_ACK"
              /\ \/ /\ ~AcksForward(p) \/ sdisk.outbox = 0
                    /\ Committed /\ UNCHANGED <<sdisk, src>>
                 \/ /\ AcksForward(p) /\ sdisk.outbox # 0
                    /\ \/ Committed /\ sdisk' = cleared /\ UNCHANGED src
                       \/ MigrationFault /\ UNCHANGED <<sdisk, src>>
                       \/ MigrationFault /\ sdisk' \in {sdisk, cleared} /\ halts
           \/ /\ ~src.halted /\ src.source /\ p.op = "ACK" /\ p.target
              /\ \/ /\ src.target                                \* already known
                    /\ Committed /\ src' = known /\ UNCHANGED sdisk
                 \/ /\ ~src.target
                    /\ \/ Committed /\ sdisk' = arrived /\ src' = known
                       \/ MigrationFault /\ UNCHANGED <<sdisk, src>>
                       \/ MigrationFault /\ sdisk' \in {sdisk, arrived} /\ halts
           \/ /\ ~src.halted /\ src.source /\ p.op = "ACK" /\ ~p.target
              /\ src' = IF AckAdvances(p)
                        THEN [src EXCEPT !.phase = 1, !.received = p.offset] ELSE src
              /\ Committed /\ UNCHANGED sdisk
        /\ UNCHANGED <<tdisk, dst, toTarget, migrationLink>>

\* migration_forward: the record's sequence and the outbox in one batch, only
\* when the outbox is empty.
migration_forward ==
    LET next == [sdisk EXCEPT !.sequence = @ + 1, !.outbox = sdisk.sequence + 1]
    IN  /\ ~src.halted /\ src.source /\ src.phase = 3 /\ sdisk.outbox = 0
        /\ src.sequence < MaxForwards
        /\ \/ Committed /\ sdisk' = next /\ src' = [src EXCEPT !.sequence = @ + 1]
           \/ MigrationFault /\ UNCHANGED <<sdisk, src>>
           \/ MigrationFault /\ sdisk' \in {sdisk, next} /\ src' = [src EXCEPT !.halted = TRUE]
        /\ UNCHANGED <<tdisk, dst, toTarget, toSource, migrationLink>>

-----------------------------------------------------------------------------
(* The target *)

Ack(offset, target) == [op |-> "ACK", offset |-> offset, target |-> target]

\* forward_receive: the next one in order, for the attached component, while
\* its mailbox has room.
NextForward(p) == p.sequence = tdisk.sequence + 1

\* Mutant: the receipt keeps its sequence.
ForwardedUncounted(p) ==
    [tdisk EXCEPT !.mailbox = Append(@, p.sequence), !.applied = Append(@, p.sequence)]

\* State and receipt are written in one batch.
Forwarded(p) ==
    [tdisk EXCEPT !.sequence = p.sequence, !.mailbox = Append(@, p.sequence),
                  !.applied = Append(@, p.sequence)]

TargetForward(p) ==
    LET reply == toSource' = PutMigration(toSource, [op |-> "FORWARD_ACK", sequence |-> p.sequence])
    IN  \/ /\ NextForward(p) /\ dst.attached /\ Len(tdisk.mailbox) < MailboxMax
           /\ \/ Committed /\ tdisk' = Forwarded(p) /\ reply /\ UNCHANGED dst
              \/ MigrationFault /\ UNCHANGED <<tdisk, dst, toSource>>
              \/ /\ MigrationFault /\ tdisk' \in {tdisk, Forwarded(p)}
                 /\ dst' = [dst EXCEPT !.halted = TRUE] /\ UNCHANGED toSource
        \/ /\ ~NextForward(p) /\ p.sequence = tdisk.sequence     \* seen already
           /\ reply /\ Committed /\ UNCHANGED <<tdisk, dst>>
        \/ /\ IF NextForward(p) THEN ~dst.attached \/ Len(tdisk.mailbox) = MailboxMax
              ELSE p.sequence # tdisk.sequence                   \* refused
           /\ Committed /\ UNCHANGED <<tdisk, dst, toSource>>

\* Mutant: a complete bundle counts as an import.
KnownWhenComplete == tdisk.receipts > 0 \/ dst.bundle = Full

\* find_receipt
Known == tdisk.receipts > 0

\* publish_import: objects, registry and receipt in one batch.  The bundle has
\* the digest of the fence.
Imported == [tdisk EXCEPT !.receipts = @ + 1, !.value = sdisk.digest]

AppendsChunk(p) == dst.bundle # NoBundle /\ p.offset = Len(dst.bundle)

TargetTransfer(p) ==
    LET begun == IF dst.bundle = NoBundle THEN <<>> ELSE dst.bundle
        reply(n) == toSource' = PutMigration(toSource, Ack(n, FALSE))
        ignored == Committed /\ UNCHANGED <<tdisk, dst, toSource>>
    IN  \/ /\ p.op = "BEGIN"
           /\ dst' = [dst EXCEPT !.bundle = begun] /\ reply(Len(begun))
           /\ Committed /\ UNCHANGED tdisk
        \/ p.op # "BEGIN" /\ dst.bundle = NoBundle /\ ignored
        \/ /\ p.op = "CHUNK" /\ AppendsChunk(p)
           /\ dst' = [dst EXCEPT !.bundle = Append(@, p.offset + 1)]
           /\ reply(Len(dst.bundle) + 1)
           /\ Committed /\ UNCHANGED tdisk
        \/ /\ p.op = "CHUNK" /\ dst.bundle # NoBundle /\ ~AppendsChunk(p)
           /\ \/ /\ p.offset < Len(dst.bundle) /\ reply(Len(dst.bundle))
                 /\ Committed /\ UNCHANGED <<tdisk, dst>>
              \/ p.offset > Len(dst.bundle) /\ ignored
        \/ p.op = "END" /\ dst.bundle # NoBundle /\ dst.bundle # Full /\ ignored
        \/ /\ p.op = "END" /\ dst.bundle = Full
           /\ \/ /\ Committed /\ tdisk' = Imported
                 /\ dst' = [dst EXCEPT !.bundle = NoBundle]
                 /\ toSource' = PutMigration(toSource, Ack(Chunks, TRUE))
              \/ MigrationFault /\ UNCHANGED <<tdisk, dst, toSource>>
              \/ /\ MigrationFault /\ tdisk' \in {tdisk, Imported}
                 /\ dst' = [dst EXCEPT !.halted = TRUE] /\ UNCHANGED toSource

\* migration_receive on the target.
TargetReceives ==
    LET p == Head(toTarget)
    IN  /\ toTarget # <<>> /\ toTarget' = Tail(toTarget)
        /\ \/ /\ dst.halted \/ (~Known /\ p.op = "FORWARD")
              /\ Committed /\ UNCHANGED <<tdisk, dst, toSource>>
           \/ ~dst.halted /\ Known /\ p.op = "FORWARD" /\ TargetForward(p)
           \/ /\ ~dst.halted /\ Known /\ p.op # "FORWARD"
              /\ toSource' = PutMigration(toSource, Ack(Chunks, TRUE))
              /\ Committed /\ UNCHANGED <<tdisk, dst>>
           \/ ~dst.halted /\ ~Known /\ p.op # "FORWARD" /\ TargetTransfer(p)
        /\ UNCHANGED <<sdisk, src, migrationLink>>

\* The caller resumes the imported component and attaches it.
migration_attach_target ==
    /\ ~dst.halted /\ tdisk.receipts > 0 /\ ~dst.attached
    /\ dst' = [dst EXCEPT !.attached = TRUE]
    /\ UNCHANGED <<sdisk, tdisk, src, toTarget, toSource, migrationLink, migrationSpent>>

-----------------------------------------------------------------------------
(* Handlers, the network, crashes *)

\* A handler at the source: a timer; at the target: a message, or a timer.
Ran == migrationSpent.runs < MaxRuns /\ migrationSpent' = [migrationSpent EXCEPT !.runs = @ + 1]

SourceRuns ==
    /\ src.running /\ ~src.halted /\ Ran
    /\ sdisk' = [sdisk EXCEPT !.value = @ + 1]
    /\ UNCHANGED <<tdisk, src, dst, toTarget, toSource, migrationLink>>

TargetRuns ==
    /\ dst.attached /\ ~dst.halted
    /\ \/ /\ tdisk.mailbox # <<>>
          /\ tdisk' = [tdisk EXCEPT !.mailbox = Tail(@)] /\ UNCHANGED migrationSpent
       \/ /\ tdisk.mailbox = <<>> /\ Ran /\ tdisk' = [tdisk EXCEPT !.value = @ + 1]
    /\ UNCHANGED <<sdisk, src, dst, toTarget, toSource, migrationLink>>

MigrationLose ==
    /\ \/ \E i \in DOMAIN toTarget : toTarget' = RemoveAt(toTarget, i) /\ UNCHANGED toSource
       \/ \E i \in DOMAIN toSource : toSource' = RemoveAt(toSource, i) /\ UNCHANGED toTarget
    /\ UNCHANGED <<sdisk, tdisk, src, dst, migrationLink, migrationSpent>>

RestartSource ==
    /\ src' = OpenSource(sdisk) /\ migrationLink' = [migrationLink EXCEPT !.source = "fresh"]
    /\ toTarget' = <<>> /\ toSource' = <<>> /\ UNCHANGED <<sdisk, tdisk, dst>>

RestartTarget ==
    /\ dst' = OpenTarget /\ migrationLink' = [migrationLink EXCEPT !.target = "fresh"]
    /\ toTarget' = <<>> /\ toSource' = <<>> /\ UNCHANGED <<sdisk, tdisk, src>>

MigrationCrash ==
    /\ migrationSpent.crashes < MaxMigrationCrashes
    /\ migrationSpent' = [migrationSpent EXCEPT !.crashes = @ + 1]
    /\ RestartSource \/ RestartTarget

\* A node that is halted, or whose session is bound to a boot of the peer that
\* is over, is restarted by its operator.
MigrationRejoin ==
    /\ \/ /\ src.halted \/ (migrationLink.source = "bound" /\ migrationLink.target = "fresh")
          /\ RestartSource
       \/ /\ dst.halted \/ (migrationLink.target = "bound" /\ migrationLink.source = "fresh")
          /\ RestartTarget
    /\ UNCHANGED migrationSpent

\* Two fresh sessions find each other (module NetSession).
MigrationEstablish ==
    /\ migrationLink.source = "fresh" /\ migrationLink.target = "fresh"
    /\ migrationLink' = [source |-> "bound", target |-> "bound"]
    /\ UNCHANGED <<sdisk, tdisk, src, dst, toTarget, toSource, migrationSpent>>

MigrationNext ==
    \/ migration_begin \/ migration_next_packet \/ SourceReceives \/ migration_forward
    \/ TargetReceives \/ migration_attach_target
    \/ SourceRuns \/ TargetRuns \/ MigrationLose \/ MigrationCrash \/ MigrationRejoin \/ MigrationEstablish

MigrationSpec == MigrationInit /\ [][MigrationNext]_migrationVars

\* The main loops poll for ever, a packet that is sent for ever arrives, the
\* operator restarts what waits for it, and handlers empty the mailbox.
MigrationFairness ==
    /\ WF_migrationVars(migration_next_packet) /\ WF_migrationVars(migration_attach_target)
    /\ WF_migrationVars(TargetRuns) /\ WF_migrationVars(MigrationRejoin) /\ WF_migrationVars(MigrationEstablish)
    /\ SF_migrationVars(SourceReceives) /\ SF_migrationVars(TargetReceives)

MigrationFairSpec == MigrationSpec /\ MigrationFairness

-----------------------------------------------------------------------------
(* Properties *)

Packets ==
    [op : {"BEGIN", "CHUNK", "END"}, offset : 0 .. Chunks]
      \cup [op : {"FORWARD"}, sequence : 1 .. MaxForwards]
Acks ==
    [op : {"ACK"}, offset : 0 .. Chunks, target : BOOLEAN]
      \cup [op : {"FORWARD_ACK"}, sequence : 1 .. MaxForwards]

\* Type correctness; the bundle under construction is a prefix of the bundle.
MigrationTypeOK ==
    /\ sdisk \in [registered : BOOLEAN, fence : BOOLEAN, target : BOOLEAN,
                  sequence : 0 .. MaxForwards, outbox : 0 .. MaxForwards, value : 0 .. MaxRuns,
                  digest : 0 .. MaxRuns]
    /\ tdisk \in [receipts : 0 .. 1, sequence : 0 .. MaxForwards,
                  mailbox : Seq(1 .. MaxForwards), value : 0 .. MaxRuns,
                  applied : Seq(1 .. MaxForwards)]
    /\ src.phase \in {0, 1, 3} /\ src.received \in 0 .. Chunks
    /\ dst.bundle = NoBundle \/ IsPrefix(dst.bundle, Full)
    /\ toTarget \in Seq(Packets) /\ toSource \in Seq(Acks)
    /\ Len(tdisk.mailbox) <= MailboxMax

\* At no time, whatever crashes, is lost, or is left to recovery, may both
\* nodes run the component: while the source runs it, or would after a restart,
\* there is no copy on the target's registry.
OneRunnableCopy == sdisk.registered \/ src.running => tdisk.receipts = 0

\* The source gives up the bundle and forgets nothing before the target has it:
\* a durable target in the fence means the import is durable there.
AcknowledgedMeansImported == sdisk.target \/ src.target => tdisk.receipts = 1

\* Whatever crashes or is lost, the component has one home and the source gives
\* it up only to a target that has it.
MigrationSound == MigrationTypeOK /\ OneRunnableCopy /\ AcknowledgedMeansImported

Home == IF sdisk.registered THEN "source"
        ELSE IF tdisk.receipts = 0 THEN "moving" ELSE "target"

Promise == INSTANCE Handoff WITH
    home <- Home, value <- IF Home = "target" THEN tdisk.value ELSE sdisk.value,
    posted <- sdisk.sequence, delivered <- tdisk.applied

\* The protocol implements Handoff: the component moves once with the state it
\* had, runs in one place, and each forwarded message is applied once, in order.
ImplementsHandoff == Promise!Spec

\* A fenced component arrives, and the source learns of it.
Completes == sdisk.fence ~> (tdisk.receipts = 1 /\ src.phase = 3)

\* A message in the outbox is delivered, and the outbox is free again.
ForwardsArrive == sdisk.outbox # 0 ~> (sdisk.outbox = 0 /\ tdisk.sequence = sdisk.sequence)

=============================================================================
