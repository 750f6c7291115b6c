-------------------------- MODULE MigrationProofs --------------------------
(***************************************************************************)
(* The migration protocol implements Handoff and never leaves two runnable *)
(* copies, whatever the size of the bundle, the number of messages, of     *)
(* packets in flight, of crashes and of faults of the store.               *)
(*                                                                         *)
(* The argument: a packet to the target exists only while the source's     *)
(* struct migration is that of a durable fence, which excludes the         *)
(* registry entry and freezes the component's state, so the import that a  *)
(* packet triggers finds no copy at the source and brings the state the    *)
(* component had.  In the other direction an acknowledgement never runs    *)
(* ahead of what is durable at the target.                                 *)
(***************************************************************************)
EXTENDS Migration, TLAPS

\* The types the proof needs.
SourceDisk ==
    [registered : BOOLEAN, fence : BOOLEAN, target : BOOLEAN, sequence : 0 .. MaxForwards,
     outbox : 0 .. MaxForwards, value : Nat, digest : Nat]
Mailboxes == {m \in Seq(1 .. MaxForwards) : Len(m) <= MailboxMax}
TargetDisk ==
    [receipts : Nat, sequence : 0 .. MaxForwards, mailbox : Mailboxes, value : Nat,
     applied : Seq(1 .. MaxForwards)]
SourceNode ==
    [running : BOOLEAN, source : BOOLEAN, phase : {0, 1, 3}, received : 0 .. Chunks,
     target : BOOLEAN, sequence : Nat, halted : BOOLEAN]

\* The chunks the target holds are the first ones of the bundle, in order.
Begun == {b \in Seq(Nat) : Len(b) <= Chunks /\ \A i \in 1 .. Len(b) : b[i] = i}
TargetNode == [bundle : Begun \cup {NoBundle}, attached : BOOLEAN, halted : BOOLEAN]

Types == sdisk \in SourceDisk /\ tdisk \in TargetDisk /\ src \in SourceNode /\ dst \in TargetNode

\* What the source's memory says agrees with its fence, and a fence excludes
\* the registry entry and freezes the component.
SourceInv ==
    /\ src.running => sdisk.registered
    /\ sdisk.fence => ~sdisk.registered /\ sdisk.digest = sdisk.value
    /\ src.source => sdisk.fence
    /\ src.phase = 3 => src.target
    /\ ~src.halted => src.sequence = sdisk.sequence

\* What the two stores say of each other.
CopyInv ==
    /\ tdisk.receipts <= 1
    /\ sdisk.registered => tdisk.receipts = 0
    /\ sdisk.target \/ src.target => tdisk.receipts = 1
    /\ dst.attached => tdisk.receipts = 1

\* One message at most is between the outbox and the target's mailbox.
OutboxInv ==
    /\ tdisk.sequence = Len(tdisk.applied)
    /\ sdisk.sequence \in {tdisk.sequence, tdisk.sequence + 1}
    /\ IF sdisk.outbox = 0 THEN tdisk.sequence = sdisk.sequence ELSE sdisk.outbox = sdisk.sequence

\* A packet in flight says nothing that is not durable at its sender.
Sendable ==
    [op : {"BEGIN", "END"}, offset : 0 .. Chunks]
      \cup [op : {"CHUNK"}, offset : {n \in 0 .. Chunks : n < Chunks}]
      \cup [op : {"FORWARD"}, sequence : 1 .. sdisk.sequence]

Replies ==
    [op : {"ACK"}, offset : 0 .. Chunks, target : {t \in BOOLEAN : t => tdisk.receipts = 1}]
      \cup [op : {"FORWARD_ACK"}, sequence : 1 .. tdisk.sequence]

FlightInv ==
    /\ toTarget \in Seq(Sendable) /\ toSource \in Seq(Replies)
    /\ toTarget # <<>> => src.source

IInv == Types /\ SourceInv /\ CopyInv /\ OutboxInv /\ FlightInv

\* A step of the abstract specification, or a stutter.
HandoffStep == [Promise!Next]_(Promise!vars)

-----------------------------------------------------------------------------
(* Sequences and the refinement mapping *)

\* What becomes of a queue of packets when a packet arrives, is put on the way
\* (Append, Put) or is lost (RemoveAt) and what its packets may say grows.
LEMMA QueueFacts ==
    ASSUME NEW S, NEW T, S \subseteq T, NEW q \in Seq(S)
    PROVE  /\ q \in Seq(T)
           /\ q # <<>> => Head(q) \in S /\ Tail(q) \in Seq(T)
           /\ \A e \in T : Append(q, e) \in Seq(T) /\ PutMigration(q, e) \in Seq(T) /\ Append(q, e) # <<>>
           /\ \A i \in DOMAIN q : RemoveAt(q, i) \in Seq(T) /\ q # <<>>
<1>1. q \in Seq(T)
  OBVIOUS
<1>2. q # <<>> => Head(q) \in S /\ Tail(q) \in Seq(T)
  BY <1>1
<1>3. \A e \in T : Append(q, e) \in Seq(T) /\ PutMigration(q, e) \in Seq(T) /\ Append(q, e) # <<>>
  BY <1>1 DEF PutMigration
<1>4. ASSUME NEW i \in DOMAIN q
      PROVE  RemoveAt(q, i) \in Seq(T) /\ q # <<>>
  <2>1. i \in 1 .. Len(q)
    OBVIOUS
  <2>2. SubSeq(q, 1, i - 1) \in Seq(T)
    BY <1>1, <2>1
  <2>3. SubSeq(q, i + 1, Len(q)) \in Seq(T)
    BY <1>1, <2>1
  <2> QED
    BY <2>1, <2>2, <2>3 DEF RemoveAt
<1> QED
  BY <1>1, <1>2, <1>3, <1>4

\* The abstract state depends on six fields only.
LEMMA Stutter ==
    ASSUME sdisk'.registered = sdisk.registered, sdisk'.value = sdisk.value,
           sdisk'.sequence = sdisk.sequence, tdisk'.receipts = tdisk.receipts,
           tdisk'.value = tdisk.value, tdisk'.applied = tdisk.applied
    PROVE  HandoffStep
<1>1. Home' = Home
  BY DEF Home
<1> QED
  BY <1>1 DEF HandoffStep, Promise!vars

-----------------------------------------------------------------------------
(* Every action preserves the invariant and is a step of Handoff *)

\* migration_begin takes the component off the registry as it writes the fence.
LEMMA BeginStep == ASSUME IInv, migration_begin PROVE IInv' /\ HandoffStep
<1> USE DEF IInv, Types
<1>1. /\ tdisk' = tdisk /\ dst' = dst /\ toTarget' = toTarget /\ toSource' = toSource
      /\ src.running /\ ~src.source /\ ~sdisk.fence
  BY DEF migration_begin
<1>2. /\ Fenced \in SourceDisk
      /\ ~Fenced.registered /\ Fenced.fence /\ Fenced.digest = sdisk.value
      /\ Fenced.target = sdisk.target /\ Fenced.sequence = sdisk.sequence
      /\ Fenced.outbox = sdisk.outbox /\ Fenced.value = sdisk.value
  BY DEF Fenced, SourceDisk
<1>3. sdisk' \in {sdisk, Fenced} /\ src' \in SourceNode
  BY DEF migration_begin, AfterUncertainFence, SourceNode
<1>4. /\ src'.target = src.target /\ src'.sequence = src.sequence
      /\ src'.running => sdisk' = sdisk
      /\ src'.source => sdisk' = Fenced
      /\ src'.phase \in {src.phase, 0}
      /\ src'.halted = src.halted \/ src'.halted
  BY DEF migration_begin, AfterUncertainFence, SourceNode
<1>5. Types'
  BY <1>1, <1>2, <1>3
<1>6. SourceInv'
  BY <1>1, <1>2, <1>3, <1>4 DEF SourceInv
<1>7. CopyInv'
  BY <1>1, <1>2, <1>3, <1>4 DEF CopyInv, SourceInv
<1>8. OutboxInv'
  BY <1>1, <1>2, <1>3 DEF OutboxInv
<1>9. FlightInv'
  <2>1. Sendable' = Sendable /\ Replies' = Replies
    BY <1>1, <1>2, <1>3 DEF Sendable, Replies
  <2> QED
    BY <1>1, <2>1 DEF FlightInv
<1>10. HandoffStep
  <2>1. CASE sdisk' = sdisk
    BY <1>1, <2>1, Stutter
  <2>2. CASE sdisk' = Fenced
    <3>1. sdisk.registered /\ tdisk.receipts = 0
      BY <1>1 DEF SourceInv, CopyInv
    <3>2. Home = "source" /\ Home' = "moving"
      BY <1>1, <1>2, <2>2, <3>1 DEF Home
    <3> QED
      BY <1>1, <1>2, <2>2, <3>2 DEF HandoffStep, Promise!Next, Promise!Depart
  <2> QED
    BY <1>3, <2>1, <2>2
<1> QED
  BY <1>5, <1>6, <1>7, <1>8, <1>9, <1>10

\* migration_next_packet sends what the fence and the outbox say.
LEMMA PacketStep == ASSUME IInv, migration_next_packet PROVE IInv' /\ HandoffStep
<1> USE DEF IInv, Types
<1>1. /\ UNCHANGED <<sdisk, tdisk, src, dst, toSource>>
      /\ src.source /\ toTarget' = Append(toTarget, SourcePacket)
      /\ src.phase = 3 => sdisk.outbox # 0
  BY DEF migration_next_packet
<1>2. SourcePacket \in Sendable
  <2>1. CASE src.phase = 3
    <3>1. SourcePacket = [op |-> "FORWARD", sequence |-> sdisk.outbox]
      BY <2>1 DEF SourcePacket
    <3>2. sdisk.outbox \in 1 .. sdisk.sequence
      BY <1>1, <2>1 DEF OutboxInv, SourceDisk
    <3> QED
      BY <3>1, <3>2 DEF Sendable
  <2>2. CASE src.phase = 0
    <3>1. SourcePacket = [op |-> "BEGIN", offset |-> src.received]
      BY <2>2 DEF SourcePacket
    <3> QED
      BY <3>1 DEF Sendable, SourceNode
  <2>3. CASE src.phase = 1 /\ src.received = Chunks
    <3>1. SourcePacket = [op |-> "END", offset |-> src.received]
      BY <2>3 DEF SourcePacket
    <3> QED
      BY <3>1 DEF Sendable, SourceNode
  <2>4. CASE src.phase = 1 /\ src.received # Chunks
    <3>1. SourcePacket = [op |-> "CHUNK", offset |-> src.received]
      BY <2>4 DEF SourcePacket
    <3>2. src.received \in {n \in 0 .. Chunks : n < Chunks}
      BY <2>4, MigrationConstants DEF SourceNode
    <3> QED
      BY <3>1, <3>2 DEF Sendable
  <2> QED
    BY <2>1, <2>2, <2>3, <2>4 DEF SourceNode
<1>3. Sendable' = Sendable /\ Replies' = Replies
  BY <1>1 DEF Sendable, Replies
<1>4. toTarget' \in Seq(Sendable)
  BY <1>1, <1>2, QueueFacts DEF FlightInv
<1>5. FlightInv'
  BY <1>1, <1>3, <1>4 DEF FlightInv
<1> QED
  BY <1>1, <1>5, Stutter DEF SourceInv, CopyInv, OutboxInv

\* migration_forward numbers a message when the one before it was delivered.
LEMMA ForwardStep == ASSUME IInv, migration_forward PROVE IInv' /\ HandoffStep
<1> USE DEF IInv, Types
<1> DEFINE next == [sdisk EXCEPT !.sequence = @ + 1, !.outbox = sdisk.sequence + 1]
<1>1. /\ UNCHANGED <<tdisk, dst, toTarget, toSource>>
      /\ ~src.halted /\ src.phase = 3 /\ sdisk.outbox = 0 /\ src.sequence < MaxForwards
  BY DEF migration_forward
<1>2. sdisk.sequence + 1 \in 0 .. MaxForwards /\ src.sequence + 1 \in Nat
  BY <1>1, MigrationConstants DEF SourceInv, SourceDisk, SourceNode
<1>3. /\ next \in SourceDisk
      /\ next.sequence = sdisk.sequence + 1 /\ next.outbox = sdisk.sequence + 1
      /\ next.registered = sdisk.registered /\ next.fence = sdisk.fence
      /\ next.target = sdisk.target /\ next.value = sdisk.value /\ next.digest = sdisk.digest
  BY <1>2 DEF SourceDisk
<1>4. sdisk' \in {sdisk, next}
  BY DEF migration_forward
<1>5. src' \in SourceNode
  BY <1>2 DEF migration_forward, SourceNode
<1>6. /\ src'.running = src.running /\ src'.source = src.source /\ src'.phase = src.phase
      /\ src'.target = src.target
      /\ \/ src'.halted
         \/ sdisk' = next /\ src'.sequence = src.sequence + 1
         \/ sdisk' = sdisk /\ src' = src
  BY DEF migration_forward, SourceNode
<1> HIDE DEF next
<1>7. Types'
  BY <1>1, <1>3, <1>4, <1>5
<1>8. SourceInv'
  BY <1>1, <1>3, <1>4, <1>6 DEF SourceInv
<1>9. CopyInv'
  BY <1>1, <1>3, <1>4, <1>6 DEF CopyInv
<1>10. tdisk.sequence = sdisk.sequence /\ sdisk.sequence \in Nat
  BY <1>1 DEF OutboxInv, SourceDisk
<1>11. OutboxInv'
  BY <1>1, <1>3, <1>4, <1>10 DEF OutboxInv
<1>12. FlightInv'
  <2>1. sdisk'.sequence >= sdisk.sequence /\ sdisk'.sequence \in Nat
    BY <1>3, <1>4, <1>10
  <2>2. Sendable \subseteq Sendable' /\ Replies' = Replies
    BY <1>1, <1>10, <2>1 DEF Sendable, Replies
  <2>3. toTarget \in Seq(Sendable')
    BY <2>2, QueueFacts DEF FlightInv
  <2> QED
    BY <1>1, <1>6, <2>2, <2>3 DEF FlightInv
<1>13. HandoffStep
  <2>1. CASE sdisk' = sdisk
    BY <1>1, <2>1, Stutter
  <2>2. CASE sdisk' = next
    <3>1. tdisk.receipts = 1 /\ ~sdisk.registered
      BY <1>1 DEF SourceInv, CopyInv, SourceDisk
    <3>2. Home = "target" /\ Home' = "target"
      BY <1>1, <1>3, <2>2, <3>1 DEF Home
    <3>3. Promise!Post
      BY <1>1, <1>3, <1>10, <2>2, <3>2 DEF Promise!Post, OutboxInv
    <3> QED
      BY <3>3 DEF HandoffStep, Promise!Next
  <2> QED
    BY <1>4, <2>1, <2>2
<1> QED
  BY <1>7, <1>8, <1>9, <1>11, <1>12, <1>13

\* An acknowledgement changes the source's store to what the target has: the
\* outbox is emptied of a message delivered, the fence learns of the import.
LEMMA SourceReceivesStep == ASSUME IInv, SourceReceives PROVE IInv' /\ HandoffStep
<1> USE DEF IInv, Types
<1> DEFINE p == Head(toSource)
           cleared == [sdisk EXCEPT !.outbox = 0]
           arrived == [sdisk EXCEPT !.target = TRUE]
<1>1. /\ UNCHANGED <<tdisk, dst, toTarget>>
      /\ toSource # <<>> /\ toSource' = Tail(toSource)
  BY DEF SourceReceives
<1>2. p \in Replies /\ toSource' \in Seq(Replies)
  BY <1>1, QueueFacts DEF FlightInv
<1>3. /\ p.op = "ACK" => p.offset \in 0 .. Chunks /\ (p.target => tdisk.receipts = 1)
      /\ p.op = "FORWARD_ACK" => p.sequence \in Nat /\ p.sequence <= tdisk.sequence
  BY <1>2 DEF Replies, TargetDisk
<1>4. /\ cleared \in SourceDisk /\ cleared.outbox = 0
      /\ cleared.registered = sdisk.registered /\ cleared.fence = sdisk.fence
      /\ cleared.target = sdisk.target /\ cleared.value = sdisk.value
      /\ cleared.digest = sdisk.digest /\ cleared.sequence = sdisk.sequence
  <2>1. 0 \in 0 .. MaxForwards
    BY MigrationConstants
  <2> QED
    BY <2>1 DEF SourceDisk
<1>5. /\ arrived \in SourceDisk /\ arrived.target
      /\ arrived.registered = sdisk.registered /\ arrived.fence = sdisk.fence
      /\ arrived.outbox = sdisk.outbox /\ arrived.value = sdisk.value
      /\ arrived.digest = sdisk.digest /\ arrived.sequence = sdisk.sequence
  BY DEF SourceDisk
<1>6. \/ sdisk' = sdisk
      \/ sdisk' = cleared /\ tdisk.sequence = sdisk.sequence
      \/ sdisk' = arrived /\ tdisk.receipts = 1
  <2>1. \/ sdisk' = sdisk
        \/ sdisk' = cleared /\ p.op = "FORWARD_ACK" /\ AcksForward(p) /\ ~src.halted
        \/ sdisk' = arrived /\ p.op = "ACK" /\ p.target
    BY DEF SourceReceives
  <2>2. AcksForward(p) /\ ~src.halted /\ p.op = "FORWARD_ACK" => tdisk.sequence = sdisk.sequence
    BY <1>3 DEF AcksForward, SourceInv, OutboxInv, SourceDisk, TargetDisk
  <2> QED
    BY <1>3, <2>1, <2>2
<1>7. \/ src' = src
      \/ src' = [src EXCEPT !.halted = TRUE]
      \/ src' = [src EXCEPT !.target = TRUE, !.phase = 3, !.received = 0] /\ tdisk.receipts = 1
      \/ src' = [src EXCEPT !.phase = 1, !.received = p.offset] /\ p.offset \in 0 .. Chunks
  BY <1>3 DEF SourceReceives
<1>8. /\ src' \in SourceNode
      /\ src'.running = src.running /\ src'.source = src.source /\ src'.sequence = src.sequence
      /\ src'.target = src.target \/ (src'.target /\ tdisk.receipts = 1)
      /\ src'.phase \in {src.phase, 1} \/ src'.target
      /\ src.target => src'.target
      /\ src.halted => src'.halted
  <2>1. CASE src' = src
    BY <2>1
  <2>2. CASE src' = [src EXCEPT !.halted = TRUE]
    BY <2>2 DEF SourceNode
  <2>3. CASE src' = [src EXCEPT !.target = TRUE, !.phase = 3, !.received = 0] /\ tdisk.receipts = 1
    <3>1. 0 \in 0 .. Chunks
      BY MigrationConstants
    <3> QED
      BY <2>3, <3>1 DEF SourceNode
  <2>4. CASE src' = [src EXCEPT !.phase = 1, !.received = p.offset] /\ p.offset \in 0 .. Chunks
    BY <2>4 DEF SourceNode
  <2> QED
    BY <1>7, <2>1, <2>2, <2>3, <2>4
<1> HIDE DEF p, cleared, arrived
<1>9. Types'
  BY <1>1, <1>4, <1>5, <1>6, <1>8
<1>10. SourceInv'
  BY <1>4, <1>5, <1>6, <1>8 DEF SourceInv
<1>11. CopyInv'
  BY <1>1, <1>4, <1>5, <1>6, <1>8 DEF CopyInv
<1>12. OutboxInv'
  BY <1>1, <1>4, <1>5, <1>6 DEF OutboxInv
<1>13. FlightInv'
  <2>1. Sendable' = Sendable /\ Replies' = Replies
    BY <1>1, <1>4, <1>5, <1>6 DEF Sendable, Replies
  <2> QED
    BY <1>1, <1>2, <1>8, <2>1 DEF FlightInv
<1>14. HandoffStep
  BY <1>1, <1>4, <1>5, <1>6, Stutter
<1> QED
  BY <1>9, <1>10, <1>11, <1>12, <1>13, <1>14

\* What a message received may change at the target: it applies the next
\* message, or imports the bundle, or changes no store; the reply says no more
\* than is durable then.
TargetEffect(p) ==
    /\ \/ tdisk' = tdisk
       \/ tdisk' = Forwarded(p) /\ NextForward(p) /\ p.op = "FORWARD" /\ tdisk.receipts > 0
          /\ Len(tdisk.mailbox) < MailboxMax
       \/ tdisk' = Imported /\ tdisk.receipts = 0
    /\ toSource' = toSource \/ \E r \in Replies' : toSource' = PutMigration(toSource, r)
    /\ dst' \in TargetNode /\ dst'.attached = dst.attached

\* forward_receive
LEMMA TargetForwardEffect ==
    ASSUME IInv, NEW p \in Sendable, p.op = "FORWARD", Known, TargetForward(p)
    PROVE  TargetEffect(p)
<1> USE DEF IInv, Types
<1> DEFINE r == [op |-> "FORWARD_ACK", sequence |-> p.sequence]
<1>1. p.sequence \in Nat \ {0} /\ p.sequence <= sdisk.sequence
  BY DEF Sendable, SourceDisk
<1>2. Forwarded(p).sequence = p.sequence
  BY DEF Forwarded, TargetDisk
<1>3. tdisk.receipts > 0
  BY DEF Known
<1>4. CASE /\ NextForward(p) /\ Len(tdisk.mailbox) < MailboxMax /\ tdisk' = Forwarded(p)
           /\ toSource' = PutMigration(toSource, r) /\ UNCHANGED dst
  <2>1. r \in Replies'
    BY <1>1, <1>2, <1>4 DEF Replies
  <2> QED
    BY <1>3, <1>4, <2>1 DEF TargetEffect
<1>5. CASE UNCHANGED <<tdisk, dst, toSource>>
  BY <1>5 DEF TargetEffect
<1>6. CASE /\ NextForward(p) /\ Len(tdisk.mailbox) < MailboxMax /\ tdisk' \in {tdisk, Forwarded(p)}
           /\ dst' = [dst EXCEPT !.halted = TRUE] /\ UNCHANGED toSource
  <2>1. dst' \in TargetNode /\ dst'.attached = dst.attached
    BY <1>6 DEF TargetNode
  <2> QED
    BY <1>3, <1>6, <2>1 DEF TargetEffect
<1>7. CASE /\ p.sequence = tdisk.sequence /\ toSource' = PutMigration(toSource, r)
           /\ UNCHANGED <<tdisk, dst>>
  <2>1. r \in Replies'
    BY <1>1, <1>7 DEF Replies
  <2> QED
    BY <1>7, <2>1 DEF TargetEffect
<1> QED
  BY <1>4, <1>5, <1>6, <1>7 DEF TargetForward

\* BEGIN, CHUNK and END
LEMMA TargetTransferEffect ==
    ASSUME IInv, NEW p \in Sendable, p.op # "FORWARD", ~Known, TargetTransfer(p)
    PROVE  TargetEffect(p)
<1> USE DEF IInv, Types
<1> DEFINE begun == IF dst.bundle = NoBundle THEN <<>> ELSE dst.bundle
<1>1. p.offset \in 0 .. Chunks /\ (p.op = "CHUNK" => p.offset < Chunks) /\ tdisk.receipts = 0
  BY DEF Sendable, Known, TargetDisk
<1>2. \A n \in 0 .. Chunks : Ack(n, FALSE) \in Replies'
  BY DEF Ack, Replies
<1>3. /\ dst.bundle # NoBundle => dst.bundle \in Begun /\ Len(dst.bundle) \in 0 .. Chunks
      /\ begun \in Begun /\ Len(begun) \in 0 .. Chunks
  <2>1. dst.bundle # NoBundle => dst.bundle \in Begun /\ Len(dst.bundle) \in 0 .. Chunks
    BY MigrationConstants DEF TargetNode, Begun
  <2>2. <<>> \in Begun /\ Len(<<>>) \in 0 .. Chunks
    BY MigrationConstants DEF Begun
  <2> QED
    BY <2>1, <2>2
<1>4. p.op = "CHUNK" /\ AppendsChunk(p) =>
        Append(dst.bundle, p.offset + 1) \in Begun /\ Len(dst.bundle) + 1 \in 0 .. Chunks
  <2> SUFFICES ASSUME p.op = "CHUNK", AppendsChunk(p)
               PROVE  Append(dst.bundle, p.offset + 1) \in Begun /\ Len(dst.bundle) + 1 \in 0 .. Chunks
    OBVIOUS
  <2> DEFINE b == Append(dst.bundle, p.offset + 1)
  <2>1. /\ dst.bundle \in Seq(Nat) /\ p.offset = Len(dst.bundle) /\ p.offset \in Nat
        /\ p.offset + 1 \in 0 .. Chunks
        /\ \A i \in 1 .. Len(dst.bundle) : dst.bundle[i] = i
    BY <1>1, <1>3, MigrationConstants DEF AppendsChunk, Begun
  <2>2. b \in Seq(Nat) /\ Len(b) = p.offset + 1 /\ Len(b) <= Chunks
    BY <2>1, MigrationConstants
  <2>3. \A i \in 1 .. Len(b) : b[i] = i
    BY <2>1, <2>2
  <2> HIDE DEF b
  <2>4. b \in Begun
    BY <2>2, <2>3 DEF Begun
  <2> QED
    BY <2>1, <2>4 DEF b
<1>5. CASE dst' = [dst EXCEPT !.bundle = begun] /\ toSource' = PutMigration(toSource, Ack(Len(begun), FALSE))
           /\ UNCHANGED tdisk
  <2>1. dst' \in TargetNode /\ dst'.attached = dst.attached
    BY <1>3, <1>5 DEF TargetNode
  <2> QED
    BY <1>2, <1>3, <1>5, <2>1 DEF TargetEffect
<1>6. CASE UNCHANGED <<tdisk, dst, toSource>>
  BY <1>6 DEF TargetEffect
<1>7. CASE /\ p.op = "CHUNK" /\ AppendsChunk(p)
           /\ dst' = [dst EXCEPT !.bundle = Append(@, p.offset + 1)]
           /\ toSource' = PutMigration(toSource, Ack(Len(dst.bundle) + 1, FALSE)) /\ UNCHANGED tdisk
  <2>1. dst' \in TargetNode /\ dst'.attached = dst.attached
    BY <1>4, <1>7 DEF TargetNode
  <2> QED
    BY <1>2, <1>4, <1>7, <2>1 DEF TargetEffect
<1>8. CASE /\ dst.bundle # NoBundle /\ toSource' = PutMigration(toSource, Ack(Len(dst.bundle), FALSE))
           /\ UNCHANGED <<tdisk, dst>>
  BY <1>2, <1>3, <1>8 DEF TargetEffect
<1>9. CASE /\ tdisk' = Imported /\ dst' = [dst EXCEPT !.bundle = NoBundle]
           /\ toSource' = PutMigration(toSource, Ack(Chunks, TRUE))
  <2>1. dst' \in TargetNode /\ dst'.attached = dst.attached
    BY <1>9 DEF TargetNode
  <2>2. tdisk'.receipts = 1
    BY <1>1, <1>9 DEF Imported, TargetDisk
  <2>3. Ack(Chunks, TRUE) \in Replies'
    BY <2>2, MigrationConstants DEF Ack, Replies
  <2> QED
    BY <1>1, <1>9, <2>1, <2>3 DEF TargetEffect
<1>10. CASE /\ tdisk' \in {tdisk, Imported} /\ dst' = [dst EXCEPT !.halted = TRUE]
            /\ UNCHANGED toSource
  <2>1. dst' \in TargetNode /\ dst'.attached = dst.attached
    BY <1>10 DEF TargetNode
  <2> QED
    BY <1>1, <1>10, <2>1 DEF TargetEffect
<1> HIDE DEF begun
<1> QED
  BY <1>5, <1>6, <1>7, <1>8, <1>9, <1>10 DEF TargetTransfer, begun

\* migration_receive on the target.
LEMMA TargetReceivesStep == ASSUME IInv, TargetReceives PROVE IInv' /\ HandoffStep
<1> USE DEF IInv, Types
<1> DEFINE p == Head(toTarget)
<1>1. UNCHANGED <<sdisk, src>> /\ toTarget # <<>> /\ toTarget' = Tail(toTarget)
  BY DEF TargetReceives
<1>2. p \in Sendable /\ toTarget' \in Seq(Sendable) /\ Sendable' = Sendable
  BY <1>1, QueueFacts DEF FlightInv, Sendable
<1>3. src.source /\ ~sdisk.registered /\ sdisk.digest = sdisk.value
  BY <1>1 DEF FlightInv, SourceInv
<1>4. TargetEffect(p)
  <2>1. CASE UNCHANGED <<tdisk, dst, toSource>>
    BY <2>1 DEF TargetEffect
  <2>2. CASE p.op = "FORWARD" /\ Known /\ TargetForward(p)
    BY <1>2, <2>2, TargetForwardEffect
  <2>3. CASE Known /\ toSource' = PutMigration(toSource, Ack(Chunks, TRUE)) /\ UNCHANGED <<tdisk, dst>>
    <3>1. tdisk'.receipts = 1
      BY <2>3 DEF Known, CopyInv, TargetDisk
    <3>2. Ack(Chunks, TRUE) \in Replies'
      BY <3>1, MigrationConstants DEF Ack, Replies
    <3> QED
      BY <2>3, <3>2 DEF TargetEffect
  <2>4. CASE p.op # "FORWARD" /\ ~Known /\ TargetTransfer(p)
    BY <1>2, <2>4, TargetTransferEffect
  <2> QED
    BY <2>1, <2>2, <2>3, <2>4 DEF TargetReceives
<1> HIDE DEF p
<1>5. /\ Imported \in TargetDisk /\ Imported.receipts = tdisk.receipts + 1
      /\ Imported.value = sdisk.digest /\ Imported.sequence = tdisk.sequence
      /\ Imported.applied = tdisk.applied
  <2>1. tdisk.receipts + 1 \in Nat /\ sdisk.digest \in Nat
    BY DEF TargetDisk, SourceDisk
  <2> QED
    BY <2>1 DEF Imported, TargetDisk
<1>6. p.op = "FORWARD" => /\ p.sequence \in 1 .. MaxForwards /\ p.sequence \in 0 .. MaxForwards
                          /\ p.sequence <= sdisk.sequence
  BY <1>2, MigrationConstants DEF Sendable, SourceDisk
<1>7. p.op = "FORWARD" /\ Len(tdisk.mailbox) < MailboxMax =>
        /\ Forwarded(p) \in TargetDisk /\ Forwarded(p).receipts = tdisk.receipts
        /\ Forwarded(p).value = tdisk.value /\ Forwarded(p).sequence = p.sequence
        /\ Forwarded(p).applied = Append(tdisk.applied, p.sequence)
  <2>1. SUFFICES ASSUME p.op = "FORWARD", Len(tdisk.mailbox) < MailboxMax
                 PROVE  /\ Forwarded(p) \in TargetDisk /\ Forwarded(p).receipts = tdisk.receipts
                        /\ Forwarded(p).value = tdisk.value /\ Forwarded(p).sequence = p.sequence
                        /\ Forwarded(p).applied = Append(tdisk.applied, p.sequence)
    OBVIOUS
  <2>2. Append(tdisk.applied, p.sequence) \in Seq(1 .. MaxForwards)
    BY <1>6, <2>1 DEF TargetDisk
  <2>3. Append(tdisk.mailbox, p.sequence) \in Mailboxes
    <3>1. tdisk.mailbox \in Seq(1 .. MaxForwards)
      BY DEF TargetDisk, Mailboxes
    <3> QED
      BY <1>6, <2>1, <3>1, MigrationConstants DEF Mailboxes
  <2> QED
    BY <1>6, <2>1, <2>2, <2>3 DEF Forwarded, TargetDisk
<1>8. tdisk' \in TargetDisk /\ tdisk'.receipts >= tdisk.receipts /\ tdisk'.receipts <= 1
      /\ tdisk'.sequence >= tdisk.sequence
  BY <1>4, <1>5, <1>7 DEF TargetEffect, CopyInv, NextForward, TargetDisk
<1>9. Types' /\ SourceInv'
  BY <1>1, <1>4, <1>8 DEF TargetEffect, SourceInv
<1>10. CopyInv'
  BY <1>1, <1>3, <1>4, <1>8 DEF CopyInv, TargetEffect, TargetDisk
<1>11. OutboxInv'
  <2>1. CASE tdisk'.sequence = tdisk.sequence /\ tdisk'.applied = tdisk.applied
    BY <1>1, <2>1 DEF OutboxInv
  <2>2. CASE /\ tdisk' = Forwarded(p) /\ NextForward(p) /\ p.op = "FORWARD"
             /\ Len(tdisk.mailbox) < MailboxMax
    <3>1. tdisk'.sequence = tdisk.sequence + 1 /\ Len(tdisk'.applied) = Len(tdisk.applied) + 1
      BY <1>6, <1>7, <2>2 DEF NextForward, TargetDisk
    <3> QED
      BY <1>1, <1>6, <1>7, <2>2, <3>1 DEF OutboxInv, NextForward, SourceDisk, TargetDisk
  <2> QED
    BY <1>4, <1>5, <2>1, <2>2 DEF TargetEffect
<1>12. FlightInv'
  <2>1. Replies \subseteq Replies'
    BY <1>8 DEF Replies, TargetDisk, CopyInv
  <2>2. toSource' \in Seq(Replies')
    <3>1. toSource \in Seq(Replies)
      BY DEF FlightInv
    <3>2. toSource \in Seq(Replies') /\ \A r \in Replies' : PutMigration(toSource, r) \in Seq(Replies')
      BY <2>1, <3>1, QueueFacts
    <3> QED
      BY <1>4, <3>2 DEF TargetEffect
  <2> QED
    BY <1>1, <1>2, <1>3, <2>2 DEF FlightInv
<1>13. HandoffStep
  <2>1. CASE tdisk' = tdisk
    BY <1>1, <2>1, Stutter
  <2>2. CASE /\ tdisk' = Forwarded(p) /\ NextForward(p) /\ p.op = "FORWARD" /\ tdisk.receipts > 0
             /\ Len(tdisk.mailbox) < MailboxMax
    <3>1. Home = "target" /\ Home' = "target"
      BY <1>1, <1>3, <1>7, <2>2 DEF Home, TargetDisk
    <3>2. p.sequence = Len(tdisk.applied) + 1
      BY <2>2 DEF NextForward, OutboxInv
    <3>3. Len(tdisk.applied) < sdisk.sequence
      BY <1>6, <2>2, <3>2 DEF SourceDisk, TargetDisk
    <3>4. /\ tdisk'.applied = Append(tdisk.applied, Len(tdisk.applied) + 1)
          /\ tdisk'.value = tdisk.value
      BY <1>7, <2>2, <3>2
    <3>5. Promise!Deliver
      BY <1>1, <3>1, <3>3, <3>4 DEF Promise!Deliver
    <3> QED
      BY <3>5 DEF HandoffStep, Promise!Next
  <2>3. CASE tdisk' = Imported /\ tdisk.receipts = 0
    <3>1. Home = "moving" /\ Home' = "target"
      BY <1>1, <1>3, <1>5, <2>3 DEF Home
    <3>2. Promise!Arrive
      BY <1>1, <1>3, <1>5, <2>3, <3>1 DEF Promise!Arrive
    <3> QED
      BY <3>2 DEF HandoffStep, Promise!Next
  <2> QED
    BY <1>4, <2>1, <2>2, <2>3 DEF TargetEffect
<1> QED
  BY <1>9, <1>10, <1>11, <1>12, <1>13

\* migration_attach_target
LEMMA AttachStep == ASSUME IInv, migration_attach_target PROVE IInv' /\ HandoffStep
<1> USE DEF IInv, Types
<1>1. /\ UNCHANGED <<sdisk, tdisk, src, toTarget, toSource>>
      /\ tdisk.receipts > 0 /\ dst' = [dst EXCEPT !.attached = TRUE]
  BY DEF migration_attach_target
<1>2. dst' \in TargetNode
  BY <1>1 DEF TargetNode
<1>3. tdisk.receipts = 1
  BY <1>1 DEF TargetDisk, CopyInv
<1>4. Types' /\ SourceInv' /\ CopyInv' /\ OutboxInv'
  BY <1>1, <1>2, <1>3 DEF SourceInv, CopyInv, OutboxInv
<1>5. FlightInv'
  BY <1>1 DEF FlightInv, Sendable, Replies
<1> QED
  BY <1>1, <1>4, <1>5, Stutter

\* A handler at the source: the component is registered there.
LEMMA SourceRunsStep == ASSUME IInv, SourceRuns PROVE IInv' /\ HandoffStep
<1> USE DEF IInv, Types
<1>1. /\ UNCHANGED <<tdisk, src, dst, toTarget, toSource>> /\ src.running
      /\ sdisk' = [sdisk EXCEPT !.value = @ + 1]
  BY DEF SourceRuns
<1>2. sdisk.registered /\ ~sdisk.fence /\ tdisk.receipts = 0 /\ sdisk.value + 1 \in Nat
  BY <1>1 DEF SourceInv, CopyInv, SourceDisk
<1>3. /\ sdisk' \in SourceDisk /\ sdisk'.value = sdisk.value + 1
      /\ sdisk'.registered = sdisk.registered /\ sdisk'.fence = sdisk.fence
      /\ sdisk'.target = sdisk.target /\ sdisk'.sequence = sdisk.sequence
      /\ sdisk'.outbox = sdisk.outbox
  BY <1>1, <1>2 DEF SourceDisk
<1>4. Types' /\ SourceInv' /\ CopyInv' /\ OutboxInv'
  BY <1>1, <1>2, <1>3 DEF SourceInv, CopyInv, OutboxInv
<1>5. FlightInv'
  BY <1>1, <1>3 DEF FlightInv, Sendable, Replies
<1>6. Home = "source" /\ Home' = "source"
  BY <1>2, <1>3 DEF Home
<1>7. Promise!Run
  BY <1>1, <1>3, <1>6 DEF Promise!Run
<1> QED
  BY <1>4, <1>5, <1>7 DEF HandoffStep, Promise!Next

\* A handler at the target takes a message or changes the component's state.
LEMMA TargetRunsStep == ASSUME IInv, TargetRuns PROVE IInv' /\ HandoffStep
<1> USE DEF IInv, Types
<1>1. UNCHANGED <<sdisk, src, dst, toTarget, toSource>> /\ dst.attached
  BY DEF TargetRuns
<1>2. tdisk.receipts = 1 /\ ~sdisk.registered /\ tdisk.value + 1 \in Nat
  BY <1>1 DEF CopyInv, SourceDisk, TargetDisk
<1>3. /\ tdisk' \in TargetDisk
      /\ tdisk'.receipts = tdisk.receipts /\ tdisk'.sequence = tdisk.sequence
      /\ tdisk'.applied = tdisk.applied /\ tdisk'.value \in {tdisk.value, tdisk.value + 1}
  <2>1. CASE tdisk.mailbox # <<>> /\ tdisk' = [tdisk EXCEPT !.mailbox = Tail(@)]
    <3>1. tdisk.mailbox \in Seq(1 .. MaxForwards) /\ Len(tdisk.mailbox) <= MailboxMax
      BY DEF TargetDisk, Mailboxes
    <3>2. Tail(tdisk.mailbox) \in Mailboxes
      BY <2>1, <3>1, MigrationConstants DEF Mailboxes
    <3> QED
      BY <2>1, <3>2 DEF TargetDisk
  <2>2. CASE tdisk' = [tdisk EXCEPT !.value = @ + 1]
    BY <1>2, <2>2 DEF TargetDisk
  <2> QED
    BY <2>1, <2>2 DEF TargetRuns
<1>4. Types' /\ SourceInv' /\ CopyInv' /\ OutboxInv'
  BY <1>1, <1>3 DEF SourceInv, CopyInv, OutboxInv
<1>5. FlightInv'
  BY <1>1, <1>3 DEF FlightInv, Sendable, Replies
<1>6. Home = "target" /\ Home' = "target"
  BY <1>1, <1>2, <1>3 DEF Home
<1>7. CASE tdisk'.value = tdisk.value
  BY <1>1, <1>3, <1>4, <1>5, <1>7, Stutter
<1>8. CASE tdisk'.value = tdisk.value + 1
  <2>1. Promise!Run
    BY <1>1, <1>3, <1>6, <1>8 DEF Promise!Run
  <2> QED
    BY <1>4, <1>5, <2>1 DEF HandoffStep, Promise!Next
<1> QED
  BY <1>3, <1>7, <1>8

\* A lost packet.
LEMMA LoseStep == ASSUME IInv, MigrationLose PROVE IInv' /\ HandoffStep
<1> USE DEF IInv, Types
<1>1. UNCHANGED <<sdisk, tdisk, src, dst>>
  BY DEF MigrationLose
<1>2. Sendable' = Sendable /\ Replies' = Replies
  BY <1>1 DEF Sendable, Replies
<1>3. /\ toTarget' \in Seq(Sendable) /\ toSource' \in Seq(Replies)
      /\ toTarget' # <<>> => toTarget # <<>>
  BY QueueFacts DEF MigrationLose, FlightInv
<1>4. FlightInv'
  BY <1>1, <1>2, <1>3 DEF FlightInv
<1> QED
  BY <1>1, <1>4, Stutter DEF SourceInv, CopyInv, OutboxInv

\* A restart reads back what is durable, and nothing is in flight.
LEMMA RestartStep ==
    ASSUME IInv, RestartSource \/ RestartTarget
    PROVE  IInv' /\ HandoffStep
<1> USE DEF IInv, Types
<1>1. UNCHANGED <<sdisk, tdisk>> /\ toTarget' = <<>> /\ toSource' = <<>>
  BY DEF RestartSource, RestartTarget
<1>2. FlightInv'
  BY <1>1 DEF FlightInv
<1>3. OutboxInv' /\ HandoffStep
  BY <1>1, Stutter DEF OutboxInv
<1>4. CASE RestartSource
  <2>1. dst' = dst /\ src' = OpenSource(sdisk)
    BY <1>4 DEF RestartSource
  <2>2. /\ src' \in SourceNode /\ src'.running = sdisk.registered
        /\ src'.target = sdisk.target /\ src'.sequence = sdisk.sequence
        /\ src'.source => sdisk.fence
        /\ src'.phase = 3 => sdisk.target
    BY <2>1, MigrationConstants DEF OpenSource, SourceNode, SourceDisk
  <2> QED
    BY <1>1, <1>2, <1>3, <2>1, <2>2 DEF SourceInv, CopyInv
<1>5. CASE RestartTarget
  <2>1. src' = src /\ dst' = OpenTarget
    BY <1>5 DEF RestartTarget
  <2>2. dst' \in TargetNode /\ ~dst'.attached
    BY <2>1 DEF OpenTarget, TargetNode
  <2> QED
    BY <1>1, <1>2, <1>3, <2>1, <2>2 DEF SourceInv, CopyInv
<1> QED
  BY <1>4, <1>5

-----------------------------------------------------------------------------
(* The theorems *)

\* A component that was never fenced satisfies the invariant.
LEMMA InitIInv == MigrationInit => IInv
<1> SUFFICES ASSUME MigrationInit PROVE IInv
  OBVIOUS
<1> USE DEF MigrationInit
<1>1. sdisk \in SourceDisk /\ tdisk \in TargetDisk
  <2>1. 0 \in 0 .. MaxForwards /\ <<>> \in Mailboxes /\ <<>> \in Seq(1 .. MaxForwards)
    BY MigrationConstants DEF Mailboxes
  <2> QED
    BY <2>1 DEF SourceDisk, TargetDisk
<1>2. src \in SourceNode
  <2>1. 0 \in 0 .. Chunks
    BY MigrationConstants
  <2> QED
    BY <2>1 DEF OpenSource, SourceNode
<1>3. dst \in TargetNode /\ ~dst.attached
  BY DEF OpenTarget, TargetNode
<1>4. SourceInv
  <2>1. /\ sdisk.registered = TRUE /\ sdisk.fence = FALSE /\ sdisk.target = FALSE
        /\ sdisk.sequence = 0
    OBVIOUS
  <2>2. src.running = sdisk.registered /\ src.source = FALSE
    BY <2>1 DEF OpenSource
  <2>3. src.phase = 0 /\ src.sequence = sdisk.sequence
    BY <2>1 DEF OpenSource
  <2> QED
    BY <2>1, <2>2, <2>3 DEF SourceInv
<1>5. OutboxInv
  <2>1. tdisk.sequence = 0 /\ sdisk.sequence = 0 /\ sdisk.outbox = 0 /\ tdisk.applied = <<>>
    OBVIOUS
  <2> QED
    BY <2>1 DEF OutboxInv
<1>6. CopyInv
  BY <1>3 DEF CopyInv, OpenSource
<1>7. FlightInv
  BY DEF FlightInv
<1> QED
  BY <1>1, <1>2, <1>3, <1>4, <1>5, <1>6, <1>7 DEF IInv, Types

\* Every step of the protocol preserves the invariant and is a step of Handoff
\* or a stutter of it.
LEMMA NextStep == IInv /\ [MigrationNext]_migrationVars => IInv' /\ HandoffStep
<1> SUFFICES ASSUME IInv, [MigrationNext]_migrationVars PROVE IInv' /\ HandoffStep
  OBVIOUS
<1>1. CASE migration_begin
  BY <1>1, BeginStep
<1>2. CASE migration_next_packet
  BY <1>2, PacketStep
<1>3. CASE SourceReceives
  BY <1>3, SourceReceivesStep
<1>4. CASE migration_forward
  BY <1>4, ForwardStep
<1>5. CASE TargetReceives
  BY <1>5, TargetReceivesStep
<1>6. CASE migration_attach_target
  BY <1>6, AttachStep
<1>7. CASE SourceRuns
  BY <1>7, SourceRunsStep
<1>8. CASE TargetRuns
  BY <1>8, TargetRunsStep
<1>9. CASE MigrationLose
  BY <1>9, LoseStep
<1>10. CASE MigrationCrash \/ MigrationRejoin
  BY <1>10, RestartStep DEF MigrationCrash, MigrationRejoin
<1>11. CASE MigrationEstablish \/ UNCHANGED migrationVars
  <2>1. UNCHANGED <<sdisk, tdisk, src, dst, toTarget, toSource>>
    BY <1>11 DEF MigrationEstablish, migrationVars
  <2>2. IInv'
    BY <2>1 DEF IInv, Types, SourceInv, CopyInv, OutboxInv, FlightInv, Sendable, Replies
  <2> QED
    BY <2>1, <2>2, Stutter
<1> QED
  BY <1>1, <1>2, <1>3, <1>4, <1>5, <1>6, <1>7, <1>8, <1>9, <1>10, <1>11 DEF MigrationNext

\* The invariant holds of every reachable state.
LEMMA Invariance == MigrationSpec => []IInv
<1>1. IInv /\ [MigrationNext]_migrationVars => IInv'
  BY NextStep
<1> QED
  BY InitIInv, <1>1, PTL DEF MigrationSpec

\* The component's state counts the handlers that ran, at the source and in the
\* fence's digest as at the target.
RunsInv ==
    /\ migrationSpent \in [runs : 0 .. MaxRuns, crashes : Nat, faults : Nat]
    /\ sdisk.value <= migrationSpent.runs /\ sdisk.digest <= migrationSpent.runs
    /\ tdisk.value <= migrationSpent.runs

\* Only a handler counts, and nothing else changes the component's state but
\* the fence, which copies it, and the import, which copies the fence.
LEMMA RunsStep == IInv /\ RunsInv /\ [MigrationNext]_migrationVars => RunsInv'
<1> SUFFICES ASSUME IInv, RunsInv, [MigrationNext]_migrationVars PROVE RunsInv'
  OBVIOUS
<1>1. sdisk \in SourceDisk /\ tdisk \in TargetDisk
  BY DEF IInv, Types
<1>2. ASSUME Committed \/ MigrationFault \/ UNCHANGED migrationSpent
      PROVE  /\ migrationSpent' \in [runs : 0 .. MaxRuns, crashes : Nat, faults : Nat]
             /\ migrationSpent'.runs = migrationSpent.runs
  BY <1>2 DEF RunsInv, Committed, MigrationFault
<1>3. CASE migration_begin
  <2>1. sdisk' \in {sdisk, Fenced} /\ tdisk' = tdisk /\ (Committed \/ MigrationFault)
    BY <1>3 DEF migration_begin
  <2>2. Fenced.value = sdisk.value /\ Fenced.digest = sdisk.value
    BY <1>1 DEF Fenced, SourceDisk
  <2> QED
    BY <1>2, <2>1, <2>2 DEF RunsInv
<1>4. CASE SourceReceives \/ migration_forward
  <2>1. /\ sdisk'.value = sdisk.value /\ sdisk'.digest = sdisk.digest /\ tdisk' = tdisk
        /\ Committed \/ MigrationFault
    BY <1>1, <1>4 DEF SourceReceives, migration_forward, SourceDisk
  <2> QED
    BY <1>2, <2>1 DEF RunsInv
<1>5. CASE TargetReceives
  <2>1. /\ tdisk'.value \in {tdisk.value, sdisk.digest} /\ sdisk' = sdisk
        /\ Committed \/ MigrationFault
    BY <1>1, <1>5 DEF TargetReceives, TargetForward, TargetTransfer, Forwarded, Imported, TargetDisk
  <2> QED
    BY <1>2, <2>1 DEF RunsInv
<1>6. CASE SourceRuns \/ TargetRuns
  <2>1. CASE UNCHANGED migrationSpent
    <3>1. sdisk' = sdisk /\ tdisk'.value = tdisk.value
      BY <1>1, <1>6, <2>1 DEF SourceRuns, TargetRuns, Ran, RunsInv, TargetDisk
    <3> QED
      BY <1>2, <2>1, <3>1 DEF RunsInv
  <2>2. CASE Ran
    <3>1. /\ migrationSpent' \in [runs : 0 .. MaxRuns, crashes : Nat, faults : Nat]
          /\ migrationSpent'.runs = migrationSpent.runs + 1
      BY <2>2, MigrationConstants DEF Ran, RunsInv
    <3>2. /\ sdisk'.value \in {sdisk.value, sdisk.value + 1} /\ sdisk'.digest = sdisk.digest
          /\ tdisk'.value \in {tdisk.value, tdisk.value + 1}
      BY <1>1, <1>6 DEF SourceRuns, TargetRuns, SourceDisk, TargetDisk
    <3>3. /\ sdisk.value \in Nat /\ sdisk.digest \in Nat /\ tdisk.value \in Nat
          /\ migrationSpent.runs \in Nat
      BY <1>1 DEF SourceDisk, TargetDisk, RunsInv
    <3> QED
      BY <3>1, <3>2, <3>3 DEF RunsInv
  <2> QED
    BY <1>6, <2>1, <2>2 DEF SourceRuns, TargetRuns
<1>7. CASE MigrationCrash \/ MigrationRejoin
  <2>1. /\ UNCHANGED <<sdisk, tdisk>>
        /\ migrationSpent' \in [runs : 0 .. MaxRuns, crashes : Nat, faults : Nat]
        /\ migrationSpent'.runs = migrationSpent.runs
    BY <1>7 DEF MigrationCrash, MigrationRejoin, RestartSource, RestartTarget, RunsInv
  <2> QED
    BY <2>1 DEF RunsInv
<1>8. CASE UNCHANGED <<sdisk, tdisk, migrationSpent>>
  BY <1>8 DEF RunsInv
<1> QED
  BY <1>3, <1>4, <1>5, <1>6, <1>7, <1>8
  DEF MigrationNext, migrationVars, migration_next_packet, migration_attach_target, MigrationLose,
      MigrationEstablish

\* What the target holds of the bundle is a prefix of it.
LEMMA BegunIsPrefix == ASSUME NEW b \in Begun PROVE IsPrefix(b, Full)
<1>1. b \in Seq(Nat) /\ Len(b) \in Nat /\ Len(b) <= Chunks /\ \A i \in 1 .. Len(b) : b[i] = i
  BY DEF Begun
<1>2. Full \in Seq(Nat) /\ Len(Full) = Chunks /\ \A i \in 1 .. Chunks : Full[i] = i
  BY MigrationConstants DEF Full
<1>3. \A i \in 1 .. Len(b) : b[i] = Full[i]
  BY <1>1, <1>2, MigrationConstants
<1>4. SubSeq(b, 1, Len(b)) = SubSeq(Full, 1, Len(b))
  BY <1>1, <1>2, <1>3, MigrationConstants
<1> QED
  BY <1>1, <1>2, <1>4 DEF IsPrefix

\* Whatever crashes, is lost or is left to recovery between the batches of
\* migration_begin, publish_import and forward_receive: the component has one
\* runnable copy, the source records a target only when the import is durable
\* there, the bundle under construction is a prefix of the one sent, and the
\* mailbox holds no more than it may.
THEOREM MigrationSafe == MigrationSpec => []MigrationSound
<1>1. MigrationInit => RunsInv
  BY MigrationConstants DEF MigrationInit, RunsInv
<1>2. MigrationSpec => []RunsInv
  BY <1>1, RunsStep, Invariance, PTL DEF MigrationSpec
<1>3. IInv => OneRunnableCopy /\ AcknowledgedMeansImported
  BY DEF IInv, SourceInv, CopyInv, OneRunnableCopy, AcknowledgedMeansImported
<1>4. IInv /\ RunsInv => MigrationTypeOK
  <2> SUFFICES ASSUME IInv, RunsInv PROVE MigrationTypeOK
    OBVIOUS
  <2> USE DEF IInv, Types
  <2>1. sdisk \in [registered : BOOLEAN, fence : BOOLEAN, target : BOOLEAN,
                   sequence : 0 .. MaxForwards, outbox : 0 .. MaxForwards, value : 0 .. MaxRuns,
                   digest : 0 .. MaxRuns]
    <3>1. sdisk.value \in 0 .. MaxRuns /\ sdisk.digest \in 0 .. MaxRuns
      BY MigrationConstants DEF RunsInv, SourceDisk
    <3> QED
      BY <3>1 DEF SourceDisk
  <2>2. tdisk \in [receipts : 0 .. 1, sequence : 0 .. MaxForwards,
                   mailbox : Seq(1 .. MaxForwards), value : 0 .. MaxRuns,
                   applied : Seq(1 .. MaxForwards)]
    <3>1. tdisk.value \in 0 .. MaxRuns /\ tdisk.receipts \in 0 .. 1
      BY MigrationConstants DEF RunsInv, TargetDisk, CopyInv
    <3> QED
      BY <3>1 DEF TargetDisk, Mailboxes
  <2>3. src.phase \in {0, 1, 3} /\ src.received \in 0 .. Chunks
    BY DEF SourceNode
  <2>4. dst.bundle = NoBundle \/ IsPrefix(dst.bundle, Full)
    BY BegunIsPrefix DEF TargetNode
  <2>5. toTarget \in Seq(Packets)
    <3>1. Sendable \subseteq Packets
      BY MigrationConstants DEF Sendable, Packets, SourceDisk
    <3> QED
      BY <3>1, QueueFacts DEF FlightInv
  <2>6. toSource \in Seq(Acks)
    <3>1. Replies \subseteq Acks
      BY MigrationConstants DEF Replies, Acks, TargetDisk
    <3> QED
      BY <3>1, QueueFacts DEF FlightInv
  <2>7. Len(tdisk.mailbox) <= MailboxMax
    BY DEF TargetDisk, Mailboxes
  <2> QED
    BY <2>1, <2>2, <2>3, <2>4, <2>5, <2>6, <2>7 DEF MigrationTypeOK
<1> QED
  BY <1>2, <1>3, <1>4, Invariance, PTL DEF MigrationSound

\* The protocol of migration.c implements Handoff: one move, of the state the
\* component had, and every forwarded message applied once and in order.
THEOREM MigrationImplementsHandoff == MigrationSpec => ImplementsHandoff
<1>1. MigrationInit => Promise!Init
  <2>1. MigrationInit => Home = "source"
    BY DEF MigrationInit, Home
  <2> QED
    BY <2>1 DEF MigrationInit, Promise!Init
<1>2. IInv /\ [MigrationNext]_migrationVars => [Promise!Next]_(Promise!vars)
  BY NextStep DEF HandoffStep
<1> QED
  BY <1>1, <1>2, Invariance, PTL DEF MigrationSpec, ImplementsHandoff, Promise!Spec
=============================================================================
