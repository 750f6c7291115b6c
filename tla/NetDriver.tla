------------------------------ MODULE NetDriver ------------------------------
(***************************************************************************)
(* The network driver and the peer's step that polls it: virtio_net_poll,  *)
(* virtio_net_release_receive, virtio_net_send and                         *)
(* virtio_net_poll_transmit of drivers/virtio_net.c, the protocol worker   *)
(* of drivers/net_component.c, and net_peer_step in net/peer.c.            *)
(*                                                                         *)
(* There is one receive page and one transmit page, each alone on a queue  *)
(* of its own.  The device runs beside the peer: it drops what arrives     *)
(* while no page is posted, and it reads the transmit page when it gets    *)
(* round to it.  A frame is its number on the wire and its kind.           *)
(***************************************************************************)
EXTENDS Virtqueue, Sequences

CONSTANTS NoFrame,
          MaxReceived,  \* bound on frames arriving
          MaxPackets,   \* bound on packets the peer makes
          MaxNetFaults  \* bound on what the device does wrong

VARIABLES rx, tx,                 \* receive_queue, transmit_queue
          rxPage, txPage,         \* what the two pages hold
          net_ready,              \* net_ready
          held,                   \* receive_held
          txBusy,                 \* transmit_in_flight
          peerAlive,              \* the worker
          peerPc, datagram,       \* net_peer_step: where it is; the decoded frame
          pendingPacket, failed,  \* the peer's packet to send; peer->failed
          rxSeen, txSeen,         \* the device's avail counters
          arrived, made,          \* frames so far, packets so far
          delivered, sent, transmitted,
          netFaults

netVars == <<rx, tx, rxPage, txPage, net_ready, held, txBusy, peerAlive, peerPc, datagram,
             pendingPacket, failed, rxSeen, txSeen, arrived, made, delivered, sent, transmitted,
             netFaults>>

device == <<rxSeen, txSeen, arrived, transmitted, netFaults>>

\* A frame of the peer's route; one of another; one the decoder refuses or
\* that announces segmentation offload; one shorter than the virtio header.
FrameKinds == {"udp", "stray", "refused", "runt"}
Frames == [n : 1..MaxReceived, kind : FrameKinds]

WireLength(frame) == IF frame.kind = "runt" THEN 0 ELSE 1

\* virtio_net_init has posted the receive buffer.
NetInit ==
    /\ rx = virtqueue_submit_async(EmptyQueue, 1) /\ tx = EmptyQueue
    /\ rxPage = NoFrame /\ txPage = NoFrame
    /\ net_ready = TRUE /\ held = FALSE /\ txBusy = FALSE /\ peerAlive = FALSE
    /\ peerPc = "idle" /\ datagram = NoFrame /\ pendingPacket = NoFrame /\ failed = FALSE
    /\ rxSeen = 0 /\ txSeen = 0 /\ arrived = 0 /\ made = 0
    /\ delivered = <<>> /\ sent = <<>> /\ transmitted = <<>> /\ netFaults = 0

-----------------------------------------------------------------------------
\* The page is cleared and posted again; a queue that refuses it is the end
\* of the driver.  `queue` is the receive queue as the caller leaves it.
repost_receive_buffer(queue) ==
    /\ rxPage' = NoFrame
    /\ rx' = IF Submittable(queue) THEN virtqueue_submit_async(queue, 1) ELSE queue
    /\ net_ready' = Submittable(queue)

\* net_peer_step gives up for good.
PeerFails == failed' = TRUE /\ peerPc' = "idle"

TransmitDone == txPage' = NoFrame /\ txBusy' = FALSE

\* The peer's step begins: the transmit page is free again once the device is
\* done with it.  A store that needs recovery fails the peer.
virtio_net_poll_transmit(broken) ==
    /\ peerPc = "idle" /\ ~failed
    /\ LET result == IF txBusy THEN virtqueue_poll_used(tx) ELSE "IDLE" IN
       IF ~net_ready \/ broken THEN PeerFails /\ UNCHANGED <<tx, txPage, net_ready, txBusy>>
       ELSE /\ tx' = IF txBusy THEN Polled(tx) ELSE tx
            /\ IF result = "FAILED"
               THEN net_ready' = FALSE /\ PeerFails /\ UNCHANGED <<txPage, txBusy>>
               ELSE /\ peerPc' = "flush" /\ UNCHANGED <<net_ready, failed>>
                    /\ IF result = "COMPLETE"
                       THEN TransmitDone
                       ELSE UNCHANGED <<txPage, txBusy>>
    /\ UNCHANGED <<rx, rxPage, held, peerAlive, datagram, pendingPacket, made, delivered, sent,
                   device>>

\* Mutant: the page is filled although a frame in it is still in flight.
MaySendBusy == TRUE

MaySend == ~txBusy

\* virtio_net_send and flush_pending: while a frame is in flight the packet
\* stays pending.  `next` is where the peer's step goes from here, `packet`
\* what is pending.
virtio_net_send(packet, next) ==
    IF packet = NoFrame
    THEN peerPc' = next /\ pendingPacket' = NoFrame /\ UNCHANGED <<tx, txPage, net_ready, txBusy, failed, sent>>
    ELSE IF ~net_ready THEN PeerFails /\ pendingPacket' = packet /\ UNCHANGED <<tx, txPage, net_ready, txBusy, sent>>
    ELSE IF ~MaySend
    THEN peerPc' = "idle" /\ pendingPacket' = packet /\ UNCHANGED <<tx, txPage, net_ready, txBusy, failed, sent>>
    ELSE IF ~Submittable(tx)
    THEN txPage' = NoFrame /\ net_ready' = FALSE /\ PeerFails /\ pendingPacket' = packet
         /\ UNCHANGED <<tx, txBusy, sent>>
    ELSE /\ txPage' = packet /\ tx' = virtqueue_submit_async(tx, 0) /\ txBusy' = TRUE
         /\ sent' = Append(sent, packet) /\ pendingPacket' = NoFrame /\ peerPc' = next
         /\ UNCHANGED <<net_ready, failed>>

\* The first flush_pending.  Nothing is received while a packet is pending.
FlushFirst ==
    /\ peerPc = "flush"
    /\ virtio_net_send(pendingPacket, "poll")
    /\ UNCHANGED <<rx, rxPage, held, peerAlive, datagram, made, delivered, device>>

\* What becomes of the receive page when a frame is taken: it is held.
Hold(queue) == rx' = queue /\ held' = TRUE /\ UNCHANGED <<rxPage, net_ready>>

\* virtio_net_poll: a frame that is too short or that the decoder refuses is
\* dropped and its page posted again.
virtio_net_poll ==
    /\ peerPc = "poll"
    /\ LET result == CASE ~net_ready -> "FAILED"
                       [] net_ready /\ held -> "BUSY"
                       [] net_ready /\ ~held -> virtqueue_poll_used(rx)
           good == result = "COMPLETE" /\ UsedLength(rx) > 0 /\ rxPage # NoFrame
                   /\ rxPage.kind \in {"udp", "stray"} IN
       \/ /\ result \in {"BUSY", "EMPTY"}
          /\ peerPc' = "make" /\ UNCHANGED <<rx, rxPage, net_ready, held, datagram, failed>>
       \/ /\ result = "FAILED"
          /\ rx' = IF net_ready THEN Polled(rx) ELSE rx
          /\ net_ready' = FALSE /\ PeerFails
          /\ UNCHANGED <<rxPage, held, datagram>>
       \/ /\ result = "COMPLETE" /\ ~good
          /\ repost_receive_buffer(Polled(rx))
          /\ IF net_ready' THEN peerPc' = "make" /\ UNCHANGED failed ELSE PeerFails
          /\ UNCHANGED <<held, datagram>>
       \/ /\ good
          /\ Hold(Polled(rx)) /\ datagram' = rxPage /\ peerPc' = "validate"
          /\ UNCHANGED failed
    /\ UNCHANGED <<tx, txPage, txBusy, peerAlive, pendingPacket, made, delivered, sent, device>>

\* net_component_validate: a dead worker is started again; it answers as the
\* kernel's own decoder does, refuses the frame, answers otherwise, or ends
\* without an answer.  Only the first is accepted, and after the last two the
\* worker is dead.  Then the addresses are compared with the peer's route.
Answers == {"same", "refused", "other", "none"}

net_component_validate(answer) ==
    /\ peerPc = "validate"
    /\ peerAlive' = (answer \in {"same", "refused"})
    /\ peerPc' = IF answer = "same" /\ datagram.kind = "udp" THEN "deliver" ELSE "release"
    /\ UNCHANGED <<rx, tx, rxPage, txPage, net_ready, held, txBusy, datagram, pendingPacket,
                   failed, made, delivered, sent, device>>

\* The payload is copied out of the page and handled; the handler may leave a
\* packet to send, or find the store broken, which fails the peer.
DeliverFrame(reply, broken) ==
    /\ peerPc = "deliver"
    /\ delivered' = Append(delivered, [decoded |-> datagram, copied |-> rxPage])
    /\ IF reply /\ made < MaxPackets
       THEN made' = made + 1 /\ pendingPacket' = made + 1
       ELSE UNCHANGED <<made, pendingPacket>>
    /\ failed' = broken /\ peerPc' = "release"
    /\ UNCHANGED <<rx, tx, rxPage, txPage, net_ready, held, txBusy, peerAlive, datagram, sent,
                   device>>

Releases == TRUE

\* virtio_net_release_receive, whatever became of the frame.
virtio_net_release_receive ==
    /\ peerPc = "release"
    /\ IF net_ready /\ held /\ Releases
       THEN /\ held' = FALSE /\ repost_receive_buffer(rx)
            /\ failed' = (failed \/ ~net_ready')
       ELSE failed' = (failed \/ Releases) /\ UNCHANGED <<rx, rxPage, net_ready, held>>
    /\ datagram' = NoFrame
    /\ peerPc' = IF failed' THEN "idle" ELSE "make"
    /\ UNCHANGED <<tx, txPage, txBusy, peerAlive, pendingPacket, made, delivered, sent, device>>

\* The rest of net_peer_step: when nothing is pending and its tick has come a
\* hello or a summary is; then the last flush_pending.
MakeAndFlush ==
    /\ peerPc = "make"
    /\ \/ UNCHANGED made /\ virtio_net_send(pendingPacket, "idle")
       \/ /\ pendingPacket = NoFrame /\ made < MaxPackets
          /\ made' = made + 1 /\ virtio_net_send(made', "idle")
    /\ UNCHANGED <<rx, rxPage, held, peerAlive, datagram, delivered, device>>

PeerStep ==
    \/ \E broken \in BOOLEAN : virtio_net_poll_transmit(broken)
    \/ FlushFirst \/ virtio_net_poll
    \/ \E answer \in Answers : net_component_validate(answer)
    \/ \E reply, broken \in BOOLEAN : DeliverFrame(reply, broken)
    \/ virtio_net_release_receive \/ MakeAndFlush

-----------------------------------------------------------------------------
netKernel == <<net_ready, held, txBusy, peerAlive, peerPc, datagram, pendingPacket, failed, made, delivered, sent>>

\* A frame arrives.  Without a posted page it is lost.
DeviceReceive(kind) ==
    /\ arrived < MaxReceived /\ arrived' = arrived + 1
    /\ IF rxSeen = rx.avail THEN UNCHANGED <<rx, rxPage, rxSeen>>
       ELSE LET frame == [n |-> arrived', kind |-> kind] IN
            /\ rxPage' = frame /\ rxSeen' = (rxSeen + 1) % IndexMod
            /\ rx' = DeviceUsed(rx, 0, WireLength(frame))
    /\ UNCHANGED <<tx, txPage, txSeen, transmitted, netFaults, netKernel>>

\* The device puts the transmit page on the wire, and then reports it.
DeviceTransmit ==
    /\ txSeen # tx.avail /\ txSeen' = (txSeen + 1) % IndexMod
    /\ transmitted' = Append(transmitted, txPage)
    /\ tx' = DeviceUsed(tx, 0, 0)
    /\ UNCHANGED <<rx, rxPage, txPage, rxSeen, arrived, netFaults, netKernel>>

\* It reports a chain it was not given or more bytes than fit, on either
\* queue, and goes on.
NetDeviceWrong ==
    /\ netFaults < MaxNetFaults /\ netFaults' = netFaults + 1
    /\ \/ rx' = DeviceUsed(rx, 1, 0) /\ UNCHANGED tx
       \/ rx' = DeviceUsed(rx, 0, 2) /\ UNCHANGED tx
       \/ tx' = DeviceUsed(tx, 1, 0) /\ UNCHANGED rx
       \/ tx' = DeviceUsed(tx, 0, 1) /\ UNCHANGED rx
    /\ UNCHANGED <<rxPage, txPage, rxSeen, txSeen, arrived, transmitted, netKernel>>

NetNext ==
    \/ PeerStep
    \/ \E kind \in FrameKinds : DeviceReceive(kind)
    \/ DeviceTransmit \/ NetDeviceWrong

NetSpec == NetInit /\ [][NetNext]_netVars

\* The main loop keeps stepping the peer, and the device transmits what it is
\* given; frames need never arrive.
NetFairSpec == NetSpec /\ WF_netVars(PeerStep) /\ WF_netVars(DeviceTransmit)

-----------------------------------------------------------------------------
NetTypeOK ==
    /\ rxPage \in Frames \cup {NoFrame} /\ datagram \in Frames \cup {NoFrame}
    /\ txPage \in 1..MaxPackets \cup {NoFrame} /\ pendingPacket \in 1..MaxPackets \cup {NoFrame}
    /\ {net_ready, held, txBusy, peerAlive, failed} \subseteq BOOLEAN
    /\ peerPc \in {"idle", "flush", "poll", "validate", "deliver", "release", "make"}
    /\ held = (peerPc \in {"validate", "deliver", "release"})

\* The peer handles the bytes the decoder checked: the page is not given back
\* to the device before the payload has been copied, and no frame is handled
\* twice or out of order (virtio_net_poll, virtio_net_release_receive).
DeliveredWhole ==
    /\ \A i \in 1..Len(delivered) :
           /\ delivered[i].decoded.kind = "udp"
           /\ delivered[i].copied = delivered[i].decoded
    /\ \A i, j \in 1..Len(delivered) :
           i < j => delivered[i].decoded.n < delivered[j].decoded.n

\* The frames on the wire are those virtio_net_send took, in their order and
\* unaltered, with at most the last still to come, even after the device has
\* misreported and the driver has stopped.
TransmittedAsSent ==
    /\ Len(transmitted) \in {Len(sent), Len(sent) - 1}
    /\ \A i \in 1..Len(transmitted) : transmitted[i] = sent[i]

\* Between two of its steps a peer that has not failed has its only receive
\* page on the queue: no way through poll, worker and handler loses it.
PageReposted ==
    peerPc = "idle" /\ ~failed /\ net_ready => rx.inFlight /\ ~held

\* Frames pass the network driver whole and in order, in both directions, and
\* its one receive page is never lost.
NetSound == NetTypeOK /\ DeliveredWhole /\ TransmittedAsSent /\ PageReposted

\* A packet is sent in the end unless the peer fails: a busy transmit page
\* delays it, and never for ever (flush_pending, virtio_net_poll_transmit).
PendingLeaves == pendingPacket # NoFrame ~> pendingPacket = NoFrame \/ failed
=============================================================================
