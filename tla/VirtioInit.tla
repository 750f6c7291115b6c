----------------------------- MODULE VirtioInit ------------------------------
(***************************************************************************)
(* Bringing up the virtio devices at boot: virtio_net_init, then           *)
(* virtio_blk_init, with virtio_pci_reset, virtio_pci_negotiate and        *)
(* virtqueue_setup.  Each step may fail, the device may refuse or break at *)
(* any of them, and frames may run out; a device that was told of a frame  *)
(* may use it from then on.                                                *)
(***************************************************************************)
EXTENDS PhysicalMemory, SequencesExt

VARIABLES memory,   \* the frame allocator
          stage,    \* the next step of each device's initialisation
          status,   \* the device status bits
          flush,    \* VIRTIO_BLK_FEATURE_FLUSH was accepted
          rings,    \* the frames of the queues that are set up
          buffers,  \* the frames of the driver's own buffers
          told,     \* the frames whose addresses the device has been given
          ready     \* net_ready, blk_ready

bringupVars == <<memory, stage, status, flush, rings, buffers, told, ready>>

Devices == {"net", "blk"}
QueueCount(d) == IF d = "net" THEN 2 ELSE 1
BufferCount(d) == IF d = "net" THEN 2 ELSE 1

\* n calls of pmm_alloc_frame: the frames, as long as there are any.
AllocMany(mm, n) ==
    FoldLeft(LAMBDA acc, i : IF Found(acc.m) = 0 THEN acc
                             ELSE [m |-> pmm_alloc_frame(acc.m), got |-> acc.got \cup {Found(acc.m)}],
             [m |-> mm, got |-> {}], [i \in 1..n |-> i])

FreeMany(mm, frames) == FoldLeft(LAMBDA acc, f : FreeFrame(acc, f), mm, SetToSeq(frames))

\* Some frames are in use when the drivers start.
BringupInit ==
    /\ \E n \in 0..pmm_init.free : memory = AllocMany(pmm_init, n).m
    /\ stage = [d \in Devices |-> "attach"]
    /\ status = [d \in Devices |-> {}] /\ flush = [d \in Devices |-> FALSE]
    /\ rings = [d \in Devices |-> {}] /\ buffers = [d \in Devices |-> {}]
    /\ told = [d \in Devices |-> {}] /\ ready = [d \in Devices |-> FALSE]

\* virtio_blk_init is called once virtio_net_init has returned.
Stands(d, step) == stage[d] = step /\ (d = "blk" => stage["net"] \in {"done", "failed"})

Goto(d, step) == stage' = [stage EXCEPT ![d] = step]

virtio_pci_add_status(d, bits) == status' = [status EXCEPT ![d] = @ \cup bits]

\* Most failures mark the device and return 0.
FailDevice(d) == virtio_pci_add_status(d, {"FAILED"}) /\ Goto(d, "failed")

-----------------------------------------------------------------------------
\* virtio_pci_attach, for either device id, and virtio_pci_reset, which waits
\* for the device to clear its status and gives up in the end.
AttachAndReset(d) ==
    /\ Stands(d, "attach")
    /\ Goto(d, "negotiate") \/ Goto(d, "failed")
    /\ UNCHANGED <<memory, status, flush, rings, buffers, told, ready>>

Acceptable(d, offersFlush) == d = "blk" => offersFlush

\* virtio_pci_negotiate: the device must offer VERSION_1 and keep FEATURES_OK.
virtio_pci_negotiate(d, offersVersion, offersFlush, keeps) ==
    /\ Stands(d, "negotiate")
    /\ flush' = [flush EXCEPT ![d] = offersFlush /\ d = "blk"]
    /\ LET bits == {"ACKNOWLEDGE", "DRIVER"} \cup
                   (IF offersVersion /\ keeps THEN {"FEATURES_OK"} ELSE {}) IN
       IF offersVersion /\ keeps /\ Acceptable(d, offersFlush)
       THEN virtio_pci_add_status(d, bits) /\ Goto(d, "queues")
       ELSE virtio_pci_add_status(d, bits \cup {"FAILED"}) /\ Goto(d, "failed")
    /\ UNCHANGED <<memory, rings, buffers, told, ready>>

\* What virtqueue_setup gives back when a ring cannot be allocated: the rings
\* of this queue, which the device has not been told of.
\* Mutant: those of the queue before it as well.
GivenBackAll(d, got) == got \cup rings[d]

GivenBack(d, got) == got

\* virtqueue_setup: three frames; the device is told of them and enabled.
virtqueue_setup(d, hasQueue) ==
    /\ Stands(d, "queues") /\ Cardinality(rings[d]) < 3 * QueueCount(d)
    /\ LET r == AllocMany(memory, 3) IN
       IF ~hasQueue THEN FailDevice(d) /\ UNCHANGED <<memory, rings, told>>
       ELSE IF Cardinality(r.got) < 3
       THEN memory' = FreeMany(r.m, GivenBack(d, r.got)) /\ FailDevice(d) /\ UNCHANGED <<rings, told>>
       ELSE /\ memory' = r.m
            /\ rings' = [rings EXCEPT ![d] = @ \cup r.got]
            /\ told' = [told EXCEPT ![d] = @ \cup r.got]
            /\ UNCHANGED <<stage, status>>
    /\ UNCHANGED <<flush, buffers, ready>>

\* allocate_receive_buffer and allocate_transmit_buffer, or allocate_dma_page;
\* a buffer without its companion is given back.
AllocateBuffers(d) ==
    /\ Stands(d, "queues") /\ Cardinality(rings[d]) = 3 * QueueCount(d)
    /\ LET r == AllocMany(memory, BufferCount(d)) IN
       IF Cardinality(r.got) < BufferCount(d)
       THEN memory' = FreeMany(r.m, r.got) /\ FailDevice(d) /\ UNCHANGED buffers
       ELSE /\ memory' = r.m /\ buffers' = [buffers EXCEPT ![d] = r.got]
            /\ Goto(d, "start") /\ UNCHANGED status
    /\ UNCHANGED <<flush, rings, told, ready>>

\* release_transmit_buffer and release_receive_buffer.
Forgotten(d) == memory' = FreeMany(memory, buffers[d]) /\ buffers' = [buffers EXCEPT ![d] = {}]

\* DRIVER_OK.  The network device's status is read back, and only then is the
\* receive buffer posted.
Start(d, breaks) ==
    /\ Stands(d, "start")
    /\ virtio_pci_add_status(d, {"DRIVER_OK"} \cup (IF breaks THEN {"NEEDS_RESET"} ELSE {}))
    /\ IF breaks /\ d = "net"
       THEN Goto(d, "failed") /\ Forgotten(d) /\ UNCHANGED <<told, ready>>
       ELSE /\ Goto(d, "done") /\ ready' = [ready EXCEPT ![d] = TRUE]
            /\ told' = IF d = "net" THEN [told EXCEPT ![d] = @ \cup {Lowest(buffers[d])}] ELSE told
            /\ UNCHANGED <<memory, buffers>>
    /\ UNCHANGED <<flush, rings>>

\* The first request or frame gives the device the other buffers.
Use(d) ==
    /\ ready[d] /\ ~(buffers[d] \subseteq told[d])
    /\ told' = [told EXCEPT ![d] = @ \cup buffers[d]]
    /\ UNCHANGED <<memory, stage, status, flush, rings, buffers, ready>>

BringupNext ==
    \E d \in Devices :
        \/ AttachAndReset(d)
        \/ \E v, f, k \in BOOLEAN : virtio_pci_negotiate(d, v, f, k)
        \/ \E hasQueue \in BOOLEAN : virtqueue_setup(d, hasQueue)
        \/ AllocateBuffers(d)
        \/ \E breaks \in BOOLEAN : Start(d, breaks)
        \/ Use(d)

BringupSpec == BringupInit /\ [][BringupNext]_bringupVars

-----------------------------------------------------------------------------
Bits == {"ACKNOWLEDGE", "DRIVER", "FEATURES_OK", "DRIVER_OK", "FAILED", "NEEDS_RESET"}

InitTypeOK ==
    /\ memory.used \subseteq AllFrames /\ memory.free \in Nat
    /\ \A d \in Devices :
           /\ status[d] \subseteq Bits /\ rings[d] \subseteq AllFrames
           /\ buffers[d] \subseteq memory.used /\ ready[d] \in BOOLEAN

\* Whatever step fails, the device never has the address of a frame that has
\* been given back, and no two devices, queues or buffers share one: queues
\* that were enabled keep their frames, and buffers are freed only before the
\* device is told of them (virtio_net_init, virtqueue_setup).
DeviceSeesOnlyOwned ==
    /\ \A d \in Devices : told[d] \subseteq memory.used /\ told[d] \subseteq rings[d] \cup buffers[d]
    /\ \A d \in Devices : rings[d] \cap buffers[d] = {}
    /\ (rings["net"] \cup buffers["net"]) \cap (rings["blk"] \cup buffers["blk"]) = {}

\* A driver is ready only on a device that took all of the handshake, with all
\* its queues and buffers, and the disk only with FLUSH, on which the store's
\* crash safety depends (virtio_blk_init).
ReadyIsComplete ==
    \A d \in Devices : ready[d] =>
        /\ {"ACKNOWLEDGE", "DRIVER", "FEATURES_OK", "DRIVER_OK"} \subseteq status[d]
        /\ "FAILED" \notin status[d]
        /\ Cardinality(rings[d]) = 3 * QueueCount(d)
        /\ Cardinality(buffers[d]) = BufferCount(d)
        /\ d = "blk" => flush[d]

\* Bringing a device up is sound at every step that can fail.
BringupSound == InitTypeOK /\ DeviceSeesOnlyOwned /\ ReadyIsComplete
=============================================================================
