----------------------------- MODULE BlockDriver -----------------------------
(***************************************************************************)
(* A disk request's way from the kernel to the device and back: request in *)
(* drivers/block_component.c, the driver component that runs it            *)
(* (components/block_driver/driver.zig) and its supervisor, the calls the  *)
(* driver makes (drivers/virtio_blk.c) and the request queue.              *)
(*                                                                         *)
(* The kernel runs one request at a time, to its end; the device runs      *)
(* beside it.  It may be slow, may answer after the kernel has stopped     *)
(* waiting, may fail an operation, and may misuse the used ring.           *)
(***************************************************************************)
EXTENDS Virtqueue

CONSTANTS Sectors, SectorValues, NoRequest,
          PollLimit,       \* VIRTQUEUE_POLL_LIMIT
          MaxRequests,     \* bound on requests
          MaxBlockFaults,  \* bound on what the device does wrong
          MaxTraps         \* bound on traps of the driver

VARIABLES q,                                 \* blk_queue
          dmaPage,                           \* the DMA page: header, data and status
          blk_ready,                         \* blk_ready
          driverAlive, completed, response,  \* the driver component
          req,                               \* the request being run, NoRequest when not busy
          driverPc, spins,                   \* where the driver is, and how often it has polled
          seen, op,                          \* the device's avail counter and the chain it works on
          sectors,                           \* the sectors
          lastRequest,                       \* the last request's result
          acked, unacked,                    \* written and reported; written and not reported
          requests, blockFaults, traps

blockVars == <<q, dmaPage, blk_ready, driverAlive, completed, response, req, driverPc, spins,
               seen, op, sectors, lastRequest, acked, unacked, requests, blockFaults, traps>>

blockKernel == <<q, dmaPage, blk_ready, driverAlive, completed, response, req, driverPc, spins,
                 lastRequest, acked, unacked, requests, traps>>

Types == {"IN", "OUT", "FLUSH"}
BlockRequests == [type : Types, sector : Sectors, data : SectorValues]

\* The bytes the device may write: the sector of a read, and the status.
Writable(r) == IF r.type = "IN" THEN 2 ELSE 1

\* virtio_blk_init, virtqueue_setup and block_component_start have succeeded.
BlockInit ==
    /\ q = EmptyQueue /\ blk_ready = TRUE
    /\ dmaPage = [header |-> NoRequest, data |-> 0, status |-> 0]
    /\ driverAlive = TRUE /\ completed = FALSE /\ response = [ok |-> FALSE, data |-> 0]
    /\ req = NoRequest /\ driverPc = "idle" /\ spins = 0 /\ seen = 0 /\ op = NoRequest
    /\ sectors = [s \in Sectors |-> 0] /\ acked = sectors
    /\ unacked = [s \in Sectors |-> {}] /\ lastRequest = NoRequest
    /\ requests = 0 /\ blockFaults = 0 /\ traps = 0

-----------------------------------------------------------------------------
\* A driver that died is restarted by the supervisor, under the next
\* generation; when it cannot be, the request fails and nothing has changed.
ensure_running == driverAlive' = TRUE

\* request up to the guest's first instruction.
Request(r) ==
    /\ req = NoRequest /\ requests < MaxRequests
    /\ requests' = requests + 1
    /\ ensure_running
    /\ req' = r /\ driverPc' = "fetch"
    /\ completed' = FALSE /\ response' = [ok |-> FALSE, data |-> 0] /\ lastRequest' = NoRequest
    /\ UNCHANGED <<q, dmaPage, blk_ready, spins, seen, op, sectors, acked, unacked, blockFaults,
                   traps>>

\* The guest fetches the request and fills the page.  Without the device it
\* returns at once, and has not completed the request.

Fill(r) == [header |-> [type |-> r.type, sector |-> r.sector], status |-> 255,
            data |-> IF r.type = "OUT" THEN r.data ELSE dmaPage.data]

DriverFetch ==
    /\ driverPc = "fetch"
    /\ IF blk_ready THEN dmaPage' = Fill(req) /\ driverPc' = "submit"
                    ELSE driverPc' = "return" /\ UNCHANGED dmaPage
    /\ UNCHANGED <<q, blk_ready, driverAlive, completed, response, req, spins, seen, op, sectors,
                   lastRequest, acked, unacked, requests, blockFaults, traps>>

\* block_component_submit, virtio_blk_submit and virtqueue_submit up to its
\* first poll.
DriverSubmit ==
    /\ driverPc = "submit" /\ blk_ready
    /\ IF Submittable(q)
       THEN /\ q' = virtqueue_submit_async(q, Writable(req))
            /\ driverPc' = "poll" /\ spins' = 0 /\ UNCHANGED blk_ready
            /\ unacked' = IF req.type = "OUT"
                          THEN [unacked EXCEPT ![req.sector] = @ \cup {req.data}]
                          ELSE unacked
       ELSE blk_ready' = FALSE /\ driverPc' = "failed" /\ UNCHANGED <<q, spins, unacked>>
    /\ UNCHANGED <<dmaPage, driverAlive, completed, response, req, seen, op, sectors,
                   lastRequest, acked, requests, blockFaults, traps>>

\* One turn of virtqueue_submit's loop that does not give up.


Poll ==
    /\ driverPc = "poll"
    /\ LET result == virtqueue_poll_used(q) IN
       /\ result = "EMPTY" => spins < PollLimit
       /\ q' = Polled(q)
       /\ blk_ready' = (result # "FAILED")
       /\ driverPc' = [EMPTY |-> "poll", COMPLETE |-> "read", FAILED |-> "failed"][result]
       /\ spins' = IF result = "EMPTY" THEN spins + 1 ELSE spins

\* The poll limit: the device may still use the page, so that neither the
\* queue nor the page is used again.

\* Mutant: the queue and the page are used for the next request.
GiveUpAndReuse ==
    /\ q' = [q EXCEPT !.inFlight = FALSE] /\ UNCHANGED blk_ready

GiveUp ==
    /\ q' = fail_queue(q) /\ blk_ready' = FALSE

TimeOut ==
    /\ driverPc = "poll" /\ spins = PollLimit /\ virtqueue_poll_used(q) = "EMPTY"
    /\ GiveUp
    /\ driverPc' = "failed" /\ UNCHANGED spins

DriverPoll ==
    /\ Poll \/ TimeOut
    /\ UNCHANGED <<dmaPage, driverAlive, completed, response, req, seen, op, sectors,
                   lastRequest, acked, unacked, requests, blockFaults, traps>>

\* The guest reads the status, then the data, and completes the request.
ReturnAnswer == IF driverPc = "read" /\ blk_ready /\ dmaPage.status = 0
          THEN [ok |-> TRUE, data |-> dmaPage.data]
          ELSE [ok |-> FALSE, data |-> 0]

DriverComplete ==
    /\ driverPc \in {"read", "failed"}
    /\ completed' = TRUE /\ response' = ReturnAnswer
    /\ driverPc' = "return"
    /\ UNCHANGED <<q, dmaPage, blk_ready, driverAlive, req, spins, seen, op, sectors,
                   lastRequest, acked, unacked, requests, blockFaults, traps>>

\* The guest traps between two of its calls.
DriverTrap ==
    /\ driverPc \in {"fetch", "submit", "read", "failed"} /\ traps < MaxTraps
    /\ traps' = traps + 1
    /\ completed' = FALSE /\ driverPc' = "return"
    /\ UNCHANGED <<q, dmaPage, blk_ready, driverAlive, response, req, spins, seen, op, sectors,
                   lastRequest, acked, unacked, requests, blockFaults>>

Finished == req' = NoRequest /\ driverPc' = "idle"

\* The rest of request: a driver that did not complete is dead.
ReturnRequest ==
    /\ driverPc = "return"
    /\ driverAlive' = completed
    /\ LET ok == completed /\ response.ok IN
       /\ lastRequest' = [req |-> req, ok |-> ok, data |-> response.data]
       /\ IF ok /\ req.type = "OUT"
          THEN /\ acked' = [acked EXCEPT ![req.sector] = req.data]
               /\ unacked' = [unacked EXCEPT ![req.sector] = {}]
          ELSE UNCHANGED <<acked, unacked>>
    /\ Finished
    /\ UNCHANGED <<q, dmaPage, blk_ready, completed, response, spins, seen, op, sectors,
                   requests, blockFaults, traps>>

-----------------------------------------------------------------------------
\* The device takes the next chain of the avail ring, as the page is then.
DeviceTake ==
    /\ op = NoRequest /\ seen # q.avail /\ dmaPage.header # NoRequest
    /\ seen' = (seen + 1) % IndexMod
    /\ op' = dmaPage
    /\ UNCHANGED <<blockKernel, sectors, blockFaults>>

\* It carries the operation out and reports it.
DeviceDone ==
    /\ op # NoRequest
    /\ sectors' = IF op.header.type = "OUT" THEN [sectors EXCEPT ![op.header.sector] = op.data] ELSE sectors
    /\ dmaPage' = [dmaPage EXCEPT !.data = IF op.header.type = "IN" THEN sectors[op.header.sector] ELSE @,
                          !.status = 0]
    /\ q' = DeviceUsed(q, 0, IF op.header.type = "IN" THEN 2 ELSE 1)
    /\ op' = NoRequest
    /\ UNCHANGED <<blk_ready, driverAlive, completed, response, req, driverPc, spins, seen,
                   lastRequest, acked, unacked, requests, blockFaults, traps>>

\* It fails the operation: an error status, or an entry and no status at all;
\* or it reports a chain or a length that was never offered.
BlockDeviceWrong ==
    /\ op # NoRequest /\ blockFaults < MaxBlockFaults
    /\ blockFaults' = blockFaults + 1
    /\ \/ dmaPage' = [dmaPage EXCEPT !.status = 1] /\ q' = DeviceUsed(q, 0, 1)
       \/ UNCHANGED dmaPage /\ q' = DeviceUsed(q, 0, 0)
       \/ UNCHANGED dmaPage /\ q' = DeviceUsed(q, 1, 0)
       \/ UNCHANGED dmaPage /\ q' = DeviceUsed(q, 0, 3)
       \/ UNCHANGED dmaPage /\ q' = DeviceUsed(DeviceUsed(q, 0, 0), 0, 0)
    /\ op' = NoRequest
    /\ UNCHANGED <<blk_ready, driverAlive, completed, response, req, driverPc, spins, seen,
                   sectors, lastRequest, acked, unacked, requests, traps>>

KernelStep == DriverFetch \/ DriverSubmit \/ DriverPoll \/ DriverComplete \/ ReturnRequest

BlockNext ==
    \/ \E r \in BlockRequests : (r.type # "OUT" => r.data = 0) /\ Request(r)
    \/ KernelStep \/ DriverTrap
    \/ DeviceTake \/ DeviceDone \/ BlockDeviceWrong

BlockSpec == BlockInit /\ [][BlockNext]_blockVars

\* The kernel polls until it is done; the device owes nothing.
BlockFairSpec == BlockSpec /\ WF_blockVars(KernelStep)

-----------------------------------------------------------------------------
BlockTypeOK ==
    /\ q.avail \in 0..IndexMod - 1 /\ q.lastUsed \in 0..IndexMod - 1
    /\ spins \in 0..PollLimit /\ blk_ready \in BOOLEAN /\ driverAlive \in BOOLEAN
    /\ req \in BlockRequests \cup {NoRequest}
    /\ (req = NoRequest) = (driverPc = "idle")
    /\ seen \in 0..IndexMod - 1 /\ DOMAIN sectors = Sectors

\* A read that succeeds returns what the sector holds, and a write that
\* succeeds has been carried out: no stale status, late completion, restart of
\* the driver or wrap of the ring's counters passes one request's answer off
\* as another's (request, driver.zig's checks, virtqueue_poll_used).
SuccessIsReal ==
    lastRequest # NoRequest /\ lastRequest.ok =>
        /\ lastRequest.req.type = "IN" => lastRequest.data = sectors[lastRequest.req.sector]
        /\ lastRequest.req.type = "OUT" => sectors[lastRequest.req.sector] = lastRequest.req.data

\* A sector holds its last acknowledged value or one of a write that failed
\* since: a write the kernel gave up on cannot overtake a later one that
\* was acknowledged (the comment in virtio_blk_submit: "A timed-out device
\* might still DMA. Do not reuse its ring or buffers.").
NoLateOverwrite ==
    \A s \in Sectors : sectors[s] = acked[s] \/ sectors[s] \in unacked[s]

\* What the disk driver reports is what the disk holds, now and later.
BlockSound == BlockTypeOK /\ SuccessIsReal /\ NoLateOverwrite

\* Every request returns, whatever the device does (the poll limit).
RequestsReturn == req # NoRequest ~> req = NoRequest
=============================================================================
