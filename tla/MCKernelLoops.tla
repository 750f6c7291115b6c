--------------------------- MODULE MCKernelLoops ----------------------------
(***************************************************************************)
(* An instance for TLC of the kernel's components that loop: the scheduler *)
(* and its ticks, the disk and network drivers and their polls, the walk   *)
(* of a device's capabilities, the bring-up of the devices and the search  *)
(* of the object table.  They share no state, so a behaviour is one of one *)
(* component: running names it, and the others keep an initial state.      *)
(***************************************************************************)
EXTENDS Scheduler, BlockDriver, NetDriver, PciCapabilities, VirtioInit, ObjectTable

VARIABLE running

Usable == {[base |-> 0, length |-> 64, type |-> "usable"]}

\* An interactive component, a batch component that outranks the other, and
\* one that takes the whole frame.
Policies == {[interactive |-> TRUE, priority |-> 0, budget |-> 1],
             [interactive |-> FALSE, priority |-> 1, budget |-> 1],
             [interactive |-> FALSE, priority |-> 0, budget |-> 2]}

NoCapabilities ==
    list = [head |-> 0, link |-> [o \in Offsets |-> 0], kind |-> [o \in Offsets |-> "other"]]

AllBatch == policies = [i \in Index |-> [interactive |-> FALSE, priority |-> 1, budget |-> 1]]

Init ==
    /\ running \in {"scheduler", "disk", "network", "attach", "bringup", "table"}
    /\ IF running = "scheduler" THEN SchedulerInit ELSE AllBatch /\ SchedulerInit
    /\ IF running = "bringup" THEN BringupInit ELSE memory = pmm_init /\ BringupInit
    /\ BlockInit /\ NetInit /\ TableInit
    /\ IF running = "attach" THEN PciInit ELSE NoCapabilities /\ PciInit

Next ==
    /\ \/ /\ running = "scheduler" /\ SchedulerNext
          /\ UNCHANGED <<blockVars, netVars, pciVars, bringupVars, tableVars>>
       \/ /\ running = "disk" /\ BlockNext
          /\ UNCHANGED <<schedulerVars, netVars, pciVars, bringupVars, tableVars>>
       \/ /\ running = "network" /\ NetNext
          /\ UNCHANGED <<schedulerVars, blockVars, pciVars, bringupVars, tableVars>>
       \/ /\ running = "attach" /\ PciNext
          /\ UNCHANGED <<schedulerVars, blockVars, netVars, bringupVars, tableVars>>
       \/ /\ running = "bringup" /\ BringupNext
          /\ UNCHANGED <<schedulerVars, blockVars, netVars, pciVars, tableVars>>
       \/ /\ running = "table" /\ TableNext
          /\ UNCHANGED <<schedulerVars, blockVars, netVars, pciVars, bringupVars>>
    /\ UNCHANGED running

vars == <<running, schedulerVars, blockVars, netVars, pciVars, bringupVars, tableVars>>

\* The fairness of each component's own specification, for the one that runs.
Fairness ==
    /\ WF_schedulerVars(running = "scheduler" /\ LoopStep)
    /\ WF_blockVars(running = "disk" /\ KernelStep)
    /\ WF_netVars(running = "network" /\ PeerStep)
    /\ WF_netVars(running = "network" /\ DeviceTransmit)
    /\ WF_pciVars(running = "attach" /\ PciNext)
    /\ WF_tableVars(running = "table" /\ CallStep)

Spec == Init /\ [][Next]_vars /\ Fairness

\* PciCapabilities' AttachReturns: virtio_pci_attach returns whatever the
\* links of the list are, for its two step counters end the walk.
WalksEnd == running = "attach" => AttachReturns


=============================================================================
