--------------------------- MODULE MCKernelState ----------------------------
(***************************************************************************)
(* An instance for TLC of the kernel's components for safety: the life of  *)
(* components, the replayer, the frame allocator, the address space, the   *)
(* heap, the clock and the disk and network drivers.  They share no state, *)
(* so a behaviour is one of one component: running names it, and the       *)
(* others keep an initial state.                                           *)
(***************************************************************************)
EXTENDS ComponentLifecycle, Replay, FrameAllocator, AddressSpace, Heap, PitClock,
        BlockDriver, NetDriver

CONSTANTS old, new, ping, stop

VARIABLE running

\* An old module and a new one that takes one kind of message more.
Wider == (old :> {ping} @@ new :> {ping, stop})

\* Receives, then stores what it received or reads it back, and returns or
\* exits, as the results of its calls have it.
Guest == [a \in 0..4 |-> CASE a = 0 -> "message_recv" [] a = 1 -> "object_write"
                           [] a = 2 -> "return" [] a = 3 -> "object_read"
                           [] a = 4 -> "exit"]

\* Regions that are not aligned to frames, that overlap, that touch frame 0,
\* that reach past the managed memory, and one that is not usable.
Region(b, l, t) == [base |-> b, length |-> l, type |-> t]
MemoryRegions == {Region(0, 13, "usable"), Region(9, 11, "usable"), Region(20, 8, "reserved"),
                  Region(29, 40, "usable"), Region(60, 8, "usable")}

Registers == 100..102

AtRest == mem = [acc |-> 0, buf |-> 0, aux |-> 0]

Init ==
    /\ running \in {"lifecycle", "replay", "frames", "space", "heap", "clock", "disk", "network"}
    /\ LifecycleInit /\ PmmInit /\ SpaceInit /\ HeapInit /\ PitInit /\ BlockInit /\ NetInit
    /\ IF running = "replay" THEN ReplayInit ELSE AtRest /\ ReplayInit

Next ==
    /\ \/ /\ running = "lifecycle" /\ LifecycleNext
          /\ UNCHANGED <<replayVars, pmmVars, spaceVars, heapVars, pitVars, blockVars, netVars>>
       \/ /\ running = "replay" /\ ReplayNext
          /\ UNCHANGED <<lifecycleVars, pmmVars, spaceVars, heapVars, pitVars, blockVars, netVars>>
       \/ /\ running = "frames" /\ PmmNext
          /\ UNCHANGED <<lifecycleVars, replayVars, spaceVars, heapVars, pitVars, blockVars, netVars>>
       \/ /\ running = "space" /\ SpaceNext
          /\ UNCHANGED <<lifecycleVars, replayVars, pmmVars, heapVars, pitVars, blockVars, netVars>>
       \/ /\ running = "heap" /\ HeapNext
          /\ UNCHANGED <<lifecycleVars, replayVars, pmmVars, spaceVars, pitVars, blockVars, netVars>>
       \/ /\ running = "clock" /\ PitNext
          /\ UNCHANGED <<lifecycleVars, replayVars, pmmVars, spaceVars, heapVars, blockVars, netVars>>
       \/ /\ running = "disk" /\ BlockNext
          /\ UNCHANGED <<lifecycleVars, replayVars, pmmVars, spaceVars, heapVars, pitVars, netVars>>
       \/ /\ running = "network" /\ NetNext
          /\ UNCHANGED <<lifecycleVars, replayVars, pmmVars, spaceVars, heapVars, pitVars, blockVars>>
    /\ UNCHANGED running

vars == <<running, lifecycleVars, replayVars, pmmVars, spaceVars, heapVars, pitVars, blockVars,
          netVars>>

Spec == Init /\ [][Next]_vars
=============================================================================
