--------------------------- MODULE PciCapabilities ---------------------------
(***************************************************************************)
(* virtio_pci_attach's walk of a device's PCI capability list with         *)
(* pci_capability_find.  The list is the device's: its links may form a    *)
(* cycle, and only the two step counters end the walk.                     *)
(***************************************************************************)
EXTENDS Naturals, FiniteSets

CONSTANTS Offsets,    \* the aligned offsets from 0x40 on that can hold a capability
          WalkLimit,  \* PCI_CAPABILITY_WALK_LIMIT, 48: as many as there are offsets
          Regions     \* the kinds of region: common, notify, device and isr

\* There are as many aligned offsets from 0x40 to 0xFC as the limit allows steps.
ASSUME WalkLimitAssumption ==
    0 \notin Offsets /\ WalkLimit = Cardinality(Offsets) /\ {"other", "foreign"} \cap Regions = {}

VARIABLES list,        \* the device's capabilities: where they start, what follows each, its kind
          walkPc,
          capability,  \* the capability found last; 0 at first
          walkSteps,   \* capabilities handled
          offset,      \* pci_capability_find: where it looks
          walked,      \* its step counter
          regions      \* the kinds of region that are mapped

pciVars == <<list, walkPc, capability, walkSteps, offset, walked, regions>>

\* "other" is a vendor capability of no use here, "foreign" not a vendor one.
CapabilityKinds == Regions \cup {"other", "foreign"}

PciInit ==
    /\ list \in [head : Offsets \cup {0}, link : [Offsets -> Offsets \cup {0}], kind : [Offsets -> CapabilityKinds]]
    /\ walkPc = "find" /\ capability = 0 /\ walkSteps = 0
    /\ offset = 0 /\ walked = 0 /\ regions = {}

\* pci_capability_find starts at the head or after the capability it is given.
FindFrom ==
    /\ walkPc = "find"
    /\ offset' = IF capability = 0 THEN list.head ELSE list.link[capability]
    /\ walked' = 0 /\ walkPc' = "walk"
    /\ UNCHANGED <<list, capability, walkSteps, regions>>

Walks == offset # 0 /\ walked < WalkLimit

\* One turn of pci_capability_find's loop.
WalkOn ==
    /\ walkPc = "walk" /\ Walks /\ list.kind[offset] = "foreign"
    /\ offset' = list.link[offset] /\ walked' = walked + 1
    /\ UNCHANGED <<list, walkPc, capability, walkSteps, regions>>

\* Mutant: the last capability the limit allows is not handled.
EnoughEarly == walkSteps + 1 >= WalkLimit

Enough == walkSteps + 1 > WalkLimit

\* It returns a vendor capability, and virtio_pci_attach maps its region
\* (map_capability_region, which may fail) unless it has handled enough.
Handle(maps) ==
    /\ walkPc = "walk" /\ Walks /\ list.kind[offset] # "foreign"
    /\ capability' = offset /\ walkSteps' = walkSteps + 1
    /\ LET kind == list.kind[offset] IN
       IF Enough THEN walkPc' = "attached" /\ UNCHANGED regions
       ELSE IF kind \in Regions
       THEN IF maps THEN walkPc' = "find" /\ regions' = regions \cup {kind}
            ELSE walkPc' = "failed" /\ UNCHANGED regions
       ELSE walkPc' = "find" /\ UNCHANGED regions
    /\ UNCHANGED <<list, offset, walked>>

\* It returns 0 and the loop ends.
FindNone ==
    /\ walkPc = "walk" /\ ~Walks
    /\ walkPc' = "attached" /\ UNCHANGED <<list, capability, walkSteps, offset, walked, regions>>

PciNext == FindFrom \/ WalkOn \/ FindNone \/ \E maps \in BOOLEAN : Handle(maps)

\* The kernel runs on until virtio_pci_attach returns.
PciSpec == PciInit /\ [][PciNext]_pciVars /\ WF_pciVars(PciNext)

-----------------------------------------------------------------------------
PciTypeOK ==
    /\ walkPc \in {"find", "walk", "attached", "failed"} /\ regions \subseteq Regions
    /\ capability \in Offsets \cup {0} /\ offset \in Offsets \cup {0}
    /\ walkSteps \in 0..WalkLimit + 1 /\ walked \in 0..WalkLimit

\* The offsets a walk of the links without limits would visit.
Linked(reached) == reached \cup {list.link[o] : o \in reached \ {0}}
ReachableIn[n \in 0..WalkLimit] == IF n = 0 THEN {list.head} ELSE Linked(ReachableIn[n - 1])
Reachable == ReachableIn[WalkLimit] \ {0}

\* The limits never hide a capability: once the walk is over, exactly the
\* regions that are linked are mapped, even from a list that fills all the
\* offsets or runs in a cycle (pci_capability_find, virtio_pci_attach).
FindsAll ==
    walkPc = "attached" => regions = {list.kind[o] : o \in Reachable} \cap Regions

\* The walk over the capability list is within its limits and misses nothing.
AttachSound == PciTypeOK /\ FindsAll

\* And they end it: virtio_pci_attach returns whatever the links are.
AttachReturns == <>(walkPc \in {"attached", "failed"})
=============================================================================
