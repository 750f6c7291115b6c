------------------------- MODULE ComponentLifecycle -------------------------
(***************************************************************************)
(* The life of a component on the object store: component_install,         *)
(* component_commit, component_resume and component_uninstall              *)
(* (wasm/component.c), the hot swap of its module (wasm/service.c) and the *)
(* boot that resumes what is registered (run_component_demo in             *)
(* boot/main.c).                                                           *)
(*                                                                         *)
(* The store is taken at its promise (DurableObjects): a put, a batch or a *)
(* delete happens or does not, a call that reports failure may have        *)
(* happened when the store then requires recovery, and a power failure     *)
(* keeps what happened.  Install and uninstall are several calls, and      *)
(* power may fail between any two of them.                                 *)
(*                                                                         *)
(* A component is named by the sequence number n its four ids come from:   *)
(* module n, captable n + 1, state n + 2 and root n + 3 of the code, which *)
(* advances the registry's next_sequence by 4.                             *)
(***************************************************************************)
EXTENDS Integers, Sequences, FiniteSets

CONSTANTS Codes,          \* module contents
          Kinds,          \* message kinds a mask is made of
          Accepts,        \* Accepts[code]: the kinds its declared mask has
          COMPONENT_MAX,  \* the registry's capacity
          Nothing,
          MaxSequence,    \* bound on installs that take a new number
          MaxGeneration,  \* bound on swaps
          MaxWork,        \* bound on handlers and messages
          MaxFaults       \* bound on failed store calls and power failures

VARIABLES disk,      \* the store's committed objects
          recovery,  \* object_store_requires_recovery
          up,        \* the kernel has booted
          live,      \* live[n]: the running component, or Nothing
          call,      \* the install or uninstall in progress
          work, faults

lifecycleVars == <<disk, recovery, up, live, call, work, faults>>

Sequence == 1..MaxSequence

\* The installed module of n, or the one its service's generation g wrote.
Versions == 0..MaxGeneration
ModuleIds == Sequence \X Versions

Registered(d) == IF d.registry = Nothing THEN {}
                 ELSE {d.registry.roots[i] : i \in DOMAIN d.registry.roots}

-----------------------------------------------------------------------------
\* The store's calls.  ok is what the caller is told; new is what it asked for.
Stored(new, ok) ==
    \/ /\ ok /\ ~recovery
       /\ disk' = new
       /\ UNCHANGED <<recovery, faults>>
    \/ /\ ~ok /\ faults < MaxFaults
       /\ faults' = faults + 1
       /\ \/ disk' = disk /\ UNCHANGED recovery
          \/ ~recovery /\ recovery' = TRUE /\ disk' \in {disk, new}

-----------------------------------------------------------------------------
\* component_resume: the root, its module, its state and its table are there.
Resumable(d, n) ==
    /\ d.root[n] # Nothing
    /\ d.module[d.root[n]] # Nothing
    /\ d.state[n] # Nothing
    /\ d.captable[n] # Nothing

Resumed(d, n) ==
    [module |-> d.root[n], code |-> d.module[d.root[n]], count |-> d.state[n].count,
     mail |-> d.state[n].mail, caps |-> d.captable[n], seen |-> d.state[n].seen]

\* instance_state_serialize: the memory, laid out for the code that ran, the
\* mailbox, and the capability slots the memory refers to.
State(c) == [layout |-> c.code, count |-> c.count, mail |-> c.mail, seen |-> c.seen]

\* component_commit: the state and, when the capabilities changed, the table,
\* in one batch.
Committed(d, n, c) == [d EXCEPT !.state[n] = State(c), !.captable[n] = c.caps]

-----------------------------------------------------------------------------
LifecycleInit ==
    /\ disk = [registry |-> Nothing, module |-> [m \in ModuleIds |-> Nothing],
               captable |-> [n \in Sequence |-> Nothing],
               state |-> [n \in Sequence |-> Nothing],
               root |-> [n \in Sequence |-> Nothing],
               binding |-> [n \in Sequence |-> Nothing]]
    /\ recovery = FALSE /\ up = TRUE /\ live = [n \in Sequence |-> Nothing]
    /\ call = Nothing /\ work = 0 /\ faults = 0

Idle == up /\ call = Nothing

\* component_registry_load when the read fails: the install goes on with an
\* empty registry only if the object is not in the store's table either.

Loaded(unreadable) ==
    IF disk.registry = Nothing THEN [roots |-> <<>>, next |-> 1]
    ELSE IF unreadable THEN Nothing ELSE disk.registry

Room(registry) == Len(registry.roots) < COMPONENT_MAX

\* component_install up to its first put.
component_install(code, unreadable) ==
    /\ Idle
    /\ LET registry == Loaded(unreadable) IN
       /\ registry # Nothing
       /\ Room(registry) /\ registry.next \in Sequence
       /\ call' = [op |-> "install", n |-> registry.next, registry |-> registry,
                   step |-> "module",
                   c |-> [module |-> <<registry.next, 0>>, code |-> code, count |-> 0,
                          mail |-> <<>>, caps |-> 0, seen |-> 0]]
    /\ UNCHANGED <<disk, recovery, up, live, work, faults>>

Steps == <<"module", "captable", "init", "commit", "root", "registry">>
NextStep(step) == Steps[1 + CHOOSE i \in 1..5 : Steps[i] = step]

\* What the install's current step writes.

\* Mutant: the root is written last, after the registry names it.
InstallWritesRootLast(k) ==
    CASE k.step = "module"   -> [disk EXCEPT !.module[k.c.module] = k.c.code]
      [] k.step = "captable" -> [disk EXCEPT !.captable[k.n] = k.c.caps]
      [] k.step = "commit"   -> Committed(disk, k.n, k.c)
      [] k.step = "root"     -> [disk EXCEPT !.registry =
                                   [roots |-> Append(k.registry.roots, k.n), next |-> k.n + 1]]
      [] k.step = "registry" -> [disk EXCEPT !.root[k.n] = k.c.module]

InstallWrites(k) ==
    CASE k.step = "module"   -> [disk EXCEPT !.module[k.c.module] = k.c.code]
      [] k.step = "captable" -> [disk EXCEPT !.captable[k.n] = k.c.caps]
      [] k.step = "commit"   -> Committed(disk, k.n, k.c)
      [] k.step = "root"     -> [disk EXCEPT !.root[k.n] = k.c.module]
      [] k.step = "registry" -> [disk EXCEPT !.registry =
                                   [roots |-> Append(k.registry.roots, k.n), next |-> k.n + 1]]

\* A put of the install.  The component runs once the registry names it; a
\* failure releases it and leaves what was written.
InstallPut(ok) ==
    /\ up /\ call # Nothing /\ call.op = "install" /\ call.step # "init"
    /\ Stored(InstallWrites(call), ok)
    /\ IF ok /\ call.step # "registry"
       THEN call' = [call EXCEPT !.step = NextStep(@)] /\ UNCHANGED live
       ELSE /\ call' = Nothing
            /\ live' = IF ok THEN [live EXCEPT ![call.n] = call.c] ELSE live
    /\ UNCHANGED <<up, work>>

\* jani_init runs without a domain; it may take capabilities, and may fail.
InstallInit(ok, taken) ==
    /\ up /\ call # Nothing /\ call.op = "install" /\ call.step = "init"
    /\ call' = IF ok THEN [call EXCEPT !.step = "commit", !.c.caps = @ + taken,
                                       !.c.seen = @ + taken]
               ELSE Nothing
    /\ UNCHANGED <<disk, recovery, up, live, work, faults>>

\* A handler of n takes its first message or its timer, may change its
\* capabilities, and is committed; a failed one ends the component.
Handle(n, taken, ok) ==
    /\ Idle /\ live[n] # Nothing /\ work < MaxWork
    /\ LET c == [live[n] EXCEPT !.count = @ + 1, !.caps = @ + taken, !.seen = @ + taken,
                                !.mail = IF @ = <<>> THEN @ ELSE Tail(@)]
       IN /\ Stored(Committed(disk, n, c), ok)
          /\ live' = [live EXCEPT ![n] = IF ok THEN c ELSE Nothing]
    /\ work' = work + 1
    /\ UNCHANGED <<up, call>>

\* Another component's handler sends to n; its batch holds n's mailbox.
Deliver(n, kind) ==
    /\ Idle /\ live[n] # Nothing /\ work < MaxWork
    /\ LET c == [live[n] EXCEPT !.mail = Append(@, kind)]
       IN Stored(Committed(disk, n, c), TRUE) /\ live' = [live EXCEPT ![n] = c]
    /\ work' = work + 1
    /\ UNCHANGED <<up, call>>

\* component_set_remove and component_release.
component_release(n) ==
    /\ Idle /\ live[n] # Nothing
    /\ live' = [live EXCEPT ![n] = Nothing]
    /\ UNCHANGED <<disk, recovery, up, call, work, faults>>

\* component_uninstall of a component that has been released: the registry
\* first, then the module.
component_uninstall(n) ==
    /\ Idle /\ live[n] = Nothing /\ n \in Registered(disk) /\ disk.root[n] # Nothing
    /\ call' = [op |-> "uninstall", n |-> n, module |-> disk.root[n], step |-> "registry"]
    /\ UNCHANGED <<disk, recovery, up, live, work, faults>>

UninstallWrites(k) ==
    IF k.step = "registry"
    THEN [disk EXCEPT !.registry.roots = SelectSeq(@, LAMBDA m : m # k.n)]
    ELSE [disk EXCEPT !.module[k.module] = Nothing]

UninstallPut(ok) ==
    /\ up /\ call # Nothing /\ call.op = "uninstall"
    /\ Stored(UninstallWrites(call), ok)
    /\ call' = IF ok /\ call.step = "registry" THEN [call EXCEPT !.step = "module"]
               ELSE Nothing
    /\ UNCHANGED <<up, live, work>>

-----------------------------------------------------------------------------
\* service_bind: once for a component.
service_bind(n, ok) ==
    /\ Idle /\ live[n] # Nothing /\ disk.binding[n] = Nothing
    /\ Stored([disk EXCEPT !.binding[n] =
                 [module |-> live[n].module, previous |-> Nothing, generation |-> 1,
                  mask |-> Accepts[live[n].code], previousMask |-> {}]], ok)
    /\ UNCHANGED <<up, live, call, work>>

\* load_binding: the binding is of the module that runs.
Bound(n) == disk.binding[n] # Nothing /\ disk.binding[n].module = live[n].module

\* replace's candidate: the state region, the mailbox, the time and the
\* capabilities of the running component under another module.

\* Mutant: the mailbox is not carried over.
CandidateNoMail(n, code) ==
    [live[n] EXCEPT !.module = <<n, disk.binding[n].generation + 1>>, !.code = code,
                    !.mail = <<>>]

Candidate(n, code) ==
    [live[n] EXCEPT !.module = <<n, disk.binding[n].generation + 1>>, !.code = code]

\* The module, the root, the state and the binding are one batch.

Replaced(n, code, mask) ==
    LET c == Candidate(n, code)
        b == disk.binding[n] IN
    [disk EXCEPT !.module[c.module] = code, !.root[n] = c.module, !.state[n] = State(c),
                 !.binding[n] = [module |-> c.module, previous |-> b.module,
                                 generation |-> b.generation + 1, mask |-> mask,
                                 previousMask |-> b.mask]]

replace(n, code, mask, ok) ==
    /\ disk.binding[n].generation < MaxGeneration
    /\ disk.module[Candidate(n, code).module] = Nothing
    /\ Stored(Replaced(n, code, mask), ok)
    /\ live' = IF ok THEN [live EXCEPT ![n] = Candidate(n, code)] ELSE live
    /\ UNCHANGED <<up, call, work>>

\* The new module takes every message the old one took.
service_swap(n, code, ok) ==
    /\ Idle /\ live[n] # Nothing /\ Bound(n)
    /\ disk.binding[n].mask \subseteq Accepts[code]
    /\ replace(n, code, Accepts[code], ok)

\* Back to the previous module, as a new generation.
service_rollback(n, ok) ==
    /\ Idle /\ live[n] # Nothing /\ Bound(n) /\ disk.binding[n].previous # Nothing
    /\ disk.module[disk.binding[n].previous] # Nothing
    /\ replace(n, disk.module[disk.binding[n].previous], disk.binding[n].previousMask, ok)

-----------------------------------------------------------------------------
PowerFail ==
    /\ up /\ faults < MaxFaults
    /\ faults' = faults + 1
    /\ up' = FALSE /\ recovery' = FALSE /\ call' = Nothing
    /\ live' = [n \in Sequence |-> Nothing]
    /\ UNCHANGED <<disk, work>>

\* run_component_demo: everything the registry names is resumed, or nothing.
Boot ==
    /\ ~up
    /\ \A n \in Registered(disk) : Resumable(disk, n)
    /\ up' = TRUE
    /\ live' = [n \in Sequence |->
                  IF n \in Registered(disk) THEN Resumed(disk, n) ELSE Nothing]
    /\ UNCHANGED <<disk, recovery, call, work, faults>>

\* One released component is resumed and added to the set again.
component_resume(n) ==
    /\ Idle /\ ~recovery /\ live[n] = Nothing
    /\ n \in Registered(disk) /\ Resumable(disk, n)
    /\ live' = [live EXCEPT ![n] = Resumed(disk, n)]
    /\ UNCHANGED <<disk, recovery, up, call, work, faults>>

LifecycleNext ==
    \/ \E code \in Codes, unreadable \in BOOLEAN : component_install(code, unreadable)
    \/ \E ok \in BOOLEAN : InstallPut(ok) \/ UninstallPut(ok)
    \/ \E ok \in BOOLEAN, taken \in {0, 1} : InstallInit(ok, taken)
    \/ \E n \in Sequence :
         \/ \E ok \in BOOLEAN, taken \in {0, 1} : Handle(n, taken, ok)
         \/ \E kind \in Kinds : Deliver(n, kind)
         \/ component_release(n) \/ component_uninstall(n) \/ component_resume(n)
         \/ \E ok \in BOOLEAN :
              \/ service_bind(n, ok) \/ service_rollback(n, ok)
              \/ \E code \in Codes : service_swap(n, code, ok)
    \/ PowerFail \/ Boot

LifecycleSpec == LifecycleInit /\ [][LifecycleNext]_lifecycleVars

-----------------------------------------------------------------------------
Component == [module : ModuleIds, code : Codes, count : 0..MaxWork,
              mail : Seq(Kinds), caps : Nat, seen : Nat]

LifecycleTypeOK ==
    /\ recovery \in BOOLEAN /\ up \in BOOLEAN
    /\ \A n \in Sequence :
         /\ live[n] # Nothing => live[n] \in Component
         /\ disk.root[n] \in ModuleIds \cup {Nothing}
         /\ disk.captable[n] \in Nat \cup {Nothing}
    /\ \A m \in ModuleIds : disk.module[m] \in Codes \cup {Nothing}
    /\ Cardinality(Registered(disk)) <= COMPONENT_MAX

\* Whenever power fails, and whatever calls failed before, everything the
\* registry names can be resumed, with a memory laid out for its module and
\* capability slots its table has: the registry is written last by
\* component_install and first by component_uninstall, and component_commit
\* and replace are one batch.
RegisteredResume ==
    \A n \in Registered(disk) :
        /\ Resumable(disk, n)
        /\ disk.state[n].layout = disk.module[disk.root[n]]
        /\ disk.state[n].seen <= disk.captable[n]

\* A bound service's binding is of the module its root names, and the module
\* a rollback would need is there, so that after any failure it can be swapped
\* and rolled back again (replace against load_binding and service_rollback).
BindingFollowsRoot ==
    \A n \in Registered(disk) : disk.binding[n] # Nothing =>
        /\ disk.binding[n].module = disk.root[n]
        /\ disk.binding[n].previous # Nothing => disk.module[disk.binding[n].previous] # Nothing

\* Whatever fails between the store calls of an install, uninstall or swap, the
\* registered components resume and their services can be swapped again.
ComponentsResume == LifecycleTypeOK /\ RegisteredResume /\ BindingFollowsRoot

\* No install, swap or rollback loses what a registered component has
\* committed, nor a message that waits in its mailbox (component_install's
\* treatment of an unreadable registry, and replace's candidate).
CommittedKept ==
    [][\A n \in Registered(disk) \cap Registered(disk') :
         /\ disk'.state[n].count >= disk.state[n].count
         /\ disk'.state[n].count = disk.state[n].count =>
              \E sent \in {<<>>} \cup {<<k>> : k \in Kinds} :
                disk'.state[n].mail = disk.state[n].mail \o sent]_lifecycleVars
=============================================================================
