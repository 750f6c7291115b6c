# A TLA+ model of Jani's kernel

Jani is a small capability operating system. Its kernel keeps everything that
must survive a power loss (components, their memory and mailboxes, capability
tables, migration records, replicas) in one **object store** on a block device
and publishes every change as one atomic batch of that store. The development
starts there: the object store and the boot policy in front of it are modelled,
model-checked, and the invariant at the heart of crash recovery is proved.

## The system's parts

| Part | Source | State | Operations | Talks to |
|---|---|---|---|---|
| object store | `kernel/obj/object_store.c`, `wal_validate.zig` | table, bitmap, `next_sector`, root and generation, superblock sequence, snapshots, cache, quarantine flag | put_many/put, get, delete, snapshot create/discard/rollback/prune, collect, format, mount | block device below; everything durable above |
| object table | `kernel/obj/object_table.c` | sorted array of entries | find, upsert, remove | object store |
| boot | `kernel/boot/main.c` | whether a store is mounted | mount, else format, else stop | object store |
| capabilities | `kernel/cap/*.c` | slots with generations, derivation graph, provenance ledger | derive, send, revoke, begin/commit/abort of a domain | object store, components |
| components | `kernel/wasm/component.c`, `instance_state.c`, `service.c` | instance, memory, mailbox, timer, binding | install, commit, resume, push/pop, swap, rollback | domain, scheduler, store |
| scheduler | `kernel/sched/scheduler.c` | policies, budgets, frame, trace ring | configure, step | domain (one transaction per handler) |
| record/replay | `kernel/replay/record.c` | log, cursor | record, verify, save, load | scheduler, store |
| session | `kernel/net/session.c` | keys, sequences | accept, seal, open | network |
| migration | `kernel/net/migration.c` | fence, bundle, receipt, outbox | begin, next packet, receive, forward | session, store |
| replication | `kernel/net/replica.c`, `crdt.zig` | catalog with grants and epochs, CRDT states | create, share, set/add/remove, next packet, receive | session, store |
| block driver | `kernel/drivers/block_component.c`, `virtio_blk.c`, `virtqueue.c` | driver instance, request in flight | read, write, flush, restart | device; gives the store its `io` |
| memory | `kernel/mm/*.c` | frame bitmap, free list, page tables | allocate, free, map | everything |

What is hard to test in them, and where it bites, is the `hazards` list of
`PROJECT.json`: power loss between two writes, writes that fail after taking
effect, a log record that comes back after it was cleared, a bitmap rebuilt from
reads that fail, caches keyed by versions that restart, resends and lost
acknowledgements, a device that answers late.

## Modules

| Module | Role |
|---|---|
| `ObjectDisk` | what a sector can hold and what the store's readers (`superblock_is_valid`, `read_table_generation`, `object_wal_validate`, `recover_wal`, `mark_generation`, the choice of a superblock) make of a disk |
| `ObjectStore` | the store as a state machine on a disk with a volatile write cache, and its properties |
| `DurableObjects` | what the store promises: a map that changes in one piece |
| `StoreBoot` | `run_store_demo()`'s policy: mount, format when the mount fails, stop when the format fails |
| `MCObjectStore`, `MCStoreBoot` | payload sizes for model checking |
| `ObjectStoreInv` | the inductive invariant `IInv` |
| `ObjectDiskProofs`, `ObjectStoreLemmas`, `ObjectStoreCallProofs`, `ObjectStoreProofs` | the proofs |

### ObjectStore and the code

The variables from `table` to `cache` are the fields of `struct object_store`
under their own names. The table is a function from ids to entries instead of a
sorted array, the bitmap a set of sectors, and the cache a sequence of slots
ordered by `last_access`, with byte lengths but without arena offsets. `op`
holds the locals of the call in progress.

The kernel runs one call at a time, so the interleavings that matter are
between a call and the device. A call is therefore a sequence of steps (`pc`):

```
put_many:  alloc_objects* alloc_table publish objects* table wal root clear
delete:                   (alloc)     publish          table wal root clear
rollback:                                                    wal root clear
create, discard, prune's turns:       publish
format:                               publish publish                 clear
mount with a WAL record:                                         root clear
```

`publish` and `root` are `write_superblock()`, `wal` is `write_wal_root()`,
`clear` is `clear_wal()`; the remaining steps bear the name of what they write.
Each of these steps is two actions: `WriteSectors` puts its sectors into
`visible` (what a read returns) and `...Flushed` makes them `durable` and does
what the call does next. Everything a call does in memory between two device
operations belongs to the action of the first one. What does not write
(`collect`, `get`, a mount without a record) is one action.

Device and power, modelled from how `object_store_io` is used:

- a written sector is whole or absent; sectors written since the last flush
  survive a power loss in any subset (`Crash`);
- a write or a flush may report failure (`IoFails`): the step's sectors may have
  been written up to any point, nothing more is durable than before, and later
  requests may succeed, as with a request the block driver fails once
  (`block_component.c`). The call takes its error path: `PutRejected`,
  `DeleteRejected`, `SnapshotCallFails`, `Quarantine` or `MountOrFormatFails`;
- a read may fail (`MaxReadFaults`) during a mount, a collect or a prune. A read
  that fails in `get` or `rollback` changes nothing and is left out.

Checksums and magic numbers are the `kind` of a sector: a sector is valid as one
kind only. Ids, payloads and timestamps are opaque; sizes in bytes are kept
because sector counts and the cache depend on them. Null arguments, zero ids and
similar caller errors are refused before any state changes and are left out.
`Format` in `ObjectStore` is for a blank disk; `StoreBoot` formats as the kernel
does.

### Abstract specification

`DurableObjects` has two variables: `contents`, the objects a mount would find,
and `target`, what the call in progress leaves if it takes effect. `contents`
changes only to `target`. The refinement maps `contents` to what the *durable*
disk recovers to (superblock chosen, WAL record replayed, table and objects
read) and `target` to the candidate table of the call.

## Runs

| Run | Asks | Distinct states |
|---|---|---|
| `store_faults` | two failing writes or flushes and a power loss, batches of two, a snapshot: does every crash image mount (`EveryCrashMounts`) to what memory says (`ReadyIsDurable`), is every live sector held by the bitmap (`LiveSectorsHeld`) and never overwritten (`CopyOnWrite`), is the WAL never stale (`NoStaleWal`) | 660,000 |
| `store_torn` | the same recovery questions with objects of one and two sectors, and `EntriesReadable` | 137,000 |
| `store_snapshots` | two snapshot slots, two power losses: `SnapshotsImmutable`, `SnapshotCallsDurable`, `VersionsBounded` | 370,000 |
| `store_atomic` | refinement of `DurableObjects`, batches of two and deletes | 84,000 |
| `store_atomic_rollback` | refinement of `DurableObjects` with snapshots and rollback | 62,000 |
| `store_read_faults` | failing reads too: `IInv` and `SnapshotCallsDurable` | 235,000 |
| `store_cache` | `CacheCoherent` with eviction by slot and by arena bytes | 149,000 |
| `store_progress` | every call returns, under fairness | 8,000 |
| `boot_crashes` | three power losses: the kernel never formats a disk that holds a store | 59,000 |

Every property has a mutant, an operator named after the bug it plants (a
dropped guard, an off-by-one, a skipped write), kept next to the definition it
would replace.

### Disagreements with the repository

Three runs show the program doing something other than its own tests, messages
or checks say; `PROJECT.json` quotes them.

- `cache_after_rollback`: rollback does not invalidate the cache. A delete lets
  versions restart at 1, so the cache can hold the discarded object under the id
  and version of the restored one, and `get` returns it until it is evicted.
- `collect_read_fault`: `rebuild_bitmap()` clears the bitmap before the reads
  that fill it. When one fails, `collect` or `prune` returns 0 and the store
  goes on with live sectors marked free; the next put overwrites them.
- `boot_faults`: boot takes every mount failure for an empty disk. A write that
  fails while the WAL is replayed makes it format a valid store.

Corners the model shows that contradict nothing the repository says:

- a failed `snapshot_create` or `snapshot_discard` does not quarantine the
  store, although its superblock may be on the disk and win after a power loss;
- the mount of a quarantined store reads sectors that may not be durable yet;
- `write_superblock()` has no overflow check on the sequence;
- `put` compares an object's size with the cache buffer in bytes, `get` in whole
  sectors: with a buffer that is not a multiple of 512 an object could be stored
  and not read. All callers pass multiples, and so do the runs.

### Bounds

`CONSTANTS` are small sets; every bound is named in `ObjectStore`. Two ids are
enough for a batch to be torn between objects and for a table of two entries to
be torn between sectors; one payload of one sector and one of two make the
allocator leave holes and objects tear. `SectorCount` (9 to 13) holds the live
generation, a snapshot's and the next one, with a few calls running out of
space. `UINT64_MAX` (2 to 5) is the last generation: it bounds the number of
commits *and* exercises the code's refusal at the limit; after it only gets,
discards, prunes, collects, mounts and power losses happen. Two write faults
cover a failing call followed by a failing recovery, one power loss can strike
at every step before and after them, and `store_snapshots` and `boot_crashes`
add crashes during recovery. Runs without a cache set `ArenaCapacity` to 0,
which the code allows, so that the cache does not multiply their states.
Id symmetry is not used, since tables are written in the order of ids.

### Fairness

`FairSpec` adds weak fairness of `CallStep`: the kernel runs a call to its end
without yielding, and each device operation returns (`virtqueue_submit` polls a
bounded number of times), with success or failure. Nothing is assumed about
callers, faults or power.

## Proofs

`ObjectStoreProofs` proves for every value of the constants (any disk, ids,
payloads, limits and any number of faults and power losses) that

- `InvariantHolds`: `Spec => []IInv`;
- `TypeCorrect`: `Spec => []TypeOK`;
- `WalNeverStale`: `Spec => []NoStaleWal`.

Assumptions, all on constants and all evaluated by the runs: ids are a finite
set of positive numbers, payload sizes, capacities and bounds are naturals, the
disk has at least the three reserved sectors, a table holds at least one entry,
a batch and the cache at least one element.

`NoStaleWal` is not inductive. It speaks of a serving store only, while the
danger comes from before: a record whose clearing never became durable is still
there when the store is mounted again. `IInv` therefore says, besides the types,

- `ReservedOK`: each superblock sector, durable and visible, is blank or valid,
  and the WAL sector is blank or a record;
- `CallOK`: which call can be at which step, and that its allocated runs start
  above the reserved sectors;
- `BoundsOK`: the root, the candidate and the snapshots lie below the
  `next_sector` that the next superblock publishes;
- `SuperblockOK`: the superblock mount would choose carries the root in memory,
  except at the `root` step of a commit, where the WAL record does;
- `WalOK`: what the WAL sector holds at each step; in particular `ClearIsSafe`:
  while no store is in service, a record that is cleared but not durably so
  repeats the root of the superblock that mount chooses.

The argument has one lemma per action. `DataWrites`: object and table writes
never touch a reserved sector, because runs are allocated from sector 3 on.
`NewIsChosen`: a superblock with the next sequence, written to the inactive
sector, is the one mount chooses, so a flushed root moves `SuperblockOK`
forward. A failed write in the `clear` step leaves a record equal to the chosen
root (`FailedClearIsSafe`), and a power loss makes `visible` equal to `durable`,
where `ClearIsSafe` is trivial. `ObjectDiskProofs` has the facts about runs,
tables and readers, `ObjectStoreLemmas` those about the store's helpers and
`Init`, `ObjectStoreCallProofs` the actions that do not write, and
`ObjectStoreProofs` the writes, failures and flushes, `Inductive` and the
theorems.

Only model-checked: every other property, among them refinement and the sector
properties, whose invariant must also describe tables and objects on the disk;
liveness and `ENABLED` are outside the prover's reach, as is induction over data
(what a recursive definition computes for every input).

## Not modelled

Capabilities, components, the scheduler, replay, sessions, migration,
replication, drivers and memory management are not modelled yet; packet and
header layouts, cryptography, the WebAssembly interpreter, page tables, port
programming and the IDL compiler are not meant to be. `PROJECT.json` gives the
reason for each.

## Plan

1. `ObjectTable`: the sorted array with its binary search, upsert and remove,
   against the function that `ObjectStore` uses; arena offsets of the cache and
   `cache_remove_slot()`'s compaction.
2. `CapabilityDomain`: tables with generations, derivation, transfer, revoke and
   the begin/commit/abort transaction over an abstract store with the three
   results of `put_many`. Properties: rights never grow along a derivation, a
   revoked subtree is gone everywhere, durable and live state agree unless the
   domain is halted.
3. `Session` and `Migration`: two nodes, a lossy, duplicating and reordering
   network, crashes. Properties: at most one runnable copy, forwarded messages
   delivered once and in order, eventual completion when the network is fair.
   Abstract specification: a component that moves in one step.
4. `Crdt` and `Replica`: the laws of merge over bounded inputs, convergence,
   grants and epochs.
5. `Scheduler`: budgets, aging, the handler transaction; no starvation among
   non-interactive components.
6. `Virtqueue` and `BlockComponent`: late, duplicate and missing completions,
   driver restart; implements the device that `ObjectStore` assumes.
7. `FrameAllocator` and `FreeList` against a reference set of free ranges.
8. Proofs, in this order: `VersionsBounded`; `LiveSectorsHeld` and
   `CopyOnWrite`, which need an invariant on the tables in the bitmap;
   `EveryCrashMounts`; the refinement of `DurableObjects`; the safety invariants
   of the capability domain and of migration.
