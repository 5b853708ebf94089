# OpenControl Historian: TLA+ verification project

This directory holds TLA+ models of the OpenControl Historian, the TLC runs that
check them on small instances, and TLAPS proofs of what holds for every instance.

## The system

| Part | Source | Role | Here |
|---|---|---|---|
| Manifest store | `och-store/src/manifest.rs` | sole authority over a store directory: marker, two manifests, four families of three reusable slots, rotation, recovery | `ManifestStore`, `RootedSlots`, `DurableAuthority` |
| Active journal | `och-store/src/active.rs` | append-only frames and a checkpoint per journal generation | inside `ManifestStore` |
| Retry state | `och-store/src/retry.rs` | bounded replay and guard horizon of accepted qualifications | `RetryHorizon`; its coverage rule inside `ManifestStore` |
| Generation catalog, intent | `och-store/src/generation.rs` | sealed generations in order; the record of a running rotation | inside `ManifestStore` |
| Recovery reports | `och-store/src/recovery.rs` | evidence of one truncated terminal suffix | inside `ManifestStore` |
| Write custody | `och-store/src/pressure.rs` | Writable, ReopenRequired, Faulted | inside `ManifestStore` |
| Ingress, receipts | `och-runtime/src/ingress.rs` | slots, byte reservations, coalescing, handled and durable receipts | retry admission in `RetryHorizon`; the rest planned |
| Store worker | `och-runtime/src/store_worker.rs` | blocking owner of the store, group commit, rotation policy | append and flush in `RetryHorizon`; the rest planned |
| Coordinator, lifecycle | `och-runtime/src/lib.rs` | open, writer loop, control operations, shutdown | planned |
| Latest | `och-runtime/src/latest.rs` | volatile newest observation per series | planned |
| Series registry | `och-core/src/series.rs` | declarations, revisions, retirement | planned (a snapshot is one value today) |
| Segments | `och-store/src/segment.rs`, `typed_value_block.rs` | read-only candidate bytes and indexes | planned as pure operators |
| Codecs, value model, harness, tools | rest | byte layouts, immutable data, test instrumentation | not modelled |

The runtime submits admissions to the ingress; the coordinator hands them one at a
time to the store worker, which owns the only `ManifestStore` handle. Everything
durable happens in that handle, so it is the core and is modelled first.

## Modules

### `ManifestStore`

One store directory and the one handle that the exclusive lock allows on it.

* **Files.** `marker`, `manifests` (two roots), `slots` (registry, retry, catalog and
  recovery, three slots each), `staging` (fixed-name staging files), `journals`,
  `checkpoints`, `sealed`, `intent`. A file is the value it decodes to, `None` when it
  is absent and `Torn` when its bytes do not decode; a checkpoint that has its length but
  no slot written yet is `Zeroed`. A reference carries the value it
  names, so a matching length and checksum is equality.
* **Memory.** `handle` (write state, manifest pair, durable cutoff), `plan` (what the
  running operation has prepared), `todo` (the file steps it has left), `acked` (what
  callers were told).
* **Operations.** `AppendFrame`, `SyncPending`, `ApplyRegistry` and `Rotate` check what
  the code checks and then set `plan` and `todo`. The step sequences (`SyncPendingSteps`,
  `RotateSteps`, `RollbackSteps`, ...) list the file steps in the order of the code.
* **Open.** `OpensCommitted`, `RollsBack` and `InitializesGenesis` collect every check of
  `open` under the name of the function that makes it. A refused open changes nothing,
  so it is not a step. Rolling a rotation back opens the successor journal, which first
  writes a `Zeroed` checkpoint (`SuccessorUninitialized`); the removals follow.
* **Failures.** `StepFails` ends the operation at any step, with pressure or a fault.
  `Stop` ends the process anywhere. `AppendFails` leaves any strict prefix of a frame.

The crash model is a process stop. The repository disclaims power loss
(`README.md`, `docs/store-format-v1.md`, "Crash boundary"), so completed writes are not
lost or reordered. Open mode is not modelled: each directory is accepted in exactly one.

### `RootedSlots`

The reuse discipline all four families share: two roots written in turn, three slots,
only unreferenced slots written or removed, only present artifacts named.
`ManifestStore` implements it once per family (`FamiliesAreRootedSlots`).

### `DurableAuthority`

What callers rely on: a log that only grows, a registry that advances by whole
generations, acknowledgements that never run ahead. Stopping and reopening are not
steps of it. `ManifestStore` implements it (`ImplementsAuthority`), with the log read
from the sealed journals the current catalog lists and the committed part of the
active one.

### `RetryHorizon`

The two-tier horizon of `retry.rs` with its two holders. The store keeps the committed
projection (`tiers`) and carries it over every durable batch; the ingress keeps a copy
(`mirror`), answers submitters from it, and re-derives each advance
(`verifies_transition`) before it installs the new one.

* `journal` is the log of qualifications by append sequence, `root` the current
  commit, `older` the registry and retry slots the previous manifest names, `catalog`
  the sealed ranges, `queue` the admitted set, `resolved` the last durable receipt.
* `work` is a running `advance`, one entry per step, so submissions interleave with the
  store's. The ingress runs its own under its mutex (`IngressLocked`).
* `SyncPending`, `AdvanceEntry` and `CommitSyncedPending` are one flush;
  `BeginVerification`, `AdvanceEntry` and `CompleteDurableBatch` its completion. Any
  check of `advance` that fails is `Refuse`, which stops the runtime.
* `ValidateState`, `ValidateRoot` and `ValidateCommitProgression` are the functions of
  those names; `SameRegistrySlot` and `GenerationRooted` are conditions they share.
  `Reopen` uses them with the catalog, as open does.
* `ValidateTransitionPreflight` sees the pending outcomes by their first and last
  sequence: the worker drains every frame past the durable cutoff, in append order, so
  they are a suffix of the journal.
* `Stop` ends the process: the queue and a running advance are lost, and the ingress
  copy is dead until `Reopen` replaces it.
* Frames have unit length, so an end offset counts the frames of its generation. A
  commit is one step; its file steps are those of `ManifestStore`. Priorities and
  byte reservations are not modelled: any admitted qualification may be appended next.
  A submission whose reservation or preparation fails leaves no slot behind, so its
  behaviours are those in which the key is not submitted.

Definitions marked *Mutant* are plausible mistakes; each property is known to fail
when the definition after it is replaced by its mutant.

## Runs

| Run | Checks | Result |
|---|---|---|
| `store_crash` | shapes, readable roots, memory and directory in step, clean stores reopen, open accepts what it changed, only retry orphans block a reopen, custody, root advance, `DurableAuthority` | holds, 317,038 states |
| `store_slots` | each family implements `RootedSlots` | holds, 65,216 states |
| `rooted_slots` | the discipline alone | holds, 1,431 states |
| `retry_horizon` | tier shapes, exact horizon in both projections, at most once, no refused batch, every snapshot reopens | holds, 124,699 states |
| `published_sync_reopens` | a renamed sync manifest always reopens | violated, see below |

**Bounds.** Five manifest generations replace both roots at least twice and reuse
every slot. Two records per journal and two sealed generations give a full journal,
two rotations and a full catalog; sequence width three is reached after them. Two
payloads tell the order of the log, two registry values tell a changed snapshot from
an unchanged one. Payloads are only stored and compared, so they are symmetric
(`MCManifestStore`). `store_slots` uses one payload and one record because the four
refinements only see generations. Deadlock is not checked in `ManifestStore`: a
directory that open refuses stays refused, by design.

`retry_horizon` has two replayable and one guarded outcome, so five appends fill both
tiers and push two entries out; four keys outnumber the horizon, so a key is used again
once it has left. Three slots in flight exceed the replay tier, so one batch can carry
an outcome of its own into the guard tier. Six manifests leave room for batches mixed with registry
commits, recoveries and two rotations. `MaxEntries` is three, the least the capacities
allow, so a horizon or a batch one entry longer would be refused. Keys and contents are symmetric. Deadlock is
not checked: the bounds end every behaviour.

**The violation.** `publish_and_adopt_prepared_manifest` renames the manifest and then
removes the retry slot it frees. After a stop in between, `validate_retry_inventory`
refuses that slot as `InvalidRetry` on every later open. A test expects such a reopen
to succeed (`manifest.rs:6302`, "renamed manifest commits retry projection"), but it
commits a single batch, which frees no slot. `OnlyRetryOrphansBlockReopen` shows that
this is the only way a published manifest fails to reopen.

No fairness is assumed: all current properties are safety properties.

## Proofs

`RootedSlotsProofs`, for every artifact set and generation bound: `TypeCorrect`,
`ReferencesIntact`, `GenerationsConsecutive`. The inductive invariant `IInv` is the
conjunction of the three properties. Intact references are not inductive alone: only
the consecutive generations say which root a commit replaces. Assumptions: `None` is no
artifact, reference or root, and the bound is positive.

`ManifestStoreProofs`, for every value of the constants: `Custody`. The invariant
`CustodyInv` says that a closed, pressured or faulted handle has no step left; every
action that touches a file needs either a writable idle handle or a step left.

`RetryHorizonProofs`, for every capacity and bound: `TypeCorrect`, `HorizonExact`,
`AtMostOnce`. The inductive invariant `IInv` adds to the properties what a running
advance has reached: its tiers are exactly the newest appends up to `work.seq`, no key
repeats within the horizon up to there, and its commit starts from the projection of
its side. `PushRecent` carries "exactly the newest n" to n + 1, which is where the two
capacities matter; `AcceptedIsNew` turns the refusal of retained keys into the
distance between equal keys; `RootInv` covers the commits that keep the projection.
The only assumption used is that the capacities and bounds are positive. At most once needs
nothing from the ingress: `advance` alone enforces it. That it never has to refuse
(`AdvanceNeverRefuses`) does, and is model-checked only, like `SnapshotReopens`.

The other `ManifestStore` properties and both refinements are model-checked only.
Liveness is out of the prover's reach and will stay with TLC.

## Plan

1. `SeriesRegistry`: register, revise, retire, bind and replay of a snapshot; proofs
   that histories only grow and that retirement is final.
2. `Latest`, `Ingress`, `StoreWorker` and their composition `Runtime`: interleavings of
   submitters, coordinator, worker, control futures and shutdown; every receipt
   resolves, nothing is durable before it is handled, reservations are conserved;
   shutdown terminates under weak fairness of the worker and the coordinator.
   An abstract receipt protocol for `Runtime` to implement.
3. `ActiveJournal`: the alternating checkpoint slots on their own, shown to be the
   single checkpoint value `ManifestStore` uses.
4. `Segment`: directory and index construction against a reference definition.
5. Proofs: `AdvanceNeverRefuses` from the slots in flight; `ManifestStore` implements
   `RootedSlots` for every value of the constants, then `RootAdvancesByOne` and `RetainedRootsResolve` from it.
