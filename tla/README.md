# TLA+ model of the block verification queue

This directory models `src/ethcore/verification/src/queue/mod.rs`, the
`VerificationQueue` that sits between block import and the chain, and checks it
with TLC. The other source file, `src/rpc/src/v1/traits/net.rs`, is a JSON-RPC
trait with stub methods. It has no state and is not modelled.

## The system

Seven kinds of thread touch the queue:

* **Verifier threads** (`verify`, lines 294-407). There are `number_of_threads`
  of them. A verifier sleeps on `state.1` while its id is at least `k` of
  `State::Work(k)`. It then waits on `more_to_verify` until `unverified` is
  non-empty. Before waiting it notifies `empty` if both `unverified` and
  `verifying` are empty. Next it moves the head of `unverified` into a
  `verifying` placeholder and verifies it with no lock held. It then fills
  the placeholder. If the placeholder is the head, it commits the completed
  prefix with `drain_verifying`, which also drops the children of bad
  parents, and finally calls `set_sync`.
* **import** (lines 476-538). It checks `processing` and `bad`, calls
  `K::create`, and then updates these in five separate critical sections:
  `sizes.unverified`, `processing`, `total_difficulty`,
  `processing_parents` and `unverified`.
* **The consumer.** On a `BlockVerified` message it calls `drain(max)`.
  `drain` resets the ready signal and re-arms it if items remain. The
  consumer then calls `mark_as_bad` with the blocks the chain rejected and
  `mark_as_good` with the rest. Both remove hashes from `processing`, from
  `total_difficulty` and (through `decrease_processing_children_count`) from
  `processing_parents`. `mark_as_bad` also makes one pass over `verified`
  to drop the children of bad blocks.
* **Admin calls:** `flush` (wait on `empty`), `clear` (three critical
  sections), `collect_garbage` (auto-scaling of the pool every
  `READJUSTMENT_PERIOD` ticks) and `Drop` (clear, `deleting`, `State::Exit`,
  notify both condvars, join).
* **`is_empty`** (lines 625-631). It loads the cached lengths of
  `unverified`, `verifying` and `verified`, in that order, with no lock
  held, and stops at the first non-empty one. It runs on the admin thread.

## Modules

| Module | Models |
|---|---|
| `VerificationQueue.tla` | The whole queue. The state is the three stages, `bad`, `sizes`, `processing`, `processing_parents`, `total_difficulty`, the pool `State`, `ticks_since_adjustment`, the `QueueSignal` flags and a count of pending `BlockVerified` messages. There is also a program counter per thread: the verifiers, one importer, one consumer and one admin thread. |
| `BlockQueue.tla` | The abstract contract of the queue: a sequence `pending` of accepted blocks and a set `bad` of known-bad hashes. A block is accepted at the tail, a non-empty prefix is delivered, blocks whose hash is bad may be dropped from anywhere (the rest keep their order), and `clear()` empties it. |
| `MC_MarkScan.tla` | `mark_as_bad`'s single pass over `verified`, checked on its own. It instantiates `VerificationQueue` with a chain `g <- c1 <- c2 <- c3` and a second child `d` of `c1`, an empty `processing`, and `verified` starting as any order of distinct blocks (`import` never requires a block's parent to be queued first). `MarkAsBad(h)` is `MarkLoop` then `ScanVerified`, exactly as in `MarkBad`. The full model cannot reach the pass: a queued block is in `processing`, so `mark_as_bad` hangs at line 541 before the scan. |
| `MC_VerificationQueue.tla` | Gives TLC three blocks: `b1` (child of genesis `g`), and `b2`, `b3` (children of `b1`). It also gives their raw hashes and difficulties, and a smaller instance (`MCPair`: `b1` and its child `b2`) for the run that needs three verifiers. |

How actions correspond to the code:

* **One action per critical section.** A thread's steps are split exactly
  where the code releases its locks. The split is recorded in `map` of
  `PROJECT.json`. For example, import becomes `ImportCheck`, `ImportCheckBad`, `CreateOk` or
  `CreateErr`, `AddSize`, `InsertProcessing`, `AddDifficulty`, `AddParent`
  and `PushUnverified`. The verifier becomes `Gate`, `AwaitWork`, `Claim`,
  `VerifyOk` or `VerifyErr`, and `SetSync`.
* **Nondeterministic outcomes.** `K::create` and `K::verify` come from
  outside this file, so their result is chosen by the model.
  `CreateOutcomes` lists the four error classes that `import` treats
  differently.
* **Condition variables.** `notify_all` is `Wake`: every waiter goes back to
  re-check its condition.
* **Guards held across steps.** `clear()` keeps the three stage guards
  across its steps. `import()` keeps the `processing_parents` write guard of
  line 507 while it pushes onto `unverified` (line 513). These are
  `ClearGuards` and `ImportGuards`, joined in `HoldsBetweenSteps`, and no other thread can take those locks meanwhile.
* **Locks and deadlocks.** `decrease_processing_children_count` keeps a read
  guard alive while it asks for the write guard on the same parking_lot
  `RwLock`. The acknowledging thread therefore hangs and keeps its locks
  (`held`), the `total_difficulty` write guard that is alive around the call
  included. A thread that later needs one of those locks blocks for good
  (`stuck`, via `Locked`/`BlockOn`).
* **Panics.** A U256 underflow in `mark_*` panics, and the model treats the
  panic as a process abort (`Crashed`).
* **Failed sends.** `IoChannel::send_sync`/`send` may fail, and the code only
  logs the error. `SendFails` lets a send fail: `Sent` is then `BOOLEAN`, and a
  failed send leaves `signalled` set with no message on its way.
* **Refinement.** `Pipeline` reads the detailed state as the abstract
  `pending`: `verified`, then the items of the `verifying` placeholders, then
  `unverified`. `Abstract == INSTANCE BlockQueue WITH pending <- Pipeline`,
  and `Refines == Abstract!Spec` is checked as a temporal property.
* **Mutants as instances.** Where a property has a mutant, the action's body
  is a parameterised operator (`AwaitWorkStep`, `ClaimInto`,
  `FillPlaceholder`, `DropFailed`, `DrainStep`, `GarbageStep`,
  `AddDifficultyStep`, `AddParentStep`). The real action and its mutant are
  one-line instances of it, so they differ only in the mutated part.
* **Abstracted data.** Items carry a ghost acceptance index `seq`. Every
  item has size 1, so `sizes` counts items modulo `2^UsizeBits`, as
  `AtomicUsize` wraps.

## Runs

| Run | Expect | Checks |
|---|---|---|
| `pipeline` | pass | `OrderPreserved`, `ProcessingCovers`, `TotalDifficultyMatches`, `ParentsMatch`, `SizesMatch`, and `Refines` (every step implements `BlockQueue`). Setup: two verifiers, three imports, every create outcome, verification failures, drains of 1 or 3, acknowledgements of any subset as bad, and a flush. |
| `liveness` | pass | `ItemsDrained` (no lost ready signal), `FlushReturns`, `ShutdownCompletes`, under `FairSpec`. It also checks `EmptyAnswerSound`: `is_empty` never answers true while a block stays queued for the whole call. The ghost `emptySnap` holds the blocks queued at the first load. A block still queued at the last load was queued throughout, because a block never re-enters the queue. |
| `scaling` | pass | `TypeOK`, `OrderPreserved` and `Refines`, with auto-scaling, `collect_garbage` and `clear()`. `TypeOK` bounds the pool state by the pool size and the tick counter by the period. |
| `processing_leak` | violation | `ProcessingExact`: a failed verification leaves the hash in `processing`. |
| `ack_deadlock` | violation | `BatchAcknowledged`: `mark_as_good` self-deadlocks on `processing_parents`. |
| `clear_import_deadlock` | violation | `ClearReturns`, under `FairSpec`: `import()` locks `unverified` while it holds `processing_parents`, and `clear()` takes them in the other order. Trace: `clear()` takes the stage guards, the import counts its parent, and `clear()` reaches `processing_parents`. The import then waits on `unverified` and `clear()` waits on `processing_parents`, for good. The spec's lock order (section 4.3) puts `unverified` first. One import, one `clear()`. |
| `sizes_wrap` | violation | `SizesMatch`: `clear()` between `import`'s `fetch_add` and its push makes the verifier's `fetch_sub` wrap. |
| `td_underflow` | violation | `NoPanic`: `mark_as_good` between the two halves of `clear()` underflows U256. |
| `flush_scaling` | violation | `FlushReturns`: with scaling, a verifier put to sleep after finishing the last item never notifies `empty`. |
| `mark_scan` | violation | `ScanMarksDescendants`: `mark_as_bad` marks bad, and drops from `verified`, every block that descends from the bad set through blocks of `verified`, as the doc comment (line 551) and the spec (section 4.1) say. The reference set is a transitive closure over parent links (`Relation`), in either queue order; the code's one pass follows queue order. `import` refuses only a block whose parent is already bad, so a child can be verified before its parent. TLC's trace: `verified = [c3, c2]`, then `mark_as_bad([c1])` drops `c2` and keeps its child `c3`, which the client is later handed. |
| `lost_signal` | violation | `ItemsDrained`: with `SendFails`, a failed send leaves `signalled` set. Every later `set_sync` is then a no-op, and verified items are never drained. |
| `stale_verifier` | violation | `VerifyingSizeMatches`: `clear()` does not stop a verifier that is inside `K::verify`. After a re-import of the same hash, that verifier and the new one both fill the one placeholder, so `sizes.verifying` counts the block twice. Three verifiers, two blocks. |

Every property of a passing run has a mutant, listed in `PROJECT.json`. Each
mutant is a plausible bug that TLC must catch:

* the placeholder pushed at the front;
* the last drained item left behind;
* difficulty overwritten instead of added;
* the children count not read;
* the `fetch_add` of `sizes.verifying` dropped;
* no re-arm in `drain`;
* `bad` not updated on a failed verification, and the placeholder pushed at the front (both against `Refines`);
* no `empty` notify;
* no `more_to_verify` notify on drop;
* `is_empty` reading the stages from the consumer's end (a block moving from `verifying` to `verified` between two loads is then missed);
* no tick reset.

Several properties exempt states where a multi-step update is half done:

* `TotalDifficultyMatches`, `ParentsMatch` and `SizesMatch` exempt the
  importer's window between two of its critical sections. A reader
  holding none of import's locks, such as `total_difficulty()`, can see
  that window.
* `ParentsMatch` leaves out states after a hung acknowledgement. In this
  code every acknowledgement of a queued block hangs (`ack_deadlock`)
  before the parent count is decremented, so no decrement is ever made.

These three properties are checked in `pipeline`, which has no `clear()`.
They check import's own order of updates. `clear()` racing an import
leaves a lasting mismatch: with `clear()` between lines 502 and 505,
`total_difficulty` ends at 2 over an empty `processing`. That is the
same race that makes `mark_as_good` underflow in `td_underflow`.

## Bounds

* **Blocks.** Three blocks give two siblings under one parent, which is what
  parent counts and the bad-ancestry rules need.
* **Imports.** `MaxImports` bounds import calls: 3 in `pipeline` and 2 in
  `liveness` and `scaling`. With 3 imports and auto-scaling the state space
  went past 40 million states.
* **Admin calls.** `MaxAdminCalls` bounds admin calls. `liveness` allows one call: `flush`, `drop` or
  `is_empty`. Each of its mutants is caught with one call. Two calls tripled
  the time of the fairness checking, close to the five-minute budget.
* **Counter width.** `UsizeBits = 3` keeps wrap-around visible.
* **Scaling threshold.** `ScaleThreshold` is the `20` of `collect_garbage`,
  lowered to 1 in `scaling` so that the "keep" and "grow" branches are
  reached with two blocks. The "shrink" branch (`v_len > u_len >= 1`) needs
  three, so no run reaches it.
* **Readjustment period.** `ReadjustmentPeriod = 2` in `scaling` exercises
  the tick counter. The code uses 12, or 1 under `cfg(test)`.

## Fairness

`FairSpec` is weak fairness on the steps of each verifier, the importer, the
consumer and the admin thread, for as long as that thread is not blocked
forever and the process has not aborted.

* Verifiers are OS threads and every started call runs to its end.
* The consumer is the client's I/O handler for `BlockVerified`.
* Starting a new import or admin call is never forced.

## Not modelled

* The read-only queries other than `is_empty`. They change no state and are
  one read each, or depend on the chain. The invariants state what they
  should report:
  * `status` reads `processing` and then `bad` (`ProcessingCovers`). The
    order matters only when a hash moves from `processing` to `bad` in one
    step, and only a `mark_as_bad` that returns does that. In this code
    every such call hangs in `decrease_processing_children_count` while it
    holds `processing`. A later `status` then blocks, so it can't answer
    wrongly, and no property about its answer could be broken by a change
    to the code;
  * `total_difficulty` (`TotalDifficultyMatches`);
  * `num_verifiers` (`TypeOK` bounds the pool state).

  `queue_info` sums byte estimates, which the model abstracts to item
  counts. Its overflow once `sizes.unverified` has wrapped is listed as a
  hazard and caught upstream by `SizesMatch`. `is_processing_fork` asks
  `BlockChain::tree_route`, which is outside this code.
* `LenCachingMutex`'s cached length. It is not in this repository. The
  model reads a stage's length at the step that changed it. In the code
  the cached lengths change when the guards drop, and both moves between
  stages drop the later stage's guard first:
  * the claim block declares `verifying` after `unverified`;
  * the commit takes `verified` inside the `if`.

  A moving block is therefore counted twice for an instant, never zero
  times. Reading the lengths at the step is thus no more permissive for
  `EmptyAnswerSound`.
* Concurrent imports. `import` takes `&self`, so several threads may call
  it. The model has one importer thread. The atomic insert-and-test of
  line 497 that turns a duplicate away is modelled (`CreateOk`), but no run
  has two imports of one hash in flight. A second importer multiplies the
  state space past the runs' time budget. This is listed as a hazard with
  no property.
* `ItemsDrained` with auto-scaling. It holds under `FairSpec` with the
  `scaling` bounds, but checking it took 14 minutes, so it is not a run.
* Byte sizes and `max_mem_use`. Every item has size 1.
* `shrink_to_fit`. It changes memory only.
* The separate critical sections in which `collect_garbage` reads `u_len`,
  `v_len` and `num_verifiers`. `CollectGarbage` reads them in one step.
  Stale lengths only change the scaling target, and the clamp applies
  whatever the target is.

## Plan for later sittings

1. A pure check of `ScaleTarget`/`Clamp` over all small `u_len`, `v_len`
   and `current`, to cover the shrink branch.
2. A model of the fixed `decrease_processing_children_count`, so that the
   full model reaches `mark_as_bad`'s pass and `mark_as_good`'s decrements.
