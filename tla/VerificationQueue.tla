------------------------- MODULE VerificationQueue -------------------------
(***************************************************************************)
(* The verification queue of ethcore/verification/src/queue/mod.rs: three *)
(* FIFO stages (unverified, verifying, verified), the bad set, the         *)
(* processing maps and total difficulty, the ready signal, a pool of       *)
(* verifier threads gated by the shared pool State, and three client       *)
(* threads calling the public API: an importer (import), the consumer of   *)
(* BlockVerified messages (drain, then mark_as_bad / mark_as_good) and an  *)
(* admin thread (flush, clear, collect_garbage, drop).                     *)
(*                                                                         *)
(* Each action is one critical section of the code: the steps of a thread *)
(* are split exactly where the code releases its locks.  Items are block   *)
(* hashes; an item in a stage also carries `seq`, a ghost acceptance index *)
(* that the code does not have and that only the properties read.  Every   *)
(* item has size 1, so a size counter counts items (modulo 2^UsizeBits,    *)
(* as AtomicUsize wraps).                                                  *)
(*                                                                         *)
(* A thread that acquires a lock held forever by a deadlocked thread       *)
(* blocks for good, keeping the locks it already holds (`held`).           *)
(***************************************************************************)
EXTENDS Naturals, SequencesExt

CONSTANTS
    Hashes,              \* block hashes the importer may submit
    Genesis,             \* parent of the first blocks; never imported
    Parent,              \* [Hashes -> Hashes \cup {Genesis}]
    RawHash,             \* [Hashes -> raw hashes], the input's raw_hash
    Difficulty,          \* [Hashes -> Nat]
    NumCpus,             \* num_cpus::get()
    ConfiguredVerifiers, \* verifier_settings.num_verifiers
    ScaleVerifiers,      \* verifier_settings.scale_verifiers
    ScaleThreshold,      \* the 20 of collect_garbage's `u_len < 20`
    ReadjustmentPeriod,  \* READJUSTMENT_PERIOD (12; 1 under cfg(test))
    UsizeBits,           \* width of the AtomicUsize size counters
    CreateOutcomes,      \* results of K::create the model may take
    DrainMax,            \* the `max` arguments the consumer passes to drain
    ClientAcks,          \* whether the consumer acknowledges drained items
    AdminOps,            \* the admin calls of this model
    MaxImports,          \* bound on import calls
    MaxAdminCalls,       \* bound on admin calls
    SendFails            \* whether IoChannel::send may return an error

ASSUME /\ Parent \in [Hashes -> Hashes \cup {Genesis}]
       /\ Genesis \notin Hashes
       /\ Difficulty \in [Hashes -> Nat]
       /\ NumCpus \in Nat \ {0} /\ ConfiguredVerifiers \in Nat
       /\ ScaleVerifiers \in BOOLEAN /\ ClientAcks \in BOOLEAN /\ SendFails \in BOOLEAN
       /\ ReadjustmentPeriod \in Nat \ {0}
       /\ CreateOutcomes \subseteq {"Ok", "TemporarilyInvalid", "InvalidBody", "Other"}
       /\ DrainMax \subseteq Nat \ {0}
       /\ AdminOps \subseteq {"flush", "clear", "gc", "drop", "is_empty"}

-----------------------------------------------------------------------------
\* VerificationQueue::new, lines 231-242.
DefaultAmount == Max({1, Min({NumCpus, ConfiguredVerifiers})})
NumberOfThreads == IF ScaleVerifiers THEN NumCpus ELSE DefaultAmount

Workers == 0..(NumberOfThreads - 1)
\* The client threads are numbered after the verifiers.
Importer == NumberOfThreads
Consumer == NumberOfThreads + 1
Admin == NumberOfThreads + 2
Threads == Workers \cup {Importer, Consumer, Admin}

\* enum State (lines 96-100).
Work(k) == [tag |-> "Work", n |-> k]
Exit == [tag |-> "Exit", n |-> 0]
Usize == 2^UsizeBits
Inc(x, n) == (x + n) % Usize                \* AtomicUsize::fetch_add
Dec(x, n) == (x + Usize - (n % Usize)) % Usize  \* AtomicUsize::fetch_sub

Stages == {"unverified", "verifying", "verified"}
ParentHashes == Hashes \cup {Genesis}
Item == [hash : Hashes, seq : Nat]
NoItem == [hash |-> Genesis, seq |-> 0]
Placeholder == [item : Item, done : BOOLEAN]   \* Verifying { hash, output }

VARIABLES
    unverified, verifying, verified, \* the three LenCachingMutex<VecDeque>
    bad,                  \* Mutex<HashSet<H256>>, hashes and raw hashes
    sizes,                \* Sizes
    processing,           \* keys of `processing`; values follow Parent, Difficulty
    processingParents,    \* processing_parents, 0 for an absent key
    totalDifficulty,
    poolState,            \* state.0
    ticks,                \* ticks_since_adjustment
    signalled, deleting, messages,  \* QueueSignal and pending BlockVerified
    pc, cur,              \* program counters; the item a worker verifies
    impHash,              \* the hash the importer is importing
    batch,                \* items drained and not yet acknowledged
    held,                 \* locks held forever by blocked threads
    stuck,                \* threads blocked forever, at their pc
    accepted, lastOut,    \* ghost: acceptance counter, seq of last drained
    emptySnap,            \* ghost: blocks queued when is_empty() began
    importCalls, adminCalls

queueVars == <<unverified, verifying, verified, bad, sizes>>
clientVars == <<processing, processingParents, totalDifficulty>>
poolVars == <<poolState, ticks>>
signalVars == <<signalled, deleting, messages>>
threadVars == <<pc, cur, impHash, batch, held, stuck>>
ghostVars == <<accepted, lastOut, emptySnap, importCalls, adminCalls>>
vars == <<queueVars, clientVars, poolVars, signalVars, threadVars, ghostVars>>

-----------------------------------------------------------------------------
(* Locks, condition variables and the signal.                              *)

MidClear == {"clear_processing", "clear_parents"}

\* clear() keeps the three stage guards until it returns (lines 437-451).
ClearGuards == IF pc[Admin] \in MidClear THEN Stages ELSE {}

\* import keeps the processing_parents write guard of line 507 while it
\* pushes onto unverified (line 513).
ImportGuards == IF pc[Importer] = "push" THEN {"parents"} ELSE {}

\* Locks a thread holds between two of its steps.
HoldsBetweenSteps(t) ==
    CASE t = Admin -> ClearGuards
      [] t = Importer -> ImportGuards
      [] OTHER -> {}

\* A thread that finds a lock of L held forever stops there for good.
BlockOn(t, L) ==
    LET k == SelectInSeq(L, LAMBDA l : l \in held)
    IN /\ stuck' = stuck \cup {t}
       /\ held' = held \cup ToSet(SubSeq(L, 1, k - 1)) \cup HoldsBetweenSteps(t)
       /\ UNCHANGED <<queueVars, clientVars, poolVars, signalVars,
                      pc, cur, impHash, batch, ghostVars>>

\* Step A of thread t, taken with the locks L in the code's order.
Locked(t, L, A) ==
    /\ \A u \in Threads \ {t} : ToSet(L) \cap HoldsBetweenSteps(u) = {}
    /\ IF ToSet(L) \cap held = {} THEN A ELSE BlockOn(t, L)

\* Condvar::notify_all: every waiter goes back to re-check its condition.
Wake(p, waiting, recheck) ==
    [t \in DOMAIN p |-> IF p[t] = waiting THEN recheck ELSE p[t]]

\* Whether a send of BlockVerified reaches the client; an error is only
\* logged (lines 171-173, 185-187).
Sent == IF SendFails THEN BOOLEAN ELSE {TRUE}

\* QueueSignal::set_sync and set_async (lines 163-189): the CAS winner
\* sends, and `signalled` stays set whether or not the send succeeded.
SetSignal ==
    IF deleting \/ signalled
    THEN UNCHANGED <<signalled, messages>>
    ELSE /\ signalled' = TRUE
         /\ \E ok \in Sent : messages' = messages + (IF ok THEN 1 ELSE 0)

-----------------------------------------------------------------------------
(* Pure parts of the code.                                                 *)

\* drain_verifying (lines 409-433) over r = [verifying, verified, bad,
\* removed, inserted]: commit the completed prefix of `verifying`.
RECURSIVE DrainVerifying(_)
DrainVerifying(r) ==
    IF r.verifying # <<>> /\ Head(r.verifying).done
    THEN LET it == Head(r.verifying).item
             badParent == Parent[it.hash] \in r.bad
         IN DrainVerifying(
              [r EXCEPT !.verifying = Tail(@),
                        !.removed = @ + 1,
                        !.bad = IF badParent THEN @ \cup {it.hash} ELSE @,
                        !.verified = IF badParent THEN @ ELSE Append(@, it),
                        !.inserted = IF badParent THEN @ ELSE @ + 1])
    ELSE r

DrainFrom(vq) ==
    DrainVerifying([verifying |-> vq, verified |-> verified, bad |-> bad,
                    removed |-> 0, inserted |-> 0])

\* Removing h from `processing` in mark_as_bad / mark_as_good (lines
\* 564-567, 577-581, 599-603).  U256 subtraction panics on underflow.
\* decrease_processing_children_count (lines 540-549) keeps the read guard
\* of its `if let` scrutinee alive while it calls write() on the same
\* RwLock: when the parent has a count, the thread never returns.
Unprocess(h, r) ==
    CASE h \notin r.processing -> r
      [] r.td < Difficulty[h] ->
            [r EXCEPT !.processing = @ \ {h}, !.outcome = "panicked"]
      [] OTHER ->
            [r EXCEPT !.processing = @ \ {h}, !.td = @ - Difficulty[h],
                      !.outcome = IF processingParents[Parent[h]] > 0
                                  THEN "hung" ELSE "ok"]

\* The loop over `hashes` of mark_as_bad (toBad) or mark_as_good.
RECURSIVE MarkLoop(_, _, _)
MarkLoop(hs, r, toBad) ==
    IF hs = <<>> \/ r.outcome # "ok" THEN r
    ELSE MarkLoop(Tail(hs),
                  Unprocess(Head(hs),
                            IF toBad THEN [r EXCEPT !.bad = @ \cup {Head(hs)}]
                            ELSE r),
                  toBad)

\* The single pass of mark_as_bad over `verified` (lines 571-588).
RECURSIVE ScanVerified(_, _)
ScanVerified(vs, r) ==
    IF vs = <<>> \/ r.outcome # "ok" THEN r
    ELSE LET it == Head(vs)
         IN IF Parent[it.hash] \in r.bad
            THEN ScanVerified(Tail(vs),
                    Unprocess(it.hash, [r EXCEPT !.bad = @ \cup {it.hash},
                                                 !.removed = @ + 1]))
            ELSE ScanVerified(Tail(vs), [r EXCEPT !.kept = Append(@, it)])

\* collect_garbage's target (lines 729-744) and scale_verifiers' clamp
\* (lines 752-753).
ScaleTarget(u, v, current) ==
    LET diff == IF v >= u THEN v - u ELSE u - v
    IN CASE u < ScaleThreshold -> 1
         [] diff <= (v + u) \div 10 -> current
         [] v > u -> current - 1
         [] OTHER -> current + 1
Clamp(target) == Max({1, Min({NumberOfThreads, target})})

HashesOf(s) == [i \in 1..Len(s) |-> s[i].hash]
Seqs(s) == [i \in 1..Len(s) |-> s[i].seq]
PlaceholderItems == [i \in 1..Len(verifying) |-> verifying[i].item]

\* Refinement mapping: the blocks in the pipeline, oldest first, are the
\* verified stage, then the verifying placeholders, then unverified.
Pipeline == verified \o PlaceholderItems \o unverified

-----------------------------------------------------------------------------
(* Init.  VerificationQueue::new: empty stages, State::Work(default_amount) *)
(* and every verifier thread at the top of its loop.                      *)

Init ==
    /\ unverified = <<>> /\ verifying = <<>> /\ verified = <<>>
    /\ bad = {}
    /\ sizes = [s \in Stages |-> 0]
    /\ processing = {}
    /\ processingParents = [p \in ParentHashes |-> 0]
    /\ totalDifficulty = 0
    /\ poolState = Work(DefaultAmount)
    /\ ticks = 0
    /\ signalled = FALSE /\ deleting = FALSE /\ messages = 0
    /\ pc = [t \in Threads |-> IF t \in Workers THEN "gate" ELSE "idle"]
    /\ cur = [w \in Workers |-> NoItem]
    /\ impHash = Genesis
    /\ batch = <<>>
    /\ held = {}
    /\ stuck = {}
    /\ accepted = 0 /\ lastOut = 0 /\ emptySnap = {}
    /\ importCalls = 0 /\ adminCalls = 0

-----------------------------------------------------------------------------
(* The verifier thread, VerificationQueue::verify (lines 294-407).         *)

\* Lines 305-320: sleep on state.1 while id >= k; leave on State::Exit.
Gate(w) ==
    /\ pc[w] = "gate"
    /\ pc' = [pc EXCEPT ![w] = CASE poolState = Exit -> "exited"
                                 [] w < poolState.n -> "work_check"
                                 [] OTHER -> "state_wait"]
    /\ UNCHANGED <<queueVars, clientVars, poolVars, signalVars,
                   cur, impHash, batch, held, stuck, ghostVars>>

\* Lines 322-343 under the unverified lock: notify `empty` if `notify`,
\* return on Exit, wait on more_to_verify while unverified is empty.
AwaitWorkStep(w, notify) ==
    /\ pc[w] \in {"work_check", "work_recheck"}
    /\ LET next == CASE poolState = Exit -> "exited"
                     [] unverified = <<>> -> "work_wait"
                     [] OTHER -> "claim"
           pc1 == IF notify THEN Wake(pc, "flush_wait", "flush") ELSE pc
       IN Locked(w, IF unverified = <<>> THEN <<"unverified", "verifying">>
                    ELSE <<"unverified">>,
            /\ pc' = [pc1 EXCEPT ![w] = next]
            /\ UNCHANGED <<queueVars, clientVars, poolVars, signalVars,
                           cur, impHash, batch, held, stuck, ghostVars>>)

\* Mutant: `empty` is never notified (lines 326-328 missing).
AwaitWorkNoNotify(w) == AwaitWorkStep(w, FALSE)

\* `empty` is notified when both unverified and verifying are empty, only
\* on entry to the block and not after a wake-up (lines 326-328).
AwaitWork(w) ==
    AwaitWorkStep(w, pc[w] = "work_check" /\ unverified = <<>> /\ verifying = <<>>)

\* Verifying { hash: item.hash(), output: None } (line 357).
NewPlaceholder == [item |-> Head(unverified), done |-> FALSE]

\* Lines 346-359: pop the head of unverified and push its placeholder with
\* `queued` the new verifying queue, or `continue` when another verifier
\* took the item first.
ClaimInto(w, queued) ==
    /\ pc[w] = "claim"
    /\ Locked(w, <<"unverified", "verifying">>,
         IF unverified = <<>>
         THEN /\ pc' = [pc EXCEPT ![w] = "gate"]
              /\ UNCHANGED <<queueVars, clientVars, poolVars, signalVars,
                             cur, impHash, batch, held, stuck, ghostVars>>
         ELSE /\ unverified' = Tail(unverified)
              /\ sizes' = [sizes EXCEPT !.unverified = Dec(@, 1)]
              /\ verifying' = queued
              /\ cur' = [cur EXCEPT ![w] = Head(unverified)]
              /\ pc' = [pc EXCEPT ![w] = "verify"]
              /\ UNCHANGED <<verified, bad, clientVars, poolVars, signalVars,
                             impHash, batch, held, stuck, ghostVars>>)

\* Mutant: the placeholder is pushed at the front of verifying.
ClaimFront(w) == ClaimInto(w, <<NewPlaceholder>> \o verifying)

\* verifying.push_back (line 357).
Claim(w) == ClaimInto(w, Append(verifying, NewPlaceholder))

\* Lines 362-385: K::verify succeeded.  Fill the first placeholder with the
\* hash, adding `size` to sizes.verifying; when it is the head, commit the
\* completed prefix.
FillPlaceholder(w, size) ==
    /\ pc[w] = "verify"
    /\ LET idx == SelectInSeq(verifying, LAMBDA p : p.item.hash = cur[w].hash)
           filled == IF idx = 0 THEN verifying
                     ELSE [verifying EXCEPT ![idx].done = TRUE]
           sz == IF idx = 0 THEN sizes ELSE [sizes EXCEPT !.verifying = Inc(@, size)]
           d == DrainFrom(filled)
       IN Locked(w, IF idx = 1 THEN <<"verifying", "verified", "bad">>
                    ELSE <<"verifying">>,
            /\ verifying' = IF idx = 1 THEN d.verifying ELSE filled
            /\ verified' = IF idx = 1 THEN d.verified ELSE verified
            /\ bad' = IF idx = 1 THEN d.bad ELSE bad
            /\ sizes' = IF idx = 1
                        THEN [sz EXCEPT !.verifying = Dec(@, d.removed),
                                        !.verified = Inc(@, d.inserted)]
                        ELSE sz
            /\ pc' = [pc EXCEPT ![w] = IF idx = 1 THEN "signal" ELSE "gate"]
            /\ UNCHANGED <<unverified, clientVars, poolVars, signalVars,
                           cur, impHash, batch, held, stuck, ghostVars>>)

\* Mutant: filling a placeholder does not grow sizes.verifying (line 370).
VerifyOkUncounted(w) == FillPlaceholder(w, 0)

\* Every block has size 1.
VerifyOk(w) == FillPlaceholder(w, 1)

\* Lines 386-400: K::verify failed.  `marked` is bad after the insert of
\* line 391; drop every placeholder with that hash and commit if the new
\* head is complete.
DropFailed(w, marked) ==
    /\ pc[w] = "verify"
    /\ LET rest == SelectSeq(verifying, LAMBDA p : p.item.hash # cur[w].hash)
           ready == rest # <<>> /\ Head(rest).done
           d == DrainVerifying([verifying |-> rest, verified |-> verified,
                                bad |-> marked, removed |-> 0, inserted |-> 0])
       IN Locked(w, <<"verifying", "verified", "bad">>,
            /\ verifying' = d.verifying
            /\ verified' = d.verified
            /\ bad' = d.bad
            /\ sizes' = [sizes EXCEPT !.verifying = Dec(@, d.removed),
                                      !.verified = Inc(@, d.inserted)]
            /\ pc' = [pc EXCEPT ![w] = IF ready THEN "signal" ELSE "gate"]
            /\ UNCHANGED <<unverified, clientVars, poolVars, signalVars,
                           cur, impHash, batch, held, stuck, ghostVars>>)

\* Mutant: the failed hash is not inserted into bad (line 391 missing).
VerifyErrNoBad(w) == DropFailed(w, bad)

VerifyErr(w) == DropFailed(w, bad \cup {cur[w].hash})

\* Lines 402-405: ready.set_sync() after the locks are released.
SetSync(w) ==
    /\ pc[w] = "signal"
    /\ SetSignal
    /\ pc' = [pc EXCEPT ![w] = "gate"]
    /\ UNCHANGED <<queueVars, clientVars, poolVars, deleting,
                   cur, impHash, batch, held, stuck, ghostVars>>

WorkerStep(w) ==
    \/ Gate(w) \/ AwaitWork(w) \/ Claim(w)
    \/ VerifyOk(w) \/ VerifyErr(w) \/ SetSync(w)

-----------------------------------------------------------------------------
(* The importer thread, VerificationQueue::import (lines 476-538).         *)

Dropping == pc[Admin] \in {"drop", "drop_exit", "drop_notify", "drop_join", "dropped"}

ImportCall(h) ==
    /\ pc[Importer] = "idle" /\ ~Dropping
    /\ importCalls < MaxImports
    /\ impHash' = h
    /\ importCalls' = importCalls + 1
    /\ pc' = [pc EXCEPT ![Importer] = "check"]
    /\ UNCHANGED <<queueVars, clientVars, poolVars, signalVars,
                   cur, batch, held, stuck, accepted, lastOut, emptySnap, adminCalls>>

\* Lines 480-482: AlreadyQueued, under a temporary read guard of processing.
ImportCheck ==
    /\ pc[Importer] = "check"
    /\ Locked(Importer, <<"processing">>,
         /\ pc' = [pc EXCEPT ![Importer] =
                     IF impHash \in processing THEN "idle" ELSE "check_bad"]
         /\ UNCHANGED <<queueVars, clientVars, poolVars, signalVars, cur, impHash,
                        batch, held, stuck, ghostVars>>)

\* Lines 484-492: KnownBad, and a child of a bad parent, under the bad lock.
ImportCheckBad ==
    LET h == impHash
        known == {h, RawHash[h]} \cap bad # {}
    IN /\ pc[Importer] = "check_bad"
       /\ Locked(Importer, <<"bad">>,
            /\ bad' = IF ~known /\ Parent[h] \in bad THEN bad \cup {h} ELSE bad
            /\ pc' = [pc EXCEPT ![Importer] =
                        IF known \/ Parent[h] \in bad THEN "idle" ELSE "create"]
            /\ UNCHANGED <<unverified, verifying, verified, sizes, clientVars,
                           poolVars, signalVars, cur, impHash, batch, held, stuck,
                           ghostVars>>)

\* Lines 495-498: K::create succeeded; the first insert into processing
\* returns AlreadyQueued when a concurrent import got there first.
CreateOk ==
    /\ pc[Importer] = "create" /\ "Ok" \in CreateOutcomes
    /\ Locked(Importer, <<"processing">>,
         /\ processing' = processing \cup {impHash}
         /\ pc' = [pc EXCEPT ![Importer] =
                     IF impHash \in processing THEN "idle" ELSE "add_size"]
         /\ UNCHANGED <<queueVars, processingParents, totalDifficulty, poolVars,
                        signalVars, cur, impHash, batch, held, stuck, ghostVars>>)

\* Lines 517-536: K::create failed; a future block is not marked bad, a
\* malformed body marks raw_hash, any other error marks hash.
CreateErr(e) ==
    /\ pc[Importer] = "create" /\ e \in CreateOutcomes \ {"Ok"}
    /\ Locked(Importer, IF e = "TemporarilyInvalid" THEN <<>> ELSE <<"bad">>,
         /\ bad' = CASE e = "InvalidBody" -> bad \cup {RawHash[impHash]}
                     [] e = "Other" -> bad \cup {impHash}
                     [] OTHER -> bad
         /\ pc' = [pc EXCEPT ![Importer] = "idle"]
         /\ UNCHANGED <<unverified, verifying, verified, sizes, clientVars,
                        poolVars, signalVars, cur, impHash, batch, held, stuck, ghostVars>>)

\* Line 500: the unverified size grows before the item is queued.
AddSize ==
    /\ pc[Importer] = "add_size"
    /\ sizes' = [sizes EXCEPT !.unverified = Inc(@, 1)]
    /\ pc' = [pc EXCEPT ![Importer] = "insert"]
    /\ UNCHANGED <<unverified, verifying, verified, bad, clientVars, poolVars,
                   signalVars, cur, impHash, batch, held, stuck, ghostVars>>

\* Line 502: the authoritative insert of (difficulty, parent).
InsertProcessing ==
    /\ pc[Importer] = "insert"
    /\ Locked(Importer, <<"processing">>,
         /\ processing' = processing \cup {impHash}
         /\ pc' = [pc EXCEPT ![Importer] = "add_td"]
         /\ UNCHANGED <<queueVars, processingParents, totalDifficulty, poolVars,
                        signalVars, cur, impHash, batch, held, stuck, ghostVars>>)

\* Lines 503-506: store `total` under the write lock.
AddDifficultyStep(total) ==
    /\ pc[Importer] = "add_td"
    /\ Locked(Importer, <<"td">>,
         /\ totalDifficulty' = total
         /\ pc' = [pc EXCEPT ![Importer] = "add_parent"]
         /\ UNCHANGED <<queueVars, processing, processingParents, poolVars,
                        signalVars, cur, impHash, batch, held, stuck, ghostVars>>)

\* Mutant: `*td = item.difficulty()` instead of adding to it.
AddDifficultyOverwrite == AddDifficultyStep(Difficulty[impHash])

\* Lines 503-506: `*td += item.difficulty()`.
AddDifficulty == AddDifficultyStep(totalDifficulty + Difficulty[impHash])

\* Lines 507-512: store the parent's children `count` under the write lock.
AddParentStep(count) ==
    /\ pc[Importer] = "add_parent"
    /\ Locked(Importer, <<"parents">>,
         /\ processingParents' = [processingParents EXCEPT
                                    ![Parent[impHash]] = count]
         /\ pc' = [pc EXCEPT ![Importer] = "push"]
         /\ UNCHANGED <<queueVars, processing, totalDifficulty, poolVars,
                        signalVars, cur, impHash, batch, held, stuck, ghostVars>>)

\* Mutant: the existing children count is not read (lines 509-511).
AddParentReset == AddParentStep(1)

\* Lines 507-512: one more child of the parent, under the write lock.
AddParent == AddParentStep(processingParents[Parent[impHash]] + 1)

\* Lines 513-515: queue the item and wake the verifiers.
PushUnverified ==
    /\ pc[Importer] = "push"
    /\ Locked(Importer, <<"unverified">>,
         /\ unverified' = Append(unverified, [hash |-> impHash, seq |-> accepted + 1])
         /\ accepted' = accepted + 1
         /\ pc' = [Wake(pc, "work_wait", "work_recheck") EXCEPT ![Importer] = "idle"]
         /\ UNCHANGED <<verifying, verified, bad, sizes, clientVars, poolVars,
                        signalVars, cur, impHash, batch, held, stuck,
                        lastOut, emptySnap, importCalls, adminCalls>>)

ImporterStep ==
    \/ ImportCheck \/ ImportCheckBad \/ CreateOk \/ \E e \in CreateOutcomes : CreateErr(e)
    \/ AddSize \/ InsertProcessing \/ AddDifficulty \/ AddParent
    \/ PushUnverified

-----------------------------------------------------------------------------
(* The consumer thread: on a BlockVerified message the client drains the  *)
(* queue, imports the blocks into the chain, then calls mark_as_bad with  *)
(* the blocks the chain rejected and mark_as_good with the others.        *)

\* drain (lines 609-622), with `skip` the offset after the drained prefix
\* where the remainder starts and `mayRearm` whether the signal may be re-armed: reset the signal, re-arm it if items
\* remain.
DrainStep(max, skip, mayRearm) ==
    LET n == Min({max, Len(verified)})
        out == SubSeq(verified, 1, n)
        rest == SubSeq(verified, n + skip, Len(verified))
        rearm == mayRearm /\ rest # <<>> /\ ~deleting
    IN /\ pc[Consumer] = "idle" /\ ~Dropping /\ messages > 0
       /\ Locked(Consumer, <<"verified">>,
            /\ verified' = rest
            /\ sizes' = [sizes EXCEPT !.verified = Dec(@, n)]
            /\ signalled' = rearm
            /\ \E ok \in Sent : messages' = messages - 1 + (IF rearm /\ ok THEN 1 ELSE 0)
            /\ batch' = IF ClientAcks THEN out ELSE <<>>
            /\ lastOut' = IF n > 0 THEN out[n].seq ELSE lastOut
            /\ pc' = [pc EXCEPT ![Consumer] =
                        IF ClientAcks /\ n > 0 THEN "mark_bad" ELSE "idle"]
            /\ UNCHANGED <<unverified, verifying, bad, clientVars, poolVars,
                           deleting, cur, impHash, held, stuck, accepted,
                           emptySnap, importCalls, adminCalls>>)

\* Mutant: verified.drain(..count) leaves the last drained item behind.
DrainKeepsLast(max) == DrainStep(max, 0, TRUE)

\* Mutant: drain resets the signal and never re-arms it (lines 618-620).
DrainNoRearm(max) == DrainStep(max, 1, FALSE)

\* Lines 612-616: drain the first `max` verified items.
Drain(max) == DrainStep(max, 1, TRUE)

MarkStart == [bad |-> bad, processing |-> processing, td |-> totalDifficulty,
              outcome |-> "ok", kept |-> <<>>, removed |-> 0]

\* The consumer stops for good when a mark call never returns.
MarkOutcome(r, next) ==
    CASE r.outcome = "ok" -> next [] OTHER -> r.outcome

\* mark_as_bad (lines 553-589) with the rejected blocks B of the batch.
MarkBad(B) ==
    LET hs == SelectSeq(HashesOf(batch), LAMBDA h : h \in B)
        r1 == MarkLoop(hs, MarkStart, TRUE)
        r == ScanVerified(verified, r1)
        ok == r.outcome = "ok"
    IN /\ pc[Consumer] = "mark_bad"
       /\ IF hs = <<>>
          THEN /\ pc' = [pc EXCEPT ![Consumer] = "mark_good"]
               /\ UNCHANGED <<queueVars, clientVars, poolVars, signalVars,
                              cur, impHash, batch, held, stuck, ghostVars>>
          ELSE Locked(Consumer, <<"verified", "bad", "processing", "td">>,
                 /\ bad' = r.bad
                 /\ processing' = r.processing
                 /\ totalDifficulty' = r.td
                 /\ verified' = IF ok THEN r.kept ELSE verified
                 /\ sizes' = IF ok THEN [sizes EXCEPT !.verified = Dec(@, r.removed)]
                             ELSE sizes
                 /\ batch' = IF ok THEN SelectSeq(batch, LAMBDA it : it.hash \notin B)
                             ELSE batch
                 /\ held' = IF r.outcome = "hung"
                            THEN held \cup {"verified", "bad", "processing", "td", "parents"}
                            ELSE held
                 /\ pc' = [pc EXCEPT ![Consumer] = MarkOutcome(r, "mark_good")]
                 /\ UNCHANGED <<unverified, verifying, processingParents, poolVars,
                                signalVars, cur, impHash, stuck, ghostVars>>)

\* mark_as_good (lines 593-606) with the rest of the batch.
MarkGood ==
    LET hs == HashesOf(batch)
        r == MarkLoop(hs, MarkStart, FALSE)
    IN /\ pc[Consumer] = "mark_good"
       /\ Locked(Consumer, IF hs = <<>> THEN <<"processing">> ELSE <<"processing", "td">>,
            /\ processing' = r.processing
            /\ totalDifficulty' = r.td
            /\ batch' = IF r.outcome = "ok" THEN <<>> ELSE batch
            /\ held' = IF r.outcome = "hung" THEN held \cup {"processing", "td", "parents"}
                       ELSE held
            /\ pc' = [pc EXCEPT ![Consumer] = MarkOutcome(r, "idle")]
            /\ UNCHANGED <<queueVars, processingParents, poolVars, signalVars,
                           cur, impHash, stuck, ghostVars>>)

ConsumerStep ==
    \/ \E max \in DrainMax : Drain(max)
    \/ \E B \in SUBSET ToSet(HashesOf(batch)) : MarkBad(B)
    \/ MarkGood

-----------------------------------------------------------------------------
(* The admin thread: flush, clear, collect_garbage and Drop.              *)

AdminCall(op) ==
    /\ pc[Admin] = "idle" /\ adminCalls < MaxAdminCalls
    \* Drop takes &mut self: no other call is in progress.
    /\ op = "drop" => pc[Importer] = "idle" /\ pc[Consumer] = "idle"
    /\ pc' = [pc EXCEPT ![Admin] = op]
    /\ adminCalls' = adminCalls + 1
    /\ UNCHANGED <<queueVars, clientVars, poolVars, signalVars,
                   cur, impHash, batch, held, stuck, accepted, lastOut, emptySnap,
                   importCalls>>

\* flush (lines 455-460): wait on `empty` until both stages are empty.
Flush ==
    /\ pc[Admin] = "flush"
    /\ Locked(Admin, <<"unverified", "verifying">>,
         /\ pc' = [pc EXCEPT ![Admin] = IF unverified = <<>> /\ verifying = <<>>
                                        THEN "idle" ELSE "flush_wait"]
         /\ UNCHANGED <<queueVars, clientVars, poolVars, signalVars,
                        cur, impHash, batch, held, stuck, ghostVars>>)

\* clear (lines 436-452), step 1: the three stages, sizes and difficulty.
ClearStages ==
    /\ pc[Admin] = "clear"
    /\ Locked(Admin, <<"unverified", "verifying", "verified", "td">>,
         /\ unverified' = <<>> /\ verifying' = <<>> /\ verified' = <<>>
         /\ sizes' = [s \in Stages |-> 0]
         /\ totalDifficulty' = 0
         /\ pc' = [pc EXCEPT ![Admin] = "clear_processing"]
         /\ UNCHANGED <<bad, processing, processingParents, poolVars, signalVars,
                        cur, impHash, batch, held, stuck, ghostVars>>)

\* clear, line 450.
ClearProcessing ==
    /\ pc[Admin] = "clear_processing"
    /\ Locked(Admin, <<"processing">>,
         /\ processing' = {}
         /\ pc' = [pc EXCEPT ![Admin] = "clear_parents"]
         /\ UNCHANGED <<queueVars, processingParents, totalDifficulty, poolVars,
                        signalVars, cur, impHash, batch, held, stuck, ghostVars>>)

\* clear, line 451; the stage guards are released on return.
ClearParents ==
    /\ pc[Admin] = "clear_parents"
    /\ Locked(Admin, <<"parents">>,
         /\ processingParents' = [p \in ParentHashes |-> 0]
         /\ pc' = [pc EXCEPT ![Admin] = "idle"]
         /\ UNCHANGED <<queueVars, processing, totalDifficulty, poolVars,
                        signalVars, cur, impHash, batch, held, stuck, ghostVars>>)

\* collect_garbage (lines 693-745) and scale_verifiers (lines 750-759),
\* with `reset` the tick count stored when the pool is readjusted.
GarbageStep(reset) ==
    LET adjust == ScaleVerifiers /\ ticks + 1 >= ReadjustmentPeriod
        target == Clamp(ScaleTarget(Len(unverified), Len(verified), poolState.n))
    IN /\ pc[Admin] = "gc"
       /\ Locked(Admin, <<"unverified", "verifying", "verified", "processing">>,
            /\ ticks' = CASE ~ScaleVerifiers -> ticks
                          [] adjust -> reset
                          [] OTHER -> ticks + 1
            /\ poolState' = IF adjust THEN Work(target) ELSE poolState
            /\ pc' = [IF adjust THEN Wake(pc, "state_wait", "gate") ELSE pc
                        EXCEPT ![Admin] = "idle"]
            /\ UNCHANGED <<queueVars, clientVars, signalVars,
                           cur, impHash, batch, held, stuck, ghostVars>>)

\* Mutant: ticks_since_adjustment is not reset on an adjustment (line 724).
CollectGarbageNoReset ==
    GarbageStep(ticks + 1)

\* Lines 716-726: count a tick, reset it when the pool is readjusted.
CollectGarbage ==
    GarbageStep(0)

\* Drop (lines 763-785), lines 765-766: clear() with no caller left, then
\* `deleting`.
DropClear ==
    /\ pc[Admin] = "drop"
    /\ Locked(Admin, <<"unverified", "verifying", "verified", "td",
                       "processing", "parents">>,
         /\ unverified' = <<>> /\ verifying' = <<>> /\ verified' = <<>>
         /\ sizes' = [s \in Stages |-> 0]
         /\ totalDifficulty' = 0
         /\ processing' = {}
         /\ processingParents' = [p \in ParentHashes |-> 0]
         /\ deleting' = TRUE
         /\ pc' = [pc EXCEPT ![Admin] = "drop_exit"]
         /\ UNCHANGED <<bad, poolVars, signalled, messages,
                        cur, impHash, batch, held, stuck, ghostVars>>)

\* Lines 768-770: State::Exit, then notify state.1.
DropExit ==
    /\ pc[Admin] = "drop_exit"
    /\ poolState' = Exit
    /\ pc' = [Wake(pc, "state_wait", "gate") EXCEPT ![Admin] = "drop_notify"]
    /\ UNCHANGED <<queueVars, clientVars, ticks, signalVars,
                   cur, impHash, batch, held, stuck, ghostVars>>

\* Mutant: more_to_verify is not notified on drop (line 776 missing).
DropNotifyNoWake ==
    /\ pc[Admin] = "drop_notify"
    /\ Locked(Admin, <<"unverified">>,
         /\ pc' = [pc EXCEPT ![Admin] = "drop_join"]
         /\ UNCHANGED <<queueVars, clientVars, poolVars, signalVars,
                        cur, impHash, batch, held, stuck, ghostVars>>)

\* Lines 774-777: notify more_to_verify under the unverified lock.
DropNotify ==
    /\ pc[Admin] = "drop_notify"
    /\ Locked(Admin, <<"unverified">>,
         /\ pc' = [Wake(pc, "work_wait", "work_recheck") EXCEPT ![Admin] = "drop_join"]
         /\ UNCHANGED <<queueVars, clientVars, poolVars, signalVars,
                        cur, impHash, batch, held, stuck, ghostVars>>)

\* Lines 780-782: join every verifier thread.
DropJoin ==
    /\ pc[Admin] = "drop_join"
    /\ \A w \in Workers : pc[w] = "exited"
    /\ pc' = [pc EXCEPT ![Admin] = "dropped"]
    /\ UNCHANGED <<queueVars, clientVars, poolVars, signalVars,
                   cur, impHash, batch, held, stuck, ghostVars>>

\* Mutant: the stages are read from the consumer's end.
ReadOrderReversed == <<verified, verifying, unverified>>

\* is_empty (lines 625-631) loads the cached length of each stage in this
\* order, with no lock held.
ReadOrder == <<unverified, verifying, verified>>

EmptyPcs == <<"is_empty", "is_empty_2", "is_empty_3">>

\* The k-th load_len of is_empty: `&&` stops at the first non-empty stage.
\* The ghost emptySnap holds the blocks queued when the call began, until
\* it returns.
IsEmptyLoad(k) ==
    LET next == IF Len(ReadOrder[k]) = 0 /\ k < 3 THEN EmptyPcs[k + 1] ELSE "idle"
    IN /\ pc[Admin] = EmptyPcs[k]
       /\ pc' = [pc EXCEPT ![Admin] = next]
       /\ emptySnap' = CASE next = "idle" -> {}
                        [] k = 1 -> ToSet(Seqs(Pipeline))
                        [] OTHER -> emptySnap
       /\ UNCHANGED <<queueVars, clientVars, poolVars, signalVars, cur, impHash,
                      batch, held, stuck, accepted, lastOut, importCalls, adminCalls>>

AdminStep ==
    \/ \E k \in 1..3 : IsEmptyLoad(k)
    \/ Flush \/ ClearStages \/ ClearProcessing \/ ClearParents
    \/ CollectGarbage \/ DropClear \/ DropExit \/ DropNotify \/ DropJoin

-----------------------------------------------------------------------------
\* A panic aborts the process (the client installs an aborting panic hook).
Crashed == pc[Consumer] = "panicked"

Next ==
    /\ ~Crashed
    /\ \/ \E w \in Workers \ stuck : WorkerStep(w)
       \/ \E h \in Hashes : ImportCall(h)
       \/ Importer \notin stuck /\ ImporterStep
       \/ Consumer \notin stuck /\ ConsumerStep
       \/ \E op \in AdminOps : AdminCall(op)
       \/ Admin \notin stuck /\ AdminStep

Spec == Init /\ [][Next]_vars

\* Verifiers are OS threads and every call in progress runs to its end; the
\* consumer handles every BlockVerified message.  Starting a new import or
\* admin call is never forced.
Fairness ==
    /\ \A w \in Workers : WF_vars(~Crashed /\ w \notin stuck /\ WorkerStep(w))
    /\ WF_vars(~Crashed /\ Importer \notin stuck /\ ImporterStep)
    /\ WF_vars(~Crashed /\ Consumer \notin stuck /\ ConsumerStep)
    /\ WF_vars(~Crashed /\ Admin \notin stuck /\ AdminStep)

FairSpec == Spec /\ Fairness

-----------------------------------------------------------------------------
(* Properties.                                                             *)

InStages == ToSet(HashesOf(unverified)) \cup ToSet(HashesOf(PlaceholderItems))
            \cup ToSet(HashesOf(verified))

\* The importer between a step of import and the next one.
ImporterIn(pcs) == IF pc[Importer] \in pcs THEN {impHash} ELSE {}

TypeOK ==
    /\ unverified \in Seq(Item) /\ verifying \in Seq(Placeholder)
    /\ verified \in Seq(Item) /\ batch \in Seq(Item)
    /\ bad \subseteq Hashes \cup Range(RawHash)
    /\ sizes \in [Stages -> 0..(Usize - 1)]
    /\ processing \subseteq Hashes
    /\ processingParents \in [ParentHashes -> Nat]
    /\ totalDifficulty \in Nat
    /\ poolState \in {Work(k) : k \in 0..NumberOfThreads} \cup {Exit}
    /\ ticks \in 0..ReadjustmentPeriod
    /\ {signalled, deleting} \subseteq BOOLEAN /\ messages \in Nat
    /\ cur \in [Workers -> Item \cup {NoItem}]
    /\ held \subseteq Stages \cup {"bad", "processing", "parents", "td"}
    /\ stuck \subseteq Threads

\* The central contract of the queue (its doc comment, lines 136-137):
\* items leave in the order they were accepted.  Concatenated from the last
\* drained item through verified, the verifying placeholders and
\* unverified, acceptance indices strictly increase, whatever order the
\* verifiers finish in.
OrderPreserved ==
    IsSorted(<<lastOut>> \o Seqs(verified) \o Seqs(PlaceholderItems)
             \o Seqs(unverified), <)

\* Every item in a stage is known to `processing`, so status() reports it
\* Queued and a second import of it is refused (lines 464, 480, 497).
ProcessingCovers == InStages \subseteq processing

\* total_difficulty() is the sum of the difficulties in `processing`, except
\* for the hash an import has inserted (line 502) and not yet added (line
\* 505): import's own critical sections keep the two in step, and a failed
\* create or a refused duplicate adds nothing.
TotalDifficultyMatches ==
    totalDifficulty =
        SumFunctionOnSet(Difficulty,
                         processing \ ImporterIn({"add_size", "insert", "add_td"}))

\* processing_parents counts, for each parent, its children in
\* `processing`, except for the hash an import has inserted (line 502) and
\* not yet counted (line 511).  After a hung acknowledgement the count is
\* never decremented (lines 540-549), so those states are left out.
ParentsMatch ==
    pc[Consumer] # "hung" =>
        \A p \in ParentHashes :
            processingParents[p] =
                Quantify(processing \ ImporterIn({"add_size", "insert", "add_td",
                                                  "add_parent"}),
                         LAMBDA h : Parent[h] = p)

\* sizes.verifying counts the filled placeholders: the output of a block is
\* added once, by the verifier that verified that very placeholder (line
\* 370), and removed once when drain_verifying pops it.
VerifyingSizeMatches == sizes.verifying = Len(SelectSeq(verifying, LAMBDA p : p.done))

\* The size counters equal the items in each stage: import grows the
\* unverified counter before it pushes, drain_verifying moves a block of
\* sizes and drops the children of bad parents, drain and mark_as_bad
\* shrink the verified counter.
SizesMatch ==
    /\ sizes.unverified =
         (Len(unverified)
          + Cardinality(ImporterIn({"insert", "add_td", "add_parent", "push"})))
         % Usize
    /\ VerifyingSizeMatches
    /\ sizes.verified = Len(verified)

\* The spec's invariant 1: a hash is in `processing` iff it is in a stage,
\* being imported, or drained and not yet acknowledged.
ProcessingExact ==
    processing \subseteq InStages \cup ToSet(HashesOf(batch))
                         \cup ImporterIn({"add_size", "insert", "add_td",
                                          "add_parent", "push"})

\* No client call aborts the process: the U256 subtraction from
\* total_difficulty in mark_as_bad / mark_as_good (lines 566, 580, 601)
\* never underflows.
NoPanic == pc[Consumer] # "panicked"

\* is_empty() (lines 625-631) answers true only if the queue was empty at
\* some instant of the call: no block queued when it began is still queued
\* when its last load_len finds the third stage empty.  Blocks only move
\* forward through the stages, in the order they are read.
EmptyAnswerSound ==
    [][pc[Admin] = EmptyPcs[3] /\ pc'[Admin] = "idle" /\ Len(ReadOrder[3]) = 0
         => emptySnap \cap ToSet(Seqs(Pipeline)) = {}]_vars

Abstract == INSTANCE BlockQueue WITH pending <- Pipeline, bad <- bad

\* The queue implements its contract: every step of every thread either
\* leaves the pipeline as it is, accepts a block at its tail, hands a prefix
\* to the chain, drops only blocks whose hash it has put in `bad` while
\* keeping the others in order, or empties it on clear().
Refines == Abstract!Spec

InVerified(n) == \E i \in 1..Len(verified) : verified[i].seq = n

\* No lost signal: every committed item is eventually drained, through the
\* CAS in set_sync / set_async and the re-arm in drain.
ItemsDrained == \A n \in 1..MaxImports : InVerified(n) ~> ~InVerified(n)

\* flush() returns once the verifiers have emptied unverified and verifying.
FlushReturns == pc[Admin] = "flush_wait" ~> pc[Admin] = "idle"

\* clear() returns: once it holds the three stage guards (lines 437-439) it
\* gets total_difficulty, processing and processing_parents (lines 447-451)
\* in turn, whatever import() holds meanwhile.
ClearReturns == pc[Admin] = "clear_processing" ~> pc[Admin] = "idle"

\* Drop returns: every verifier sees State::Exit and is joined.
ShutdownCompletes == pc[Admin] = "drop" ~> pc[Admin] = "dropped"

\* Every drained batch is acknowledged: mark_as_bad and mark_as_good return.
BatchAcknowledged == batch # <<>> ~> batch = <<>>

=============================================================================
