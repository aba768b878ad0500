# A TLA+ verification of the TL2 transactional memory and its grader

The repository holds a software transactional memory in C (`src/335740/`, after
Transactional Locking II), a reference implementation with one reader-writer
lock (`src/reference/`), and a C++ program that runs a concurrent bank on a
library, checks it and times it (`src/grading/`). This directory models both
memories, the bank and its workers, the barrier and the measurement protocol of
the grader, and the life of a library and its region from `tm_create` to
`dlclose`; checks them with TLC; and proves, with TLAPS and for any number of
threads, words, locks, segments and rounds, the properties of both memories, of
their lists of segments, of the bank's transfers and audits over TL2, of its workload,
of the barrier, of the measurement and of `bounded_run`.

Run a check with `tlc -config MCTL2_safety.cfg MCTL2`, a proof with
`tlapm TL2Proofs.tla`.

## 1. The system

| part | state it keeps | operations | interacts with |
|---|---|---|---|
| TL2 transactions, `335740/tm.c`, `transaction.c` | per transaction: read-only flag, read version `rv`, read set, write set | `tm_begin`, `tm_read`, `tm_write`, `tm_end` (lock, increment, validate, store, unlock) | spinlocks and clock; the words of the region |
| Lock table and clock, `shared-lock.c`, `versioned-spinlock.c` | 4999 pairs of a lock bit and a version; an `int` clock | bounded acquire, validate, update, release; increment and get | called from `tm.c`; an address has the lock `address mod 4999` |
| Write set, read set, `write-set.c`, `read-set.c` | lists of nodes, private to a transaction | add, find, overwrite, clean up | called from `tm.c` |
| Region and segments, `tm.c` | doubly linked list of segments, a mutex | `tm_create`, `tm_destroy`, `tm_alloc`, `tm_free` | closures that allocate |
| Wrappers, `transactional.hpp` | `aborted` flag of `Transaction` | constructor, `read`, `write`, `alloc`, `free`, destructor, the loop of `transactional()` | any library, through `dlopen` |
| `WorkloadBank`, `workload.hpp` | segments of accounts in shared memory | `init`, `run` (`short_tx`, `long_tx`, `alloc_tx`), `check` | `transactional()`, the barrier in `check` |
| `Barrier`, `common.hpp` | `step`, `mode` | `sync` | workers of one `check` |
| `Sync`, `measure`, `grading.cpp` | `status`, `nbready`, `errmsg`, a latch, a clock | `worker_wait`, `worker_notify`, `master_notify`, `master_wait`, `master_join` | one master thread, the workers |
| `Latch`, `Chrono`, `common.hpp` | a flag under a mutex; start and total | `raise`, `wait`; `start`, `stop`, `get_tick` | `Sync` |
| `bounded_run`, `common.hpp` | a mutex and a condition variable on the stack | run with a time limit | constructor and destructor of `TransactionalMemory` |
| `TransactionalLibrary`, `TransactionalMemory`, `main` | a library handle, a region | load, create, measure, destroy, unload | all of the above, in this order |
| reference library, `reference/` | one reader-writer lock, a segment list | the same `tm_` interface | the grader, to calibrate the timeout |

What is hard in it:

- *The one validation in `tm_read`.* A word is copied, then its lock bit and its
  version are looked at, once. TL2 looks before the copy as well. What that
  still guarantees, and what not, is the central question of the models.
- *Commits are not atomic.* `tm_end` takes locks one by one in program order,
  with a bounded spin; it increments the clock, validates unless
  `wv = rv + 1`, and stores and unlocks the words one by one. It may give up at
  any node of the list, and the locks have no owner.
- *Locks are shared by words*, so a transaction can meet its own.
- *Retries.* A refused read, write or commit starts the closure again.
- *One counter and one status word* run the start and the end of all rounds of
  a measurement; a failure, an exception and a timeout may come at any time.
- *A reused barrier*: fast threads enter the next `sync` while slow ones leave
  the last.
- *Memory that transactions allocate and free*, whose list is shared outside of
  any transaction, and to which aborted transactions may still hold pointers.
- *A bank whose size changes* while workers go by an old count, and closures that
  change what they captured before they are run again.
- *A function that outlives its time limit* while its caller unwinds.

What makes each part correct:

- transactions: the reads of a transaction are of one snapshot; commits are
  serializable; memory is what the last commit stored; every call returns;
- locks: taken exactly by the transactions that hold them, on every path;
  versions never go back;
- write set: one node per address;
- wrappers and bank: a call of `transactional` is applied once, and money is
  conserved;
- regions: every segment allocated is in the list and is freed exactly once, and
  nobody holds a pointer to one that is gone;
- workload: no error is reported unless the memory is broken, and transfers are
  between the accounts asked for;
- reference: behaves as if each transaction ran alone, at once;
- `bounded_run`: no notification is lost, and the caller goes on;
- barrier: nobody returns from `sync` before everybody has called it, and all
  return, call after call;
- measurement: rounds do not overlap, a failure is reported in its round, the
  measurement ends.

`PROJECT.json` lists every component with its status, and under `hazards` the
places in the code where these can go wrong and which property watches each.

## 2. Modules

| module | models | extends |
|---|---|---|
| `WriteSet` | `write-set.c` and what `tm_write` does with it, as operators on sequences of nodes | |
| `SharedLock` | the lock table and the clock, one operator per access | |
| `TL2` | `tm_begin` .. `tm_end`: an action per access to shared memory | `SharedLock`, `WriteSet` |
| `TL2Inv` | the properties of the memory | `TL2` |
| `Transactional` | workers that run closures through class `Transaction` and `transactional()` | `TL2Inv` |
| `Bank` | `short_tx` and `long_tx` as closures, and what they promise | `Transactional` |
| `Rendezvous` | what a barrier promises (abstract specification) | |
| `Barrier` | the spin barrier, refining `Rendezvous` | |
| `Grading` | `Sync`, `Latch`, `Chrono`, the threads of `measure` and their creation | `Barrier` |
| `AtomicMemory` | what a transactional memory promises (abstract specification) | |
| `SegmentList` | the doubly linked list of segments that both memories keep | |
| `ReferenceTM` | the reference memory under its reader-writer lock, refining `AtomicMemory` | `SegmentList` |
| `Accounts` | `WorkloadBank`: `init`, `run` with its three transactions, `check`, over a memory that is atomic | |
| `BoundedRun` | `bounded_run` | |
| `Lifetime` | `TransactionalLibrary`, `TransactionalMemory` and `main`; `tm_create`, `tm_alloc`, `tm_free`, `tm_destroy` of TL2 | `BoundedRun`, `SegmentList` |
| `MCTL2`, `MCBank`, `MCGrading`, `MCReference`, `MCAccounts`, `MCLifetime` | instances for TLC | |
| `TL2Proofs` | lemmas about the write set; types, locks, versions, reads and commits of `TL2` | `TL2Inv` |
| `BankProofs` | proofs about the transfers and audits of `Bank`, down to the accesses of `TL2` | `Bank`, `TL2Proofs`, `InductionTheorems` |
| `GradingProofs` | proofs about `Barrier` and `Grading` | `Grading` |
| `InductionTheorems` | least elements in place of induction; sums of functions over finite sets | |
| `SegmentListProofs` | what linking, unlinking and clearing do to a list of any length | `SegmentList` |
| `ReferenceProofs` | `ReferenceTM` implements `AtomicMemory`; its list of segments | `ReferenceTM`, `SegmentListProofs` |
| `LifetimeProofs` | proofs about `BoundedRun` and `Lifetime` | `Lifetime`, `SegmentListProofs` |
| `AccountsProofs` | proofs about the workload of the bank | `Accounts`, `InductionTheorems` |

The bank appears twice. `Bank` is the transfers and audits of one segment of accounts
over the real TL2, access by access, to see what the memory does to them. Its constant
`Calls` gives each worker its closures; `Closures` says what such a closure may be: it
assigns an account only what it has just read there plus an amount, its amounts add up
to 0, and a read-only one reads each account once. `Accounts` is the whole
workload with its segments, parity, allocations and counter over an atomic memory, to
see what the workload does by itself.

Operators named like the bug they contain (`SeesNewer_Ignored`,
`After_Silent`, ...) are not used by any specification. Each is a plausible
mistake in the definition it stands next to, kept to show that the properties
notice it.

### TL2: state and actions

`locked[s]` and `version[s]` are the fields of spinlock `s`, `clock` the global
clock, `mem[a]` the words. `is_ro`, `rv`, `rset`, `wset` are the fields of
`struct transaction`, one per thread since a thread runs one transaction at a
time. `wv`, `cur`, `stop`, `bound` and `word` are locals of the calls. `pc` says
between which two accesses to shared memory a thread is:

| label | next access | code |
|---|---|---|
| `idle` | `tm_begin`: load of the clock | `tm.c:201` |
| `running` | between two calls of a transaction | |
| `read_lock`, `read_version` | the two loads of `versioned_spinlock_validate` | `tm.c:287` |
| `acquire` | the `atomic_exchange` on the lock of the node under the cursor | `tm.c:83` |
| `spin` | a look at a taken lock; the counter `bound` is over all retries of one acquisition | `versioned-spinlock.c:14` |
| `unlock` | a release in `unlock_write_set` | `tm.c:71` |
| `validate_lock`, `validate_version` | the two loads for the read-set entry under the cursor | `tm.c:101` |
| `store`, `update`, `release` | the store of a word, of its version, of its lock bit | `tm.c:117` |

The read of a word in `tm_read` is the action `tm_read`; the increment of the
clock, with the choice to skip validation, follows the last acquisition. Code
between two accesses touches only the thread's own data and belongs to the
action before it. An allocation failure in `tm_write` is a nondeterministic
outcome (`write_set_add_fails`).

Three history variables are only written: `hist[a]` collects what was stored at
`a` under which write version; `obs[t]` what `tm_read` returned to `t` from
shared memory; `missed[t]` the words for which, at `tm_begin`, some transaction
already had its write version and its store still to come.

Two abstractions are deliberate. First, accesses interleave. The sources are
for x86 (`emmintrin.h`): program order is kept among stores and among loads,
and `atomic_exchange`, the atomic add and sequentially consistent stores are
full barriers, so a load overtakes no earlier store that matters here, and a
word that `memcpy` moves in one instruction behaves as an atomic one. Second, a word is moved in
one access, which is true for the 8-byte words of the bank and not for larger
alignments.

### Grading: state and actions

`status`, `nbready`, `errmsg` are the atomics of `Sync`, `raised` is the latch.
`local` is the round in which `Chrono::start` was last called and `total` the
sequence of segments that `stop` has added. Workers and master have a program
counter each, an action per access. A workload call ends well, with an error
message, or by an exception; `check` also goes through the real `Barrier`, whose
actions are used as they are. The master first starts the threads, one by one,
and any of these starts may fail. `timed` is chosen at the start and says whether the master
waits with a timeout. After an overrun `main` leaves by `quick_exit`, so nothing
runs on.

### ReferenceTM: state and actions

`readers` and `writing` are what the `pthread_rwlock_t` knows; it keeps no names.
`mem` has the words that exist, those of the first segment and one per dynamic
segment, as its domain. A transaction waits for the lock between `tm_begin` and
`rdlock` or `wrlock`; accesses under the lock are one action each. `Unlock`
decides by the state of the lock, as glibc does for both wrappers. `tm_alloc`
and `tm_free` change the list by the operators of `SegmentList`. `tm_destroy`
is called when all transactions are done, and walks from the head. `before` is a history
variable: the memory a writer found.

The refinement maps the committed memory to `before` while somebody writes and to
`mem` otherwise, the copy of every running transaction to `mem`, a writer's base
to `before`, and waiting transactions to closed ones. Getting the lock is
`Begin`, `tm_end` is `Commit`, and `Abort` never happens.

### Accounts: state and actions

`bank` is the sequence of segments with their parity and balances; `count` is
their length. A transaction of the workload is one action, since the memory is
atomic here; a refused attempt matters only for `short_tx`, whose closure
changes its captured indices as far as it got, and is the action
`short_tx_refused`. `asked` is what `short_tx` was called with, `ids` what is
left of it. `left` counts transactions to come, `count[w]` the number of accounts
worker `w` saw last. `run` is repeated, `repeats` times over: each round goes on with the
bank the one before has left, while `count` is again that of the first fill. `alloc_tx` draws any trigger up to a bound, and may run out of
memory. `check` turns the first word into `counter`; its three barriers are the
conditions on the other workers' `pc`, as `Grading` has the barriers themselves.
An amount of money is an integer, as in the code.

### Lifetime: state and actions

`phase` is where `main` is in the life of one library; `exit` how the program
ended. `master`, `runner`, `mutex`, `late` and `spurious` are `bounded_run`: the
mutex is held from before the thread starts, released in the wait, taken again
after it, and held over the join. What the runner executes is `tm_create` or
`tm_destroy`; either may take for ever, and the first may throw, which ends the
program, because nothing in the runner catches it. In between, threads run transactions
that read one shared pointer, allocate (the three stores of `tm_alloc` are actions,
under the segment mutex), free and end, by a commit or an abort.

## 3. What the runs check

Twelve runs. Six must pass; six state what a comment of the repository
says and are violated by what the code does (section 6).

### TL2

- **tl2_safety** (2,984,364 states). Two threads run arbitrary transactions,
  read-only or not, with any calls in any order: the most general client.
  `TypeOK`, `LockOwnership` (a lock bit is set exactly if one node of one
  committing transaction holds it), `OneNodePerAddress`, `MemoryIsNewestStore`,
  `VersionsMonotone`, and three properties of what transactions see:
  - `ReadsAtSnapshot`: every value `tm_read` returned is that of the snapshot
    at `rv`, *except* for words in `missed`;
  - `CommitsSerializable`: a transaction at its stores has read the snapshot
    just before its `wv`, with the same exception, also when it skipped
    validation;
  - `OwnLocksFailValidation`: a transaction that writes on a lock it read
    reaches its stores only if nobody incremented the clock meanwhile.

Bounds: two threads, two words, two values, `MaxClock = 2` commit attempts,
one read-set entry, spins given up after the first look. Every property
relates two transactions, and a third thread matters only by moving the clock
or holding a lock, which the most general client does with a later transaction;
the proofs of section 5 have no such bounds. The words 8 and 16 have different
locks modulo 3. Words that share a lock are covered by the proofs and by
`bank_collision`. `SpinLimit` is 0 here and 1 in `bank` instead of 3: one look is
enough to have success after a spin, and giving up. `MaxClock` limits the
read-write transactions that may start, so that no guard in the middle of a
commit is cut off. Threads are symmetric in this run only, which has no
liveness property.

### Wrappers and bank over TL2

- **bank** (148,360 states). Two workers make four transfers in opposite
  directions and one `long_tx`, with every abort and retry.
  `TransfersApplyOnce`: with no commit in progress the accounts hold exactly the
  transfers that returned, once each. `AuditsAddUp`: the audit has the right
  sum. `CallsReturn`: every call of the library comes back, with write sets
  locked in opposite orders and spins that are given up. `LastWorkerFinishes`: a
  worker left alone finishes, whatever the others left behind, and is not refused
  again and again.
- **bank_lost**, **bank_collision**, violations.

`TransfersApplyOnce` and `AuditsAddUp` exclude executions in which a transaction
that read a missed word went on to its stores (`tainted`); `AuditsAddUp` also
excludes an audit that read such a word itself. All else is in: overlapping
transfers, aborts half way through the locks, failed validation, retries.
Balances are relative to the initial one, and integers. `MaxClock` 6 allows for refused
commits on top of the four. It is no way out of `LastWorkerFinishes`: a worker that is
left alone with room for one increment for each closure it still has to commit must
finish, so that even one refusal after an increment violates the property.

### Workload

- **accounts** (151,395 states). Two workers through `init`, two rounds of `run`, and `check`.
  `BankAddsUp`: balances and parity together are the initial balance times the
  number of accounts, whatever accounts and segments come and go;
  `SegmentsFilled`: all segments but the last are full, none is empty, two
  accounts stay, and the first segment is never freed; `NoFalseAlarm`: over an
  atomic memory no worker ever reports an error. A worker whose `alloc_tx` throws for
  want of memory is reported too, rightly, and is not counted here. `AccountsTypeOK` has balances
  that are never negative.
- **accounts_asked**, a violation.

Two accounts to a segment are the fewest with a segment that is neither full nor
empty; two transactions per worker in each of two rounds build a second and a third
segment and take them away again, and the second round begins with what the first one has
left, and a `count` that is out of date. A trigger up to 4 is below, at and above every size
reached. Two decrements for each of two workers in `check` let one worker decrease between
the fetch and the decrease of the other, twice. Two workers are enough since
transactions are atomic: a third is another order of the same actions. The theorems of
section 5 have none of these bounds.

### Reference memory

- **reference** (524,815 states). Three threads, one word, three segments,
  one transaction each, of either kind and with any accesses. `RunsAtomically` is
  the specification of `AtomicMemory` under the mapping of section 2;
  `RefTypeOK` includes that the counters of the lock are right; `SegmentsListed`:
  the list holds exactly the segments that exist, can be walked both ways, and
  `tm_destroy` frees each once and leaves nothing; `EveryTransactionEnds`.

Three threads have two readers and a writer; three segments have a middle one to
free. One transaction for each thread lets a writer free what another has
allocated; the proofs have no bound.

### Lifetime of a region

- **lifetime** (284,031 states). `HandsOver`: no notification comes before the
  wait it is meant for, and the master joins only a runner that has ended;
  `BoundedRunEnds`: a `bounded_run` returns or throws; both except a spurious
  wake-up. `RegionWhole`: whenever nobody is linking, the list holds every segment
  allocated, and `tm_destroy` leaves none. `NoDanglingPointer`: the shared
  pointer and every pointer a transaction has read are to allocated memory.
- **lifetime_unload**, a violation.

Three threads and three segments: one thread links, one waits for the mutex and
one goes on with a pointer it has read, or a transaction aborts after it has
linked. A segment is never given back while the threads run, so there are at
most three allocations; an allocation that fails is one that changes nothing.

### Barrier and measurement

- **grading** (89,777 states). Three workers, `init`, one `run`, `check`, any
  worker failing or throwing in any round, with and without a timeout, and
  threads that cannot be started. `GradingTypeOK`, `RoundsInStep`,
  `VerdictIsRight`; `MeasureReturns`, under the assumption that workloads end: only
  an exception of the check before its last barrier (`Stranded`) may keep the master
  waiting, one of `init` or of a round of `run` may not;
  `MeasureEnds`, with a timeout and without that assumption. The workers of the
  check use the barrier, of which `Synchronizes` is the specification
  `Rendezvous!Spec` and `BarrierTypeOK` says that `step` counts the
  processes inside.
- **grading_early**, **grading_times**, violations.

One performance round instead of seven is enough for a round that has another
round before and a check after; nothing in the protocol depends on how often it
repeats, and the proofs are for any number. Three workers give a first, a middle and
a last one, and the three calls of `sync` in `check` put a process into one call while another
is still leaving the one before, in both modes.

`CHECK_DEADLOCK FALSE` is in the runs whose workers finish their work or whose
program ends. `tl2_safety` checks deadlock.

## 4. Fairness

`FairWorkerSpec` assumes weak fairness of each worker's next step: the operating
system schedules every thread, and no step of the memory waits for a condition (a
spin is a step). `FairGradingSpec` assumes it for the master and for each worker
inside `Sync`; a `Latch::wait` that finds the latch raised returns. That workload
calls end is not a matter of scheduling but of the tested library: `WorkEnds` is
the antecedent of `MeasureReturns` and `ReturnsEarly`, and `MeasureEnds` does
without it. `FairRefSpec` assumes that transactions which have begun end, that
threads go on to their next one, and that the lock is given to a thread that
waits as long as it can be had; `WF` of `wrlock` suffices because every thread
has a bounded number of transactions, so that writers are passed over only
finitely often. That a writer gets in under an endless stream of readers is not
claimed: glibc's default prefers readers. `FairSpec` of `Lifetime` assumes that
the master goes on, that time passes, and that a function which has returned
notifies; not that `tm_create` or `tm_destroy` return, nor that `measure` does.
No strong fairness is used anywhere.

## 5. What is proved

Assumptions on the constants: `LockAssumption` (at least one lock, a natural
spin limit), `TL2Assumption` (addresses are natural numbers, 0 is a value, the
bounds are natural numbers), `BarrierAssumption` (processes are a non-empty
finite set), `GradingAssumption` (`First` is a worker, a natural number of
repeats), `ReferenceAssumption` (finitely many threads, words are not segments),
`SegmentAssumption` (finitely many segments, `NULL` is none of them),
`LifetimeAssumption` (`NULL` is no thread), `AccountsAssumption` (finitely many workers, `First`
among them; at least one account to a segment and one decrement in `check`, and
initial balance, number of transactions, number of rounds and bound of the trigger
natural numbers),
`BankAssumption` (finitely many threads and addresses, values are integers, and each
call of a worker is one of `Closures`). Outside of the bank there is no
assumption on the number of threads, on the hash, or on the finiteness of anything in
TL2.

**Sums, and lists of any length.** The provers cannot use induction theorems, which have
a predicate as parameter. `InductionTheorems` uses a least counterexample
instead: a nonempty set of naturals has a least element (`LeastNat`), and a nonempty
family of subsets of a finite set has a minimal one (`LeastSubset`); both are about
sets, which a proof can name. From the second follows that the fold by which the community
modules define a sum over a finite set exists and is unique, and then what proofs
use: what a sum becomes when one summand is added, taken away or changed, that a sum
of sums may be taken by rows or by columns, and that it does not depend on the names
of its summands. For a list of
segments the witness is its chain, the sequence of its nodes from the head:
`next` and `prev` go along it and its ends are `NULL`. `SegmentListProofs` has, for
each operation, the chain after it (one node in front, one node less, empty), that a
chain decides what can be walked to, and that the walk of `tm_destroy` from the head
meets each node once and no other.

**Memory.** The invariant is built in layers; each is inductive relative to the
ones before.

1. `TypeCorrect`: `TypeOK`.
2. `CursorInv`: the cursor is inside the list its loop walks, and `stop` inside
   the write set. Without it, the node under the cursor is unknown.
3. `LocksOwned`: `LockOwnership`. Every step either keeps the holders and the
   lock bits (`Keeps`), takes one lock that was free for one node (`Takes`), or
   drops one that was held (`Drops`); a lemma for each of the three, and a
   case per action that says which one it is. The code stores no owner, so the holder has to be
   read off the program counter and the cursor.
4. `VersionsNeverGoBack`: `VersionInv` says that no version is above the
   clock, and that a committing transaction's `wv` is at most the clock and above
   the version of every lock it holds and has not updated yet. The lock keeps
   others from moving that version in between.
5. `MemoryNewest`: `HistInv` adds that each recorded store is covered by the
   version of its lock, or is the store just done by the lock's holder.
6. `OwnLocksFail` (`ApartInv`) and `WriteSetsDistinct` (from the lemmas about
   the write set).
7. `ReadsFromSnapshot`: `ReadInv`. The heart is `MissedOK`: a store still to come
   with a version up to `rv` is on a word in `missed`, since write versions handed
   out after `tm_begin` are above `rv`. Between copy and validation the copied
   value may grow old, but only by a store above `rv`, whose writer keeps the lock
   taken until the version shows it.
8. `CommitsSerialize`: `CommitInv` follows the entries of the read set that
   validation has passed: no store between `rv` and `wv` has been made on them
   or is to come (`Clean`; `HalfClean` between the two loads). With the `rv + 1`
   shortcut there is no version in between.

**Bank over TL2.** `TransfersAppliedOnce` and `AuditsAlwaysAddUp`, for any number of
workers, accounts, calls and locks, any amounts, and write sets with colliding locks.
Both need an invariant that follows a closure through its retries, on top of the memory's:

1. `ClosureInv`: a transaction is where its closure is, and each node of its write set
   has the value its last read from memory had at that address plus what the closure has
   added since. A closure that starts again starts from nothing.
2. `NoneMissed`: while no transaction is tainted, whoever is at its stores has read no
   missed word.
3. `StoreAdds`: such a store adds the closure's amount for that account to what is in
   memory, and does not merely overwrite it. By `CommitsSerializable` the value read was
   the newest before `wv`; the lock has been held since, so no store came in between
   and memory still has it.
4. `CountInv`: each account holds the sum over all workers of the effects of the calls
   that have returned, and of the stores already done by those about to return. The
   other steps move an effect from one part of the sum to the other (`OwnCount`). With
   nobody at the stores only the first part is left, which is `TransfersApplyOnce`.
5. `SnapshotInv`: a transaction that began while no store was to come took its snapshot
   of a memory in which every call counts with all its amounts or with none, so that the
   snapshot adds up to 0; and no store with a version up to `rv` is made later. An audit
   reads each word of that snapshot once (`ReadsAtSnapshot`), and there is only one such
   snapshot, by `OneStorePerVersion`.

**Barrier.** `BarrierCounts` and `BarrierSynchronizes`: `BarrierInv` says that
some number `n` of calls is complete such that in mode `enter` everybody is
before or inside call `n + 1`, or still coming out of call `n`, and in mode
`leave` all are in call `n + 1`; that only one process can be about to switch
the mode; and that `step` counts the processes inside. Each step then maps to a
step of `Rendezvous` or to a stutter.

**Measurement.** `GradingTypeCorrect`, `RoundsNeverOverlap`, `VerdictsAreRight`,
from `GradingInv`: the round is in one of the stages `Resting`, `Gathering`,
`Gathered`, `Running`, `Closing`, `Over`, and where the master is says in which.
None of the properties is inductive, because the same `nbready` counts the workers that
watch for the start in one stage and those that have left in another, and is
reset by one worker while others may run ahead; the stage says what it counts and
who may be where. `WhichStage` reads the stage off one worker's place, and each
action has a lemma that leads from stage to stage. A worker that finds itself the
last one concludes that all others are in the set it counted
(`FS_Subset`), which is what makes one counter enough. Workloads are arbitrary in this
proof, and the barrier plays no part.

**Reference.** `RefTypeCorrect` and `ReferenceIsAtomic`. `RefInv` adds to the types
that the counters agree with the transactions inside, that a writer is the only
one (`Exclusive`), and that nobody is left when the region goes (`Quiet`).
`Exclusive` is needed for the release, which goes by the counters alone. Then
every action maps to one of `AtomicMemory`, or to a stutter, with a lemma for each.
`SegmentsAlwaysListed` from `ListInv`: there is a chain of exactly the segments that
exist, so that two different ways to look at the list, the memory's domain and the
pointers, never part. Only a transaction that holds the lock alone changes either, by
`Exclusive`.

**Lifetime.** `BoundedRunHandsOver` from `BoundedInv`: the mutex is the master's
exactly while it starts or joins, and a master that was woken neither late nor for no
reason was woken by a runner that has ended. `PointersNeverDangle` from
`PointerInv`, which holds also of the segments that open transactions have
allocated, since those become the shared pointer. `LifetimeTypeCorrect` and
`RegionStaysWhole`, the latter from `RegionInv`: the segment mutex is held by the one
thread that links, if any; the node it links is allocated and in no chain yet; the chain
is of all other allocated segments; and before the threads run and after `tm_destroy`
there is none. The insertion has three stores, and the list is not whole between them,
so `ChainInv` says for each how the pointers stand to the chain that is coming: after the
first, the new node's `next` is the old head; after the second, the old head's `prev` is
the new node, while the list's head is still the old one.

**Workload.** `AccountsTypeCorrect`, `BankAlwaysAddsUp`, `SegmentsStayFilled` and
`NoFalseAlarmEver`, from `AccountsInv`, for any number of workers, of segments and of
accounts in each. No property is inductive alone: that an account removed is there, or that the
counter reaches 0, needs the parts below.
- `BankInv`: from `run` on all segments but the last are full, the last is not empty, at
  least two accounts are left, or all if there was but one; and in every round the
  balances and the parities of all segments add up to the initial balance times the
  number of accounts. Each operation has its lemma on sums of sums: a
  transfer takes from one account what it gives to another, in the same segment or
  not (`TransferKept`, from `LegPaid` for each of the two legs); an added account brings
  its initial balance out of the parity of its segment, an account that is removed
  leaves its balance there (`AddedKept`, `RemovedKept`).
- `FirstInv`, `PlaceInv`, `LeftInv`: what the first fill makes of the first segment; where
  a worker may be in each round, and what it has left to do there.
- `CounterInv`: once the counter is set it is the sum over all workers of what is left to
  decrease, and no worker between fetch and decrease has fetched less than the counter
  is now. So a decrease never finds a counter that has grown, and the first worker finds 0
  when the others are done.

Every invariant, every action property and every refinement that a run checks is the
statement of a theorem. Only model-checked is liveness (`CallsReturn`,
`LastWorkerFinishes`, `MeasureReturns`, `MeasureEnds`, `EveryTransactionEnds`,
`BoundedRunEnds`), which the proof system does not reach under fairness.

## 6. Where code and claims part

Each of these is a run in which TLC finds the behaviour; `PROJECT.json` has the
quoted lines.

- *Reads are of one snapshot only up to missed words* (`bank_lost`). A
  transaction that begins after another's increment of the clock and before its
  stores has the other's version as its `rv`. It can copy a word before the store
  and validate it after the release: the lock is free and the version is not
  above `rv`. TL2 also samples the lock before the copy, which would refuse that.
  A transfer can be lost by this, and an audit be wrong: the exceptions of
  `AuditsAddUp` and `ReadsAtSnapshot`. The theorems of section 5 say that this is
  the only way in which a transaction sees two states.
- *Two words on one lock* (`bank_collision`): such a write set can never be
  locked, and `transactional` retries for ever. It stands for any two addresses
  that are equal modulo 4999.
- *A check that throws* (`grading_early`) leaves the other workers in the barrier;
  without a timeout the master waits for ever.
- *The clock of `Sync`* (`grading_times`) is started after the workers are
  released and never reset, so that a time may start too early and is of all
  rounds so far.
- *A retried transfer goes elsewhere* (`accounts_asked`): the closure of
  `short_tx` captures the two indices by reference and subtracts the sizes of the
  segments it has passed, so that another attempt starts from the remainders. The money
  still adds up (`BankAddsUp`), so the grader does not notice.
- *A library is unloaded under a running thread* (`lifetime_unload`): `tm_create`
  overruns its time, its thread is detached, and `BoundedOverrun` leaves the
  scope of the library.

Two more need no run. After a spurious wake-up `bounded_run` takes the function
for done and joins it with the mutex in its hands: a function that then wants to
notify waits for the mutex and the master for the function. `HandsOver` and
`BoundedRunEnds` except it by `spurious`. And `TransactionCreate` is thrown in the runner
thread, where nothing catches it, so that a failed `tm_create` ends in `std::terminate`
(`exit = "terminated"`) instead of a message.

## 7. Not modelled

- *Plain lock* (`reference/lock.c`): nothing calls it. *Headers, macros, build
  files*: no behaviour of their own. *Parameters and printing of `main`*, and the
  timeouts it derives from the reference's times: no state to be wrong about
  between threads. *A library or symbol that is not found* ends the program before
  anything has started.
- *The clock at 2^31*: the models bound it and the theorems are about one that does
  not wrap; a run of the grading program makes some 10^6 commits. *Words above 8
  bytes*, which `memcpy` moves in several accesses, and *the alignment of
  segments* above 16: the workload has neither.
- *A destructor of `Transaction` that commits while another exception unwinds
  it*: in the workload nothing is written before `TransactionAlloc` is thrown, and
  in `Accounts` such a transaction commits nothing. *Assertion exceptions* of the
  wrappers mean a wrong closure, and the workload has none.
- *A `tm_begin` that is refused* (`TransactionBegin`): the sets of TL2 cannot be
  allocated, or the lock of the reference reports an error. It ends a worker between two
  transactions, which for the safety properties is one that takes no more steps. Likewise a
  write that is refused for want of memory is in `TL2` and not in `Transactional`.
- *The check for writes in a read-only transaction* is switched off in the build
  (`assert_mode`, `common.hpp:69`): that only transactions begun for it write, allocate or
  free is a property of the closures, which the models have as a guard.
- *Threads after a start that failed*: `main` leaves by `quick_exit`, and the
  measurement is over for the model. *A writer passed over for ever* by an endless stream
  of readers in the reference: threads have a bounded number of transactions.
- *Weaker memory orders than x86's*; *what detached threads do with unwound
  frames* between an overrun and `quick_exit`; *crashes of the process* (nothing
  is persisted); *the failed `malloc` that the code dereferences*.

What could come next: `AtomicMemory` as the abstraction of TL2 without missed words;
the whole workload of `Accounts`, with its segments, over TL2 instead of an atomic memory.
