# A verification development for pil2-proofman

pil2-proofman proves the instances ("airs") of a program: it computes a trace for
each instance, proves it, and folds the proofs of each airgroup, by recursion,
into one. Two things in it are hard to test and are modelled here: the
orchestration (`proofman`, `common`, and the stream scheduler of
`starks_api.cu`), where threads, device streams, channels and pools share the
work; and the STARK prover and verifier themselves (`pil2-stark`), whose parts are
only right together.

## 1. Inventory

| Component | State | Operations | Talks to | What makes it correct |
|---|---|---|---|---|
| Internal proofs phase (`_generate_proof`, proofman.rs 2205-2700) | `proofs`, `compressor_proofs`, `recursive1_proofs`, `recursive2_proofs(_ongoing)`, `proofs_pending`, five channels | feed, prove, take, merge, queue, dismiss | witness calculation (`add_air_instance`), device streams (callback), pools | every instance proved and merged exactly once; the counter reaches zero exactly when nothing is left; every thread is dismissed |
| Recursion arithmetic (`total_recursive_proofs`) | locals | one loop | phases that wait for a number of proofs | the count and the null proof bring n proofs to one |
| Buffer pools (memory_handler.rs) | free buffers; soft-release queue of the trace pool | take (blocking), release, reset | handlers, workers, witness threads | buffers are conserved; nobody waits for one that cannot come |
| Counters (proof_manager.rs) | a number, a condition variable | increment, decrement, wait with timeout | main thread, handlers | a wait ends when, and only when, its condition holds, or on cancellation or after ten minutes |
| Device streams (starks_api.cu) | per stream: lock, status, job, event, pinned buffer, device buffer; the loan flag | select, reserve, describe, launch, publish, collect, reset, lend | workers, main thread, an external borrower | a stream has one owner; each result is collected and announced once and computed from the right buffer; a lent GPU is idle |
| Witness calculation (`calc_witness_handler`, `calculate_witness`, witness_manager.rs) | thread tokens, `witness_done`, instances calculated, trace pool | dispatch, compute, store, release | phases of `_generate_proof` | tokens and traces are conserved; every instance is computed once |
| Contributions phase (1944-2160) | root contributions, challenge | commit, exchange, keep or free a trace | witness calculation, MPI | every instance contributes once, in an order all processes agree on |
| Cancellation and reset (263-284, 425-514, 577-628) | a token and an error | cancel, check, clean up, guards of early returns | everything above | a cancelled call returns; the next call finds a clean state |
| Outer aggregation (2881-3340) | received proofs, number expected, state | register, receive, start, stop | workers, device streams | each worker's proofs counted once, one proof per airgroup at the end |
| Aggregation between processes (mpi_ctx.rs 436-512, 3436-3650) | proofs per rank and group | distribute, RMA loop | MPI | senders and receivers agree on every transfer |
| Distribution (distribution_ctx.rs) | instances, owners, tables, calculated flags | add, assign, query | all phases | all processes agree on global ids and owners; parallel lists stay aligned |
| std library (pil2-components/lib/std) | multiplicities | count, drain, exchange | witness calculation, MPI | range checks and tables balance |
| STARK prover (gen_proof.hpp, starks.hpp, fri.hpp, goldilocks/) | transcript, trees, evaluations, FRI polynomial | one function per stage | setup (the constraint and FRI polynomials it generates) | the verifier accepts every proof it makes |
| STARK verifier (stark_verify.hpp) | its own transcript | one pass over the proof | - | nothing altered and nothing false is accepted |
| Word arithmetic and transforms (goldilocks/) | - | add, sub, mul, inv, NTT, unpack | prover, verifier | equal to the field's, for every representation, number of threads, and phase count but for extensions on site |
| Remaining verification, hints, setup, pilout, macros, fields, curves, CLI | - | sequential computation | - | functional correctness of data |

Hard behaviour, in order of importance: concurrent threads over shared slots and
one counter; shutting down by sentinels and flags; cancellation and errors at any
point; fixed pools with blocking takes; parity of the aggregation tree; messages
between processes. PROJECT.json lists the hazards line by line.

## 2. Modules

| Module | Models |
|---|---|
| `ProofCount` | `total_recursive_proofs`, one step per loop iteration |
| `Aggregation` | abstract: what merging by three promises for an airgroup |
| `WitnessPipeline` | witness calculation through the contributions phase and the basic proofs |
| `DeviceStreams` | the stream scheduler, its collections and the loan of the first GPU |
| `RecursivePipeline` | the internal proofs phase with all its threads |
| `GoldilocksField`, `GoldilocksWords`, `PackedBits` | the field and its extension; its arithmetic on machine words; packed columns |
| `NttGoldilocks`, `MerkleTreeGL`, `TranscriptGL`, `Fri` | transforms, trees, transcript, folding |
| `StarkProof` | `genProof`, one action per stage, with the parts above |
| `StarkVerify` | `starkVerify` on the proof, altered or not |
| `StarkKernels` | the parts above, each on samples, against its definition |
| `ProofCount_proofs`, `Aggregation_proofs`, `WitnessPipeline_proofs`, `DeviceStreams_proofs` | the proofs about the module of that name |
| `Goldilocks_proofs` | the proofs about `GoldilocksWords` and `GoldilocksField` |
| `RecursivePipeline_proofs`, `RecursiveSlots_proofs`, `RecursiveResult_proofs` | the proofs about `RecursivePipeline`, each on top of the one before: types and traces; places, slots and messages; counter, buffers, result, refinement |
| `MC*` | small instances for TLC |

`StarkProof` extends `Fri`, which extends the other parts; `StarkVerify` extends
`StarkProof`; `MCStark` puts them beside `StarkKernels`. `RecursivePipeline`
implements `Aggregation` (`INSTANCE ... WITH pieces <- Pieces`): the proofs of an
airgroup are those in `recursive2_proofs`, those a recursive2 witness or unfinished
proof stands for, and the instances that have not got that far. Every step of
every thread is a merge of three or a stutter.

The three pipeline modules cut one call of `_generate_proof` where its parts meet
through few names. `WitnessPipeline` ends an instance at its basic proof, with the
device abstracted to one step of a worker. `DeviceStreams` begins with a job and
ends with its result, the workers abstracted to who submits. `RecursivePipeline`
begins with a basic proof to make; that witnesses are computed at all, its
fairness of `ComputeWitness`, is what `CallReturns` of `WitnessPipeline` shows.

### How RecursivePipeline corresponds to the code

*Threads.* `mpc` is the main thread's place in `_generate_proof`; `hpc[h]` and
`spc[s]` are the loops of the handler and the worker of a stream. One action is
what a thread does between two points where others can interfere: a channel
operation, a lock, a counter operation. `Receive`, `TakeProof`, `TakeRecursive1`,
`TakeRecursive2`, `TakeBuffer`, `Increment`, `Send`, `Decrement` are the handler in
program order; `PollProofs`/`ProveBasic` and `PollWitness`/`Select`/`Register`/
`Store`/`Commit`/`ProveRecursive` the worker.

*Channels.* Callbacks and sentinels are a FIFO sequence (`recursiveRx`): their
order matters. Instances and witnesses are sets (`proofsRx`, `witnessRx`): several
receivers and three queues already make their order irrelevant.

*Slots.* `slots` holds the full positions of `proofs`, `compressor_proofs` and
`recursive1_proofs`, told apart by type; `ongoing` is `recursive2_proofs_ongoing`,
counted from 1. A worker keeps the read lock of `ongoing` from before `Commit` to
the end of `ProveRecursive`; `OngoingUnlocked` makes writers wait for it.

*Device.* A submitted proof is a member of `inFlight`, at most one per stream.
`StreamDone` collects it when someone polls: the main thread in its waits, a
worker in `selectStream`. On the CPU `Submit` reports at once.

*Data.* A proof is its type, id, airgroup and the set of instances it covers; the
null proof covers none. Bytes, publics and keys are left out.

*Faults* are a constant: `Cancel` (user, peer or a wait that timed out), `Prove`
(gen_proof, gen_recursive_proof_size or generate_recursive_proof fails), `Witness`
(an instance's or a recursive witness fails), `Precalculate` (the `?` on
`pre_calculate_witness`). `FailCancelled` and `Restart` include the part of `reset`
this phase can see.

### How WitnessPipeline corresponds to the code

*Threads.* `pc` is the main thread in `_generate_proof` and `calculate_witness`;
`dispatcher` the thread of `calc_witness_handler`; `thread[i]` the thread spawned for
an instance, between computing, `take_buffer`, storing and giving back its tokens;
`worker[w]` a contribution worker, then a proof worker. Three modes: "queued" (the
dispatcher spawns), "minimal" (the main thread spawns) and "cpu" (one at a time).

*Buffers.* `pool` counts the channel; `toBeReleased` is the soft-release queue, a
`SegQueue` whose order no property needs, so any member may be popped. `trace[i]` is
"shared" in a buffer of the pool and "own" for a table. `TakeReleased` is
`take_buffer` with the check of the calculated flag; `Release` is `free_instance`
with its `is_shared` test.

*Tokens.* `Need` is what a thread of each mode takes. `threads_to_return` is always
0 because `CollectThreads <= ThreadsPerWitness`, and is left out.

*Faults.* `Cancel` is any cancellation from outside; `Timeout` is the ten-minute
tracker of `wait_until_value_reached` and fires only where nothing can come any
more: a wait that was merely slow is a `Cancel`. The other faults are an error of a
component or worker. `Starved` is the state of the one exception the code has,
see section 4.

### How DeviceStreams corresponds to the code

A worker locks, in `TryStream`, every free stream it meets (`selectStream`), picks
one with `Preferred` and marks it in `Reserve`, which collects what the last job
left and gives all locks back; `Describe`, `Launch` and `Publish` then go on without
a lock, as in `gen_proof_gpu` and `commit_witness_gpu`. `Complete` is the device.
`Collect` is what the main thread (`get_stream_proofs`, its non-blocking form, the
roots) or a worker does with a stream it finds finished. `Poll` is the non-blocking
form: in the wait for the witnesses (proofman.rs:3898-3902), while the workers commit,
and in the wait for the proofs. `TakeResident` is
`gen_proof_gpu` with `skipRecalculation`, on the stream named by
`get_instances_ready_gpu`. A buffer is the trace and the constant tree it holds,
so a job that uses what another has overwritten has a wrong result. `Setups` are
deployments: constant trees kept on the device or not, with cancellation or not,
one call or two, and when the borrower comes.

### How the STARK modules correspond to the code

The AIR has a fixed column, two witness columns, a grand product `z` with its
airgroup value, and a boundary constraint, so that row offsets -1, 0 and 1, both
hints of a grand product, both kinds of zerofier and a second stage occur. A
polynomial is its values on the extended domain; a tree, proof, transcript or
challenge is what the code keeps of it.

| Code | Here |
|---|---|
| 2^64 - 2^32 + 1 | 97 in the protocol; Half^2 - Half + 1 with Half = 8 in the runs of `GoldilocksWords`, every Half >= 2 in its proofs; every prime in those about `GoldilocksField` |
| cubic extension | the field itself in the protocol; over F_13 in the samples, where x^3 - x - 1 has no root either |
| Poseidon2 | an injective function of its input; a digest is one word |
| challenges | drawn when the prover first asks for a word of the transcript; the verifier gets the same value for the same word, and a word the prover never asked for ends in "other challenges" |
| grinding | the smallest of a given set of good nonces |
| 63 usable bits of a query field | 5 |
| trees of 2, 3 and 4 children, last levels | the same |

A transform works on one column, apart from its data (`Apart`) or in their array
(`OnSite`), as each caller does. On site and with an even number of phases, the
permutation of an extension is wrong (`lde_on_site`); its rows are taken in order or
from the middle on, as two threads may. The transforms of `StarkProof` have 8
extended rows, so 3 phases, and never come there. A proof that is not recursive
absorbs the challenge of `calculate_global_challenge`, with one instance; its verifier
is given the one the prover's context holds, as `verify_proof` does.

## 3. Runs and bounds

| Run | Question | Bounds | States |
|---|---|---|---|
| `aggregation` | partition, and only one proof left; beside it, is the count of merges right for each n, and does its loop end | airgroups of 5, 4 and 0 instances: odd, padded, empty; n in 0..400, past five levels of the tree | 417 024 |
| `pipeline_cpu` | does the phase complete with pools of one buffer, its counter exact, implementing `Aggregation` | one stream (as on the CPU), 4 instances in one airgroup and an empty one, both modes | 62 178 |
| `pipeline_gpu` | positions, counter and dismissal under reordering | two streams, two recursive2 proofs at once, one resident, one stored and two missing traces, two calls | 1.41 M |
| `pipeline_cancel` | does a call return whatever fails and whenever, and is there always somebody who can go on | two streams (one recursive-only), two instances, one compressor, all faults | 0.1-0.2 M |
| `witness_pipeline` | are traces, buffers and tokens safe, does every step bring the call nearer its end, and does it return | three instances, a table, two buffers, two workers, two tokens; three modes, one instance skipped or none, all faults | 770 859 |
| `device_streams` | has a stream one owner, is every result right and delivered once, and can somebody always go on | three streams of two GPUs, one for recursion; two workers, one only for aggregation; three instances of two AIRs; four deployments | 229 592 |
| `device_borrow` | violated: `BorrowExclusive` | the borrower comes before the resident proofs | |
| `stark` | does the verifier accept exactly the proofs of true statements; are the kernels right | five stark structures, 4 rows extended to 8, every index queried, two or one values per challenge, every single alteration; 349 samples | 16 342 |
| `lde_on_site` | violated: `ExtensionRight` | extensions by 2 from 1 to 16 rows with the default number of phases, one thread or the upper half first | |
| `cancel_hang` | violated: `CancelReturns` with pools of one buffer | as `pipeline_cpu`, with `Cancel` | |
| `buffer_leak` | violated: `CallsStartWhole` | two calls | |
| `error_hang` | violated: `ErrorReturns` | two streams, `Precalculate` only | |

Why the bounds are enough: four instances in one airgroup give five proofs with
the null proof, so a recursive2 proof is itself merged again; two airgroups of two
give two recursive2 proofs that run, are announced and are stored at once; a
third stream adds no new pair of interfering threads, because handlers interfere
only with each other and with workers, and each kind is there twice. `MaxRuns`
bounds the number of calls; no other bound limits a behaviour. `StreamSymmetry`
is used only in `pipeline_gpu`, which checks no liveness and treats its streams
alike. `CHECK_DEADLOCK FALSE` stands where the program stops (`aggregation`,
`device_streams`, `device_borrow`, `stark`, `lde_on_site`) or where the hang is the
finding (`cancel_hang`). `WitnessPipeline` stops too, and says where in `Stopped`, so its
deadlock check stays on.

In `witness_pipeline` three instances compete for two buffers, so one trace must be
soft-released and computed again, by a thread that races with the workers; a
fourth adds another of the same. In `device_streams` each pair that interferes is
there: two workers that scan, a worker and the collecting thread, a worker and the
borrower, a resident trace and a job that would overwrite it, two instances of one
AIR (constant tree used again) and one of another (not used again). The small
field of `stark` makes coincidences possible (a wrong value is equal to the right
one with probability about 1/97 for each draw); none occurs for the draws given,
and the runs claim nothing about the soundness error. All 8 indices are queried,
so an alteration of any opened value is looked at. `AlteredQueries` limits which
two of the eight openings are altered. Words of 6 bits are tried in all pairs, so
every carry and every non-canonical representative occurs.

*Fairness.* `WF` of the main thread, of each handler, of each worker, and of the
device: operating-system threads are scheduled and a running kernel ends. Every
polling wait of the code looks again, so weak fairness is enough and no strong
fairness is assumed. No fairness on faults, and none on the caller: nothing makes
`Restart` happen. The fairness of the main thread covers `ProveResident`, `Feed` and
`ComputeWitness`; the last is the assumption that witness calculation ends, which
`WitnessPipeline` discharges. That module assumes `WF` of its main thread, the
dispatcher, each instance's thread and each worker, and nothing of `Cancel` and
`Reset`; `DeviceStreams` of the calling thread, each worker, each running kernel,
each poll of a stream in the wait for the proofs, and the borrower once it has asked.
No poll is owed while the contributions are committed: the wait for the witnesses may be
over by then, and the join after it does not poll.

`pipeline_cancel` has eight buffers per pool, more than the witnesses two
instances can need: it shows that cancellation leaves nobody waiting *for anything
but a buffer*. `cancel_hang` shows that waiting for a buffer is the one exception.

## 4. Disagreements found

1. **A cancelled call may never return** (`cancel_hang`). A handler in `Pool::take`
   (memory_handler.rs:28) does not see the cancellation; the worker that would
   release a buffer leaves its loop (proofman.rs:2497). `wait_until_proofman_ready`
   then blocks for ever, although it is documented (624) for recovery.
2. **Cancellation shrinks the recursive pools** (`buffer_leak`). `reset` drops the
   queued witnesses with their buffers (484-486) and nothing refills the pools.
3. **An error return may hang** (`error_hang`). `?` at 2664 does not cancel, and
   `WorkerPoolGuard` joins workers its sentinel does not reach.

4. **A borrowed GPU may be used** (`device_borrow`). A proof of a resident trace goes
   to its stream without `selectStream` (starks_api.cu:596), hence without its lock
   and without looking at the loan; the "exclusive use" of the comment at 1670 is
   not exclusive.

5. **A small extension loses a coefficient** (`lde_on_site`). `LDE` transforms its
   output in place (ntt_goldilocks.cpp:397), and with an even number of phases the
   permutation does too. For an extension that loop (342-358) swaps a row whenever its
   turn comes and zeroes the others, some before they are read. The default of 3 phases
   is clamped to 2 for 4 extended rows; for more it stays odd, and another branch is
   taken. `TransformsRight` says what holds for all sizes and numbers of phases.

Met while modelling, without a run of their own:

* Witnesses. A cancelled call may leave a thread in `take_buffer` for ever
  (memory_handler.rs:140 never looks at the token, though proofman.rs:251-252 says
  the cleanup lets threads end): `Starved`, allowed in `CallReturns`. A skipped
  instance is waited for and ends the call by the ten-minute timeout (3791).
  `try_send_threads` drops a token when its channel is full.
* Streams. After a loan the streams of the first GPU keep the name of their last
  instance, whose trace the borrower may have overwritten. `reset_device_streams`
  does not wait for kernels of a cancelled call, and the blocking collection takes
  streams that are still being loaded. The tie-break of `selectStream` indexes a
  count per GPU by a stream number (1817). `calculate_const_tree_fixed_gpu` leaves a
  stream reserved when it returns early. `write_custom_commit` uses stream 0 without
  its lock. `copy_to_device_in_chunks` of nothing wraps around.
* Verifier and prover. A "lastRow" zerofier is computed from row N by the prover
  (setup_ctx.hpp:104) and from row N - 1 by the verifier (47-51). The verifier's
  branch for frames tests the name "everyRow" (57), so an "everyFrame" boundary
  (constraint_poly.rs:93-99) leaves its value unset. `verify_constraints` and the
  setup disagree on row ranges (verify_constraints.hpp:24, bin_file.rs:57-58).
  A transform smaller than its object's domain can reach `assert(0)`
  (ntt_goldilocks.cpp:205). `getMerkleProofLength` underflows when more last levels
  are asked for than the tree has, and the padding of the last levels is bound by
  nothing, which is why it is not among the alterations. The prover assumes
  stage 2 is the last, the verifier one xi and two FRI challenges.
  `merkletree_batch_avx` steps over rows by four.

## 5. What is proved

TLAPS, for all values of the constants that satisfy the named assumptions:
`InputsAssumption`, `LeavesAssumption`, `SystemAssumption` and `NoneAssumption`
(`RecursivePipeline`), `WitnessAssumption`, `WordsAssumption`, `FieldAssumption`,
`StreamsAssumption`, `SetupsAssumption`, `NamesAssumption` and `ClassesAssumption`
(`DeviceStreams`). Each says what the constants are (finite sets of instances and threads,
positive capacities, an airgroup for each instance, a half word of at least two values) and
nothing about behaviour. `ClassesAssumption` says that there is a stream that is not for
recursion and a worker that may take any job, and streams for recursion if some workers
only aggregate (proof_ctx.rs:952-963, 984-992; proofman.rs:1746-1752).

**Arithmetic.** `ProofCountCorrect`, `PaddingInvariant`: `ReducesToOne` and
`PaddingIsParity`. The invariant adds that 2 * total + n stays equal to the input
(2 * total + 2 once two leftovers have ended the loop) and what `rem` then is.
`ArithmeticRight`: the operations of `GoldilocksWords` return a word of the right
class for every half-word size, hence for 2^32. The prime is Half^2 - Half + 1, so the
word size W is Half - 1 modulo it and W * Half is -1: a carry or a high half word
is folded back by those two facts, and the lemmas bound each intermediate result so
that at most one more carry is left.

`InverseRight`, `Mul3Right`, `Inverse3Right`, `BatchInverseRight`: what `GoldilocksField`
computes, for every prime P (`PrimeModulus`), and for the last two over which x^3 - x - 1 has
no root (`RootFree`): 13 in the run, and 2^64 - 2^32 + 1 in the source. Both are hypotheses
of the theorems and not assumptions of the module, whose other operators do not need them.

* The algorithms recurse, and that a function defined by recursion exists has to be shown.
  `Recursion` does so once, for any set of questions whose answer needs that of one
  question of lower rank: the rest of a division for `Euclid`, i - 1 and n - i for the
  loops of `batchInverse`. Ranks, steps and sets of numbers are values there, so no operator
  is a parameter of a theorem, and `Induct` is induction in that form.
* `Stands` relates an element to the integers it stands for; each operation of the field
  preserves it, so an equation in the extension is one between polynomials of integers.
* `Bezout` is what a round of Euclid's algorithm keeps: t and newt are r and newr over x,
  and a divisor of r and newr divides P and x. At the end r divides a prime, so it is 1.
* `CubicNorm`, that only 0 has norm 0: an element of norm 0, times c x - b, is linear and
  has norm 0; then it is 0, since -a / b would be a root; and then b / c is one.
* The invariant of `batchInverse` is tmp[i] * z[i] = 1, from the last element to the first.

**Aggregation.** `PartitionInvariant`, `StuckIsDoneInvariant`: the invariant `IInv`
says of each airgroup that its pieces are finitely many, disjoint, cover its instances
and are odd in number. Parity is what makes `StuckIsDone` inductive: fewer than three
and odd is one.

**Witness calculation** (`TypeCorrect`, `TracesThere`, `ResourcesKept`). `IInv` adds to
the types `ThreadOnce` (an instance still to be dispatched has no thread, and `done`
does not run ahead of the threads that ended), `OnePlace` (a trace is about to be
stored, queued, with one worker or marked for soft release, never two of these),
`TablesApart` (tables never use the pool) and `Places` (what the main thread's place
says of the others). `TraceAtUse` is read off `OnePlace`. The
conservation of buffers and tokens needs it too: a trace is given back once because
its instance is in one place.

**Recursive proofs.** Four invariants, each inductive given the ones before it.

* `TypeOK`. `Frame` says that a group of variables that does not change keeps its
  types; each action then has one step for each group it changes.
* `TraceInv`, for `ProvedFromTrace`, which is not inductive because proving an
  instance frees its trace. `OnePlace` adds that an instance is in one place only on
  its way to a worker, and `Quiet` where the workers have exited.
* `SlotsInv`, for `AnnouncedProofPresent` and `OngoingSlotsNotShared`. What an instance
  became is in one place of the whole pipeline (`InOnePlace`); a proof covers the
  instances it should (`Shapes`); a position of `recursive2_proofs_ongoing` is given to
  one worker, empty until it stores (`Positions`), and keeps the proof until it is
  announced (`StoredStay`); one worker, stream, message or handler at most will
  announce a proof (`OneReference`), and its slot is full (`RefersToFilled`). Every
  action moves an instance from one place to one other (`Moves`) and a reference
  likewise (`Shuffles`).
* `CountsInv`, for `PendingAccounts` and `NothingAfterDismissal`: the counter is the
  sum of eight cardinalities, and every step changes it by what it changes them.
  `Finished` says that nothing is left after the wait; it is inductive because what
  could start again would have to be counted.

From these: `BuffersConserved` is inductive, because no two holders have the same
witness, so a set of witnesses counts buffers. `ResultComplete` needs `EndsInv` and
`OddPieces`: no instance is lost (`AllThere`), a full slot has somebody to announce it
(`Answered`), fewer than three proofs of an airgroup wait (`SmallPools`), a trace is
ahead of its instance (`TracesAhead`), without aggregation nothing is merged
(`PlainCall`), and the pieces of an airgroup are disjoint, cover it and are odd in
number. The last comes from the simulation: `StepsMerge` says that every step of a
call that goes on, after or before whatever faults, is a merge of three pieces or
none, and the lemmas of `Aggregation_proofs` are used through their instance
`Merging`. When the call is done nothing refers to a proof, so no slot is full, so
every instance is in a pool; fewer than three, odd: one proof that covers all.
`Refinement` is the same simulation with its initial states, for a call without
faults.

**Device streams** (`StreamTypes`, `OneOwner`, `OnceDelivered`, `LoanExclusive`,
`RightDelivered`). Four invariants again.

* `BaseInv`, for `TypeOK`, holds in cancelled calls too. Beyond types it says where the
  workers are in each phase (`Places`): nobody searches while the resident traces are
  proved, so `TakeResident` may do without the lock. That `selectStream` returns a stream
  it has locked is `PreferredIn`.
* `LiveInv`, in a call that is not cancelled, for `StreamOwnedByOne` and `DeliveredOnce`.
  `Owned`: a stream is loading exactly while one worker has it, and a stream that a worker
  has locked stays free until it is reserved. `OnePlace`, `RestingApart` and
  `NothingLost`: a job is in exactly one place (waiting, with a worker, on a
  stream, a resident trace, delivered). The two need each other. The last collection does
  not look at the status of a stream, and it meets none that is loading only because
  all jobs of the phase were announced; and an announced job is with no worker.
  `RootOnce` ties the streams that are taken for instances to the roots of the
  contributions phase, which `FindResident` relies on. Only `StartRun` may end the state of
  being cancelled, and the invariant follows there from `BaseInv` alone.
* `LoanInv`, for `BorrowExclusive`, needs `LateLoans`: the borrower asks only after the
  resident proofs, in calls that are neither cancelled nor repeated. `device_borrow` shows
  what an earlier loan leads to, a cancelled call marks streams collected
  that are still being loaded, and a loan that outlasts its call meets the resident
  proofs of the next. Once the flag is up no worker has or gets a lock of the first GPU
  (`LoanPlaces`), and a free stream is one whose event was recorded and is done
  (`Quiet`): without it `cudaEventQuery` on a fresh event would say so too early.
* `RightInv`, for `DeliveredRight`, needs `LateLoans` and `TreesApart` (the borrower
  does not overwrite constant trees the next job may use again). A described and
  uploaded stream holds the trace and the tree of its last job (`Uploaded`), so a
  resident trace is in place and a tree is used again rightly (`ResidentTraces`,
  `Reuses`); what runs or has run on a stream is its job (`Kernels`).

**What keeps a call going.** `NoDeadlock`, three times: `NeverStuck` is invariant. It says
that while a call is not over somebody can go on, and names the states in which nobody can.
ENABLED is out of the prover's reach, so "can go on" is spelled out, for each thread, as
the conditions under which one of its steps is possible (the `GoesOn` predicates); TLC
compared them with ENABLED in all states of the runs. A turn of a polling loop that changes
nothing but who looks next does not count as going on.

* Witness calculation. If the main thread waits, then for a trace, a token, a buffer or a
  worker, and each has somebody who brings it; else some instance was skipped (the wait that
  ends by the timeout) or threads are `Starved` in a cancelled call.
  `TimeoutOnlyIfSkipped`: the ten-minute timeout is needed in no other case. `StepsOnward`:
  every step passes the main thread to its next place (`Passed`), or brings an instance, a
  worker, the dispatcher or a cancellation nearer its end and none of them back (`Ahead`).
  Such steps are finitely many. Together: a call whose threads are scheduled comes to its
  end or to one of the exceptions, which `CallReturns` checks under fairness.
* Recursive proofs. By `PendingAccounts` a positive counter has a proof behind it, by
  `RefersToFilled` whoever announces it finds it, by `BuffersConserved` a missing buffer is
  with somebody. The exceptions are `Starved` (a handler waits for a buffer that a
  cancellation, of this call or of one before, has kept from the pool) and `Abandoned` (an
  error ended the call before its sentinels): `cancel_hang`, `buffer_leak` and `error_hang`
  show the only ways in which the threads of a call stop for good.
* Device streams. A stream that is loading has a worker, and the borrower keeps
  locks only while it is locking (`Attended`); where nobody goes on, all streams are
  at rest (`Still`), so a job is delivered, or it waits for a stream that is free, or it
  is done and its collector sees it.

All deployments of `device_streams` satisfy `LateLoans` and `TreesApart`, most because they
have no borrower.

Only model-checked:

* liveness (`Terminates`, `AllMerged`, `Completes`, `CallReturns`, `CancelReturns`),
  which the installed provers do not support;
* that finitely many steps end a call of `RecursivePipeline` or `DeviceStreams`: a measure
  like that of `StepsOnward` would have to leave out the turns of their polling loops;
* `StarkVerify`, `PackedBits`, and the transforms and foldings of `StarkKernels`: their
  loops are recursive operators, which the prover does not accept, and their properties
  are about powers and sums of any length, for which it has no facts. That a false
  statement or an altered proof is refused holds for the given draws only.

## 6. Plan

Done: all modules of section 2, and the proofs of section 5. Every safety property of the
pipelines that a run checks is proved, and so is the part of their progress that can be
said without ENABLED. What is left:

1. Decreasing measures for `RecursivePipeline` and `DeviceStreams`, as for witness
   calculation.
2. The transforms of `NttGoldilocks` as recursive functions, with `Recursion` of
   `Goldilocks_proofs`, and facts about powers to prove them from.

## 7. Not modelled, and why

The rest of the orchestration. Distribution of instances: sequential on each process,
its result is a constant of the pipelines; its hazards are listed. Outer
aggregation, aggregation between processes and cancellation between MPI ranks: the
models are of one process, and its runs are at the limit of what is checked in a
few minutes; their hazards are listed with that reason. The trace pools of
recursive proofs: a worker that holds one waits for nothing but the device, so they
add no deadlock while nothing fails; what an error between take and release loses
is a hazard without a property. `MemoryHandlerRecursive::reset` has no caller. The std
components: sequential but for the counting of multiplicities.

The rest of the STARK library. Custom commits, air values, intermediate columns and
the hints that fill witness columns: more columns of the same kind. The inside of
the Poseidon2 permutation: data, and hashes are abstracted to injective functions.
The AVX and CUDA forms of the functions modelled: the same functions, lane by lane.
The chunked copies and constant trees made inside a device job. The check of
constraints row by row on a trace, and the BN128 variant of the verifier.

The larger part of the C++ and CUDA lines is data or repetition: tables of hash
constants, verifier code generated by circom, three SNARK provers that are driven
as external programs, vectorised and CUDA duplicates. A model of them would say
nothing about their behaviour, so the share of lines with a model stays small.
Setup, pilout, macros, soundness calculators and command line are sequential tools.
