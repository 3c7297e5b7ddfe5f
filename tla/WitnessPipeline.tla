-------------------------- MODULE WitnessPipeline --------------------------
(***************************************************************************)
(* Witness calculation and the two phases it feeds: the contributions of   *)
(* the instances, then their basic proofs (_generate_proof of proofman.rs, *)
(* calc_witness_handler, calculate_witness, MemoryHandler, the witness     *)
(* manager).                                                               *)
(*                                                                         *)
(* A thread per instance takes a trace buffer from a bounded pool and      *)
(* stores the trace; storing it queues the instance for the workers of the *)
(* phase.  After its contribution a trace stays stored, for its proof may  *)
(* use it, but its buffer may be taken for another instance: "soft"        *)
(* release.  An instance whose trace was taken is computed again.          *)
(*                                                                         *)
(* The three ways of calculating witnesses: "queued" (GPU: a dispatcher    *)
(* spawns the threads), "minimal" (GPU, minimal memory: the main thread    *)
(* spawns them) and "cpu" (one at a time).  What follows a basic proof is  *)
(* in RecursivePipeline, the streams that make it in DeviceStreams.        *)
(***************************************************************************)
EXTENDS Integers, FiniteSets

CONSTANTS
    Instances,          \* the instances of this process that are not tables
    Tables,             \* computed by the main thread, in memory of their own
    NBuffers,           \* trace buffers in the pool
    Workers,            \* one per stream
    MaxThreads,         \* thread tokens
    ThreadsPerWitness,  \* tokens of a thread of the dispatcher
    CollectThreads,     \* tokens of a thread in minimal-memory mode
    Modes,              \* the modes to consider
    SkipChoices,        \* the sets of instances a debug file may skip
    Faults              \* what may go wrong

ASSUME WitnessAssumption ==
    /\ IsFiniteSet(Instances) /\ IsFiniteSet(Tables) /\ Instances \cap Tables = {}
    /\ {"waiting", "idle", "ended"} \cap (Instances \cup Tables) = {}
    /\ Workers # {}
    /\ NBuffers \in Nat \ {0}
    /\ MaxThreads \in Nat /\ ThreadsPerWitness \in 0..MaxThreads
    /\ CollectThreads \in 0..ThreadsPerWitness
    /\ Modes \subseteq {"queued", "minimal", "cpu"}
    /\ SkipChoices \subseteq SUBSET Instances
    /\ Faults \subseteq {"Cancel", "Execute", "Precalculate", "Compute", "Table",
                         "Contribute", "Prove"}

VARIABLES
    mode, skipped,  \* fixed for the call
    phase,          \* "contributions" or "internal"
    pc,             \* the main thread
    todo,           \* instances calculate_witness has not given to a thread
    done,           \* witness_done
    target,         \* instances.len() of calculate_witness
    witnessRx,      \* instances ready for the dispatcher
    dispatcher,     \* the instance it collects tokens for, or its state
    tokens,         \* in the channel of thread tokens
    thread,         \* the thread of each instance
    calculated,     \* instances_calculated
    pool,           \* buffers in the channel of the pool
    toBeReleased,   \* instance_ids_to_be_released
    trace,          \* of each instance: none, in a buffer of the pool, or its own
    jobs,           \* contributions_rx, then proofs_rx
    worker,         \* the instance a worker is busy with, or its state
    closing,        \* the sentinels are sent, or proofs_finished
    contributed, proved,
    cancelled,      \* the cancellation token, and who cancelled
    failed          \* the call has returned an error with `?`

call == <<mode, skipped, phase, pc, closing, failed>>
spawning == <<todo, done, target, witnessRx, dispatcher, tokens, thread, calculated>>
buffers == <<pool, toBeReleased, trace>>
results == <<jobs, worker, contributed, proved>>
vars == <<call, spawning, buffers, results, cancelled>>

All == Instances \cup Tables

IsCancelled == cancelled # "no"
Fails(f) == f \in Faults /\ cancelled' = (IF IsCancelled THEN cancelled ELSE "error")

Need == CASE mode = "queued" -> ThreadsPerWitness
          [] mode = "minimal" -> CollectThreads
          [] mode = "cpu" -> MaxThreads

Finished(i) == thread[i] \in {"none", "ended"}

(***************************************************************************)
(* The trace pool: free_instance and release_buffer of a set of instances. *)
(***************************************************************************)
InPool(S) == {i \in S : trace[i] = "shared"}

(* Mutant of Release: the buffer is given back without the is_shared test. *)
ReleaseAlways(S) ==
    /\ pool' = pool + Cardinality(S)
    /\ trace' = [i \in All |-> IF i \in S THEN "none" ELSE trace[i]]

Release(S) ==
    /\ pool' = pool + Cardinality(InPool(S))
    /\ trace' = [i \in All |-> IF i \in S THEN "none" ELSE trace[i]]

-----------------------------------------------------------------------------
(***************************************************************************)
(* The main thread                                                         *)
(***************************************************************************)
Init ==
    /\ mode \in Modes
    /\ skipped \in SkipChoices
    /\ phase = "contributions" /\ pc = "execute" /\ closing = FALSE /\ failed = FALSE
    /\ todo = {} /\ done = 0 /\ target = 0
    /\ witnessRx = {} /\ dispatcher = "waiting" /\ tokens = MaxThreads
    /\ thread = [i \in Instances |-> "none"] /\ calculated = {}
    /\ pool = NBuffers /\ toBeReleased = {} /\ trace = [i \in All |-> "none"]
    /\ jobs = {} /\ worker = [w \in Workers |-> "idle"]
    /\ contributed = {} /\ proved = {}
    /\ cancelled = "no"

(* exec(): an error of the witness library cancels; `?` unwinds the guards. *)
Execute ==
    /\ pc = "execute"
    /\ \/ pc' = "calculate" /\ failed' = FALSE /\ ~IsCancelled
          /\ todo' = Instances /\ target' = Cardinality(Instances)
          /\ UNCHANGED cancelled
       \/ pc' = "join" /\ failed' = TRUE
          /\ \/ Fails("Execute")
             \/ IsCancelled /\ UNCHANGED cancelled
          /\ UNCHANGED <<todo, target>>
    /\ UNCHANGED <<mode, skipped, phase, closing, done, witnessRx, dispatcher, tokens,
                   thread, calculated, buffers, results>>

(* pre_calculate_witness of all instances: each is announced as ready.      *)
(* Its error leaves with `?`, without cancelling; what this does to the     *)
(* workers of the internal phase is in RecursivePipeline.                   *)
PreCalculate ==
    /\ pc = "calculate" /\ mode = "queued"
    /\ \/ witnessRx' = todo /\ pc' = "wait" /\ failed' = FALSE
       \/ /\ "Precalculate" \in Faults /\ phase = "contributions"
          /\ witnessRx' \in SUBSET todo /\ pc' = "join" /\ failed' = TRUE
    /\ todo' = {}
    /\ UNCHANGED <<mode, skipped, phase, closing, done, target, dispatcher, tokens,
                   thread, calculated, buffers, results, cancelled>>

(* One round of the loop of calculate_witness without a dispatcher.  On the *)
(* CPU the thread of the round before has been joined.                      *)
MainSpawn(i) ==
    /\ pc = "calculate" /\ mode # "queued" /\ ~IsCancelled
    /\ mode = "cpu" => \A j \in Instances : Finished(j)
    /\ i \in todo
    /\ todo' = todo \ {i}
    /\ IF i \in skipped
       THEN UNCHANGED <<tokens, thread>>
       ELSE /\ tokens >= Need
            /\ tokens' = tokens - Need
            /\ thread' = [thread EXCEPT ![i] = "ready"]
    /\ UNCHANGED <<call, done, target, witnessRx, dispatcher, calculated, buffers,
                   results, cancelled>>

(* The loop ends, or a cancellation ends it with tokens already collected. *)
MainSpawned ==
    /\ pc = "calculate" /\ mode # "queued"
    /\ mode = "cpu" => \A j \in Instances : Finished(j)
    /\ \/ todo = {} /\ UNCHANGED tokens
       \/ IsCancelled /\ \E k \in 0..Need : tokens' = tokens - k /\ tokens >= k
    /\ pc' = "wait" /\ todo' = {}
    /\ UNCHANGED <<mode, skipped, phase, closing, failed, done, target, witnessRx,
                   dispatcher, thread, calculated, buffers, results, cancelled>>

(* wait_until_value_and_check_streams *)
WaitDone ==
    /\ pc = "wait"
    /\ done >= target \/ IsCancelled
    /\ pc' = "join"
    /\ UNCHANGED <<mode, skipped, phase, closing, failed, spawning, buffers, results,
                   cancelled>>

(* The sentinel ends the dispatcher; then it and the threads are joined.   *)
JoinThreads ==
    /\ pc = "join"
    /\ mode = "queued" => dispatcher = "ended"
    /\ \A i \in Instances : Finished(i)
    /\ pc' = CASE failed -> "drain"
               [] ~failed /\ phase = "contributions" -> "tables"
               [] ~failed /\ phase = "internal" -> "zero"
    /\ UNCHANGED <<mode, skipped, phase, closing, failed, spawning, buffers, results,
                   cancelled>>

(* The tables are computed one after the other by the main thread.         *)
ComputeTables ==
    /\ pc = "tables"
    /\ \E S \in SUBSET Tables :
          /\ \/ S = Tables /\ failed' = FALSE
             \/ S # Tables /\ "Table" \in Faults /\ failed' = TRUE
          /\ trace' = [i \in All |-> IF i \in S THEN "own" ELSE trace[i]]
          /\ jobs' = jobs \cup S
    /\ pc' = "drain"
    /\ UNCHANGED <<mode, skipped, phase, closing, spawning, pool, toBeReleased, worker,
                   contributed, proved, cancelled>>

(* wait_until_zero of proofs_pending: one for each instance to be proved.  *)
WaitZero ==
    /\ pc = "zero"
    /\ proved = All \/ IsCancelled
    /\ pc' = "drain"
    /\ UNCHANGED <<mode, skipped, phase, closing, failed, spawning, buffers, results,
                   cancelled>>

(* The sentinels of the contributions, or proofs_finished.                 *)
Close ==
    /\ pc = "drain" /\ ~closing
    /\ closing' = TRUE
    /\ UNCHANGED <<mode, skipped, phase, pc, failed, spawning, buffers, results, cancelled>>

(* Mutant of StartInternal: the soft-release queue is not emptied.         *)
StartInternalQueued ==
    /\ phase' = "internal" /\ pc' = "resident"
    /\ calculated' = {}
    /\ UNCHANGED toBeReleased

(* Mutant of StartInternal: the instances stay marked as calculated.       *)
StartInternalCalculated ==
    /\ phase' = "internal" /\ pc' = "resident"
    /\ toBeReleased' = {}
    /\ UNCHANGED calculated

(* dctx_reset_instances_calculated and empty_queue_to_be_released: what     *)
(* the proofs need is computed or kept, whatever the contributions did.    *)
StartInternal ==
    /\ phase' = "internal" /\ pc' = "resident"
    /\ calculated' = {} /\ toBeReleased' = {}

(* The workers are joined and check_cancel decides.                        *)
JoinWorkers ==
    /\ pc = "drain" /\ closing
    /\ \A w \in Workers : worker[w] = "ended"
    /\ closing' = FALSE
    /\ \/ /\ failed \/ IsCancelled
          /\ pc' = "failed" /\ UNCHANGED <<phase, calculated, toBeReleased, worker>>
       \/ /\ ~failed /\ ~IsCancelled /\ phase = "internal"
          /\ pc' = "ok" /\ UNCHANGED <<phase, calculated, toBeReleased, worker>>
       \/ /\ ~failed /\ ~IsCancelled /\ phase = "contributions"
          /\ StartInternal
          /\ worker' = [w \in Workers |-> "idle"]
    /\ UNCHANGED <<mode, skipped, failed, todo, done, target, witnessRx, dispatcher,
                   tokens, thread, pool, trace, jobs, contributed, proved, cancelled>>

(* Instances still resident on a stream are proved first, by stream, and   *)
(* freed; then stored ones are queued and the others computed again.       *)
Feed ==
    /\ pc = "resident"
    /\ \E R \in SUBSET contributed :
       \E P \in {S \in SUBSET R : IsCancelled \/ "Prove" \in Faults \/ S = R} :
          /\ Cardinality(R) <= Cardinality(Workers) /\ (mode = "cpu" => R = {})
          /\ IF P = R THEN UNCHANGED cancelled
             ELSE IF IsCancelled THEN UNCHANGED cancelled
             ELSE Fails("Prove")
          /\ Release(P)
          /\ proved' = P
          /\ jobs' = {i \in All \ R : trace[i] # "none"}
          /\ todo' = {i \in All \ R : trace[i] = "none"}
    /\ target' = Cardinality(todo')
    /\ done' = 0
    /\ thread' = [i \in Instances |-> "none"] /\ dispatcher' = "waiting"
    /\ pc' = "calculate"
    /\ UNCHANGED <<mode, skipped, phase, closing, failed, witnessRx, tokens, calculated,
                   toBeReleased, worker, contributed>>

(* A wait that has lasted ten minutes cancels.  A wait that was only slow  *)
(* and times out is a Cancel; this one waits for what will never come.     *)
Timeout ==
    /\ ~IsCancelled
    /\ \/ pc = "wait" /\ done < target
       \/ pc = "zero" /\ proved # All
    /\ witnessRx = {} /\ dispatcher \notin Instances
    /\ \A i \in Instances : Finished(i)
    /\ jobs = {} /\ \A w \in Workers : worker[w] \notin All
    /\ cancelled' = "timeout"
    /\ UNCHANGED <<call, spawning, buffers, results>>

Cancel ==
    /\ "Cancel" \in Faults /\ ~IsCancelled
    /\ pc \notin {"ok", "failed", "reset"}
    /\ cancelled' = "caller"
    /\ UNCHANGED <<call, spawning, buffers, results>>

(* reset, at the start of the next call: all traces are freed, what is     *)
(* missing in the pool is made anew, the tokens are put back.  The channel *)
(* of the pool holds NBuffers: one buffer too many would block it.         *)
Reset ==
    /\ pc \in {"ok", "failed"}
    /\ pool + Cardinality(InPool(All)) <= NBuffers
    /\ pool' = NBuffers /\ trace' = [i \in All |-> "none"] /\ toBeReleased' = {}
    /\ tokens' = MaxThreads
    /\ witnessRx' = {} /\ jobs' = {}
    /\ pc' = "reset"
    /\ UNCHANGED <<mode, skipped, phase, closing, failed, todo, done, target, dispatcher,
                   thread, calculated, worker, contributed, proved, cancelled>>

-----------------------------------------------------------------------------
(***************************************************************************)
(* The dispatcher (queued mode)                                            *)
(***************************************************************************)
Dispatch(i) ==
    /\ mode = "queued" /\ dispatcher = "waiting" /\ i \in witnessRx
    /\ dispatcher' = i /\ witnessRx' = witnessRx \ {i}
    /\ UNCHANGED <<call, todo, done, target, tokens, thread, calculated, buffers, results,
                   cancelled>>

DispatcherSpawn(i) ==
    /\ dispatcher = i /\ ~IsCancelled /\ tokens >= Need
    /\ tokens' = tokens - Need
    /\ thread' = [thread EXCEPT ![i] = "ready"]
    /\ dispatcher' = "waiting"
    /\ UNCHANGED <<call, todo, done, target, witnessRx, calculated, buffers, results,
                   cancelled>>

(* By the sentinel, which is behind all instances in the channel, or on    *)
(* cancellation: at an idle wait, or while it collects tokens.             *)
DispatcherEnds ==
    /\ mode = "queued"
    /\ \/ dispatcher = "waiting" /\ witnessRx = {} /\ (pc = "join" \/ IsCancelled)
          /\ UNCHANGED tokens
       \/ dispatcher \in Instances /\ IsCancelled
          /\ \E k \in 0..Need : tokens >= k /\ tokens' = tokens - k
    /\ dispatcher' = "ended"
    /\ UNCHANGED <<call, todo, done, target, witnessRx, thread, calculated, buffers,
                   results, cancelled>>

-----------------------------------------------------------------------------
(***************************************************************************)
(* The thread of an instance                                               *)
(***************************************************************************)

(* wcm.calculate_witness: an instance already calculated is left alone;    *)
(* otherwise it is marked before it is computed.                           *)
Calculate(i) ==
    /\ thread[i] = "ready"
    /\ \/ thread' = [thread EXCEPT ![i] = IF i \in calculated THEN "give" ELSE "take"]
          /\ calculated' = calculated \cup {i}
          /\ UNCHANGED cancelled
       \/ \* pre_calculate_witness fails: the thread returns with its tokens
          /\ mode # "queued" /\ Fails("Precalculate")
          /\ thread' = [thread EXCEPT ![i] = "ended"]
          /\ UNCHANGED calculated
    /\ UNCHANGED <<call, todo, done, target, witnessRx, dispatcher, tokens, buffers,
                   results>>

(* take_buffer: from the channel,                                          *)
TakeFree(i) ==
    /\ thread[i] = "take" /\ pool > 0
    /\ pool' = pool - 1
    /\ thread' = [thread EXCEPT ![i] = "hold"]
    /\ UNCHANGED <<call, todo, done, target, witnessRx, dispatcher, tokens, calculated,
                   toBeReleased, trace, results, cancelled>>

(* Mutant of TakeReleased: the trace of that instance stays in place.      *)
TakeReleasedKeeping(i) ==
    /\ thread[i] = "take" /\ pool = 0
    /\ \E j \in toBeReleased :
          /\ toBeReleased' = toBeReleased \ {j}
          /\ thread' = IF trace[j] = "shared" THEN [thread EXCEPT ![i] = "hold"]
                       ELSE thread
    /\ UNCHANGED <<call, todo, done, target, witnessRx, dispatcher, tokens, calculated,
                   pool, trace, results, cancelled>>

(* or from an instance whose contribution is known.                        *)
TakeReleased(i) ==
    /\ thread[i] = "take" /\ pool = 0
    /\ \E j \in toBeReleased :
          /\ toBeReleased' = toBeReleased \ {j}
          /\ trace' = [trace EXCEPT ![j] = "none"]
          /\ thread' = IF trace[j] = "shared" THEN [thread EXCEPT ![i] = "hold"]
                       ELSE thread
    /\ UNCHANGED <<call, todo, done, target, witnessRx, dispatcher, tokens, calculated,
                   pool, results, cancelled>>

StoreRetrying(i) ==
    /\ thread[i] = "hold"
    /\ \/ /\ trace' = [trace EXCEPT ![i] = "shared"]
          /\ jobs' = jobs \cup {i}
          /\ thread' = [thread EXCEPT ![i] = "give"]
       \/ /\ "Compute" \in Faults
          /\ thread' = [thread EXCEPT ![i] = "take"]
          /\ UNCHANGED <<trace, jobs>>
    /\ UNCHANGED <<call, todo, done, target, witnessRx, dispatcher, tokens, calculated,
                   pool, toBeReleased, worker, contributed, proved, cancelled>>

(* The component fills the trace and adds the instance, which queues it    *)
(* for the workers; or it fails, and its buffer is dropped.                *)
Store(i) ==
    /\ thread[i] = "hold"
    /\ \/ /\ trace' = [trace EXCEPT ![i] = "shared"]
          /\ jobs' = jobs \cup {i}
          /\ thread' = [thread EXCEPT ![i] = "give"]
          /\ UNCHANGED cancelled
       \/ /\ Fails("Compute")
          /\ thread' = [thread EXCEPT ![i] = IF mode = "queued" THEN "give" ELSE "ended"]
          /\ UNCHANGED <<trace, jobs>>
    /\ UNCHANGED <<call, todo, done, target, witnessRx, dispatcher, tokens, calculated,
                   pool, toBeReleased, worker, contributed, proved>>

(* try_send_threads, which a cancellation cuts short, then witness_done.   *)
Give(i) ==
    /\ thread[i] = "give"
    /\ \E k \in 0..Need :
          /\ k = Need \/ IsCancelled
          /\ tokens' = tokens + k
    /\ done' = done + 1
    /\ thread' = [thread EXCEPT ![i] = "ended"]
    /\ UNCHANGED <<call, todo, target, witnessRx, dispatcher, calculated, buffers, results,
                   cancelled>>

-----------------------------------------------------------------------------
(***************************************************************************)
(* The workers: of the contributions, then of the basic proofs             *)
(***************************************************************************)

(* After a cancellation a contribution worker drops the instance it got    *)
(* and ends; a proof worker frees it and goes on.                          *)
TakeJob(w, i) ==
    /\ worker[w] = "idle" /\ i \in jobs
    /\ jobs' = jobs \ {i}
    /\ IF ~IsCancelled
       THEN worker' = [worker EXCEPT ![w] = i] /\ UNCHANGED <<pool, trace>>
       ELSE IF phase = "contributions"
       THEN worker' = [worker EXCEPT ![w] = "ended"] /\ UNCHANGED <<pool, trace>>
       ELSE Release({i}) /\ UNCHANGED worker
    /\ UNCHANGED <<call, spawning, toBeReleased, contributed, proved, cancelled>>

(* Mutant of Contribute: the trace is not queued for soft release.         *)
ContributeKeeping(w) ==
    /\ phase = "contributions" /\ worker[w] \in All
    /\ contributed' = contributed \cup {worker[w]}
    /\ worker' = [worker EXCEPT ![w] = "idle"]
    /\ UNCHANGED <<call, spawning, buffers, jobs, proved, cancelled>>

(* get_contribution_air, and the soft release of the trace                 *)
Contribute(w) ==
    /\ phase = "contributions" /\ worker[w] \in All
    /\ \/ /\ contributed' = contributed \cup {worker[w]}
          /\ toBeReleased' = toBeReleased \cup InPool({worker[w]})
          /\ worker' = [worker EXCEPT ![w] = "idle"]
          /\ UNCHANGED cancelled
       \/ /\ Fails("Contribute")
          /\ worker' = [worker EXCEPT ![w] = "ended"]
          /\ UNCHANGED <<contributed, toBeReleased>>
    /\ UNCHANGED <<call, spawning, pool, trace, jobs, proved>>

(* gen_proof, then free_instance and release_buffer                        *)
Prove(w) ==
    /\ phase = "internal" /\ worker[w] \in All
    /\ \/ /\ proved' = proved \cup {worker[w]}
          /\ Release({worker[w]})
          /\ worker' = [worker EXCEPT ![w] = "idle"]
          /\ UNCHANGED cancelled
       \/ /\ Fails("Prove")
          /\ worker' = [worker EXCEPT ![w] = "ended"]
          /\ UNCHANGED <<proved, pool, trace>>
    /\ UNCHANGED <<call, spawning, toBeReleased, jobs, contributed>>

WorkerEnds(w) ==
    /\ worker[w] = "idle" /\ jobs = {}
    /\ closing \/ IsCancelled
    /\ pc # "resident"  \* the workers of the internal phase are not yet spawned
    /\ worker' = [worker EXCEPT ![w] = "ended"]
    /\ UNCHANGED <<call, spawning, buffers, jobs, contributed, proved, cancelled>>

-----------------------------------------------------------------------------
Main ==
    \/ Execute \/ PreCalculate \/ MainSpawned \/ (\E i \in Instances : MainSpawn(i))
    \/ WaitDone \/ JoinThreads \/ ComputeTables \/ WaitZero \/ Close \/ JoinWorkers
    \/ Feed \/ Timeout

Dispatcher == DispatcherEnds \/ \E i \in Instances : Dispatch(i) \/ DispatcherSpawn(i)

Thread(i) == Calculate(i) \/ TakeFree(i) \/ TakeReleased(i) \/ Store(i) \/ Give(i)

Worker(w) == Contribute(w) \/ Prove(w) \/ WorkerEnds(w) \/ \E i \in All : TakeJob(w, i)

(* After a cancellation: a thread is in take_buffer, which does not look   *)
(* at the token, and all who could bring a buffer have ended.              *)
Starved ==
    /\ IsCancelled
    /\ pool = 0 /\ toBeReleased = {}
    /\ \A w \in Workers : worker[w] = "ended"
    /\ \E i \in Instances : thread[i] = "take"

Stopped ==
    /\ pc = "reset" \/ Starved
    /\ UNCHANGED vars

Next ==
    \/ Main \/ Cancel \/ Reset \/ Dispatcher \/ Stopped
    \/ \E i \in Instances : Thread(i)
    \/ \E w \in Workers : Worker(w)

Fairness ==
    /\ WF_vars(Main) /\ WF_vars(Dispatcher)
    /\ \A i \in Instances : WF_vars(Thread(i))
    /\ \A w \in Workers : WF_vars(Worker(w))

Spec == Init /\ [][Next]_vars /\ Fairness

-----------------------------------------------------------------------------
MainTypes ==
    /\ mode \in Modes /\ skipped \in SkipChoices
    /\ phase \in {"contributions", "internal"}
    /\ pc \in {"execute", "calculate", "wait", "join", "tables", "resident", "zero",
               "drain", "ok", "failed", "reset"}
    /\ closing \in BOOLEAN /\ failed \in BOOLEAN
    /\ cancelled \in {"no", "error", "caller", "timeout"}

SpawnTypes ==
    /\ todo \subseteq Instances /\ witnessRx \subseteq Instances
    /\ done \in 0..Cardinality(Instances) /\ target \in 0..Cardinality(Instances)
    /\ dispatcher \in Instances \cup {"waiting", "ended"}
    /\ tokens \in 0..MaxThreads
    /\ thread \in [Instances -> {"none", "ready", "take", "hold", "give", "ended"}]
    /\ calculated \subseteq Instances

TraceTypes ==
    /\ pool \in 0..NBuffers
    /\ toBeReleased \subseteq Instances
    /\ trace \in [All -> {"none", "shared", "own"}]

WorkTypes ==
    /\ jobs \subseteq All
    /\ worker \in [Workers -> All \cup {"idle", "ended"}]
    /\ contributed \subseteq All /\ proved \subseteq All

(* Every variable has its type; the pool and the tokens never exceed the   *)
(* channels that hold them, whose send would block or drop.                *)
TypeOK == MainTypes /\ SpawnTypes /\ TraceTypes /\ WorkTypes

(* memory_handler.rs 140-156, proofman.rs 2001, 2204-2205: no soft release *)
(* takes the trace of an instance that waits for its contribution or its   *)
(* proof, or that a worker is reading, in either phase.                    *)
TraceAtUse ==
    \A i \in jobs \cup {worker[w] : w \in Workers} : i \in All => trace[i] # "none"

(* memory_handler.rs and try_send_threads: a buffer of the pool is in the  *)
(* channel, with one thread, or in one stored trace, never in two of them; *)
(* a token is in the channel or with one thread; and while the call is not *)
(* cancelled none is gone.                                                 *)
ResourcesConserved ==
    LET held == {i \in Instances : thread[i] = "hold"}
        active == {i \in Instances : ~Finished(i)}
        accounted == pool + Cardinality(held) + Cardinality(InPool(All))
        used == tokens + Need * Cardinality(active)
    IN  /\ accounted <= NBuffers
        /\ used <= MaxThreads
        /\ ~IsCancelled => accounted = NBuffers /\ used = MaxThreads

(* Who can go on, by the guards of the actions.  The main thread may only  *)
(* wait for the others: its ten-minute timeout is not counted.             *)
MainGoesOn ==
    \/ pc \in {"execute", "tables", "resident"}
    \/ pc = "calculate" /\ mode = "queued"
    \/ /\ pc = "calculate" /\ mode # "queued"
       /\ mode = "cpu" => \A j \in Instances : Finished(j)
       /\ todo = {} \/ IsCancelled \/ todo \cap skipped # {} \/ tokens >= Need
    \/ pc = "wait" /\ (done >= target \/ IsCancelled)
    \/ pc = "join" /\ (mode = "queued" => dispatcher = "ended")
                   /\ \A i \in Instances : Finished(i)
    \/ pc = "zero" /\ (proved = All \/ IsCancelled)
    \/ pc = "drain" /\ (~closing \/ \A w \in Workers : worker[w] = "ended")

DispatcherGoesOn ==
    /\ mode = "queued"
    /\ \/ dispatcher = "waiting" /\ (witnessRx # {} \/ pc = "join" \/ IsCancelled)
       \/ dispatcher \in Instances /\ (tokens >= Need \/ IsCancelled)

ThreadGoesOn(i) ==
    \/ thread[i] \in {"ready", "hold", "give"}
    \/ thread[i] = "take" /\ (pool > 0 \/ toBeReleased # {})

WorkerGoesOn(w) ==
    \/ worker[w] \in All
    \/ worker[w] = "idle" /\ jobs # {}
    \/ worker[w] = "idle" /\ (closing \/ IsCancelled) /\ pc # "resident"

(* Nobody waits for a buffer, a token, a thread, a sentinel or a counter    *)
(* that nobody will provide, as long as the call runs; so the timeout of a  *)
(* wait never ends one.  Not so when an instance is skipped, which counts   *)
(* as not done for ever, or for a thread starved by a cancellation          *)
(* (memory_handler.rs 128-156, proofman.rs 2163-2181, 2480-2530).           *)
NeverStuck ==
    \/ pc \in {"ok", "failed", "reset"}
    \/ MainGoesOn \/ DispatcherGoesOn
    \/ \E i \in Instances : ThreadGoesOn(i)
    \/ \E w \in Workers : WorkerGoesOn(w)
    \/ Starved
    \/ pc = "wait" /\ skipped # {} /\ mode # "queued"

(* How far the main thread is, over both phases of the call.               *)
Passed ==
    CASE pc = "reset" -> 15
      [] pc \in {"ok", "failed"} -> 14
      [] OTHER ->
           (IF phase = "internal" THEN 7 ELSE 0)
           + (CASE pc \in {"execute", "resident"} -> 0
                [] pc = "calculate" -> 1
                [] pc = "wait" -> 2
                [] pc = "join" -> 3
                [] pc \in {"tables", "zero"} -> 4
                [] OTHER -> IF closing THEN 6 ELSE 5)

(* How far an instance is from its trace, and a trace from its release.    *)
ToTrace(i) ==
    IF i \in todo THEN 7
    ELSE IF i \in witnessRx THEN 6
    ELSE IF dispatcher = i THEN 5
    ELSE IF i \notin Instances THEN 0
    ELSE CASE thread[i] = "ready" -> 4
           [] thread[i] = "take"  -> 3
           [] thread[i] = "hold"  -> 2
           [] thread[i] = "give"  -> 1
           [] OTHER               -> 0

ToRelease(i) ==
    IF i \in jobs THEN 3
    ELSE IF \E w \in Workers : worker[w] = i THEN 2
    ELSE IF i \in toBeReleased THEN 1 ELSE 0

Ahead(i) == 4 * ToTrace(i) + ToRelease(i)

(* Each step of a call goes on: the main thread passes to its next place,  *)
(* or else no instance, worker or dispatcher goes back, no cancellation is *)
(* undone, and one of them is nearer to its end.  So a call makes finitely *)
(* many steps, in each mode and whatever fails: a thread that takes the    *)
(* buffer of another does not make it start again in the same phase, and   *)
(* no wait turns in a circle (memory_handler.rs 128-156).                  *)
Onward ==
    \/ Passed' > Passed
    \/ /\ Passed' = Passed
       /\ \A i \in All : Ahead(i)' <= Ahead(i)
       /\ \A w \in Workers : worker[w] = "ended" => worker'[w] = "ended"
       /\ dispatcher = "ended" => dispatcher' = "ended"
       /\ IsCancelled => IsCancelled'
       /\ \/ \E i \in All : Ahead(i)' < Ahead(i)
          \/ \E w \in Workers : worker[w] # "ended" /\ worker'[w] = "ended"
          \/ dispatcher # "ended" /\ dispatcher' = "ended"
          \/ ~IsCancelled /\ IsCancelled'

AlwaysOnward == [][Onward]_vars

Complete == pc = "ok" /\ contributed = All /\ proved = All

Refused ==
    /\ pc = "failed"
    /\ \/ cancelled \in {"error", "caller"} \/ failed
       \/ cancelled = "timeout" /\ skipped # {}

(* proofman.rs 2684-2700, 226-261: a call in which nothing goes wrong      *)
(* contributes and proves every instance, whatever the number of buffers   *)
(* and of tokens; a cancelled one, or one that fails, returns an error.    *)
(* Two exceptions are in the code: a cancelled call may leave a thread in  *)
(* take_buffer for ever, and one that skips an instance times out.         *)
CallReturns == <>(Complete \/ Refused \/ Starved)

=============================================================================
