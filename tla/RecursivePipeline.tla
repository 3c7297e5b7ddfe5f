-------------------------- MODULE RecursivePipeline --------------------------
(***************************************************************************)
(* The internal-proofs phase of _generate_proof (proofman/src/proofman.rs):*)
(* every instance of this process gets a basic proof, and, with            *)
(* aggregation, a compressor proof if its air has one, a recursive1 proof, *)
(* and recursive2 proofs that merge the proofs of an airgroup by three.    *)
(*                                                                         *)
(* Three kinds of thread share the work:                                   *)
(*   - the main thread feeds the instances, waits for proofs_pending to    *)
(*     reach zero and shuts the workers down;                              *)
(*   - a handler per stream receives "proof done" callbacks and computes   *)
(*     the witness of the next proof of the chain;                         *)
(*   - a worker per stream receives instances and witnesses and proves     *)
(*     them, on the CPU itself or by submitting them to a device stream.   *)
(* Witness buffers come from fixed pools: a handler takes one, it travels  *)
(* with the witness, the worker gives it back.                             *)
(*                                                                         *)
(* A proof or witness is a record with the instances it covers; its data   *)
(* is left out.  The trace pools, taken and given back within one call of  *)
(* generate_recursive_proof, are left out too.                             *)
(***************************************************************************)
EXTENDS Integers, Sequences, FiniteSets

CONSTANTS
  Airgroups,
  Instances,          \* the instances of this process
  AirgroupOf,         \* the airgroup of an instance
  Compressed,         \* the instances whose air has a compressor
  Stored,             \* the instances whose trace is stored when the phase starts
  Resident,           \* the instances found on a device stream at the start
  Streams,            \* n_streams: one handler and one worker each
  RecursiveStreams,   \* stream_id >= n_streams_non_recursive
  Buffers,            \* the capacity of each pool of witness buffers
  Gpu,                \* pctx.gpu
  Modes,              \* the values options.aggregation takes
  Faults,             \* the kinds of failure that may happen
  MaxRuns,            \* how many calls the model follows
  None                \* Option::None

Pools == {"regular", "compressor"}

ASSUME SystemAssumption ==
  /\ IsFiniteSet(Instances) /\ Instances \subseteq Nat
  /\ AirgroupOf \in [Instances -> Airgroups]
  /\ Compressed \subseteq Instances /\ Stored \subseteq Instances
  /\ Resident \subseteq Instances /\ (Resident # {} => Gpu)
  /\ IsFiniteSet(Streams) /\ RecursiveStreams \subseteq Streams
  /\ RecursiveStreams # Streams
  /\ Buffers \in [Pools -> Nat \ {0}]
  /\ Gpu \in BOOLEAN /\ Modes \subseteq BOOLEAN
  /\ Faults \subseteq {"Cancel", "Prove", "Witness", "Precalculate"}
  /\ MaxRuns \in Nat \ {0}
  /\ None \notin Nat

VARIABLES
  mpc,                \* where the main thread is
  run,                \* which call of _generate_proof
  aggregate,          \* options.aggregation of this call
  cancelled,          \* cancellation_info.token
  callback,           \* whether proof_done_callback is registered
  finished,           \* proofs_finished
  toFeed,             \* the instances the main thread has not passed on yet
  toCalculate,        \* instances_to_be_calculated: witness still missing
  traces,             \* the instances whose trace is stored (is_air_instance_stored)
  pending,            \* proofs_pending
  proofsRx,           \* the channel of instances ready to be proved
  witnessRx,          \* the three channels of recursive witnesses
  recursiveRx,        \* the channel of callbacks and sentinels
  slots,              \* proofs, compressor_proofs and recursive1_proofs
  ongoing,            \* recursive2_proofs_ongoing
  pool,               \* recursive2_proofs: per airgroup, waiting to be merged
  hpc, hjob,          \* per handler: where it is, its message or witness
  spc, sjob,          \* per worker: where it is, the proof it is making
  inFlight,           \* the proofs running on device streams
  free                \* the free buffers of each pool

mainVars    == <<mpc, run, aggregate, finished, toFeed>>
faultVars   == <<cancelled>>
feedVars    == <<toCalculate, traces, proofsRx>>
handlerVars == <<hpc, hjob>>
workerVars  == <<spc, sjob>>
deviceVars  == <<callback, recursiveRx, inFlight>>
proofVars   == <<slots, ongoing, pool>>
vars == <<mainVars, faultVars, feedVars, handlerVars, workerVars, deviceVars,
          proofVars, pending, witnessRx, free>>

(* Mutant of NRecursive: a merge takes two proofs.                          *)
TwoAtATime == 2

NRecursive == 3       \* N_RECURSIVE_PROOFS_PER_AGGREGATION

ChainTypes == {"Basic", "Compressor", "Recursive1"}

ProofTypes == ChainTypes \cup {"Recursive2"}

Proof(type, i) ==
  [type |-> type, id |-> i, airgroup |-> AirgroupOf[i], leaves |-> {i}]

(* The proofs and witnesses of one instance.                                *)
ChainWork == [type : ChainTypes, id : Instances, airgroup : Airgroups,
              leaves : SUBSET Instances]

(* Those of an airgroup; the position is unknown until a worker takes it.   *)
MergeWork == [type : {"Recursive2"}, id : Nat \cup {None}, airgroup : Airgroups,
              leaves : SUBSET Instances]

Work == ChainWork \cup MergeWork

ASSUME NoneAssumption == None \notin Work

Message == [type : ProofTypes \cup {"Sentinel"}, id : Nat]

Sentinel == [type |-> "Sentinel", id |-> 0]      \* id u64::MAX - 1

Done(w) == [type |-> w.type, id |-> w.id]        \* what the callback carries

LeavesOf(a) == {i \in Instances : AirgroupOf[i] = a}

(* Mutant of Padding: an even number of proofs gets no null proof.          *)
PaddingIfEmpty(a) == IF LeavesOf(a) = {} THEN {{}} ELSE {}

(* has_remaining || n_proofs == 0: the null proof an airgroup starts with.  *)
Padding(a) ==
  IF Cardinality(LeavesOf(a)) % 2 = 0 THEN {{}} ELSE {}

(* The proof that follows m in the chain of an instance.                    *)
NextType(m) ==
  IF m.type = "Basic" /\ m.id \in Compressed THEN "Compressor"
  ELSE IF m.type \in {"Basic", "Compressor"} THEN "Recursive1"
  ELSE "Recursive2"

PoolOf(w) == IF w.type = "Compressor" THEN "compressor" ELSE "regular"

Init ==
  /\ mpc = "start" /\ run = 1 /\ aggregate \in Modes
  /\ cancelled = FALSE /\ callback = FALSE /\ finished = FALSE
  /\ toFeed = {} /\ toCalculate = {} /\ traces = Stored \cup Resident
  /\ pending = 0
  /\ proofsRx = {} /\ witnessRx = {} /\ recursiveRx = <<>>
  /\ slots = {} /\ ongoing = <<>> /\ pool = [a \in Airgroups |-> {}]
  /\ hpc = [h \in Streams |-> "exit"] /\ hjob = [h \in Streams |-> None]
  /\ spc = [s \in Streams |-> "exit"] /\ sjob = [s \in Streams |-> None]
  /\ inFlight = {} /\ free = Buffers

-----------------------------------------------------------------------------
(* The device.                                                              *)

(* Mutant of Report: two threads collect the same proof.                    *)
ReportTwice(m) ==
  recursiveRx' = IF callback THEN recursiveRx \o <<m, m>> ELSE recursiveRx

(* A proof is complete: the callback, while one is registered, queues it    *)
(* for the handlers.                                                        *)
Report(m) ==
  recursiveRx' = IF callback THEN Append(recursiveRx, m) ELSE recursiveRx

(* Handing a proof to the prover: on the CPU it is complete when the call   *)
(* returns; on the GPU the caller waits in selectStream for a device        *)
(* stream and leaves the proof running on it.                               *)
Submit(m) ==
  /\ IF Gpu
     THEN /\ Cardinality(inFlight) < Cardinality(Streams)
          /\ inFlight' = inFlight \cup {m}
          /\ UNCHANGED recursiveRx
     ELSE Report(m) /\ UNCHANGED inFlight
  /\ UNCHANGED callback

(* A device stream finishes.  Its result is collected by the main thread    *)
(* while it waits, or by a worker that looks for a stream.                  *)
StreamDone(m) ==
  /\ \/ mpc \in {"witness", "wait", "collect"}
     \/ \E s \in Streams : spc[s] \in {"basic", "prove"}
  /\ inFlight' = inFlight \ {m}
  /\ Report(m)
  /\ UNCHANGED <<mainVars, faultVars, feedVars, handlerVars, workerVars, callback,
                 proofVars, pending, witnessRx, free>>

-----------------------------------------------------------------------------
(* The main thread.                                                         *)

(* Null proofs, the callback, the handlers.                                 *)
Start ==
  /\ mpc = "start"
  /\ mpc' = "resident"
  /\ pool' = [a \in Airgroups |-> pool[a] \cup (IF aggregate THEN Padding(a) ELSE {})]
  /\ pending' = 0
  /\ callback' = TRUE
  /\ hpc' = [h \in Streams |-> "recv"]
  /\ toFeed' = Resident
  /\ UNCHANGED <<run, aggregate, finished, faultVars, feedVars, hjob, workerVars,
                 recursiveRx, inFlight, slots, ongoing, witnessRx, free>>

(* An instance whose commitment is still on a device stream is proved       *)
(* there, before anything else uses the stream.                             *)
ProveResident(i) ==
  /\ mpc = "resident"
  /\ ~cancelled
  /\ toFeed' = toFeed \ {i}
  /\ pending' = pending + 1
  /\ slots' = slots \cup {Proof("Basic", i)}
  /\ inFlight' = inFlight \cup {Done(Proof("Basic", i))}
  /\ traces' = traces \ {i}
  /\ UNCHANGED <<mpc, run, aggregate, finished, faultVars, toCalculate, proofsRx,
                 handlerVars, workerVars, callback, recursiveRx, ongoing, pool,
                 witnessRx, free>>

(* gen_proof fails for a resident instance; the loop goes on.               *)
FailResident(i) ==
  /\ "Prove" \in Faults
  /\ mpc = "resident"
  /\ ~cancelled
  /\ toFeed' = toFeed \ {i}
  /\ pending' = pending + 1
  /\ cancelled' = TRUE
  /\ traces' = traces \ {i}
  /\ UNCHANGED <<mpc, run, aggregate, finished, toCalculate, proofsRx, handlerVars,
                 workerVars, deviceVars, proofVars, witnessRx, free>>

(* Mutant of StartWorkers: my_instances_calculated is ignored.              *)
StartWorkersFeedingAll ==
  /\ mpc = "resident"
  /\ toFeed = {} \/ cancelled
  /\ mpc' = "feed"
  /\ toFeed' = Instances
  /\ finished' = FALSE
  /\ spc' = [s \in Streams |-> "poll"]
  /\ UNCHANGED <<run, aggregate, faultVars, feedVars, handlerVars, sjob, deviceVars,
                 proofVars, pending, witnessRx, free>>

(* The workers start; resident instances are not fed again.                 *)
StartWorkers ==
  /\ mpc = "resident"
  /\ toFeed = {} \/ cancelled
  /\ mpc' = "feed"
  /\ toFeed' = Instances \ Resident
  /\ finished' = FALSE
  /\ spc' = [s \in Streams |-> "poll"]
  /\ UNCHANGED <<run, aggregate, faultVars, feedVars, handlerVars, sjob, deviceVars,
                 proofVars, pending, witnessRx, free>>

(* The order of the feed: stored before missing traces, compressor first.   *)
Tier(i) == (IF i \in traces THEN 0 ELSE 2) + (IF i \in Compressed THEN 0 ELSE 1)

Feed(i) ==
  /\ mpc = "feed"
  /\ \A j \in toFeed : Tier(i) <= Tier(j)
  /\ toFeed' = toFeed \ {i}
  /\ pending' = pending + 1
  /\ IF i \in traces
     THEN proofsRx' = proofsRx \cup {i} /\ UNCHANGED toCalculate
     ELSE toCalculate' = toCalculate \cup {i} /\ UNCHANGED proofsRx
  /\ UNCHANGED <<mpc, run, aggregate, finished, faultVars, traces, handlerVars,
                 workerVars, deviceVars, proofVars, witnessRx, free>>

EndFeed ==
  /\ mpc = "feed"
  /\ toFeed = {}
  /\ mpc' = "witness"
  /\ UNCHANGED <<run, aggregate, finished, toFeed, faultVars, feedVars, handlerVars,
                 workerVars, deviceVars, proofVars, pending, witnessRx, free>>

(* Mutant of ComputeWitness: the instance is sent before it is stored.      *)
ComputeWitnessUnstored(i) ==
  /\ mpc = "witness"
  /\ toCalculate' = toCalculate \ {i}
  /\ proofsRx' = proofsRx \cup {i}
  /\ UNCHANGED <<mainVars, faultVars, traces, handlerVars, workerVars, deviceVars,
                 proofVars, pending, witnessRx, free>>

(* calculate_witness stores the trace of an instance and add_air_instance   *)
(* sends the instance to the workers.                                       *)
ComputeWitness(i) ==
  /\ mpc = "witness"
  /\ toCalculate' = toCalculate \ {i}
  /\ traces' = traces \cup {i}
  /\ proofsRx' = proofsRx \cup {i}
  /\ UNCHANGED <<mainVars, faultVars, handlerVars, workerVars, deviceVars, proofVars,
                 pending, witnessRx, free>>

(* The witness of an instance cannot be computed: the call is cancelled.    *)
FailWitness(i) ==
  /\ "Witness" \in Faults
  /\ mpc = "witness"
  /\ cancelled' = TRUE
  /\ toCalculate' = toCalculate \ {i}
  /\ UNCHANGED <<mainVars, traces, proofsRx, handlerVars, workerVars, deviceVars,
                 proofVars, pending, witnessRx, free>>

(* pre_calculate_witness of all instances fails: `?` leaves _generate_proof *)
(* without cancelling, and the guards on its stack are dropped.             *)
FailPrecalculate ==
  /\ "Precalculate" \in Faults
  /\ Gpu
  /\ mpc = "witness"
  /\ mpc' = "unwind"
  /\ toCalculate' = {}
  /\ UNCHANGED <<run, aggregate, finished, toFeed, faultVars, traces, proofsRx,
                 handlerVars, workerVars, deviceVars, proofVars, pending, witnessRx,
                 free>>

EndWitness ==
  /\ mpc = "witness"
  /\ toCalculate = {} \/ cancelled
  /\ mpc' = "wait"
  /\ UNCHANGED <<run, aggregate, finished, toFeed, faultVars, feedVars, handlerVars,
                 workerVars, deviceVars, proofVars, pending, witnessRx, free>>

(* wait_until_zero_and_check_streams                                        *)
WaitZero ==
  /\ mpc = "wait"
  /\ pending = 0 \/ cancelled
  /\ mpc' = "collect"
  /\ UNCHANGED <<run, aggregate, finished, toFeed, faultVars, feedVars, handlerVars,
                 workerVars, deviceVars, proofVars, pending, witnessRx, free>>

(* Mutant of Sentinels: one sentinel for all the handlers.                  *)
OneSentinel == <<Sentinel>>

Sentinels == [k \in 1 .. Cardinality(Streams) |-> Sentinel]

(* get_stream_proofs has emptied the device streams (once cancelled, a      *)
(* worker may still submit); then the workers and handlers are dismissed.   *)
Dismiss ==
  /\ mpc = "collect"
  /\ inFlight = {} \/ cancelled
  /\ mpc' = "join"
  /\ finished' = TRUE
  /\ callback' = FALSE
  /\ recursiveRx' = recursiveRx \o Sentinels
  /\ UNCHANGED <<run, aggregate, toFeed, faultVars, feedVars, handlerVars, workerVars,
                 inFlight, proofVars, pending, witnessRx, free>>

AllExited == \A s \in Streams : hpc[s] = "exit" /\ spc[s] = "exit"

Join ==
  /\ mpc = "join"
  /\ AllExited
  /\ mpc' = "check"
  /\ UNCHANGED <<run, aggregate, finished, toFeed, faultVars, feedVars, handlerVars,
                 workerVars, deviceVars, proofVars, pending, witnessRx, free>>

Succeed ==
  /\ mpc = "check"
  /\ ~cancelled
  /\ mpc' = "done"
  /\ UNCHANGED <<run, aggregate, finished, toFeed, faultVars, feedVars, handlerVars,
                 workerVars, deviceVars, proofVars, pending, witnessRx, free>>

(* ProofMan::reset, as far as this phase can see it.  The witness buffers   *)
(* that travel with the drained witnesses are dropped with them.            *)
Reset ==
  /\ callback' = FALSE
  /\ recursiveRx' = <<>> /\ inFlight' = {}
  /\ proofsRx' = {} /\ witnessRx' = {}
  /\ slots' = {} /\ ongoing' = <<>> /\ pool' = [a \in Airgroups |-> {}]

(* check_cancel(true) of a cancelled call.                                  *)
FailCancelled ==
  /\ mpc = "check"
  /\ cancelled
  /\ mpc' = "failed"
  /\ Reset
  /\ toCalculate' = {} /\ traces' = {}
  /\ UNCHANGED <<run, aggregate, finished, toFeed, faultVars, handlerVars, workerVars,
                 pending, free>>

(* Dropping _recursives_guard on an early return: sentinels, then join.     *)
Unwind ==
  /\ mpc = "unwind"
  /\ mpc' = "unwindJoin"
  /\ recursiveRx' = recursiveRx \o Sentinels
  /\ UNCHANGED <<run, aggregate, finished, toFeed, faultVars, feedVars, handlerVars,
                 workerVars, callback, inFlight, proofVars, pending, witnessRx, free>>

UnwindJoin ==
  /\ mpc = "unwindJoin"
  /\ AllExited
  /\ mpc' = "failed"
  /\ UNCHANGED <<run, aggregate, finished, toFeed, faultVars, feedVars, handlerVars,
                 workerVars, deviceVars, proofVars, pending, witnessRx, free>>

(* The next call, up to where the internal proofs start again.              *)
Restart ==
  /\ mpc \in {"done", "failed"}
  /\ run < MaxRuns
  /\ mpc' = "start"
  /\ run' = run + 1
  /\ aggregate' \in Modes
  /\ cancelled' = FALSE
  /\ Reset
  /\ toCalculate' = {} /\ traces' = Stored \cup Resident
  /\ UNCHANGED <<finished, toFeed, handlerVars, workerVars, pending, free>>

-----------------------------------------------------------------------------
(* A handler.                                                               *)

HandlerTo(h, pc, job) ==
  /\ hpc' = [hpc EXCEPT ![h] = pc]
  /\ hjob' = [hjob EXCEPT ![h] = job]

Receive(h) ==
  /\ hpc[h] = "recv"
  /\ recursiveRx # <<>>
  /\ recursiveRx' = Tail(recursiveRx)
  /\ LET m == Head(recursiveRx)
     IN  IF m = Sentinel \/ cancelled THEN HandlerTo(h, "exit", None)
         ELSE IF ~aggregate THEN HandlerTo(h, "decrement", None)
         ELSE HandlerTo(h, "take", m)
  /\ UNCHANGED <<mainVars, faultVars, feedVars, workerVars, callback, inFlight,
                 proofVars, pending, witnessRx, free>>

(* The proof of the message, taken out of its slot, gives the inputs of a   *)
(* compressor or recursive1 witness.                                        *)
TakeProof(h) ==
  /\ hpc[h] = "take"
  /\ NextType(hjob[h]) # "Recursive2"
  /\ \E p \in slots :
       /\ Done(p) = hjob[h]
       /\ slots' = slots \ {p}
       /\ HandlerTo(h, "buffer", Proof(NextType(p), p.id))
  /\ UNCHANGED <<mainVars, faultVars, feedVars, workerVars, deviceVars, ongoing, pool,
                 pending, witnessRx, free>>

(* Mutant of JoinAirgroup: `continue` skips the decrement of a message that *)
(* leads to no witness.                                                     *)
JoinAirgroupUncounted(h, p) ==
  LET a == p.airgroup
      all == pool[a] \cup {p.leaves}
  IN  IF Cardinality(all) < NRecursive
      THEN pool' = [pool EXCEPT ![a] = all] /\ HandlerTo(h, "recv", None)
      ELSE /\ pool' = [pool EXCEPT ![a] = {}]
           /\ HandlerTo(h, "buffer",
                [type |-> "Recursive2", id |-> None, airgroup |-> a,
                 leaves |-> UNION all])

(* The proof joins the others of its airgroup; three of them, the new one   *)
(* among them, leave the pool as the inputs of a recursive2 witness.        *)
JoinAirgroup(h, p) ==
  LET a == p.airgroup
      all == pool[a] \cup {p.leaves}
  IN  IF Cardinality(all) < NRecursive
      THEN /\ pool' = [pool EXCEPT ![a] = all]
           /\ HandlerTo(h, "decrement", None)
      ELSE \E three \in SUBSET all :
             /\ Cardinality(three) = NRecursive
             /\ p.leaves \in three
             /\ pool' = [pool EXCEPT ![a] = all \ three]
             /\ HandlerTo(h, "buffer",
                  [type |-> "Recursive2", id |-> None, airgroup |-> a,
                   leaves |-> UNION three])

TakeRecursive1(h) ==
  /\ hpc[h] = "take"
  /\ hjob[h].type = "Recursive1"
  /\ \E p \in slots :
       /\ Done(p) = hjob[h]
       /\ slots' = slots \ {p}
       /\ JoinAirgroup(h, p)
  /\ UNCHANGED <<mainVars, faultVars, feedVars, workerVars, deviceVars, ongoing,
                 pending, witnessRx, free>>

(* A worker reads recursive2_proofs_ongoing while it proves a recursive2;   *)
(* whoever writes it waits.                                                 *)
OngoingUnlocked ==
  \A s \in Streams : spc[s] \in {"commit", "prove"} => sjob[s].type # "Recursive2"

TakeRecursive2(h) ==
  /\ hpc[h] = "take"
  /\ hjob[h].type = "Recursive2"
  /\ OngoingUnlocked
  /\ LET k == hjob[h].id
     IN  /\ k \in DOMAIN ongoing
         /\ ongoing[k] # None
         /\ ongoing' = [ongoing EXCEPT ![k] = None]
         /\ JoinAirgroup(h, ongoing[k])
  /\ UNCHANGED <<mainVars, faultVars, feedVars, workerVars, deviceVars, slots, pending,
                 witnessRx, free>>

(* Pool::take: blocks, whatever happens to the call meanwhile.              *)
TakeBuffer(h) ==
  /\ hpc[h] = "buffer"
  /\ free[PoolOf(hjob[h])] > 0
  /\ free' = [free EXCEPT ![PoolOf(hjob[h])] = @ - 1]
  /\ HandlerTo(h, "witness", hjob[h])
  /\ UNCHANGED <<mainVars, faultVars, feedVars, workerVars, deviceVars, proofVars,
                 pending, witnessRx>>

(* Mutant of Increment: the new witness is not counted.                     *)
IncrementForgotten(h) ==
  /\ hpc[h] = "witness"
  /\ HandlerTo(h, "send", hjob[h])
  /\ UNCHANGED <<mainVars, faultVars, feedVars, workerVars, deviceVars, proofVars,
                 pending, witnessRx, free>>

(* The witness is there: first the counter, then the channel.               *)
Increment(h) ==
  /\ hpc[h] = "witness"
  /\ pending' = pending + 1
  /\ HandlerTo(h, "send", hjob[h])
  /\ UNCHANGED <<mainVars, faultVars, feedVars, workerVars, deviceVars, proofVars,
                 witnessRx, free>>

(* The witness cannot be generated: the buffer taken for it is lost.        *)
FailRecursiveWitness(h) ==
  /\ "Witness" \in Faults
  /\ hpc[h] \in {"buffer", "witness"}
  /\ cancelled' = TRUE
  /\ HandlerTo(h, "exit", None)
  /\ UNCHANGED <<mainVars, feedVars, workerVars, deviceVars, proofVars, pending,
                 witnessRx, free>>

Send(h) ==
  /\ hpc[h] = "send"
  /\ witnessRx' = witnessRx \cup {hjob[h]}
  /\ HandlerTo(h, "decrement", None)
  /\ UNCHANGED <<mainVars, faultVars, feedVars, workerVars, deviceVars, proofVars,
                 pending, free>>

Decrement(h) ==
  /\ hpc[h] = "decrement"
  /\ pending' = pending - 1
  /\ HandlerTo(h, "recv", None)
  /\ UNCHANGED <<mainVars, faultVars, feedVars, workerVars, deviceVars, proofVars,
                 witnessRx, free>>

-----------------------------------------------------------------------------
(* A worker.                                                                *)

WorkerTo(s, pc, job) ==
  /\ spc' = [spc EXCEPT ![s] = pc]
  /\ sjob' = [sjob EXCEPT ![s] = job]

(* proofs_rx.try_recv: an instance to prove, or to drop once cancelled.     *)
PollProofs(s, i) ==
  /\ spc[s] = "poll"
  /\ s \notin RecursiveStreams
  /\ proofsRx' = proofsRx \ {i}
  /\ IF cancelled
     THEN traces' = traces \ {i} /\ UNCHANGED workerVars
     ELSE WorkerTo(s, "basic", Proof("Basic", i)) /\ UNCHANGED traces
  /\ UNCHANGED <<mainVars, faultVars, toCalculate, handlerVars, deviceVars, proofVars,
                 pending, witnessRx, free>>

(* Nothing to prove from scratch: stop if cancelled, else look for witnesses. *)
PollWitness(s) ==
  /\ spc[s] = "poll"
  /\ s \in RecursiveStreams \/ proofsRx = {}
  /\ WorkerTo(s, IF cancelled THEN "exit" ELSE "select", None)
  /\ UNCHANGED <<mainVars, faultVars, feedVars, handlerVars, deviceVars, proofVars,
                 pending, witnessRx, free>>

(* gen_proof, then free_instance.                                           *)
ProveBasic(s) ==
  /\ spc[s] = "basic"
  /\ slots' = slots \cup {sjob[s]}
  /\ Submit(Done(sjob[s]))
  /\ traces' = traces \ {sjob[s].id}
  /\ WorkerTo(s, "poll", None)
  /\ UNCHANGED <<mainVars, faultVars, toCalculate, proofsRx, handlerVars, ongoing, pool,
                 pending, witnessRx, free>>

(* Mutant of Selectable: no worker receives from the compressor channel.    *)
SelectableUncompressed(s) == {w \in witnessRx : w.type # "Compressor"}

(* A recursive-only stream never takes a compressor witness.                *)
Selectable(s) ==
  {w \in witnessRx : s \in RecursiveStreams => w.type # "Compressor"}

Select(s, w) ==
  /\ spc[s] = "select"
  /\ w \in Selectable(s)
  /\ witnessRx' = witnessRx \ {w}
  /\ WorkerTo(s, IF w.type = "Recursive2" THEN "register" ELSE "store", w)
  /\ UNCHANGED <<mainVars, faultVars, feedVars, handlerVars, deviceVars, proofVars,
                 pending, free>>

(* The 1 ms default of select!                                              *)
SelectDefault(s) ==
  /\ spc[s] = "select"
  /\ Selectable(s) = {}
  /\ WorkerTo(s, IF finished THEN "exit" ELSE "poll", None)
  /\ UNCHANGED <<mainVars, faultVars, feedVars, handlerVars, deviceVars, proofVars,
                 pending, witnessRx, free>>

(* Mutant of Register: global_idx of the witness is not set.                *)
RegisterAnonymous(s) ==
  /\ spc[s] = "register"
  /\ OngoingUnlocked
  /\ ongoing' = Append(ongoing, None)
  /\ WorkerTo(s, "store", sjob[s])
  /\ UNCHANGED <<mainVars, faultVars, feedVars, handlerVars, deviceVars, slots, pool,
                 pending, witnessRx, free>>

(* Mutant of Register: an empty position is used again, although one that   *)
(* another worker has registered is empty until it stores its proof.        *)
RegisterReusing(s) ==
  /\ spc[s] = "register"
  /\ OngoingUnlocked
  /\ LET empty == {k \in DOMAIN ongoing : ongoing[k] = None}
     IN  IF empty = {}
         THEN /\ ongoing' = Append(ongoing, None)
              /\ WorkerTo(s, "store", [sjob[s] EXCEPT !.id = Len(ongoing) + 1])
         ELSE /\ \E k \in empty : WorkerTo(s, "store", [sjob[s] EXCEPT !.id = k])
              /\ UNCHANGED ongoing
  /\ UNCHANGED <<mainVars, faultVars, feedVars, handlerVars, deviceVars, slots, pool,
                 pending, witnessRx, free>>

(* A recursive2 proof gets the next position of recursive2_proofs_ongoing.  *)
Register(s) ==
  /\ spc[s] = "register"
  /\ OngoingUnlocked
  /\ ongoing' = Append(ongoing, None)
  /\ WorkerTo(s, "store", [sjob[s] EXCEPT !.id = Len(ongoing) + 1])
  /\ UNCHANGED <<mainVars, faultVars, feedVars, handlerVars, deviceVars, slots, pool,
                 pending, witnessRx, free>>

(* The proof to be filled in goes to its slot before it is computed.        *)
Store(s) ==
  /\ spc[s] = "store"
  /\ IF sjob[s].type = "Recursive2"
     THEN /\ OngoingUnlocked
          /\ ongoing' = [ongoing EXCEPT ![sjob[s].id] = sjob[s]]
          /\ UNCHANGED slots
     ELSE slots' = slots \cup {sjob[s]} /\ UNCHANGED ongoing
  /\ WorkerTo(s, "commit", sjob[s])
  /\ UNCHANGED <<mainVars, faultVars, feedVars, handlerVars, deviceVars, pool, pending,
                 witnessRx, free>>

(* Mutant of Commit: the buffer of the witness is not given back.           *)
CommitKeepingBuffer(s) ==
  /\ spc[s] = "commit"
  /\ WorkerTo(s, "prove", sjob[s])
  /\ UNCHANGED <<mainVars, faultVars, feedVars, handlerVars, deviceVars, proofVars,
                 pending, witnessRx, free>>

(* The trace is built from the witness, whose buffer is given back.         *)
Commit(s) ==
  /\ spc[s] = "commit"
  /\ free' = [free EXCEPT ![PoolOf(sjob[s])] = @ + 1]
  /\ WorkerTo(s, "prove", sjob[s])
  /\ UNCHANGED <<mainVars, faultVars, feedVars, handlerVars, deviceVars, proofVars,
                 pending, witnessRx>>

ProveRecursive(s) ==
  /\ spc[s] = "prove"
  /\ Submit(Done(sjob[s]))
  /\ WorkerTo(s, "poll", None)
  /\ UNCHANGED <<mainVars, faultVars, feedVars, handlerVars, proofVars, pending,
                 witnessRx, free>>

(* A worker fails: what it held, a witness buffer perhaps, is dropped.      *)
FailWorker(s) ==
  /\ "Prove" \in Faults
  /\ spc[s] \in {"basic", "store", "commit"}
  /\ cancelled' = TRUE
  /\ WorkerTo(s, "exit", None)
  /\ UNCHANGED <<mainVars, feedVars, handlerVars, deviceVars, proofVars, pending,
                 witnessRx, free>>

-----------------------------------------------------------------------------
(* The user, another process or a timed-out wait cancels the call.          *)
Cancel ==
  /\ "Cancel" \in Faults
  /\ ~cancelled
  /\ mpc \notin {"done", "failed"}
  /\ cancelled' = TRUE
  /\ UNCHANGED <<mainVars, feedVars, handlerVars, workerVars, deviceVars, proofVars,
                 pending, witnessRx, free>>

Fault ==
  \/ Cancel
  \/ FailPrecalculate
  \/ \E i \in toFeed : FailResident(i)
  \/ \E i \in toCalculate : FailWitness(i)
  \/ \E s \in Streams : FailRecursiveWitness(s) \/ FailWorker(s)

Main ==
  \/ Start
  \/ \E i \in toFeed : ProveResident(i) \/ Feed(i)
  \/ StartWorkers
  \/ EndFeed
  \/ \E i \in toCalculate : ComputeWitness(i)
  \/ EndWitness
  \/ WaitZero
  \/ Dismiss
  \/ Join
  \/ Succeed
  \/ FailCancelled
  \/ Unwind
  \/ UnwindJoin

Handler(h) ==
  \/ Receive(h)
  \/ TakeProof(h)
  \/ TakeRecursive1(h)
  \/ TakeRecursive2(h)
  \/ TakeBuffer(h)
  \/ Increment(h)
  \/ Send(h)
  \/ Decrement(h)

Worker(s) ==
  \/ \E i \in proofsRx : PollProofs(s, i)
  \/ PollWitness(s)
  \/ ProveBasic(s)
  \/ \E w \in witnessRx : Select(s, w)
  \/ SelectDefault(s)
  \/ Register(s)
  \/ Store(s)
  \/ Commit(s)
  \/ ProveRecursive(s)

Device == \E m \in inFlight : StreamDone(m)

(* The last call of the model has returned: nothing happens any more.       *)
Returned ==
  /\ mpc \in {"done", "failed"}
  /\ run = MaxRuns
  /\ UNCHANGED vars

Next ==
  \/ Main
  \/ \E s \in Streams : Handler(s) \/ Worker(s)
  \/ Device
  \/ Fault
  \/ Restart
  \/ Returned

(* Threads are scheduled and device streams finish; nothing makes a fault   *)
(* happen or a caller call again.                                           *)
Fairness ==
  /\ WF_vars(Main)
  /\ WF_vars(Device)
  /\ \A s \in Streams : WF_vars(Handler(s)) /\ WF_vars(Worker(s))

Spec == Init /\ [][Next]_vars

FairSpec == Spec /\ Fairness

-----------------------------------------------------------------------------
(* Properties                                                               *)

MainTypes ==
  /\ mpc \in {"start", "resident", "feed", "witness", "wait", "collect", "join",
              "check", "done", "failed", "unwind", "unwindJoin"}
  /\ run \in 1 .. MaxRuns
  /\ aggregate \in BOOLEAN /\ cancelled \in BOOLEAN
  /\ callback \in BOOLEAN /\ finished \in BOOLEAN
  /\ pending \in Int

FeedTypes ==
  /\ toFeed \subseteq Instances /\ toCalculate \subseteq Instances
  /\ traces \subseteq Instances /\ proofsRx \subseteq Instances

ChannelTypes ==
  /\ witnessRx \subseteq Work
  /\ recursiveRx \in Seq(Message) /\ inFlight \subseteq Message
  /\ free \in [Pools -> Nat]

StoreTypes ==
  /\ slots \subseteq ChainWork
  /\ ongoing \in Seq(Work \cup {None})
  /\ pool \in [Airgroups -> SUBSET SUBSET Instances]

HandlerTypes ==
  /\ hpc \in [Streams -> {"recv", "take", "buffer", "witness", "send", "decrement",
                          "exit"}]
  /\ hjob \in [Streams -> Message \cup Work \cup {None}]
  /\ \A h \in Streams :
       /\ hpc[h] = "take" => hjob[h] \in Message
       /\ hpc[h] \in {"buffer", "witness", "send"} => hjob[h] \in Work

WorkerTypes ==
  /\ spc \in [Streams -> {"poll", "basic", "select", "register", "store", "commit",
                          "prove", "exit"}]
  /\ sjob \in [Streams -> Work \cup {None}]
  /\ \A s \in Streams :
       /\ spc[s] = "basic" => sjob[s] \in ChainWork
       /\ spc[s] = "register" => sjob[s] \in MergeWork
       /\ spc[s] \in {"store", "commit", "prove"} => sjob[s] \in Work
       /\ spc[s] \in {"store", "commit", "prove"} => sjob[s].id \in Nat

TypeOK ==
  /\ MainTypes
  /\ FeedTypes
  /\ ChannelTypes
  /\ StoreTypes
  /\ HandlerTypes
  /\ WorkerTypes

(* The messages the handlers have yet to answer.                            *)
Announced ==
  inFlight
  \cup {recursiveRx[k] : k \in {j \in DOMAIN recursiveRx : recursiveRx[j] # Sentinel}}
  \cup {hjob[h] : h \in {g \in Streams : hpc[g] = "take"}}

(* `take().unwrap()` of the handlers never meets an empty slot: a proof is  *)
(* where its message says, until the one handler that got the message takes *)
(* it.  Positions of recursive2_proofs_ongoing are handed out by several    *)
(* workers, filled by others and emptied by the handlers meanwhile.         *)
AnnouncedProofPresent ==
  mpc # "start" =>
    \A m \in Announced :
      IF m.type = "Recursive2"
      THEN m.id \in DOMAIN ongoing /\ ongoing[m.id] # None
      ELSE \E p \in slots : Done(p) = m

WorkingHandlers == {h \in Streams : hpc[h] \notin {"recv", "exit"}}

WorkingWorkers == {s \in Streams : spc[s] \notin {"poll", "select", "exit"}}

(* proofs_pending never reads zero while something is left to do, and never *)
(* stays above zero when nothing is: it counts every instance fed, every    *)
(* proof being made or announced and every witness queued.  A witness is    *)
(* counted twice from the moment its handler increments to the moment it    *)
(* decrements for the message it answers.                                   *)
PendingAccounts ==
  ~cancelled /\ mpc \in {"resident", "feed", "witness", "wait", "collect", "join",
                         "check", "done"} =>
    pending =
      Cardinality(toCalculate) + Cardinality(proofsRx) + Cardinality(witnessRx)
      + Cardinality(inFlight)
      + Cardinality({k \in DOMAIN recursiveRx : recursiveRx[k] # Sentinel})
      + Cardinality(WorkingWorkers) + Cardinality(WorkingHandlers)
      + Cardinality({h \in Streams : hpc[h] = "send"})

(* When the main thread dismisses the workers of a call that was not        *)
(* cancelled, there is nothing left they could do: no sentinel overtakes a  *)
(* callback and no callback comes after the callback is cleared.            *)
NothingAfterDismissal ==
  ~cancelled /\ mpc \in {"join", "check", "done"} =>
    /\ toFeed = {} /\ toCalculate = {} /\ proofsRx = {} /\ witnessRx = {}
    /\ Announced = {}
    /\ WorkingHandlers = {} /\ WorkingWorkers = {}

(* What a successful call hands on to the outer aggregation: one recursive2 *)
(* proof per airgroup that covers all its instances and no other proof, or, *)
(* without aggregation, the basic proof of every instance.  Every trace has *)
(* been freed.                                                              *)
ResultComplete ==
  mpc = "done" =>
    /\ IF aggregate
       THEN /\ \A a \in Airgroups : pool[a] = {LeavesOf(a)}
            /\ slots = {}
            /\ \A k \in DOMAIN ongoing : ongoing[k] = None
       ELSE slots = {Proof("Basic", i) : i \in Instances}
    /\ traces = {}

(* gen_proof reads a trace that is still there: no other path proved or     *)
(* freed the instance first.                                                *)
ProvedFromTrace ==
  /\ proofsRx \subseteq traces
  /\ \A s \in Streams : spc[s] = "basic" => sjob[s].id \in traces

Held(p) ==
  {w \in witnessRx : PoolOf(w) = p}
  \cup {hjob[h] : h \in {g \in Streams : hpc[g] \in {"witness", "send"}
                                          /\ PoolOf(hjob[g]) = p}}
  \cup {sjob[s] : s \in {t \in Streams : spc[t] \in {"register", "store", "commit"}
                                          /\ PoolOf(sjob[t]) = p}}

(* A witness buffer is free or travels with one witness, so giving one back *)
(* never blocks on a full pool; during the first call, until it is          *)
(* cancelled, none gets lost.                                               *)
BuffersConserved ==
  \A p \in Pools :
    /\ free[p] + Cardinality(Held(p)) <= Buffers[p]
    /\ run = 1 /\ ~cancelled => free[p] + Cardinality(Held(p)) = Buffers[p]

(* A position of recursive2_proofs_ongoing holds one proof, once: what is   *)
(* stored there is taken out before anything else could be stored, because  *)
(* positions are never handed out again within a call.                      *)
OngoingStep(k) ==
  \/ ongoing'[k] = ongoing[k]
  \/ ongoing[k] = None /\ Done(ongoing'[k]) \notin Announced
  \/ ongoing'[k] = None /\ Done(ongoing[k]) \in Announced

OngoingSlotsNotShared ==
  [][mpc' # "failed" /\ mpc' # "start" =>
       /\ Len(ongoing') >= Len(ongoing)
       /\ \A k \in DOMAIN ongoing : OngoingStep(k)]_vars

Failing == cancelled \/ mpc \in {"unwind", "unwindJoin", "failed"}

(* Who can go on, by the guards of the actions.  A worker that looks for a  *)
(* witness where there is none only goes around: that does not count.       *)
MainGoesOn ==
  \/ mpc \in {"start", "resident", "feed", "witness", "check", "unwind"}
  \/ mpc = "wait" /\ (pending = 0 \/ cancelled)
  \/ mpc = "collect" /\ (inFlight = {} \/ cancelled)
  \/ mpc \in {"join", "unwindJoin"} /\ AllExited

DeviceGoesOn ==
  /\ inFlight # {}
  /\ \/ mpc \in {"witness", "wait", "collect"}
     \/ \E s \in Streams : spc[s] \in {"basic", "prove"}

TakeGoesOn(m) ==
  IF m.type = "Recursive2"
  THEN OngoingUnlocked /\ m.id \in DOMAIN ongoing /\ ongoing[m.id] # None
  ELSE \E p \in slots : Done(p) = m

HandlerGoesOn(h) ==
  \/ hpc[h] = "recv" /\ recursiveRx # <<>>
  \/ hpc[h] = "take" /\ TakeGoesOn(hjob[h])
  \/ hpc[h] = "buffer" /\ free[PoolOf(hjob[h])] > 0
  \/ hpc[h] \in {"witness", "send", "decrement"}

WorkerGoesOn(s) ==
  \/ /\ spc[s] \in {"poll", "select"}
     /\ \/ cancelled \/ finished \/ Selectable(s) # {}
        \/ s \notin RecursiveStreams /\ proofsRx # {}
  \/ spc[s] \in {"basic", "prove"} /\ (Gpu => Cardinality(inFlight) < Cardinality(Streams))
  \/ spc[s] = "register" /\ OngoingUnlocked
  \/ spc[s] = "store" /\ (sjob[s].type = "Recursive2" => OngoingUnlocked)
  \/ spc[s] = "commit"

(* The two ways in which the threads of a call may stop for good: a handler *)
(* waits for a witness buffer after a cancellation, of this call or of one  *)
(* before, has lost some; or `?` left the call and nobody tells the workers *)
(* that the proofs are finished.                                            *)
Starved ==
  /\ cancelled \/ run > 1
  /\ \E h \in Streams : hpc[h] = "buffer" /\ ~(free[PoolOf(hjob[h])] > 0)

Abandoned ==
  mpc = "unwindJoin" /\ ~cancelled /\ \E s \in Streams : spc[s] \in {"poll", "select"}

(* In all other states of a call somebody can go on: the handlers wait for  *)
(* witness buffers that only workers give back and for sentinels, the       *)
(* workers for a device stream that somebody must collect, both for the     *)
(* lock of recursive2_proofs_ongoing, and the main thread for all of them   *)
(* and for the counter to reach zero.                                       *)
NeverStuck ==
  mpc \in {"done", "failed"}
  \/ MainGoesOn \/ DeviceGoesOn
  \/ (\E s \in Streams : HandlerGoesOn(s) \/ WorkerGoesOn(s))
  \/ Starved \/ Abandoned

(* A call in which nothing fails returns its proofs: no handler waits       *)
(* forever for a buffer, a lock or a message, and every worker is           *)
(* dismissed.                                                               *)
Completes == <>(mpc = "done" \/ Failing)

(* A cancelled call returns, so that `computing` is released and            *)
(* wait_until_proofman_ready returns ("Block until any in-flight            *)
(* proof-generation call has returned").                                    *)
CancelReturns == cancelled ~> (mpc \in {"done", "failed"})

(* A call that leaves early with an error returns, for the same reason.     *)
ErrorReturns == (mpc = "unwind") ~> (mpc = "failed")

(* A call starts with every buffer in its pool: the clean-up of the call    *)
(* before "put back" what that one held, "otherwise the pool capacity       *)
(* shrinks" (ProofMan::reset).                                              *)
CallsStartWhole == mpc = "start" => free = Buffers

-----------------------------------------------------------------------------
(* The merges are those of Aggregation: the proofs of an airgroup are those *)
(* in its pool, those a recursive2 witness or proof stands for, and those   *)
(* of the instances that did not get that far.                              *)

Merged(a) ==
  {w.leaves : w \in
     {v \in witnessRx
            \cup {hjob[h] : h \in {g \in Streams : hpc[g] \in {"buffer", "witness", "send"}}}
            \cup {sjob[s] : s \in {t \in Streams : spc[t] \notin {"poll", "select", "exit"}}}
            \cup {ongoing[k] : k \in {j \in DOMAIN ongoing : ongoing[j] # None}} :
        v.type = "Recursive2" /\ v.airgroup = a}}

Pieces(a) ==
  IF aggregate /\ mpc # "start"
  THEN LET joined == pool[a] \cup Merged(a)
       IN  joined \cup {{i} : i \in LeavesOf(a) \ UNION joined}
  ELSE {{i} : i \in LeavesOf(a)} \cup Padding(a)

Abstract == INSTANCE Aggregation
              WITH Leaves <- Instances, pieces <- [a \in Airgroups |-> Pieces(a)]

(* Whatever the threads do, an airgroup sees only merges of three of its    *)
(* proofs into one; with ResultComplete, every call ends where these end.   *)
ImplementsAggregation == Abstract!Spec

=============================================================================
