--------------------------- MODULE DeviceStreams ---------------------------
(***************************************************************************)
(* The stream scheduler of the CUDA backend (starks_api.cu): the threads   *)
(* of a proof share the device streams, each with a buffer for one job.    *)
(* selectStream locks every free stream it meets, reserves one of them and *)
(* collects what its last job left; the job is described, uploaded and     *)
(* launched without the lock, and its result is collected by whoever finds *)
(* its event done.  The contributions phase leaves the traces in the       *)
(* buffers, and the internal phase proves those resident traces in place.  *)
(* An external program may borrow the buffer of the first GPU.             *)
(***************************************************************************)
EXTENDS Naturals, Sequences, FiniteSets, FiniteSetsExt

CONSTANTS
  Streams,          \* the device streams, numbered as in streamsData
  GpuOf,            \* the GPU of each stream
  FirstGpu,         \* my_gpu_ids[0]
  RecursiveStreams, \* the streams of the aggregation buffers
  Threads,          \* the workers that submit jobs
  Instances,        \* the AIR instances to prove
  AirOf,            \* the AIR of each instance
  Forced,           \* the workers that pass force_recursive_stream
  Setups,           \* the deployments to check, see SetupsAssumption
  MaxRuns,          \* bound: calls of generate_proof
  MaxBorrows,       \* bound: times the first GPU is borrowed
  None              \* a null pointer, and the instance -1

ASSUME StreamsAssumption ==
  /\ Streams \subseteq Nat /\ IsFiniteSet(Streams)
  /\ RecursiveStreams \subseteq Streams

(* A deployment has a stream for the proofs and a worker that may take any *)
(* job (proof_ctx.rs refuses less than one per GPU), and streams for the   *)
(* workers that only aggregate, which are counted with them.               *)
ASSUME ClassesAssumption ==
  /\ Streams \ RecursiveStreams # {} /\ Threads \ Forced # {}
  /\ Forced # {} => RecursiveStreams # {}

(* stored: the constant trees are kept on the device (stored_tree);        *)
(* cancels: calls may be cancelled; asks: when the borrower may come;      *)
(* runs: how many calls are made; insts: the instances of each call.       *)
ASSUME SetupsAssumption ==
  Setups \subseteq [stored : BOOLEAN, cancels : BOOLEAN,
                   runs : 1 .. MaxRuns,
                   insts : SUBSET Instances, asks : SUBSET {"commit", "prove"}]

VARIABLES
  setup,      \* the deployment, chosen once
  run,        \* number of the current call
  phase,      \* what the calling thread is doing
  cancelled,  \* the cancellation token
  todo,       \* jobs waiting for a worker
  left,       \* streams a pass of the calling thread has still to visit
  lock,       \* owner of mutex_stream_selection
  status,     \* 0 unused, 1 loading, 2 full, 3 collected
  sink,       \* which of root and proofBuffer is not null
  job,        \* instanceId, airgroupId, airId and proofType
  recorded,   \* whether end_event was recorded since it was created
  running,    \* the job whose kernels the stream is executing
  buffer,     \* what the device buffer holds: a trace and a constant tree
  pinned,     \* what pinned_buffer_proof holds
  pc, mine, at, scan, saw, reuse,   \* locals of the workers
  delivered,  \* results copied out, per job
  announced,  \* calls of proof_done_callback, per job
  borrowed, borrower, drain, borrows

main  == <<setup, run, phase, cancelled, todo, left>>
cards == <<lock, status, sink, job, recorded, running, buffer, pinned>>
work  == <<pc, mine, at, scan, saw, reuse>>
out   == <<delivered, announced>>
loan  == <<borrowed, borrower, drain, borrows>>
vars  == <<main, cards, work, out, loan>>

Kinds == {"witness", "basic", "recursive1"}
Jobs  == [run : 1 .. MaxRuns, kind : Kinds, inst : Instances]
Job(k, i) == [run |-> run, kind |-> k, inst |-> i]
Tree(j) == <<j.kind, AirOf[j.inst]>>

(* The names of the model are different from each other.                   *)
ASSUME NamesAssumption ==
  /\ MaxRuns \in Nat /\ MaxBorrows \in Nat
  /\ None \notin Streams /\ None \notin Jobs /\ None \notin Threads
  /\ None \notin {"root", "proof", "borrower"} /\ "borrower" \notin Threads

-----------------------------------------------------------------------------
(* cudaEventQuery succeeds on an event that was never recorded.            *)
EventDone(s) == ~recorded[s] \/ running[s] = None

(* Mutant of Free: a stream that is being loaded, event not recorded yet.  *)
FreeByEvent(s) == status[s] # 2 \/ EventDone(s)

Free(s) == status[s] \in {0, 3} \/ (status[s] = 2 /\ EventDone(s))

OnFirst(s) == GpuOf[s] = FirstGpu

Held(t) == {s \in Streams : lock[s] = t}

(* The trace a job works on: an instance is committed and proved from the  *)
(* same one, an aggregation has its own.                                   *)
TraceOf(j) == [run |-> j.run, aggregated |-> j.kind = "recursive1", inst |-> j.inst]

(* What a job yields when nothing but the job touched the buffer.          *)
Result(j) == [job |-> j, trace |-> TraceOf(j),
              tree |-> IF j.kind = "witness" THEN None ELSE Tree(j)]

(* An aggregation job exists once the proof it starts from was announced.  *)
Ready(j) == j.kind = "recursive1" => announced[Job("basic", j.inst)] > 0

(* get_commit_root and get_proof: the result goes to its host buffer, and  *)
(* the callback, when one is registered, is called.                        *)
Collect(s) ==
  IF sink[s] = None
  THEN UNCHANGED out
  ELSE /\ delivered' = [delivered EXCEPT ![job[s]] = Append(@, pinned[s])]
       /\ announced' = IF phase \in {"resident", "prove", "collect"}
                       THEN [announced EXCEPT ![job[s]] = @ + 1]
                       ELSE announced

(* StreamData::reset creates a new event and forgets the pointers, and     *)
(* keeps what describes the last job.                                      *)
ResetTo(s, st) ==
  /\ status' = [status EXCEPT ![s] = st]
  /\ sink' = [sink EXCEPT ![s] = None]
  /\ recorded' = [recorded EXCEPT ![s] = FALSE]

Finish(s) ==
  IF status[s] = 2 /\ EventDone(s) THEN Collect(s) ELSE UNCHANGED out

-----------------------------------------------------------------------------
(* A worker takes a job: commit_witness_gpu in the contributions phase,    *)
(* gen_proof_gpu and gen_recursive_proof_gpu in the internal one.          *)
IsRecursive(t) == mine[t].kind = "recursive1"

TakeJob(t) ==
  /\ pc[t] = "idle" /\ phase \in {"commit", "prove"} /\ ~cancelled
  /\ \E j \in todo :
       /\ Ready(j) /\ (t \in Forced /\ phase = "prove" => j.kind = "recursive1")
       /\ mine' = [mine EXCEPT ![t] = j]
       /\ todo' = todo \ {j}
  /\ pc' = [pc EXCEPT ![t] = "select"]
  /\ UNCHANGED <<setup, run, phase, cancelled, left, cards, at, scan, saw, reuse, out, loan>>

(* One turn of the loop of selectStream: the flag is read again.           *)
BeginScan(t) ==
  /\ pc[t] = "select"
  /\ saw' = [saw EXCEPT ![t] = borrowed]
  /\ scan' = [scan EXCEPT ![t] =
                IF IsRecursive(t) THEN RecursiveStreams
                                  ELSE Streams \ RecursiveStreams]
  /\ pc' = [pc EXCEPT ![t] = IF IsRecursive(t) THEN "recursive" ELSE "plain"]
  /\ UNCHANGED <<main, cards, mine, at, reuse, out, loan>>

(* Mutant of TryStream: the loan is not looked at again under the lock.    *)
TryStreamUnchecked(t) ==
  /\ pc[t] \in {"recursive", "plain"} /\ scan[t] # {}
  /\ LET s == Min(scan[t]) IN
       /\ scan' = [scan EXCEPT ![t] = @ \ {s}]
       /\ lock' = IF lock[s] = None /\ Free(s) /\ (OnFirst(s) => ~saw[t])
                  THEN [lock EXCEPT ![s] = t] ELSE lock
  /\ UNCHANGED <<main, status, sink, job, recorded, running, buffer, pinned,
                 pc, mine, at, saw, reuse, out, loan>>

(* Streams are tried in order; a free one stays locked.                    *)
TryStream(t) ==
  /\ pc[t] \in {"recursive", "plain"} /\ scan[t] # {}
  /\ LET s == Min(scan[t]) IN
       /\ scan' = [scan EXCEPT ![t] = @ \ {s}]
       /\ lock' = IF /\ lock[s] = None /\ Free(s)
                     /\ OnFirst(s) => ~saw[t] /\ ~borrowed
                  THEN [lock EXCEPT ![s] = t] ELSE lock
  /\ UNCHANGED <<main, status, sink, job, recorded, running, buffer, pinned,
                 pc, mine, at, saw, reuse, out, loan>>

(* Nothing free: an aggregation job that is not forced to the recursive    *)
(* streams tries the others, and otherwise the loop starts again.          *)
NothingFree(t) ==
  /\ pc[t] \in {"recursive", "plain"} /\ scan[t] = {} /\ Held(t) = {}
  /\ IF pc[t] = "recursive" /\ t \notin Forced
     THEN /\ pc' = [pc EXCEPT ![t] = "plain"]
          /\ scan' = [scan EXCEPT ![t] = Streams \ RecursiveStreams]
     ELSE /\ pc' = [pc EXCEPT ![t] = "select"]
          /\ UNCHANGED scan
  /\ UNCHANGED <<main, cards, mine, at, saw, reuse, out, loan>>

(* The streams the choice over the GPUs may return.  A tie between GPUs is *)
(* decided by a count read at the index of a stream, so any way.           *)
Preferred(H) ==
  LET On(g) == {s \in H : GpuOf[s] = g}
      Most  == Max({Cardinality(On(GpuOf[s])) : s \in H})
      Pick(g) == LET unused == {s \in On(g) : status[s] = 0} IN
                 IF unused = {} THEN Min(On(g)) ELSE Max(unused)
  IN {Pick(g) : g \in {GpuOf[s] : s \in {x \in H : Cardinality(On(GpuOf[x])) = Most}}}

(* The end of selectStream: the others are unlocked, reserveStream         *)
(* collects what the chosen one holds and marks it loading.                *)
Reserve(t) ==
  /\ pc[t] \in {"recursive", "plain"} /\ scan[t] = {} /\ Held(t) # {}
  /\ \E s \in Preferred(Held(t)) :
       /\ Finish(s)
       /\ ResetTo(s, 1)
       /\ at' = [at EXCEPT ![t] = s]
  /\ lock' = [s \in Streams |-> IF lock[s] = t THEN None ELSE lock[s]]
  /\ pc' = [pc EXCEPT ![t] = "describe"]
  /\ saw' = [saw EXCEPT ![t] = FALSE]
  /\ UNCHANGED <<main, job, running, buffer, pinned, mine, scan, reuse, loan>>

(* gen_proof_gpu with skipRecalculation: the stream that holds the trace   *)
(* is reserved, without its lock and without a look at the loan.           *)
TakeResident(t) ==
  /\ phase = "resident" /\ pc[t] = "idle" /\ ~cancelled
  /\ \E s \in left :
       /\ left' = left \ {s}
       /\ mine' = [mine EXCEPT ![t] = Job("basic", job[s].inst)]
       /\ at' = [at EXCEPT ![t] = s]
       /\ Finish(s)
       /\ ResetTo(s, 1)
  /\ pc' = [pc EXCEPT ![t] = "describe"]
  /\ UNCHANGED <<setup, run, phase, cancelled, todo, lock, job, running, buffer,
                 pinned, scan, saw, reuse, loan>>

(* Mutant of Describe: the kind of proof of the last job is not compared.  *)
DescribeSameAir(t) ==
  /\ pc[t] = "describe"
  /\ LET s == at[t] IN
       /\ reuse' = [reuse EXCEPT ![t] =
            ~setup.stored /\ job[s] # None /\ AirOf[job[s].inst] = AirOf[mine[t].inst]]
       /\ job' = [job EXCEPT ![s] = mine[t]]
       /\ sink' = [sink EXCEPT ![s] = IF mine[t].kind = "witness" THEN "root" ELSE "proof"]
  /\ pc' = [pc EXCEPT ![t] = "launch"]
  /\ UNCHANGED <<main, lock, status, recorded, running, buffer, pinned,
                 mine, at, scan, saw, out, loan>>

(* The fields the callback will need; whether the constant tree of the     *)
(* last job can be used again is decided on the old ones.                  *)
Describe(t) ==
  /\ pc[t] = "describe"
  /\ LET s == at[t] IN
       /\ reuse' = [reuse EXCEPT ![t] =
            ~setup.stored /\ job[s] # None /\ Tree(job[s]) = Tree(mine[t])]
       /\ job' = [job EXCEPT ![s] = mine[t]]
       /\ sink' = [sink EXCEPT ![s] = IF mine[t].kind = "witness" THEN "root" ELSE "proof"]
  /\ pc' = [pc EXCEPT ![t] = "launch"]
  /\ UNCHANGED <<main, lock, status, recorded, running, buffer, pinned,
                 mine, at, scan, saw, out, loan>>

(* The copy to the device waits for the stream; then the kernels are       *)
(* queued and the event recorded.                                          *)
Launch(t) ==
  /\ pc[t] = "launch" /\ running[at[t]] = None
  /\ LET s == at[t]  j == mine[t] IN
       /\ buffer' = [buffer EXCEPT ![s] =
            [trace |-> IF phase = "resident" THEN @.trace ELSE TraceOf(j),
             tree  |-> IF j.kind = "witness" THEN None
                       ELSE IF reuse[t] THEN @.tree ELSE Tree(j)]]
       /\ running' = [running EXCEPT ![s] = j]
       /\ recorded' = [recorded EXCEPT ![s] = TRUE]
  /\ pc' = [pc EXCEPT ![t] = "publish"]
  /\ UNCHANGED <<main, lock, status, sink, job, pinned, mine, at, scan, saw, reuse, out, loan>>

(* Mutant of Publish: the stream stays with the worker.                    *)
PublishKeeping(t) ==
  /\ pc[t] = "publish"
  /\ status' = [status EXCEPT ![at[t]] = 2]
  /\ pc' = [pc EXCEPT ![t] = "idle"]
  /\ mine' = [mine EXCEPT ![t] = None]
  /\ reuse' = [reuse EXCEPT ![t] = FALSE]
  /\ UNCHANGED <<main, lock, sink, job, recorded, running, buffer, pinned,
                 at, scan, saw, out, loan>>

Publish(t) ==
  /\ pc[t] = "publish"
  /\ status' = [status EXCEPT ![at[t]] = 2]
  /\ pc' = [pc EXCEPT ![t] = "idle"]
  /\ mine' = [mine EXCEPT ![t] = None]
  /\ at' = [at EXCEPT ![t] = None]
  /\ reuse' = [reuse EXCEPT ![t] = FALSE]
  /\ UNCHANGED <<main, lock, sink, job, recorded, running, buffer, pinned,
                 scan, saw, out, loan>>

(* The device finishes the kernels of a stream.                            *)
Complete(s) ==
  /\ running[s] # None
  /\ pinned' = [pinned EXCEPT ![s] =
       [job |-> running[s], trace |-> buffer[s].trace, tree |-> buffer[s].tree]]
  /\ running' = [running EXCEPT ![s] = None]
  /\ UNCHANGED <<main, lock, status, sink, job, recorded, buffer, work, out, loan>>

-----------------------------------------------------------------------------
(* The calling thread.  reset drops what an earlier call left, and the     *)
(* contributions phase commits every instance.                             *)
Working == \E t \in Threads : pc[t] # "idle"

StartRun ==
  /\ phase = "done" /\ run < setup.runs
  /\ run' = run + 1 /\ phase' = "commit" /\ cancelled' = FALSE
  /\ todo' = {[run |-> run + 1, kind |-> "witness", inst |-> i] : i \in setup.insts}
  /\ status' = [s \in Streams |-> 0]
  /\ sink' = [s \in Streams |-> None]
  /\ job' = [s \in Streams |-> None]
  /\ recorded' = [s \in Streams |-> FALSE]
  /\ delivered' = [j \in Jobs |-> <<>>]
  /\ announced' = [j \in Jobs |-> 0]
  /\ UNCHANGED <<setup, left, lock, running, buffer, pinned, work, loan>>

Cancel ==
  /\ setup.cancels /\ ~cancelled /\ phase \in {"commit", "resident", "prove"}
  /\ cancelled' = TRUE
  /\ UNCHANGED <<setup, run, phase, todo, left, cards, work, out, loan>>

(* Mutant of JoinContributions: the roots are not collected.               *)
JoinContributionsOnly ==
  /\ phase = "commit" /\ ~Working /\ (todo = {} \/ cancelled)
  /\ phase' = IF cancelled THEN "done" ELSE "roots"
  /\ todo' = {} /\ left' = {}
  /\ UNCHANGED <<setup, run, cancelled, cards, work, out, loan>>

(* The contribution workers are joined; a cancelled call returns here,     *)
(* before it looks at the streams.                                         *)
JoinContributions ==
  /\ phase = "commit" /\ ~Working /\ (todo = {} \/ cancelled)
  /\ phase' = IF cancelled THEN "done" ELSE "roots"
  /\ todo' = {}
  /\ left' = IF cancelled THEN {} ELSE Streams
  /\ UNCHANGED <<setup, run, cancelled, cards, work, out, loan>>

(* get_stream_proofs_gpu, stream by stream: lock, wait for the stream,     *)
(* collect.  A stream that is still being loaded is not spared.            *)
CollectStream ==
  /\ phase \in {"roots", "collect"} /\ left # {}
  /\ LET s == Min(left) IN
       /\ lock[s] = None
       /\ left' = left \ {s}
       /\ IF status[s] \in {0, 3}
          THEN UNCHANGED <<status, sink, recorded, out>>
          ELSE running[s] = None /\ Collect(s) /\ ResetTo(s, 3)
  /\ UNCHANGED <<setup, run, phase, cancelled, todo, lock, job, running,
                 buffer, pinned, work, loan>>

(* get_instances_ready_gpu: every stream with an instance is taken to hold *)
(* its trace, and the other instances are proved by the workers.           *)
FindResident ==
  /\ phase = "roots" /\ left = {}
  /\ phase' = "resident"
  /\ left' = {s \in Streams : job[s] # None}
  /\ todo' = {Job("basic", i) : i \in setup.insts \ {job[s].inst : s \in left'}}
            \cup {Job("recursive1", i) : i \in setup.insts}
  /\ UNCHANGED <<setup, run, cancelled, cards, work, out, loan>>

JoinResident ==
  /\ phase = "resident" /\ ~Working /\ (left = {} \/ cancelled)
  /\ phase' = "prove" /\ left' = {}
  /\ UNCHANGED <<setup, run, cancelled, todo, cards, work, out, loan>>

(* get_stream_proofs_non_blocking_gpu, between two looks at a counter: in  *)
(* the wait for the witnesses, which lasts as long as they take and may    *)
(* outlive the commitments, and in the wait for the proofs.                *)
Poll(s) ==
  /\ phase \in {"commit", "prove"}
  /\ lock[s] = None /\ status[s] = 2 /\ EventDone(s)
  /\ Collect(s) /\ ResetTo(s, 3)
  /\ UNCHANGED <<main, lock, job, running, buffer, pinned, work, loan>>

Proofs == {Job(k, i) : k \in Kinds \ {"witness"}, i \in setup.insts}

(* wait_until_zero_and_check_streams returns when every proof was          *)
(* announced or the call was cancelled, and the rest is collected.         *)
WaitZero ==
  /\ phase = "prove" /\ (cancelled \/ \A j \in Proofs : announced[j] > 0)
  /\ phase' = "collect" /\ left' = Streams
  /\ todo' = IF cancelled THEN {} ELSE todo
  /\ UNCHANGED <<setup, run, cancelled, cards, work, out, loan>>

(* The callback is cleared, then the workers are joined.                   *)
ClearCallback ==
  /\ phase = "collect" /\ left = {}
  /\ phase' = "join"
  /\ UNCHANGED <<setup, run, cancelled, todo, left, cards, work, out, loan>>

JoinWorkers ==
  /\ phase = "join" /\ ~Working
  /\ phase' = "done"
  /\ UNCHANGED <<setup, run, cancelled, todo, left, cards, work, out, loan>>

-----------------------------------------------------------------------------
(* acquire_first_gpu_buffer_gpu: every lock of the first GPU, the flag,    *)
(* then each stream in turn, again and again, until all are idle.          *)
First == {s \in Streams : OnFirst(s)}

Ask ==
  /\ borrower = "away" /\ borrows < MaxBorrows /\ phase \in setup.asks
  /\ borrower' = "locking" /\ borrows' = borrows + 1
  /\ UNCHANGED <<main, cards, work, out, borrowed, drain>>

LockFirst ==
  /\ borrower = "locking" /\ First \ Held("borrower") # {}
  /\ LET s == Min(First \ Held("borrower")) IN
       /\ lock[s] = None
       /\ lock' = [lock EXCEPT ![s] = "borrower"]
  /\ UNCHANGED <<main, status, sink, job, recorded, running, buffer, pinned,
                 work, out, loan>>

(* Mutant of RaiseFlag: the locks are kept while the streams drain.        *)
RaiseFlagLocked ==
  /\ borrower = "locking" /\ First = Held("borrower")
  /\ borrowed' = TRUE /\ borrower' = "draining" /\ drain' = First
  /\ UNCHANGED <<main, cards, work, out, borrows>>

RaiseFlag ==
  /\ borrower = "locking" /\ First = Held("borrower")
  /\ borrowed' = TRUE /\ borrower' = "draining" /\ drain' = First
  /\ lock' = [s \in Streams |-> IF s \in First THEN None ELSE lock[s]]
  /\ UNCHANGED <<main, status, sink, job, recorded, running, buffer, pinned,
                 work, out, borrows>>

Drain ==
  /\ borrower = "draining" /\ drain # {}
  /\ LET s == Min(drain) IN
       /\ lock[s] = None
       /\ drain' = IF Free(s) THEN drain \ {s} ELSE First
  /\ UNCHANGED <<main, cards, work, out, borrowed, borrower, borrows>>

(* The borrower overwrites the buffers of the GPU it was given.            *)
Own ==
  /\ borrower = "draining" /\ drain = {}
  /\ borrower' = "owner"
  /\ buffer' = [s \in Streams |->
                  IF s \in First THEN [trace |-> None, tree |-> None] ELSE buffer[s]]
  /\ UNCHANGED <<main, lock, status, sink, job, recorded, running, pinned,
                 work, out, borrowed, drain, borrows>>

Return ==
  /\ borrower = "owner"
  /\ borrowed' = FALSE /\ borrower' = "away"
  /\ UNCHANGED <<main, cards, work, out, drain, borrows>>

-----------------------------------------------------------------------------
Init ==
  /\ setup \in Setups
  /\ run = 0 /\ phase = "done" /\ cancelled = FALSE /\ todo = {} /\ left = {}
  /\ lock = [s \in Streams |-> None]
  /\ status = [s \in Streams |-> 0]
  /\ sink = [s \in Streams |-> None]
  /\ job = [s \in Streams |-> None]
  /\ recorded = [s \in Streams |-> FALSE]
  /\ running = [s \in Streams |-> None]
  /\ buffer = [s \in Streams |-> [trace |-> None, tree |-> None]]
  /\ pinned = [s \in Streams |-> None]
  /\ pc = [t \in Threads |-> "idle"]
  /\ mine = [t \in Threads |-> None]
  /\ at = [t \in Threads |-> None]
  /\ scan = [t \in Threads |-> {}]
  /\ saw = [t \in Threads |-> FALSE]
  /\ reuse = [t \in Threads |-> FALSE]
  /\ delivered = [j \in Jobs |-> <<>>]
  /\ announced = [j \in Jobs |-> 0]
  /\ borrowed = FALSE /\ borrower = "away" /\ drain = {} /\ borrows = 0

Worker(t) ==
  \/ TakeJob(t) \/ TakeResident(t) \/ BeginScan(t) \/ TryStream(t)
  \/ NothingFree(t) \/ Reserve(t) \/ Describe(t) \/ Launch(t) \/ Publish(t)

CallerMovesOn ==
  \/ JoinContributions \/ CollectStream \/ FindResident \/ JoinResident
  \/ WaitZero \/ ClearCallback \/ JoinWorkers

Caller == CallerMovesOn \/ \E s \in Streams : Poll(s)

Borrower == LockFirst \/ RaiseFlag \/ Drain \/ Own \/ Return

Next ==
  \/ StartRun \/ Cancel \/ Ask \/ Caller \/ Borrower
  \/ \E t \in Threads : Worker(t)
  \/ \E s \in Streams : Complete(s)

(* No poll is owed in the contributions phase: the wait for the witnesses  *)
(* may be over, and the join that follows it does not poll.                *)
Fairness ==
  /\ WF_vars(CallerMovesOn)
  /\ \A t \in Threads : WF_vars(Worker(t))
  /\ \A s \in Streams : WF_vars(Complete(s)) /\ WF_vars(phase = "prove" /\ Poll(s))
  /\ WF_vars(Borrower)

Spec == Init /\ [][Next]_vars /\ Fairness

-----------------------------------------------------------------------------
Contents == [trace : [run : 1 .. MaxRuns, aggregated : BOOLEAN, inst : Instances] \cup {None},
             tree : (Kinds \X {AirOf[i] : i \in Instances}) \cup {None}]

(* The values every variable keeps, with what ties a worker's place in the *)
(* code to the job and the stream it has.                                  *)
TypeOK ==
  /\ run \in 0 .. MaxRuns /\ cancelled \in BOOLEAN /\ borrowed \in BOOLEAN
  /\ phase \in {"commit", "roots", "resident", "prove", "collect", "join", "done"}
  /\ todo \subseteq Jobs /\ left \subseteq Streams /\ drain \subseteq First
  /\ lock \in [Streams -> Threads \cup {"borrower", None}]
  /\ status \in [Streams -> 0 .. 3]
  /\ sink \in [Streams -> {"root", "proof", None}]
  /\ job \in [Streams -> Jobs \cup {None}]
  /\ recorded \in [Streams -> BOOLEAN]
  /\ running \in [Streams -> Jobs \cup {None}]
  /\ buffer \in [Streams -> Contents]
  /\ pc \in [Threads -> {"idle", "select", "recursive", "plain",
                         "describe", "launch", "publish"}]
  /\ mine \in [Threads -> Jobs \cup {None}]
  /\ at \in [Threads -> Streams \cup {None}]
  /\ \A t \in Threads : (mine[t] = None) <=> (pc[t] = "idle")
  /\ \A t \in Threads : (at[t] # None) <=> (pc[t] \in {"describe", "launch", "publish"})
  /\ announced \in [Jobs -> Nat]
  /\ borrower \in {"away", "locking", "draining", "owner"} /\ borrows \in 0 .. MaxBorrows

(* Between its reservation and status 2 a stream belongs to one worker,    *)
(* although the locks are given back in between (starks_api.cu:1823-1831). *)
(* A cancelled call collects streams that are still being loaded.          *)
StreamOwnedByOne ==
  ~cancelled =>
    \A t \in Threads :
      at[t] # None => /\ status[at[t]] = 1
                      /\ \A u \in Threads \ {t} : at[u] # at[t]

(* What get_commit_root and get_proof copy out was computed by the job     *)
(* they copy it for, from that instance's trace and its AIR's constants:   *)
(* neither a resident trace nor a constant tree that is used again has     *)
(* been overwritten, and no event is believed too early.                   *)
DeliveredRight ==
  ~cancelled =>
    \A j \in Jobs : \A k \in 1 .. Len(delivered[j]) : delivered[j][k] = Result(j)

(* No result is copied out or announced twice, whoever finds it first, no  *)
(* root is announced as a proof, and a call that is not cancelled returns  *)
(* with every root and every proof.                                        *)
DeliveredOnce ==
  ~cancelled =>
    /\ \A j \in Jobs :
         Len(delivered[j]) <= 1 /\ announced[j] = IF j.kind = "witness" THEN 0
                                                  ELSE Len(delivered[j])
    /\ phase = "done" /\ run > 0 =>
         \A k \in Kinds, i \in setup.insts : Len(delivered[Job(k, i)]) = 1

(* The borrower gets the first GPU to itself: acquire_first_gpu_buffer_gpu *)
(* returns when nothing is queued there, and nothing is put there before   *)
(* it gives the buffer back (starks_api.cu:1670-1671).                     *)
BorrowExclusive ==
  borrower = "owner" =>
    \A s \in First : running[s] = None /\ \A t \in Threads : at[t] # s

(* Who can take a step that is not a turn of a polling loop.  The streams  *)
(* a worker may be given, and the one it is about to find or has found.    *)
StreamsFor(t) ==
  IF IsRecursive(t) THEN IF t \in Forced THEN RecursiveStreams ELSE Streams
                    ELSE Streams \ RecursiveStreams

Offered(t) ==
  \E s \in StreamsFor(t) : lock[s] = None /\ Free(s) /\ (OnFirst(s) => ~borrowed)

WorkerGoesOn(t) ==
  \/ /\ pc[t] = "idle" /\ ~cancelled
     /\ \/ phase = "resident" /\ left # {}
        \/ /\ phase \in {"commit", "prove"}
           /\ \E j \in todo :
                Ready(j) /\ (t \in Forced /\ phase = "prove" => j.kind = "recursive1")
  \/ pc[t] \in {"select", "recursive", "plain"} /\ (Held(t) # {} \/ Offered(t))
  \/ pc[t] \in {"describe", "publish"}
  \/ pc[t] = "launch" /\ running[at[t]] = None

CollectorGoesOn ==
  LET s == Min(left) IN
    left # {} /\ lock[s] = None /\ (status[s] \in {0, 3} \/ running[s] = None)

CallerGoesOn ==
  \/ phase = "commit" /\ ~Working /\ (todo = {} \/ cancelled)
  \/ phase = "roots" /\ (left = {} \/ CollectorGoesOn)
  \/ phase = "resident" /\ ~Working /\ (left = {} \/ cancelled)
  \/ phase = "prove" /\ (cancelled \/ \A j \in Proofs : announced[j] > 0)
  \/ phase = "prove" /\ \E s \in Streams : lock[s] = None /\ status[s] = 2 /\ EventDone(s)
  \/ phase = "collect" /\ (left = {} \/ CollectorGoesOn)
  \/ phase = "join" /\ ~Working

BorrowerGoesOn ==
  \/ /\ borrower = "locking"
     /\ First = Held("borrower") \/ lock[Min(First \ Held("borrower"))] = None
  \/ /\ borrower = "draining"
     /\ drain = {} \/ \A s \in First : lock[s] = None /\ Free(s)
  \/ borrower = "owner"

(* A call and a loan never stop: locks, polling loops and joins are never  *)
(* all waiting for each other, whether the call is cancelled or not and    *)
(* whenever the borrower comes.                                            *)
NeverStuck ==
  \/ phase = "done" /\ borrower = "away"
  \/ CallerGoesOn \/ BorrowerGoesOn
  \/ \E t \in Threads : WorkerGoesOn(t)
  \/ \E s \in Streams : running[s] # None

(* A call returns, although workers poll for streams, some of them only    *)
(* take aggregation jobs and the first GPU may be lent meanwhile.          *)
CallReturns == phase = "commit" ~> phase = "done"
=============================================================================
