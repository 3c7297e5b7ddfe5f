---------------------- MODULE RecursivePipeline_proofs ----------------------
(***************************************************************************)
(* For any number of instances, airgroups, streams and buffers, on the CPU *)
(* and the GPU, with and without faults: the pipeline is well typed, and   *)
(* no instance is proved from a trace that is not there.                   *)
(***************************************************************************)
EXTENDS RecursivePipeline, FiniteSetTheorems, SequenceTheorems, TLAPS

-----------------------------------------------------------------------------
(* Facts about the operators.                                               *)

(* The proofs of an instance are work, and done they make a message.        *)
LEMMA ProofIsWork ==
  ASSUME NEW t \in ChainTypes, NEW i \in Instances
  PROVE  /\ Proof(t, i) \in ChainWork /\ Proof(t, i) \in Work
         /\ Proof(t, i).id = i /\ Proof(t, i).type = t
  BY SystemAssumption DEF Proof, ChainWork, Work

LEMMA DoneIsMessage ==
  ASSUME NEW w \in Work, w.id \in Nat
  PROVE  Done(w) \in Message
  BY DEF Work, ChainWork, MergeWork, Done, Message, ProofTypes

LEMMA ChainDone ==
  ASSUME NEW w \in ChainWork
  PROVE  w \in Work /\ w.id \in Instances /\ w.id \in Nat /\ Done(w) \in Message
  BY SystemAssumption DEF Work, ChainWork, Done, Message, ProofTypes

LEMMA PoolOfType ==
  ASSUME NEW w
  PROVE  PoolOf(w) \in Pools
  BY DEF PoolOf, Pools

LEMMA SentinelsType ==
  Cardinality(Streams) \in Nat /\ Sentinels \in Seq(Message)
  <1>1. Cardinality(Streams) \in Nat
    BY SystemAssumption, FS_CardinalityType
  <1>2. Sentinel \in Message
    BY DEF Sentinel, Message
  <1> QED
    BY <1>1, <1>2 DEF Sentinels

(* A report and a submission leave messages where messages were.            *)
LEMMA ReportTypes ==
  ASSUME recursiveRx \in Seq(Message), NEW m \in Message, Report(m)
  PROVE  recursiveRx' \in Seq(Message)
  BY AppendProperties DEF Report

LEMMA SubmitTypes ==
  ASSUME ChannelTypes, NEW m \in Message, Submit(m)
  PROVE  /\ recursiveRx' \in Seq(Message) /\ inFlight' \subseteq Message
         /\ callback' = callback
  <1>1. CASE Gpu
    BY <1>1 DEF Submit, ChannelTypes
  <1>2. CASE ~Gpu
    BY <1>2, ReportTypes DEF Submit, ChannelTypes
  <1> QED
    BY <1>1, <1>2

(* Filling or emptying a position of a sequence, even one it does not have. *)
LEMMA ExceptInSeq ==
  ASSUME NEW S, NEW q \in Seq(S), NEW k, NEW e \in S
  PROVE  [q EXCEPT ![k] = e] \in Seq(S)
  <1>1. CASE k \in 1 .. Len(q)
    BY <1>1, ExceptSeq
  <1>2. CASE k \notin 1 .. Len(q)
    <2>1. q = [j \in 1 .. Len(q) |-> q[j]]
      OBVIOUS
    <2>2. [q EXCEPT ![k] = e] = q
      BY <1>2, <2>1
    <2> QED
      BY <2>2
  <1> QED
    BY <1>1, <1>2

(* A handler or a worker that moves on keeps the types of all of them.      *)
LEMMA HandlerToTypes ==
  ASSUME HandlerTypes, NEW h \in Streams,
         NEW pc \in {"recv", "take", "buffer", "witness", "send", "decrement", "exit"},
         NEW job \in Message \cup Work \cup {None},
         pc = "take" => job \in Message,
         pc \in {"buffer", "witness", "send"} => job \in Work,
         HandlerTo(h, pc, job)
  PROVE  HandlerTypes'
  BY DEF HandlerTypes, HandlerTo

LEMMA WorkerToTypes ==
  ASSUME WorkerTypes, NEW s \in Streams,
         NEW pc \in {"poll", "basic", "select", "register", "store", "commit", "prove",
                     "exit"},
         NEW job \in Work \cup {None},
         pc = "basic" => job \in ChainWork,
         pc = "register" => job \in MergeWork,
         pc \in {"store", "commit", "prove"} => job \in Work,
         pc \in {"store", "commit", "prove"} => job.id \in Nat,
         WorkerTo(s, pc, job)
  PROVE  WorkerTypes'
  BY DEF WorkerTypes, WorkerTo

(* Joining an airgroup leaves sets of instances in the pool and gives the   *)
(* handler a recursive2 witness of that airgroup or nothing.                *)
LEMMA JoinAirgroupTypes ==
  ASSUME HandlerTypes, StoreTypes, NEW h \in Streams, NEW p \in Work, JoinAirgroup(h, p)
  PROVE  HandlerTypes' /\ pool' \in [Airgroups -> SUBSET SUBSET Instances]
  <1> DEFINE a == p.airgroup
             all == pool[a] \cup {p.leaves}
  <1>1. a \in Airgroups /\ p.leaves \subseteq Instances
    BY DEF Work, ChainWork, MergeWork
  <1>2. all \subseteq SUBSET Instances
    BY <1>1 DEF StoreTypes
  <1>3. CASE Cardinality(all) < NRecursive
    <2>1. pool' = [pool EXCEPT ![a] = all] /\ HandlerTo(h, "decrement", None)
      BY <1>3 DEF JoinAirgroup
    <2>2. HandlerTypes'
      BY <2>1, HandlerToTypes
    <2> QED
      BY <1>1, <1>2, <2>1, <2>2 DEF StoreTypes
  <1>4. CASE ~(Cardinality(all) < NRecursive)
    <2>1. PICK three \in SUBSET all :
            /\ pool' = [pool EXCEPT ![a] = all \ three]
            /\ HandlerTo(h, "buffer", [type |-> "Recursive2", id |-> None,
                                       airgroup |-> a, leaves |-> UNION three])
      BY <1>4 DEF JoinAirgroup
    <2>2. [type |-> "Recursive2", id |-> None, airgroup |-> a, leaves |-> UNION three]
            \in Work
      BY <1>1, <1>2 DEF Work, MergeWork
    <2>3. HandlerTypes'
      BY <2>1, <2>2, HandlerToTypes
    <2> QED
      BY <1>1, <1>2, <2>1, <2>3 DEF StoreTypes
  <1> QED
    BY <1>3, <1>4

(* Every device or reset step that empties the stores keeps their types.    *)
LEMMA ResetTypes ==
  ASSUME Reset
  PROVE  /\ callback' = FALSE /\ recursiveRx' = <<>> /\ inFlight' = {}
         /\ proofsRx' = {} /\ witnessRx' = {}
         /\ StoreTypes'
  BY DEF Reset, StoreTypes

-----------------------------------------------------------------------------
(* Type correctness.                                                        *)

(* A group of variables that does not change keeps its types.               *)
LEMMA Frame ==
  /\ MainTypes /\ UNCHANGED <<mainVars, faultVars, callback, pending>> => MainTypes'
  /\ FeedTypes /\ UNCHANGED <<toFeed, feedVars>> => FeedTypes'
  /\ ChannelTypes /\ UNCHANGED <<witnessRx, recursiveRx, inFlight, free>>
       => ChannelTypes'
  /\ StoreTypes /\ UNCHANGED proofVars => StoreTypes'
  /\ HandlerTypes /\ UNCHANGED handlerVars => HandlerTypes'
  /\ WorkerTypes /\ UNCHANGED workerVars => WorkerTypes'
  <1>1. MainTypes /\ UNCHANGED <<mainVars, faultVars, callback, pending>> => MainTypes'
    BY DEF MainTypes, mainVars, faultVars
  <1>2. FeedTypes /\ UNCHANGED <<toFeed, feedVars>> => FeedTypes'
    BY DEF FeedTypes, feedVars
  <1>3. ChannelTypes /\ UNCHANGED <<witnessRx, recursiveRx, inFlight, free>>
          => ChannelTypes'
    BY DEF ChannelTypes
  <1>4. StoreTypes /\ UNCHANGED proofVars => StoreTypes'
    BY DEF StoreTypes, proofVars
  <1>5. HandlerTypes /\ UNCHANGED handlerVars => HandlerTypes'
    BY DEF HandlerTypes, handlerVars
  <1>6. WorkerTypes /\ UNCHANGED workerVars => WorkerTypes'
    BY DEF WorkerTypes, workerVars
  <1> QED
    BY <1>1, <1>2, <1>3, <1>4, <1>5, <1>6

(* The main thread.                                                         *)
LEMMA MainKeepsTypes ==
  ASSUME TypeOK, Main
  PROVE  TypeOK'
  <1> USE DEF TypeOK, mainVars, faultVars, feedVars, handlerVars, workerVars, deviceVars,
              proofVars
  <1>1. CASE Start
    <2>1. MainTypes'
      BY <1>1 DEF Start, MainTypes
    <2>2. FeedTypes'
      BY <1>1, SystemAssumption DEF Start, FeedTypes
    <2>3. StoreTypes'
      BY <1>1 DEF Start, Padding, StoreTypes
    <2>4. HandlerTypes'
      BY <1>1 DEF Start, HandlerTypes
    <2> QED
      BY <1>1, <2>1, <2>2, <2>3, <2>4, Frame DEF Start
  <1>2. CASE \E i \in toFeed : ProveResident(i)
    <2>1. PICK i \in toFeed : ProveResident(i)
      BY <1>2
    <2>2. Proof("Basic", i) \in ChainWork /\ Done(Proof("Basic", i)) \in Message
      BY ProofIsWork, ChainDone DEF FeedTypes, ChainTypes
    <2>3. MainTypes'
      BY <2>1 DEF ProveResident, MainTypes
    <2>4. FeedTypes'
      BY <2>1 DEF ProveResident, FeedTypes
    <2>5. ChannelTypes'
      BY <2>1, <2>2 DEF ProveResident, ChannelTypes
    <2>6. StoreTypes'
      BY <2>1, <2>2 DEF ProveResident, StoreTypes
    <2> QED
      BY <2>1, <2>3, <2>4, <2>5, <2>6, Frame DEF ProveResident
  <1>3. CASE \E i \in toFeed : Feed(i)
    <2>1. MainTypes'
      BY <1>3 DEF Feed, MainTypes
    <2>2. FeedTypes'
      BY <1>3 DEF Feed, FeedTypes
    <2> QED
      BY <1>3, <2>1, <2>2, Frame DEF Feed
  <1>4. CASE StartWorkers
    <2>1. MainTypes'
      BY <1>4 DEF StartWorkers, MainTypes
    <2>2. FeedTypes'
      BY <1>4 DEF StartWorkers, FeedTypes
    <2>3. WorkerTypes'
      BY <1>4 DEF StartWorkers, WorkerTypes
    <2> QED
      BY <1>4, <2>1, <2>2, <2>3, Frame DEF StartWorkers
  <1>5. CASE \E i \in toCalculate : ComputeWitness(i)
    <2>1. FeedTypes'
      BY <1>5 DEF ComputeWitness, FeedTypes
    <2> QED
      BY <1>5, <2>1, Frame DEF ComputeWitness
  <1>6. CASE EndFeed \/ EndWitness \/ WaitZero \/ Join \/ Succeed \/ UnwindJoin
    <2>1. MainTypes'
      BY <1>6 DEF EndFeed, EndWitness, WaitZero, Join, Succeed, UnwindJoin, MainTypes
    <2> QED
      BY <1>6, <2>1, Frame DEF EndFeed, EndWitness, WaitZero, Join, Succeed, UnwindJoin
  <1>7. CASE Dismiss \/ Unwind
    <2>1. MainTypes'
      BY <1>7 DEF Dismiss, Unwind, MainTypes
    <2>2. ChannelTypes'
      BY <1>7, SentinelsType, ConcatProperties DEF Dismiss, Unwind, ChannelTypes
    <2> QED
      BY <1>7, <2>1, <2>2, Frame DEF Dismiss, Unwind
  <1>8. CASE FailCancelled
    <2>1. MainTypes'
      BY <1>8 DEF FailCancelled, Reset, MainTypes
    <2>2. FeedTypes'
      BY <1>8 DEF FailCancelled, Reset, FeedTypes
    <2>3. ChannelTypes'
      BY <1>8 DEF FailCancelled, Reset, ChannelTypes
    <2>4. StoreTypes'
      BY <1>8, ResetTypes DEF FailCancelled
    <2> QED
      BY <1>8, <2>1, <2>2, <2>3, <2>4, Frame DEF FailCancelled
  <1> QED
    BY <1>1, <1>2, <1>3, <1>4, <1>5, <1>6, <1>7, <1>8 DEF Main

(* A handler.                                                               *)
LEMMA HandlerKeepsTypes ==
  ASSUME TypeOK, NEW h \in Streams, Handler(h)
  PROVE  TypeOK'
  <1> USE DEF TypeOK, mainVars, faultVars, feedVars, handlerVars, workerVars, deviceVars,
              proofVars
  <1>1. CASE Receive(h)
    <2>1. Head(recursiveRx) \in Message /\ Tail(recursiveRx) \in Seq(Message)
      BY <1>1, HeadTailProperties DEF Receive, ChannelTypes
    <2>2. ChannelTypes'
      BY <1>1, <2>1 DEF Receive, ChannelTypes
    <2>3. \/ HandlerTo(h, "exit", None) \/ HandlerTo(h, "decrement", None)
          \/ HandlerTo(h, "take", Head(recursiveRx))
      BY <1>1 DEF Receive
    <2>4. HandlerTypes'
      BY <2>1, <2>3, HandlerToTypes
    <2> QED
      BY <1>1, <2>2, <2>4, Frame DEF Receive
  <1>2. CASE TakeProof(h)
    <2>1. PICK p \in slots : /\ slots' = slots \ {p}
                             /\ HandlerTo(h, "buffer", Proof(NextType(p), p.id))
                             /\ Done(p) = hjob[h]
      BY <1>2 DEF TakeProof
    <2>2. NextType(p) # "Recursive2"
      BY <1>2, <2>1 DEF TakeProof, NextType, Done
    <2>3. NextType(p) \in ChainTypes /\ p.id \in Instances
      BY <2>2, ChainDone DEF NextType, ChainTypes, StoreTypes
    <2>4. HandlerTypes'
      BY <2>1, <2>3, ProofIsWork, HandlerToTypes
    <2>5. StoreTypes'
      BY <1>2, <2>1 DEF TakeProof, StoreTypes
    <2> QED
      BY <1>2, <2>4, <2>5, Frame DEF TakeProof
  <1>3. CASE TakeRecursive1(h)
    <2>1. PICK p \in slots : slots' = slots \ {p} /\ JoinAirgroup(h, p)
      BY <1>3 DEF TakeRecursive1
    <2>2. p \in Work
      BY ChainDone DEF StoreTypes
    <2>3. HandlerTypes' /\ pool' \in [Airgroups -> SUBSET SUBSET Instances]
      BY <2>1, <2>2, JoinAirgroupTypes
    <2>4. StoreTypes'
      BY <1>3, <2>1, <2>3 DEF TakeRecursive1, StoreTypes
    <2> QED
      BY <1>3, <2>3, <2>4, Frame DEF TakeRecursive1
  <1>4. CASE TakeRecursive2(h)
    <2> DEFINE k == hjob[h].id
    <2>1. /\ k \in DOMAIN ongoing /\ ongoing[k] # None
          /\ ongoing' = [ongoing EXCEPT ![k] = None]
          /\ JoinAirgroup(h, ongoing[k])
          /\ slots' = slots
      BY <1>4 DEF TakeRecursive2
    <2>2. ongoing[k] \in Work
      BY <2>1 DEF StoreTypes
    <2>3. HandlerTypes' /\ pool' \in [Airgroups -> SUBSET SUBSET Instances]
      BY <2>1, <2>2, JoinAirgroupTypes
    <2>4. StoreTypes'
      BY <2>1, <2>3, ExceptInSeq DEF StoreTypes
    <2> QED
      BY <1>4, <2>3, <2>4, Frame DEF TakeRecursive2
  <1>5. CASE TakeBuffer(h)
    <2>1. ChannelTypes'
      BY <1>5, PoolOfType DEF TakeBuffer, ChannelTypes
    <2>2. HandlerTypes'
      BY <1>5, HandlerToTypes DEF TakeBuffer, HandlerTypes
    <2> QED
      BY <1>5, <2>1, <2>2, Frame DEF TakeBuffer
  <1>6. CASE Increment(h) \/ Decrement(h)
    <2>1. MainTypes'
      BY <1>6 DEF Increment, Decrement, MainTypes
    <2>2. HandlerTypes'
      BY <1>6, HandlerToTypes DEF Increment, Decrement, HandlerTypes
    <2> QED
      BY <1>6, <2>1, <2>2, Frame DEF Increment, Decrement
  <1>7. CASE Send(h)
    <2>1. ChannelTypes'
      BY <1>7 DEF Send, ChannelTypes, HandlerTypes
    <2>2. HandlerTypes'
      BY <1>7, HandlerToTypes DEF Send
    <2> QED
      BY <1>7, <2>1, <2>2, Frame DEF Send
  <1> QED
    BY <1>1, <1>2, <1>3, <1>4, <1>5, <1>6, <1>7 DEF Handler

(* A worker.                                                                *)
LEMMA WorkerKeepsTypes ==
  ASSUME TypeOK, NEW s \in Streams, Worker(s)
  PROVE  TypeOK'
  <1> USE DEF TypeOK, mainVars, faultVars, feedVars, handlerVars, workerVars, deviceVars,
              proofVars
  <1>1. CASE \E i \in proofsRx : PollProofs(s, i)
    <2>1. PICK i \in proofsRx : PollProofs(s, i)
      BY <1>1
    <2>2. Proof("Basic", i) \in ChainWork /\ Proof("Basic", i) \in Work
      BY ProofIsWork DEF FeedTypes, ChainTypes
    <2>3. FeedTypes'
      BY <2>1 DEF PollProofs, FeedTypes
    <2>4. WorkerTypes'
      <3>1. CASE cancelled
        BY <2>1, <3>1, Frame DEF PollProofs
      <3>2. CASE ~cancelled
        BY <2>1, <2>2, <3>2, WorkerToTypes DEF PollProofs
      <3> QED
        BY <3>1, <3>2
    <2> QED
      BY <2>1, <2>3, <2>4, Frame DEF PollProofs
  <1>2. CASE PollWitness(s) \/ SelectDefault(s)
    <2>1. \E pc \in {"exit", "select", "poll"} : WorkerTo(s, pc, None)
      BY <1>2 DEF PollWitness, SelectDefault
    <2>2. WorkerTypes'
      BY <2>1, WorkerToTypes
    <2> QED
      BY <1>2, <2>2, Frame DEF PollWitness, SelectDefault
  <1>3. CASE ProveBasic(s)
    <2>1. sjob[s] \in ChainWork /\ Done(sjob[s]) \in Message
      BY <1>3, ChainDone DEF ProveBasic, WorkerTypes
    <2>2. Submit(Done(sjob[s]))
      BY <1>3 DEF ProveBasic
    <2>3. /\ recursiveRx' \in Seq(Message) /\ inFlight' \subseteq Message
          /\ callback' = callback
      BY <2>1, <2>2, SubmitTypes
    <2>4. FeedTypes'
      BY <1>3 DEF ProveBasic, FeedTypes
    <2>5. ChannelTypes'
      BY <1>3, <2>3 DEF ProveBasic, ChannelTypes
    <2>6. StoreTypes'
      BY <1>3, <2>1 DEF ProveBasic, StoreTypes
    <2>7. WorkerTypes'
      BY <1>3, WorkerToTypes DEF ProveBasic
    <2> QED
      BY <1>3, <2>3, <2>4, <2>5, <2>6, <2>7, Frame DEF ProveBasic
  <1>4. CASE \E w \in witnessRx : Select(s, w)
    <2>1. PICK w \in witnessRx : Select(s, w)
      BY <1>4
    <2>2. /\ w \in Work
          /\ IF w.type = "Recursive2" THEN w \in MergeWork ELSE w.id \in Nat
      BY ChainDone DEF ChannelTypes, Work, MergeWork, ChainWork, ChainTypes
    <2>3. ChannelTypes'
      BY <2>1 DEF Select, ChannelTypes
    <2>4. WorkerTo(s, IF w.type = "Recursive2" THEN "register" ELSE "store", w)
      BY <2>1 DEF Select
    <2>5. WorkerTypes'
      <3>1. CASE w.type = "Recursive2"
        BY <2>2, <2>4, <3>1, WorkerToTypes
      <3>2. CASE w.type # "Recursive2"
        BY <2>2, <2>4, <3>2, WorkerToTypes
      <3> QED
        BY <3>1, <3>2
    <2> QED
      BY <2>1, <2>3, <2>5, Frame DEF Select
  <1>5. CASE Register(s)
    <2> DEFINE w == [sjob[s] EXCEPT !.id = Len(ongoing) + 1]
    <2>1. StoreTypes'
      BY <1>5, AppendProperties DEF Register, StoreTypes
    <2>2. w \in Work /\ w.id \in Nat
      <3>1. sjob[s] \in MergeWork /\ Len(ongoing) + 1 \in Nat
        BY <1>5 DEF Register, WorkerTypes, StoreTypes
      <3> QED
        BY <3>1 DEF Work, MergeWork
    <2>3. WorkerTypes'
      BY <1>5, <2>2, WorkerToTypes DEF Register
    <2> QED
      BY <1>5, <2>1, <2>3, Frame DEF Register
  <1>6. CASE Store(s)
    <2>1. sjob[s] \in Work /\ sjob[s].id \in Nat
      BY <1>6 DEF Store, WorkerTypes
    <2>2. StoreTypes'
      <3>1. CASE sjob[s].type = "Recursive2"
        BY <1>6, <2>1, <3>1, ExceptInSeq DEF Store, StoreTypes
      <3>2. CASE sjob[s].type # "Recursive2"
        <4>1. sjob[s] \in ChainWork
          BY <2>1, <3>2 DEF Work, MergeWork
        <4> QED
          BY <1>6, <3>2, <4>1 DEF Store, StoreTypes
      <3> QED
        BY <3>1, <3>2
    <2>3. WorkerTypes'
      BY <1>6, <2>1, WorkerToTypes DEF Store
    <2> QED
      BY <1>6, <2>2, <2>3, Frame DEF Store
  <1>7. CASE Commit(s)
    <2>1. ChannelTypes'
      BY <1>7, PoolOfType DEF Commit, ChannelTypes
    <2>2. WorkerTypes'
      BY <1>7, WorkerToTypes DEF Commit, WorkerTypes
    <2> QED
      BY <1>7, <2>1, <2>2, Frame DEF Commit
  <1>8. CASE ProveRecursive(s)
    <2>1. Done(sjob[s]) \in Message /\ Submit(Done(sjob[s]))
      BY <1>8, DoneIsMessage DEF ProveRecursive, WorkerTypes
    <2>2. /\ recursiveRx' \in Seq(Message) /\ inFlight' \subseteq Message
          /\ callback' = callback
      BY <2>1, SubmitTypes
    <2>3. ChannelTypes'
      BY <1>8, <2>2 DEF ProveRecursive, ChannelTypes
    <2>4. WorkerTypes'
      BY <1>8, WorkerToTypes DEF ProveRecursive
    <2> QED
      BY <1>8, <2>2, <2>3, <2>4, Frame DEF ProveRecursive
  <1> QED
    BY <1>1, <1>2, <1>3, <1>4, <1>5, <1>6, <1>7, <1>8 DEF Worker

(* The device, the faults and the next call.                                *)
LEMMA OthersKeepTypes ==
  ASSUME TypeOK, Device \/ Fault \/ Restart \/ Returned
  PROVE  TypeOK'
  <1> USE DEF TypeOK, mainVars, faultVars, feedVars, handlerVars, workerVars, deviceVars,
              proofVars
  <1>1. CASE \E m \in inFlight : StreamDone(m)
    <2>1. PICK m \in inFlight : StreamDone(m)
      BY <1>1
    <2>2. ChannelTypes'
      BY <2>1, ReportTypes DEF StreamDone, ChannelTypes
    <2> QED
      BY <2>1, <2>2, Frame DEF StreamDone
  <1>2. CASE Cancel
    <2>1. MainTypes'
      BY <1>2 DEF Cancel, MainTypes
    <2> QED
      BY <1>2, <2>1, Frame DEF Cancel
  <1>3. CASE FailPrecalculate \/ (\E i \in toCalculate : FailWitness(i))
    <2>1. MainTypes'
      BY <1>3 DEF FailPrecalculate, FailWitness, MainTypes
    <2>2. FeedTypes'
      BY <1>3 DEF FailPrecalculate, FailWitness, FeedTypes
    <2> QED
      BY <1>3, <2>1, <2>2, Frame DEF FailPrecalculate, FailWitness
  <1>4. CASE \E i \in toFeed : FailResident(i)
    <2>1. MainTypes'
      BY <1>4 DEF FailResident, MainTypes
    <2>2. FeedTypes'
      BY <1>4 DEF FailResident, FeedTypes
    <2> QED
      BY <1>4, <2>1, <2>2, Frame DEF FailResident
  <1>5. CASE \E h \in Streams : FailRecursiveWitness(h)
    <2>1. MainTypes'
      BY <1>5 DEF FailRecursiveWitness, MainTypes
    <2>2. HandlerTypes'
      BY <1>5, HandlerToTypes DEF FailRecursiveWitness
    <2> QED
      BY <1>5, <2>1, <2>2, Frame DEF FailRecursiveWitness
  <1>6. CASE \E s \in Streams : FailWorker(s)
    <2>1. MainTypes'
      BY <1>6 DEF FailWorker, MainTypes
    <2>2. WorkerTypes'
      BY <1>6, WorkerToTypes DEF FailWorker
    <2> QED
      BY <1>6, <2>1, <2>2, Frame DEF FailWorker
  <1>7. CASE Restart
    <2>1. MainTypes'
      <3>1. aggregate' \in BOOLEAN
        BY <1>7, SystemAssumption, Zenon DEF Restart
      <3>2. run' \in 1 .. MaxRuns
        BY <1>7, SystemAssumption DEF Restart, MainTypes
      <3> QED
        BY <1>7, <3>1, <3>2 DEF Restart, Reset, MainTypes
    <2>2. FeedTypes'
      BY <1>7, SystemAssumption DEF Restart, Reset, FeedTypes
    <2>3. ChannelTypes'
      BY <1>7 DEF Restart, Reset, ChannelTypes
    <2>4. StoreTypes'
      BY <1>7, ResetTypes DEF Restart
    <2> QED
      BY <1>7, <2>1, <2>2, <2>3, <2>4, Frame DEF Restart
  <1>8. CASE Returned
    BY <1>8, Frame DEF Returned, vars
  <1> QED
    BY <1>1, <1>2, <1>3, <1>4, <1>5, <1>6, <1>7, <1>8 DEF Device, Fault

LEMMA InitTypes == Init => TypeOK
  <1> SUFFICES ASSUME Init PROVE TypeOK
    OBVIOUS
  <1>1. MainTypes
    <2>1. aggregate \in BOOLEAN
      BY SystemAssumption, Zenon DEF Init
    <2>2. run \in 1 .. MaxRuns
      BY SystemAssumption DEF Init
    <2>3. cancelled \in BOOLEAN /\ callback \in BOOLEAN /\ finished \in BOOLEAN
      BY Zenon DEF Init
    <2>4. mpc = "start" /\ pending \in Int
      BY DEF Init
    <2> QED
      BY <2>1, <2>2, <2>3, <2>4 DEF MainTypes
  <1>2. FeedTypes /\ ChannelTypes /\ StoreTypes
    BY SystemAssumption DEF Init, FeedTypes, ChannelTypes, StoreTypes
  <1>3. HandlerTypes /\ WorkerTypes
    BY DEF Init, HandlerTypes, WorkerTypes
  <1> QED
    BY <1>1, <1>2, <1>3 DEF TypeOK

LEMMA NextTypes == TypeOK /\ [Next]_vars => TypeOK'
  <1> SUFFICES ASSUME TypeOK, [Next]_vars PROVE TypeOK'
    OBVIOUS
  <1>1. CASE Main
    BY <1>1, MainKeepsTypes
  <1>2. CASE \E s \in Streams : Handler(s) \/ Worker(s)
    BY <1>2, HandlerKeepsTypes, WorkerKeepsTypes
  <1>3. CASE Device \/ Fault \/ Restart \/ Returned
    BY <1>3, OthersKeepTypes
  <1>4. CASE UNCHANGED vars
    BY <1>4, Frame DEF TypeOK, vars, mainVars, faultVars, feedVars, handlerVars,
       workerVars, deviceVars, proofVars
  <1> QED
    BY <1>1, <1>2, <1>3, <1>4 DEF Next

(* Every variable keeps its type, whatever fails and however the threads    *)
(* are scheduled: a witness never reaches the prover without a position, a  *)
(* pool never gives a buffer it does not have, a message never takes a      *)
(* handler anywhere but to the proof of an instance or of an airgroup.      *)
THEOREM TypeCorrect == Spec => []TypeOK
  BY InitTypes, NextTypes, PTL DEF Spec

-----------------------------------------------------------------------------
(* An instance is proved from a trace that is there.                        *)
(*                                                                         *)
(* ProvedFromTrace is not inductive: proving an instance frees its trace,   *)
(* which is sound only because the instance is nowhere else on its way to a *)
(* worker.  The strengthening says where an instance that is not proved yet *)
(* can be: still to be fed, waiting for its witness, queued, or with one    *)
(* worker, and in one of these places only.                                 *)

Proving(s) == spc[s] = "basic"

OnePlace ==
  /\ toFeed \cap toCalculate = {}
  /\ toFeed \cap proofsRx = {}
  /\ toCalculate \cap proofsRx = {}
  /\ \A s \in Streams :
       Proving(s) => sjob[s].id \notin toFeed \cup toCalculate \cup proofsRx
  /\ \A s, t \in Streams :
       Proving(s) /\ Proving(t) /\ s # t => sjob[s].id # sjob[t].id

(* Where the workers have exited, and where nothing is queued yet.          *)
Quiet ==
  /\ mpc \in {"start", "resident", "check", "done", "failed"} =>
       \A s \in Streams : spc[s] = "exit"
  /\ mpc \in {"start", "resident"} => toCalculate = {} /\ proofsRx = {}

TraceInv == ProvedFromTrace /\ OnePlace /\ Quiet

LEMMA InitTraceInv == Init => TraceInv
  BY DEF Init, TraceInv, ProvedFromTrace, OnePlace, Quiet, Proving

(* Steps that touch no instance on its way to a worker.                     *)
LEMMA ElsewhereKeepsTraceInv ==
  ASSUME TraceInv, UNCHANGED <<toFeed, feedVars, workerVars>>,
         \/ mpc' = mpc
         \/ mpc' \notin {"start", "resident", "check", "done", "failed"}
         \/ mpc' \notin {"start", "resident"} /\ \A s \in Streams : spc[s] = "exit"
  PROVE  TraceInv'
  BY DEF TraceInv, ProvedFromTrace, OnePlace, Quiet, Proving, feedVars, workerVars

(* A worker that does not turn to a basic proof.                            *)
LEMMA LeavingKeepsTraceInv ==
  ASSUME TypeOK, TraceInv, UNCHANGED <<mainVars, feedVars>>, NEW s \in Streams,
         spc[s] # "exit", NEW pc, NEW job, pc # "basic", WorkerTo(s, pc, job)
  PROVE  TraceInv'
  BY DEF TypeOK, WorkerTypes, TraceInv, ProvedFromTrace, OnePlace, Quiet, Proving,
         feedVars, mainVars, WorkerTo

(* The main thread.                                                         *)
LEMMA MainKeepsTraceInv ==
  ASSUME TypeOK, TraceInv, Main
  PROVE  TraceInv'
  <1> USE DEF TraceInv, mainVars, feedVars, workerVars
  <1>1. CASE Start
    BY <1>1 DEF Start, ProvedFromTrace, OnePlace, Quiet, Proving
  <1>2. CASE \E i \in toFeed : ProveResident(i)
    BY <1>2 DEF ProveResident, ProvedFromTrace, OnePlace, Quiet, Proving
  <1>3. CASE \E i \in toFeed : Feed(i)
    BY <1>3 DEF Feed, ProvedFromTrace, OnePlace, Quiet, Proving
  <1>4. CASE StartWorkers
    BY <1>4 DEF StartWorkers, ProvedFromTrace, OnePlace, Quiet, Proving
  <1>5. CASE \E i \in toCalculate : ComputeWitness(i)
    BY <1>5 DEF ComputeWitness, ProvedFromTrace, OnePlace, Quiet, Proving
  <1>6. CASE EndFeed \/ EndWitness \/ WaitZero \/ Dismiss \/ Succeed \/ Unwind
    BY <1>6, ElsewhereKeepsTraceInv
       DEF EndFeed, EndWitness, WaitZero, Dismiss, Succeed, Unwind, Quiet
  <1>7. CASE Join \/ UnwindJoin
    BY <1>7, ElsewhereKeepsTraceInv DEF Join, UnwindJoin, AllExited
  <1>8. CASE FailCancelled
    BY <1>8 DEF FailCancelled, Reset, ProvedFromTrace, OnePlace, Quiet, Proving
  <1> QED
    BY <1>1, <1>2, <1>3, <1>4, <1>5, <1>6, <1>7, <1>8 DEF Main

(* A handler.                                                               *)
LEMMA HandlerKeepsTraceInv ==
  ASSUME TraceInv, NEW h \in Streams, Handler(h)
  PROVE  TraceInv'
  <1>1. UNCHANGED <<mainVars, feedVars, workerVars>>
    BY DEF Handler, Receive, TakeProof, TakeRecursive1, TakeRecursive2, TakeBuffer,
           Increment, Send, Decrement
  <1> QED
    BY <1>1, ElsewhereKeepsTraceInv DEF mainVars

(* A worker.                                                                *)
LEMMA WorkerKeepsTraceInv ==
  ASSUME TypeOK, TraceInv, NEW s \in Streams, Worker(s)
  PROVE  TraceInv'
  <1>1. CASE \E i \in proofsRx : PollProofs(s, i)
    <2>1. PICK i \in proofsRx : PollProofs(s, i)
      BY <1>1
    <2>2. CASE cancelled
      BY <2>1, <2>2 DEF PollProofs, TraceInv, ProvedFromTrace, OnePlace, Quiet, Proving,
         mainVars, workerVars
    <2>3. CASE ~cancelled
      <3>1. /\ spc' = [spc EXCEPT ![s] = "basic"]
            /\ sjob' = [sjob EXCEPT ![s] = Proof("Basic", i)]
            /\ proofsRx' = proofsRx \ {i} /\ UNCHANGED <<mainVars, toCalculate, traces>>
        BY <2>1, <2>3 DEF PollProofs, WorkerTo
      <3>2. spc[s] = "poll" /\ i \in traces /\ Proof("Basic", i).id = i
        BY <2>1 DEF PollProofs, TraceInv, ProvedFromTrace, Proof
      <3>3. sjob'[s].id = i /\ \A t \in Streams : t # s => sjob'[t] = sjob[t]
        BY <3>1, <3>2 DEF TypeOK, WorkerTypes
      <3>4. \A t \in Streams : t # s => spc'[t] = spc[t]
        BY <3>1 DEF TypeOK, WorkerTypes
      <3>5. ProvedFromTrace'
        BY <3>1, <3>2, <3>3, <3>4 DEF TraceInv, ProvedFromTrace
      <3>6. OnePlace'
        BY <3>1, <3>2, <3>3, <3>4 DEF TraceInv, OnePlace, Proving, mainVars
      <3>7. Quiet'
        BY <3>1, <3>2 DEF TraceInv, Quiet, mainVars
      <3> QED
        BY <3>5, <3>6, <3>7 DEF TraceInv
    <2> QED
      BY <2>2, <2>3
  <1>2. CASE ProveBasic(s)
    <2>1. /\ WorkerTo(s, "poll", None) /\ spc[s] = "basic"
          /\ traces' = traces \ {sjob[s].id}
          /\ UNCHANGED <<mainVars, toCalculate, proofsRx>>
      BY <1>2 DEF ProveBasic
    <2> QED
      BY <2>1 DEF WorkerTo, TypeOK, WorkerTypes, TraceInv, ProvedFromTrace, OnePlace,
         Quiet, Proving, mainVars
  <1>3. CASE \/ PollWitness(s) \/ SelectDefault(s) \/ Register(s) \/ Store(s)
             \/ Commit(s) \/ ProveRecursive(s) \/ \E w \in witnessRx : Select(s, w)
    <2>1. /\ UNCHANGED <<mainVars, feedVars>> /\ spc[s] # "exit"
          /\ \E pc, job : pc # "basic" /\ WorkerTo(s, pc, job)
      <3>1. CASE PollWitness(s)
        BY <3>1 DEF PollWitness
      <3>2. CASE SelectDefault(s)
        BY <3>2 DEF SelectDefault
      <3>3. CASE Register(s)
        BY <3>3 DEF Register
      <3>4. CASE Store(s)
        BY <3>4 DEF Store
      <3>5. CASE Commit(s)
        BY <3>5 DEF Commit
      <3>6. CASE ProveRecursive(s)
        BY <3>6 DEF ProveRecursive
      <3>7. CASE \E w \in witnessRx : Select(s, w)
        BY <3>7 DEF Select
      <3> QED
        BY <1>3, <3>1, <3>2, <3>3, <3>4, <3>5, <3>6, <3>7
    <2> QED
      BY <2>1, LeavingKeepsTraceInv
  <1> QED
    BY <1>1, <1>2, <1>3 DEF Worker

(* The device, the faults and the next call.                                *)
LEMMA OthersKeepTraceInv ==
  ASSUME TypeOK, TraceInv, Device \/ Fault \/ Restart \/ Returned
  PROVE  TraceInv'
  <1>1. CASE \/ Device \/ Cancel \/ Returned
             \/ \E h \in Streams : FailRecursiveWitness(h)
    BY <1>1, ElsewhereKeepsTraceInv
       DEF Device, StreamDone, Cancel, Returned, FailRecursiveWitness, vars, mainVars
  <1>2. CASE FailPrecalculate
    BY <1>2 DEF FailPrecalculate, TraceInv, ProvedFromTrace, OnePlace, Quiet, Proving,
       workerVars
  <1>3. CASE \E i \in toCalculate : FailWitness(i)
    BY <1>3 DEF FailWitness, TraceInv, ProvedFromTrace, OnePlace, Quiet, Proving,
       mainVars, workerVars
  <1>4. CASE \E i \in toFeed : FailResident(i)
    BY <1>4 DEF FailResident, TraceInv, ProvedFromTrace, OnePlace, Quiet, Proving,
       workerVars
  <1>5. CASE \E s \in Streams : FailWorker(s)
    <2>1. PICK s \in Streams : FailWorker(s)
      BY <1>5
    <2>2. UNCHANGED <<mainVars, feedVars>> /\ spc[s] # "exit" /\ WorkerTo(s, "exit", None)
      BY <2>1 DEF FailWorker
    <2> QED
      BY <2>2, LeavingKeepsTraceInv
  <1>6. CASE Restart
    BY <1>6 DEF Restart, Reset, TraceInv, ProvedFromTrace, OnePlace, Quiet, Proving,
       workerVars
  <1> QED
    BY <1>1, <1>2, <1>3, <1>4, <1>5, <1>6 DEF Fault

LEMMA NextTraceInv == TypeOK /\ TraceInv /\ [Next]_vars => TraceInv'
  <1> SUFFICES ASSUME TypeOK, TraceInv, [Next]_vars PROVE TraceInv'
    OBVIOUS
  <1>1. CASE Main
    BY <1>1, MainKeepsTraceInv
  <1>2. CASE \E s \in Streams : Handler(s) \/ Worker(s)
    BY <1>2, HandlerKeepsTraceInv, WorkerKeepsTraceInv
  <1>3. CASE Device \/ Fault \/ Restart \/ Returned
    BY <1>3, OthersKeepTraceInv
  <1>4. CASE UNCHANGED vars
    BY <1>4, ElsewhereKeepsTraceInv DEF vars, mainVars
  <1> QED
    BY <1>1, <1>2, <1>3, <1>4 DEF Next

(* gen_proof never reads a trace that has been freed and no instance gets   *)
(* two basic proofs in a call: not from a resident device stream and a      *)
(* worker, not from two workers, not from the feed and calculate_witness.   *)
THEOREM ProvedFromTraceInvariant == Spec => [](ProvedFromTrace /\ OnePlace)
  <1>1. Init => TypeOK /\ TraceInv
    BY InitTypes, InitTraceInv
  <1>2. TypeOK /\ TraceInv /\ [Next]_vars => (TypeOK /\ TraceInv)'
    BY NextTypes, NextTraceInv
  <1>3. TypeOK /\ TraceInv => ProvedFromTrace /\ OnePlace
    BY DEF TraceInv
  <1> QED
    BY <1>1, <1>2, <1>3, PTL DEF Spec

=============================================================================
