------------------------ MODULE RecursiveResult_proofs ------------------------
(***************************************************************************)
(* For any number of instances, airgroups, streams and buffers, on the CPU *)
(* and the GPU, with and without faults: what a call that is not cancelled *)
(* counts, keeps and ends with.  proofs_pending reads zero only when       *)
(* nothing is left to do, no witness buffer gets lost, and what the call   *)
(* returns covers every instance.  Without faults its merges are those of  *)
(* Aggregation.                                                            *)
(***************************************************************************)
EXTENDS RecursiveSlots_proofs, FunctionTheorems

-----------------------------------------------------------------------------
(* Counting.                                                                *)

(* The places of the messages in a channel that are no sentinels.           *)
Waiting(q) == {k \in DOMAIN q : q[k] # Sentinel}

LEMMA WaitingFinite ==
  ASSUME NEW S, NEW q \in Seq(S)
  PROVE  IsFiniteSet(Waiting(q)) /\ Cardinality(Waiting(q)) \in Nat
  <1>1. IsFiniteSet(1 .. Len(q))
    BY FS_Interval
  <1>2. Waiting(q) \in SUBSET (1 .. Len(q))
    BY DEF Waiting
  <1> QED
    BY <1>1, <1>2, FS_Subset, FS_CardinalityType

LEMMA WaitingAppend ==
  ASSUME NEW S, NEW q \in Seq(S), NEW m
  PROVE  Cardinality(Waiting(Append(q, m))) =
           Cardinality(Waiting(q)) + (IF m = Sentinel THEN 0 ELSE 1)
  <1>1. IsFiniteSet(Waiting(q)) /\ Cardinality(Waiting(q)) \in Nat
    BY WaitingFinite
  <1>2. CASE m = Sentinel
    <2>1. Waiting(Append(q, m)) = Waiting(q)
      BY <1>2 DEF Waiting
    <2> QED
      BY <1>1, <1>2, <2>1
  <1>3. CASE m # Sentinel
    <2>1. Waiting(Append(q, m)) = Waiting(q) \cup {Len(q) + 1}
      BY <1>3 DEF Waiting
    <2>2. Len(q) + 1 \notin Waiting(q)
      BY DEF Waiting
    <2> QED
      BY <1>1, <1>3, <2>1, <2>2, FS_AddElement
  <1> QED
    BY <1>2, <1>3

LEMMA WaitingSentinels ==
  ASSUME NEW S, NEW q \in Seq(S)
  PROVE  Waiting(q \o Sentinels) = Waiting(q)
  <1>1. Sentinels \in Seq({Sentinel})
    BY SystemAssumption, FS_CardinalityType DEF Sentinels
  <1>2. \A k \in DOMAIN (q \o Sentinels) :
          IF k \in DOMAIN q THEN (q \o Sentinels)[k] = q[k]
          ELSE (q \o Sentinels)[k] = Sentinel
    BY <1>1
  <1>3. DOMAIN q \subseteq DOMAIN (q \o Sentinels)
    BY <1>1
  <1> QED
    BY <1>2, <1>3 DEF Waiting

LEMMA WaitingTail ==
  ASSUME NEW S, NEW q \in Seq(S), q # <<>>
  PROVE  Cardinality(Waiting(Tail(q))) =
           Cardinality(Waiting(q)) - (IF Head(q) = Sentinel THEN 0 ELSE 1)
  <1> DEFINE T == Waiting(Tail(q))
             R == Waiting(q) \ {1}
             f == [k \in T |-> k + 1]
  <1>1. IsFiniteSet(Waiting(q)) /\ Cardinality(Waiting(q)) \in Nat
    BY WaitingFinite
  <1>2. /\ Len(q) \in Nat \ {0} /\ DOMAIN q = 1 .. Len(q) /\ Head(q) = q[1]
        /\ DOMAIN Tail(q) = 1 .. Len(q) - 1
        /\ \A k \in 1 .. Len(q) - 1 : Tail(q)[k] = q[k + 1]
    OBVIOUS
  <1>3. \A k : k \in T <=> k \in 1 .. Len(q) - 1 /\ q[k + 1] # Sentinel
    BY <1>2 DEF Waiting
  <1>4. \A k : k \in R <=> k \in 2 .. Len(q) /\ q[k] # Sentinel
    BY <1>2 DEF Waiting
  <1>5. f \in [T -> R]
    BY <1>2, <1>3, <1>4
  <1>6. \A j, k \in T : f[j] = f[k] => j = k
    BY <1>3
  <1>7. \A r \in R : \E k \in T : f[k] = r
    <2> SUFFICES ASSUME NEW r \in R PROVE \E k \in T : f[k] = r
      OBVIOUS
    <2>1. r - 1 \in T /\ f[r - 1] = r
      BY <1>2, <1>3, <1>4
    <2> QED
      BY <2>1, Zenon
  <1>8. f \in Bijection(T, R)
    BY <1>5, <1>6, <1>7, Fun_IsBij
  <1>9. IsFiniteSet(T)
    <2>1. Tail(q) \in Seq(S)
      OBVIOUS
    <2> QED
      BY <2>1, WaitingFinite
  <1>10. Cardinality(T) = Cardinality(R)
    <2>1. ExistsBijection(T, R)
      BY <1>8 DEF ExistsBijection
    <2> HIDE DEF T, R
    <2> QED
      BY <1>9, <2>1, FS_Bijection
  <1>11. Cardinality(R) =
           IF 1 \in Waiting(q) THEN Cardinality(Waiting(q)) - 1 ELSE Cardinality(Waiting(q))
    BY <1>1, FS_RemoveElement
  <1>12. 1 \in Waiting(q) <=> Head(q) # Sentinel
    BY <1>2 DEF Waiting
  <1> QED
    BY <1>1, <1>10, <1>11, <1>12

(* The eight counts behind proofs_pending.                                  *)
NCalculate == Cardinality(toCalculate)

NProve == Cardinality(proofsRx)

NWitness == Cardinality(witnessRx)

NDevice == Cardinality(inFlight)

NQueue == Cardinality(Waiting(recursiveRx))

NWorkers == Cardinality(WorkingWorkers)

NHandlers == Cardinality(WorkingHandlers)

Senders == {h \in Streams : hpc[h] = "send"}

NSenders == Cardinality(Senders)

Finite == IsFiniteSet(witnessRx) /\ IsFiniteSet(inFlight)

LEMMA FiniteSets ==
  ASSUME TypeOK, Finite
  PROVE  /\ IsFiniteSet(toCalculate) /\ IsFiniteSet(proofsRx)
         /\ IsFiniteSet(Waiting(recursiveRx))
         /\ IsFiniteSet(WorkingWorkers) /\ IsFiniteSet(WorkingHandlers)
         /\ IsFiniteSet(Senders)
         /\ NCalculate \in Nat /\ NProve \in Nat /\ NWitness \in Nat /\ NDevice \in Nat
         /\ NQueue \in Nat /\ NWorkers \in Nat /\ NHandlers \in Nat /\ NSenders \in Nat
  <1>1. IsFiniteSet(toCalculate) /\ IsFiniteSet(proofsRx)
    BY SystemAssumption, FS_Subset DEF TypeOK, FeedTypes
  <1>2. IsFiniteSet(WorkingWorkers) /\ IsFiniteSet(WorkingHandlers) /\ IsFiniteSet(Senders)
    BY SystemAssumption, FS_Subset DEF WorkingWorkers, WorkingHandlers, Senders
  <1>3. IsFiniteSet(Waiting(recursiveRx))
    BY WaitingFinite DEF TypeOK, ChannelTypes
  <1> QED
    BY <1>1, <1>2, <1>3, FS_CardinalityType
       DEF Finite, NCalculate, NProve, NWitness, NDevice, NQueue, NWorkers, NHandlers,
           NSenders

LEMMA SameCounts ==
  /\ UNCHANGED toCalculate => NCalculate' = NCalculate
  /\ UNCHANGED proofsRx => NProve' = NProve
  /\ UNCHANGED witnessRx => NWitness' = NWitness
  /\ UNCHANGED inFlight => NDevice' = NDevice
  /\ UNCHANGED recursiveRx => NQueue' = NQueue
  /\ UNCHANGED workerVars => NWorkers' = NWorkers
  /\ UNCHANGED handlerVars => NHandlers' = NHandlers /\ NSenders' = NSenders
  BY DEF NCalculate, NProve, NWitness, NDevice, NQueue, NWorkers, NHandlers, NSenders,
         WorkingWorkers, WorkingHandlers, Senders, workerVars, handlerVars

(* A thread that joins a set of threads or is not in it any more.           *)
Member(x, S) == IF x \in S THEN 1 ELSE 0

LEMMA EnterOrLeave ==
  ASSUME NEW S, IsFiniteSet(S), NEW x
  PROVE  /\ Cardinality(S \cup {x}) = Cardinality(S) - Member(x, S) + 1
         /\ Cardinality(S \ {x}) = Cardinality(S) - Member(x, S) + 0
  <1>1. Cardinality(S) \in Nat
    BY FS_CardinalityType
  <1>2. Cardinality(S \cup {x}) = IF x \in S THEN Cardinality(S) ELSE Cardinality(S) + 1
    BY FS_AddElement
  <1>3. Cardinality(S \ {x}) = IF x \in S THEN Cardinality(S) - 1 ELSE Cardinality(S)
    BY FS_RemoveElement
  <1> QED
    BY <1>1, <1>2, <1>3 DEF Member

(* One handler or worker moves on.                                          *)
Working(pc) == IF pc \notin {"recv", "exit", "poll", "select"} THEN 1 ELSE 0

Sending(pc) == IF pc = "send" THEN 1 ELSE 0

LEMMA HandlerToCounts ==
  ASSUME TypeOK, NEW h \in Streams,
         NEW pc \in {"recv", "take", "buffer", "witness", "send", "decrement", "exit"},
         NEW job, HandlerTo(h, pc, job)
  PROVE  /\ NHandlers' = NHandlers - Working(hpc[h]) + Working(pc)
         /\ NSenders' = NSenders - Sending(hpc[h]) + Sending(pc)
  <1>1. \A g \in Streams : hpc'[g] = IF g = h THEN pc ELSE hpc[g]
    BY DEF TypeOK, HandlerTypes, HandlerTo
  <1>2. /\ IsFiniteSet(WorkingHandlers) /\ IsFiniteSet(Senders)
        /\ Cardinality(WorkingHandlers) \in Nat /\ Cardinality(Senders) \in Nat
    BY SystemAssumption, FS_Subset, FS_CardinalityType DEF WorkingHandlers, Senders
  <1>3. hpc[h] \in {"recv", "take", "buffer", "witness", "send", "decrement", "exit"}
    BY DEF TypeOK, HandlerTypes
  <1>4. NHandlers' = NHandlers - Working(hpc[h]) + Working(pc)
    <2>1. WorkingHandlers' = IF pc \in {"recv", "exit"} THEN WorkingHandlers \ {h}
                             ELSE WorkingHandlers \cup {h}
      BY <1>1 DEF WorkingHandlers
    <2>2. h \in WorkingHandlers <=> hpc[h] \notin {"recv", "exit"}
      BY DEF WorkingHandlers
    <2>3. Member(h, WorkingHandlers) = Working(hpc[h])
      BY <1>3, <2>2 DEF Member, Working
    <2>4. CASE pc \in {"recv", "exit"}
      <3>1. WorkingHandlers' = WorkingHandlers \ {h} /\ Working(pc) = 0
        BY <2>1, <2>4 DEF Working
      <3> QED
        BY <1>2, <2>3, <3>1, EnterOrLeave DEF NHandlers
    <2>5. CASE pc \notin {"recv", "exit"}
      <3>1. WorkingHandlers' = WorkingHandlers \cup {h} /\ Working(pc) = 1
        BY <2>1, <2>5 DEF Working
      <3> QED
        BY <1>2, <2>3, <3>1, EnterOrLeave DEF NHandlers
    <2> QED
      BY <2>4, <2>5
  <1>5. NSenders' = NSenders - Sending(hpc[h]) + Sending(pc)
    <2>1. Senders' = IF pc = "send" THEN Senders \cup {h} ELSE Senders \ {h}
      BY <1>1 DEF Senders
    <2>2. h \in Senders <=> hpc[h] = "send"
      BY DEF Senders
    <2>3. Member(h, Senders) = Sending(hpc[h])
      BY <2>2 DEF Member, Sending
    <2>4. CASE pc = "send"
      <3>1. Senders' = Senders \cup {h} /\ Sending(pc) = 1
        BY <2>1, <2>4 DEF Sending
      <3> QED
        BY <1>2, <2>3, <3>1, EnterOrLeave DEF NSenders
    <2>5. CASE pc # "send"
      <3>1. Senders' = Senders \ {h} /\ Sending(pc) = 0
        BY <2>1, <2>5 DEF Sending
      <3> QED
        BY <1>2, <2>3, <3>1, EnterOrLeave DEF NSenders
    <2> QED
      BY <2>4, <2>5
  <1> QED
    BY <1>4, <1>5

LEMMA WorkerToCounts ==
  ASSUME TypeOK, NEW s \in Streams,
         NEW pc \in {"poll", "basic", "select", "register", "store", "commit", "prove",
                     "exit"},
         NEW job, WorkerTo(s, pc, job)
  PROVE  NWorkers' = NWorkers - Working(spc[s]) + Working(pc)
  <1>1. \A t \in Streams : spc'[t] = IF t = s THEN pc ELSE spc[t]
    BY DEF TypeOK, WorkerTypes, WorkerTo
  <1>2. IsFiniteSet(WorkingWorkers) /\ Cardinality(WorkingWorkers) \in Nat
    BY SystemAssumption, FS_Subset, FS_CardinalityType DEF WorkingWorkers
  <1>3. spc[s] \in {"poll", "basic", "select", "register", "store", "commit", "prove", "exit"}
    BY DEF TypeOK, WorkerTypes
  <1>4. WorkingWorkers' = IF pc \in {"poll", "select", "exit"} THEN WorkingWorkers \ {s}
                          ELSE WorkingWorkers \cup {s}
    BY <1>1 DEF WorkingWorkers
  <1>5. s \in WorkingWorkers <=> spc[s] \notin {"poll", "select", "exit"}
    BY DEF WorkingWorkers
  <1>6. Member(s, WorkingWorkers) = Working(spc[s])
    BY <1>3, <1>5 DEF Member, Working
  <1>7. CASE pc \in {"poll", "select", "exit"}
    <2>1. WorkingWorkers' = WorkingWorkers \ {s} /\ Working(pc) = 0
      BY <1>4, <1>7 DEF Working
    <2> QED
      BY <1>2, <1>6, <2>1, EnterOrLeave DEF NWorkers
  <1>8. CASE pc \notin {"poll", "select", "exit"}
    <2>1. WorkingWorkers' = WorkingWorkers \cup {s} /\ Working(pc) = 1
      BY <1>4, <1>8 DEF Working
    <2> QED
      BY <1>2, <1>6, <2>1, EnterOrLeave DEF NWorkers
  <1> QED
    BY <1>7, <1>8

-----------------------------------------------------------------------------
(* The invariant of the counter.                                            *)

(* A call that has started and has not failed.                              *)
Going ==
  /\ ~cancelled
  /\ mpc \in {"resident", "feed", "witness", "wait", "collect", "join", "check", "done"}

CallbackOn == mpc \in {"resident", "feed", "witness", "wait", "collect"} => callback

NothingLeft ==
  /\ toCalculate = {} /\ proofsRx = {} /\ witnessRx = {} /\ inFlight = {}
  /\ Waiting(recursiveRx) = {}
  /\ WorkingHandlers = {} /\ WorkingWorkers = {}

(* After the wait there is nothing left to do.                              *)
Finished == Going /\ mpc \in {"collect", "join", "check", "done"} => NothingLeft

Counted ==
  NCalculate + NProve + NWitness + NDevice + NQueue + NWorkers + NHandlers + NSenders

Accounts == Going => pending = Counted

CountsInv ==
  /\ Finite
  /\ CallbackOn
  /\ Finished
  /\ Accounts

LEMMA AccountsIsPendingAccounts == Accounts <=> PendingAccounts
  BY DEF Accounts, PendingAccounts, Going, Counted, NCalculate, NProve, NWitness, NDevice,
         NQueue, Waiting, NWorkers, NHandlers, NSenders, Senders

(* Counting down to zero means that nothing is left.                        *)
LEMMA ZeroIsNothing ==
  ASSUME TypeOK, CountsInv, Going, pending = 0
  PROVE  NothingLeft
  <1>1. /\ NCalculate \in Nat /\ NProve \in Nat /\ NWitness \in Nat /\ NDevice \in Nat
        /\ NQueue \in Nat /\ NWorkers \in Nat /\ NHandlers \in Nat /\ NSenders \in Nat
    BY FiniteSets DEF CountsInv
  <1>2. 0 = NCalculate + NProve + NWitness + NDevice + NQueue + NWorkers + NHandlers + NSenders
    BY DEF CountsInv, Accounts, Counted
  <1>3. /\ NCalculate = 0 /\ NProve = 0 /\ NWitness = 0 /\ NDevice = 0
        /\ NQueue = 0 /\ NWorkers = 0 /\ NHandlers = 0
    BY <1>1, <1>2
  <1>4. /\ IsFiniteSet(toCalculate) /\ IsFiniteSet(proofsRx)
        /\ IsFiniteSet(witnessRx) /\ IsFiniteSet(inFlight)
        /\ IsFiniteSet(Waiting(recursiveRx))
        /\ IsFiniteSet(WorkingWorkers) /\ IsFiniteSet(WorkingHandlers)
    BY FiniteSets DEF CountsInv, Finite
  <1> QED
    BY <1>3, <1>4, FS_EmptySet
       DEF NothingLeft, NCalculate, NProve, NWitness, NDevice, NQueue, NWorkers, NHandlers

(* Where nothing is left and the call goes on, only sentinels are received  *)
(* and only idle workers look for work.                                     *)
LEMMA HandlerKeepsNothing ==
  ASSUME TypeOK, NothingLeft, NEW h \in Streams, Handler(h)
  PROVE  NothingLeft'
  <1>1. hpc[h] \in {"recv", "exit"}
    BY DEF NothingLeft, WorkingHandlers
  <1>2. Receive(h)
    BY <1>1 DEF Handler, TakeProof, TakeRecursive1, TakeRecursive2, TakeBuffer, Increment,
       Send, Decrement
  <1>3. /\ recursiveRx # <<>> /\ recursiveRx' = Tail(recursiveRx)
        /\ recursiveRx \in Seq(Message)
        /\ UNCHANGED <<toCalculate, proofsRx, witnessRx, inFlight, workerVars>>
    BY <1>2 DEF Receive, TypeOK, ChannelTypes, feedVars
  <1>4. \A k \in 1 .. Len(recursiveRx) : recursiveRx[k] = Sentinel
    BY <1>3 DEF NothingLeft, Waiting
  <1>5. Head(recursiveRx) = Sentinel
    BY <1>3, <1>4
  <1>6. Waiting(recursiveRx') = {}
    BY <1>3, <1>4 DEF Waiting
  <1>7. HandlerTo(h, "exit", None)
    BY <1>2, <1>5 DEF Receive
  <1>8. WorkingHandlers' = {}
    BY <1>7 DEF HandlerTo, NothingLeft, WorkingHandlers, TypeOK, HandlerTypes
  <1>9. WorkingWorkers' = {}
    BY <1>3 DEF NothingLeft, WorkingWorkers, workerVars
  <1> QED
    BY <1>3, <1>6, <1>8, <1>9 DEF NothingLeft

LEMMA WorkerKeepsNothing ==
  ASSUME TypeOK, NothingLeft, NEW s \in Streams, Worker(s)
  PROVE  NothingLeft'
  <1>1. spc[s] \in {"poll", "select", "exit"} /\ proofsRx = {} /\ witnessRx = {}
    BY DEF NothingLeft, WorkingWorkers
  <1>2. PollWitness(s) \/ SelectDefault(s)
    BY <1>1 DEF Worker, ProveBasic, Register, Store, Commit, ProveRecursive
  <1>3. /\ \E pc \in {"poll", "select", "exit"} : WorkerTo(s, pc, None)
        /\ UNCHANGED <<toCalculate, proofsRx, witnessRx, inFlight, recursiveRx, handlerVars>>
    BY <1>2 DEF PollWitness, SelectDefault, feedVars, deviceVars
  <1>4. WorkingWorkers' = {}
    BY <1>3 DEF WorkerTo, NothingLeft, WorkingWorkers, TypeOK, WorkerTypes
  <1> QED
    BY <1>3, <1>4 DEF NothingLeft, WorkingHandlers, handlerVars

LEMMA NothingKept ==
  ASSUME NothingLeft, UNCHANGED <<toCalculate, proofsRx, witnessRx, inFlight>>,
         UNCHANGED <<handlerVars, workerVars>>, Waiting(recursiveRx') = Waiting(recursiveRx)
  PROVE  NothingLeft'
  BY DEF NothingLeft, WorkingHandlers, WorkingWorkers, handlerVars, workerVars

LEMMA NextFinished ==
  ASSUME TypeOK, CountsInv, [Next]_vars
  PROVE  Finished'
  <1> SUFFICES ASSUME Going', mpc' \in {"collect", "join", "check", "done"}
               PROVE  NothingLeft'
    BY DEF Finished
  <1> USE DEF feedVars, deviceVars, mainVars
  <1>1. CASE WaitZero
    <2>1. Going /\ pending = 0
      BY <1>1 DEF WaitZero, Going, faultVars
    <2>2. NothingLeft
      BY <2>1, ZeroIsNothing
    <2> QED
      BY <1>1, <2>2, NothingKept DEF WaitZero
  <1>2. CASE Dismiss
    <2>1. Going /\ NothingLeft
      BY <1>2 DEF Dismiss, Going, faultVars, CountsInv, Finished
    <2>2. Waiting(recursiveRx') = Waiting(recursiveRx)
      BY <1>2, WaitingSentinels DEF Dismiss, TypeOK, ChannelTypes
    <2> QED
      BY <1>2, <2>1, <2>2, NothingKept DEF Dismiss
  <1>3. CASE Join \/ Succeed
    <2>1. Going /\ NothingLeft
      BY <1>3 DEF Join, Succeed, Going, faultVars, CountsInv, Finished
    <2> QED
      BY <1>3, <2>1, NothingKept DEF Join, Succeed
  <1>4. CASE Returned \/ UNCHANGED vars
    <2>1. UNCHANGED vars
      BY <1>4 DEF Returned
    <2>2. NothingLeft
      BY <2>1 DEF vars, Going, faultVars, CountsInv, Finished
    <2> QED
      BY <2>1, <2>2, NothingKept DEF vars
  <1>5. CASE \E s \in Streams : Handler(s) \/ Worker(s)
    <2>1. UNCHANGED <<mpc, cancelled>>
      BY <1>5 DEF Handler, Receive, TakeProof, TakeRecursive1, TakeRecursive2, TakeBuffer,
         Increment, Send, Decrement, Worker, PollProofs, PollWitness, ProveBasic, Select,
         SelectDefault, Register, Store, Commit, ProveRecursive, faultVars
    <2>2. NothingLeft
      BY <2>1 DEF Going, CountsInv, Finished
    <2> QED
      BY <1>5, <2>2, HandlerKeepsNothing, WorkerKeepsNothing
  <1>6. CASE Device
    <2>1. UNCHANGED <<mpc, cancelled>> /\ inFlight # {}
      BY <1>6 DEF Device, StreamDone, faultVars
    <2> QED
      BY <2>1 DEF Going, CountsInv, Finished, NothingLeft
  <1>7. CASE \/ Fault \/ Restart \/ FailCancelled \/ Unwind \/ UnwindJoin
             \/ Start \/ StartWorkers \/ EndFeed \/ EndWitness
             \/ \E i \in toFeed : ProveResident(i) \/ Feed(i)
             \/ \E i \in toCalculate : ComputeWitness(i)
    BY <1>7 DEF Fault, Cancel, FailPrecalculate, FailResident, FailWitness,
       FailRecursiveWitness, FailWorker, Restart, FailCancelled, Unwind, UnwindJoin, Start,
       StartWorkers, EndFeed, EndWitness, ProveResident, Feed, ComputeWitness, Going
  <1> QED
    BY <1>1, <1>2, <1>3, <1>4, <1>5, <1>6, <1>7 DEF Next, Main

LEMMA NextCallbackOn ==
  ASSUME CallbackOn, [Next]_vars
  PROVE  CallbackOn'
  <1> USE DEF CallbackOn, mainVars, deviceVars
  <1>1. CASE Main
    BY <1>1 DEF Main, Start, ProveResident, StartWorkers, Feed, EndFeed, ComputeWitness,
       EndWitness, WaitZero, Dismiss, Join, Succeed, FailCancelled, Unwind, UnwindJoin
  <1>2. CASE \E s \in Streams : Handler(s)
    BY <1>2 DEF Handler, Receive, TakeProof, TakeRecursive1, TakeRecursive2, TakeBuffer,
       Increment, Send, Decrement
  <1>3. CASE \E s \in Streams : Worker(s)
    BY <1>3 DEF Worker, PollProofs, PollWitness, ProveBasic, Select, SelectDefault,
       Register, Store, Commit, ProveRecursive, Submit
  <1>4. CASE Device \/ Fault \/ Restart \/ Returned \/ UNCHANGED vars
    BY <1>4 DEF Device, StreamDone, Fault, Cancel, FailPrecalculate, FailResident,
       FailWitness, FailRecursiveWitness, FailWorker, Restart, Returned, vars
  <1> QED
    BY <1>1, <1>2, <1>3, <1>4 DEF Next

(* What joins a finite set keeps it finite.                                 *)
LEMMA NextFinite ==
  ASSUME Finite, [Next]_vars
  PROVE  Finite'
  <1> USE DEF Finite, deviceVars
  <1>1. \A x : IsFiniteSet(witnessRx \cup {x}) /\ IsFiniteSet(inFlight \cup {x})
    BY FS_AddElement
  <1>2. \A x : IsFiniteSet(witnessRx \ {x}) /\ IsFiniteSet(inFlight \ {x})
    BY FS_RemoveElement
  <1>3. IsFiniteSet({})
    BY FS_EmptySet
  <1>4. CASE Main
    BY <1>1, <1>3, <1>4 DEF Main, Start, ProveResident, StartWorkers, Feed, EndFeed,
       ComputeWitness, EndWitness, WaitZero, Dismiss, Join, Succeed, FailCancelled, Reset,
       Unwind, UnwindJoin
  <1>5. CASE \E s \in Streams : Handler(s)
    BY <1>1, <1>5 DEF Handler, Receive, TakeProof, TakeRecursive1, TakeRecursive2,
       TakeBuffer, Increment, Send, Decrement
  <1>6. CASE \E s \in Streams : Worker(s)
    <2>1. PICK s \in Streams : Worker(s)
      BY <1>6
    <2>2. /\ witnessRx' = witnessRx \/ \E x : witnessRx' = witnessRx \ {x}
          /\ inFlight' = inFlight \/ \E x : inFlight' = inFlight \cup {x}
      BY <2>1 DEF Worker, PollProofs, PollWitness, ProveBasic, Select, SelectDefault,
         Register, Store, Commit, ProveRecursive, Submit
    <2> QED
      BY <1>1, <1>2, <2>2
  <1>7. CASE Device \/ Fault \/ Restart \/ Returned \/ UNCHANGED vars
    BY <1>2, <1>3, <1>7 DEF Device, StreamDone, Fault, Cancel, FailPrecalculate,
       FailResident, FailWitness, FailRecursiveWitness, FailWorker, Restart, Reset,
       Returned, vars
  <1> QED
    BY <1>4, <1>5, <1>6, <1>7 DEF Next

(* The counter and the counts as they are before a step.                    *)
LEMMA CountedSum ==
  ASSUME TypeOK, CountsInv, Going
  PROVE  /\ NCalculate \in Nat /\ NProve \in Nat /\ NWitness \in Nat /\ NDevice \in Nat
         /\ NQueue \in Nat /\ NWorkers \in Nat /\ NHandlers \in Nat /\ NSenders \in Nat
         /\ pending = NCalculate + NProve + NWitness + NDevice + NQueue + NWorkers
                      + NHandlers + NSenders
  BY FiniteSets DEF CountsInv, Accounts, Counted

(* The main thread.                                                         *)
LEMMA StartAccounts ==
  ASSUME TypeOK, TraceInv, SlotsInv, Start
  PROVE  pending' = Counted'
  <1>1. /\ toCalculate = {} /\ proofsRx = {} /\ witnessRx = {} /\ inFlight = {}
        /\ recursiveRx = <<>> /\ \A s \in Streams : spc[s] = "exit"
    BY DEF Start, TraceInv, Quiet, SlotsInv, Phases
  <1>2. /\ UNCHANGED <<toCalculate, proofsRx, witnessRx, inFlight, recursiveRx, spc>>
        /\ hpc' = [h \in Streams |-> "recv"] /\ pending' = 0
    BY DEF Start, feedVars, workerVars
  <1>3. /\ toCalculate' = {} /\ proofsRx' = {} /\ witnessRx' = {} /\ inFlight' = {}
        /\ Waiting(recursiveRx') = {}
        /\ WorkingWorkers' = {} /\ WorkingHandlers' = {} /\ Senders' = {}
    BY <1>1, <1>2 DEF Waiting, WorkingWorkers, WorkingHandlers, Senders
  <1>4. /\ NCalculate' = 0 /\ NProve' = 0 /\ NWitness' = 0 /\ NDevice' = 0 /\ NQueue' = 0
        /\ NWorkers' = 0 /\ NHandlers' = 0 /\ NSenders' = 0
    BY <1>3, FS_EmptySet DEF NCalculate, NProve, NWitness, NDevice, NQueue, NWorkers,
       NHandlers, NSenders
  <1> QED
    BY <1>2, <1>4 DEF Counted

LEMMA ProveResidentAccounts ==
  ASSUME TypeOK, TraceInv, SlotsInv, CountsInv, Going, NEW j \in toFeed, ProveResident(j)
  PROVE  pending' = Counted'
  <1> DEFINE n == Done(Proof("Basic", j))
  <1>1. j \in Instances /\ At("feed", j, j) /\ "Basic" \in ChainTypes
    BY DEF TypeOK, FeedTypes, At, ChainTypes
  <1>2. n \notin inFlight
    BY <1>1, ElsewhereUnannounced, ReferenceKinds
  <1>3. /\ inFlight' = inFlight \cup {n} /\ pending' = pending + 1
        /\ UNCHANGED <<toCalculate, proofsRx, witnessRx, recursiveRx, handlerVars, workerVars>>
    BY DEF ProveResident
  <1>4. NDevice' = NDevice + 1
    BY <1>2, <1>3, FS_AddElement DEF NDevice, CountsInv, Finite
  <1> QED
    BY <1>3, <1>4, CountedSum, SameCounts DEF Counted

LEMMA FeedAccounts ==
  ASSUME TypeOK, TraceInv, CountsInv, Going, NEW j \in toFeed, Feed(j)
  PROVE  pending' = Counted'
  <1>1. j \notin toCalculate /\ j \notin proofsRx
    BY DEF TraceInv, OnePlace
  <1>2. /\ pending' = pending + 1
        /\ UNCHANGED <<witnessRx, inFlight, recursiveRx, handlerVars, workerVars>>
    BY DEF Feed, deviceVars
  <1>3. IsFiniteSet(toCalculate) /\ IsFiniteSet(proofsRx)
    BY FiniteSets DEF CountsInv
  <1>4. CASE j \in traces
    <2>1. proofsRx' = proofsRx \cup {j} /\ toCalculate' = toCalculate
      BY <1>4 DEF Feed
    <2>2. NProve' = NProve + 1
      BY <1>1, <1>3, <2>1, FS_AddElement DEF NProve
    <2> QED
      BY <1>2, <2>1, <2>2, CountedSum, SameCounts DEF Counted
  <1>5. CASE j \notin traces
    <2>1. toCalculate' = toCalculate \cup {j} /\ proofsRx' = proofsRx
      BY <1>5 DEF Feed
    <2>2. NCalculate' = NCalculate + 1
      BY <1>1, <1>3, <2>1, FS_AddElement DEF NCalculate
    <2> QED
      BY <1>2, <2>1, <2>2, CountedSum, SameCounts DEF Counted
  <1> QED
    BY <1>4, <1>5

LEMMA ComputeWitnessAccounts ==
  ASSUME TypeOK, TraceInv, CountsInv, Going, NEW j \in toCalculate, ComputeWitness(j)
  PROVE  pending' = Counted'
  <1>1. j \notin proofsRx
    BY DEF TraceInv, OnePlace
  <1>2. /\ toCalculate' = toCalculate \ {j} /\ proofsRx' = proofsRx \cup {j}
        /\ UNCHANGED <<pending, witnessRx, inFlight, recursiveRx, handlerVars, workerVars>>
    BY DEF ComputeWitness, deviceVars
  <1>3. IsFiniteSet(toCalculate) /\ IsFiniteSet(proofsRx)
    BY FiniteSets DEF CountsInv
  <1>4. NProve' = NProve + 1
    BY <1>1, <1>2, <1>3, FS_AddElement DEF NProve
  <1>5. NCalculate' = NCalculate - 1
    BY <1>2, <1>3, FS_RemoveElement DEF NCalculate
  <1> QED
    BY <1>2, <1>4, <1>5, CountedSum, SameCounts DEF Counted

LEMMA MainAccounts ==
  ASSUME TypeOK, TraceInv, SlotsInv, CountsInv, Main, Going'
  PROVE  pending' = Counted'
  <1> USE DEF feedVars, deviceVars, faultVars
  <1>1. CASE Start
    BY <1>1, StartAccounts
  <1>2. CASE \E j \in toFeed : ProveResident(j) \/ Feed(j)
    <2>1. Going
      BY <1>2 DEF ProveResident, Feed, Going
    <2> QED
      BY <1>2, <2>1, ProveResidentAccounts, FeedAccounts
  <1>3. CASE \E j \in toCalculate : ComputeWitness(j)
    <2>1. Going
      BY <1>3 DEF ComputeWitness, Going
    <2> QED
      BY <1>3, <2>1, ComputeWitnessAccounts
  <1>4. CASE StartWorkers
    <2>1. Going /\ \A s \in Streams : spc[s] = "exit" /\ spc'[s] = "poll"
      BY <1>4 DEF StartWorkers, Going, TraceInv, Quiet
    <2>2. WorkingWorkers' = WorkingWorkers
      BY <2>1 DEF WorkingWorkers
    <2>3. NWorkers' = NWorkers
      BY <2>2 DEF NWorkers
    <2>4. UNCHANGED <<toCalculate, proofsRx, witnessRx, inFlight, recursiveRx, handlerVars,
                      pending>>
      BY <1>4 DEF StartWorkers
    <2> QED
      BY <2>1, <2>3, <2>4, CountedSum, SameCounts DEF Counted
  <1>5. CASE Dismiss
    <2>1. /\ Going
          /\ recursiveRx \in Seq(Message) /\ recursiveRx' = recursiveRx \o Sentinels
          /\ UNCHANGED <<toCalculate, proofsRx, witnessRx, inFlight, handlerVars, workerVars,
                         pending>>
      BY <1>5 DEF Dismiss, Going, TypeOK, ChannelTypes
    <2>2. NQueue' = NQueue
      BY <2>1, WaitingSentinels DEF NQueue
    <2> QED
      BY <2>1, <2>2, CountedSum, SameCounts DEF Counted
  <1>6. CASE EndFeed \/ EndWitness \/ WaitZero \/ Join \/ Succeed
    <2>1. /\ Going
          /\ UNCHANGED <<toCalculate, proofsRx, witnessRx, inFlight, recursiveRx, handlerVars,
                         workerVars, pending>>
      BY <1>6 DEF EndFeed, EndWitness, WaitZero, Join, Succeed, Going
    <2> QED
      BY <2>1, CountedSum, SameCounts DEF Counted
  <1>7. CASE FailCancelled \/ Unwind \/ UnwindJoin
    BY <1>7 DEF FailCancelled, Unwind, UnwindJoin, Going
  <1> QED
    BY <1>1, <1>2, <1>3, <1>4, <1>5, <1>6, <1>7 DEF Main

(* A handler.                                                               *)
LEMMA ReceiveAccounts ==
  ASSUME TypeOK, CountsInv, Going, NEW h \in Streams, Receive(h)
  PROVE  pending' = Counted'
  <1> DEFINE m == Head(recursiveRx)
  <1>1. /\ recursiveRx \in Seq(Message) /\ recursiveRx # <<>>
        /\ recursiveRx' = Tail(recursiveRx) /\ hpc[h] = "recv" /\ ~cancelled
        /\ UNCHANGED <<toCalculate, proofsRx, witnessRx, inFlight, workerVars, pending>>
    BY DEF Receive, TypeOK, ChannelTypes, feedVars, Going
  <1>2. NQueue' = NQueue - (IF m = Sentinel THEN 0 ELSE 1)
    BY <1>1, WaitingTail DEF NQueue
  <1>3. CASE m = Sentinel
    <2>1. HandlerTo(h, "exit", None)
      BY <1>3 DEF Receive
    <2>2. NHandlers' = NHandlers - 0 + 0 /\ NSenders' = NSenders - 0 + 0
      BY <1>1, <2>1, HandlerToCounts DEF Working, Sending
    <2> QED
      BY <1>1, <1>2, <1>3, <2>2, CountedSum, SameCounts DEF Counted
  <1>4. CASE m # Sentinel
    <2>1. PICK job : \E pc \in {"take", "decrement"} : HandlerTo(h, pc, job)
      BY <1>1, <1>4 DEF Receive
    <2>2. NHandlers' = NHandlers - 0 + 1 /\ NSenders' = NSenders - 0 + 0
      BY <1>1, <2>1, HandlerToCounts DEF Working, Sending
    <2>3. NQueue' = NQueue - 1
      BY <1>2, <1>4
    <2>4. /\ NCalculate' = NCalculate /\ NProve' = NProve /\ NWitness' = NWitness
          /\ NDevice' = NDevice /\ NWorkers' = NWorkers /\ pending' = pending
      BY <1>1, SameCounts
    <2> QED
      BY <2>2, <2>3, <2>4, CountedSum DEF Counted
  <1> QED
    BY <1>3, <1>4

LEMMA SendAccounts ==
  ASSUME TypeOK, SlotsInv, CountsInv, Going, NEW h \in Streams, Send(h)
  PROVE  pending' = Counted'
  <1>1. /\ hpc[h] = "send" /\ witnessRx' = witnessRx \cup {hjob[h]}
        /\ HandlerTo(h, "decrement", None)
        /\ UNCHANGED <<toCalculate, proofsRx, inFlight, recursiveRx, workerVars, pending>>
    BY DEF Send, feedVars, deviceVars
  <1>2. hjob[h] \notin witnessRx
    <2> SUFFICES ASSUME hjob[h] \in witnessRx PROVE FALSE
      OBVIOUS
    <2>1. Shaped(hjob[h]) /\ hjob[h] \in Work
      BY <1>1 DEF SlotsInv, Shapes, HandlerShapes, Carrying, TypeOK, HandlerTypes
    <2>2. PICK i \in Instances : i \in hjob[h].leaves
      BY <2>1 DEF Shaped, LeavesOf
    <2>3. At("handler", h, i) /\ At("witness", hjob[h], i)
      BY <1>1, <2>2 DEF At, HandlerHas, Carrying, QueueHas
    <2> QED
      BY <2>3 DEF SlotsInv, InOnePlace
  <1>3. NWitness' = NWitness + 1
    BY <1>1, <1>2, FS_AddElement DEF NWitness, CountsInv, Finite
  <1>4. NHandlers' = NHandlers - 1 + 1 /\ NSenders' = NSenders - 1 + 0
    BY <1>1, HandlerToCounts DEF Working, Sending
  <1> QED
    BY <1>1, <1>3, <1>4, CountedSum, SameCounts DEF Counted

LEMMA HandlerAccounts ==
  ASSUME TypeOK, SlotsInv, CountsInv, Going, NEW h \in Streams, Handler(h)
  PROVE  pending' = Counted'
  <1> USE DEF feedVars, deviceVars
  <1>1. CASE Receive(h)
    BY <1>1, ReceiveAccounts
  <1>2. CASE Send(h)
    BY <1>2, SendAccounts
  <1>3. CASE TakeProof(h) \/ TakeRecursive1(h) \/ TakeRecursive2(h) \/ TakeBuffer(h)
    <2>1. /\ hpc[h] \in {"take", "buffer"}
          /\ UNCHANGED <<toCalculate, proofsRx, witnessRx, inFlight, recursiveRx, workerVars,
                         pending>>
      BY <1>3 DEF TakeProof, TakeRecursive1, TakeRecursive2, TakeBuffer
    <2>2. PICK job : \E pc \in {"decrement", "buffer", "witness"} : HandlerTo(h, pc, job)
      BY <1>3, JoinGoesOn DEF TakeProof, TakeRecursive1, TakeRecursive2, TakeBuffer
    <2>3. NHandlers' = NHandlers - 1 + 1 /\ NSenders' = NSenders - 0 + 0
      BY <2>1, <2>2, HandlerToCounts DEF Working, Sending
    <2> QED
      BY <2>1, <2>3, CountedSum, SameCounts DEF Counted
  <1>4. CASE Increment(h)
    <2>1. /\ hpc[h] = "witness" /\ HandlerTo(h, "send", hjob[h]) /\ pending' = pending + 1
          /\ UNCHANGED <<toCalculate, proofsRx, witnessRx, inFlight, recursiveRx, workerVars>>
      BY <1>4 DEF Increment
    <2>2. NHandlers' = NHandlers - 1 + 1 /\ NSenders' = NSenders - 0 + 1
      BY <2>1, HandlerToCounts DEF Working, Sending
    <2> QED
      BY <2>1, <2>2, CountedSum, SameCounts DEF Counted
  <1>5. CASE Decrement(h)
    <2>1. /\ hpc[h] = "decrement" /\ HandlerTo(h, "recv", None) /\ pending' = pending - 1
          /\ UNCHANGED <<toCalculate, proofsRx, witnessRx, inFlight, recursiveRx, workerVars>>
      BY <1>5 DEF Decrement
    <2>2. NHandlers' = NHandlers - 1 + 0 /\ NSenders' = NSenders - 0 + 0
      BY <2>1, HandlerToCounts DEF Working, Sending
    <2> QED
      BY <2>1, <2>2, CountedSum, SameCounts DEF Counted
  <1> QED
    BY <1>1, <1>2, <1>3, <1>4, <1>5 DEF Handler

(* A worker.                                                                *)

(* A worker hands its proof, that nobody refers to, to the prover.          *)
LEMMA SubmitAccounts ==
  ASSUME TypeOK, SlotsInv, CountsInv, Going, callback, NEW s \in Streams,
         spc[s] \in {"basic", "prove"}, NEW n \in Reports, n \notin inFlight, Submit(n),
         WorkerTo(s, "poll", None),
         UNCHANGED <<toCalculate, proofsRx, witnessRx, handlerVars, pending>>
  PROVE  pending' = Counted'
  <1>1. NWorkers' = NWorkers - 1 + 0
    BY WorkerToCounts DEF Working
  <1>2. CASE Gpu
    <2>1. inFlight' = inFlight \cup {n} /\ recursiveRx' = recursiveRx
      BY <1>2 DEF Submit
    <2>2. NDevice' = NDevice + 1
      BY <2>1, FS_AddElement DEF NDevice, CountsInv, Finite
    <2> QED
      BY <1>1, <2>1, <2>2, CountedSum, SameCounts DEF Counted
  <1>3. CASE ~Gpu
    <2>1. inFlight' = inFlight /\ recursiveRx' = Append(recursiveRx, n)
      BY <1>3 DEF Submit, Report
    <2>2. n # Sentinel
      BY DEF Reports, Sentinel, ProofTypes, ChainTypes
    <2>3. NQueue' = NQueue + 1
      BY <2>1, <2>2, WaitingAppend DEF NQueue, TypeOK, ChannelTypes
    <2>4. /\ NCalculate' = NCalculate /\ NProve' = NProve /\ NWitness' = NWitness
          /\ NDevice' = NDevice /\ NHandlers' = NHandlers /\ NSenders' = NSenders
          /\ pending' = pending
      BY <2>1, SameCounts
    <2> QED
      BY <1>1, <2>3, <2>4, CountedSum DEF Counted
  <1> QED
    BY <1>2, <1>3

(* While a worker works, the callback is registered.                        *)
LEMMA CallbackWhileWorking ==
  ASSUME CountsInv, Going, ~NothingLeft
  PROVE  callback
  BY DEF CountsInv, CallbackOn, Finished, Going

LEMMA ProveBasicAccounts ==
  ASSUME TypeOK, SlotsInv, CountsInv, Going, NEW s \in Streams, ProveBasic(s)
  PROVE  pending' = Counted'
  <1> DEFINE w == sjob[s]
  <1>1. /\ spc[s] = "basic" /\ Submit(Done(w)) /\ WorkerTo(s, "poll", None)
        /\ UNCHANGED <<toCalculate, proofsRx, witnessRx, handlerVars, pending>>
    BY DEF ProveBasic
  <1>2. callback
    BY <1>1, CallbackWhileWorking DEF NothingLeft, WorkingWorkers
  <1>3. w \in ChainWork /\ w.type = "Basic" /\ w = Proof("Basic", w.id)
    BY <1>1 DEF TypeOK, WorkerTypes, SlotsInv, Shapes, WorkerShapes, Holding, Shaped
  <1>4. w.id \in Instances /\ At("worker", s, w.id)
    BY <1>1, <1>3 DEF ChainWork, Proof, At, WorkerHas, Holding
  <1>5. Done(w) \in Reports /\ Done(w) \notin inFlight
    BY <1>3, <1>4, ElsewhereUnannounced, ReferenceKinds DEF ChainTypes
  <1> QED
    BY <1>1, <1>2, <1>5, SubmitAccounts

LEMMA ProveRecursiveAccounts ==
  ASSUME TypeOK, SlotsInv, CountsInv, Going, NEW s \in Streams, ProveRecursive(s)
  PROVE  pending' = Counted'
  <1> DEFINE w == sjob[s]
  <1>1. /\ spc[s] = "prove" /\ Submit(Done(w)) /\ WorkerTo(s, "poll", None)
        /\ UNCHANGED <<toCalculate, proofsRx, witnessRx, handlerVars, pending>>
    BY DEF ProveRecursive, feedVars
  <1>2. callback
    BY <1>1, CallbackWhileWorking DEF NothingLeft, WorkingWorkers
  <1>3. Done(w) \in Reports
    BY <1>1, WorkReports DEF TypeOK, WorkerTypes
  <1>4. Refers("worker", s, Done(w))
    BY <1>1 DEF Refers, WorkerRefers, Storing
  <1>5. Done(w) \notin inFlight
    BY <1>3, <1>4, ReferenceKinds DEF SlotsInv, OneReference
  <1> QED
    BY <1>1, <1>2, <1>3, <1>5, SubmitAccounts

LEMMA WorkerAccounts ==
  ASSUME TypeOK, SlotsInv, CountsInv, Going, NEW s \in Streams, Worker(s)
  PROVE  pending' = Counted'
  <1> USE DEF feedVars, deviceVars
  <1>1. CASE \E i \in proofsRx : PollProofs(s, i)
    <2>1. PICK i \in proofsRx : PollProofs(s, i)
      BY <1>1
    <2>2. /\ spc[s] = "poll" /\ proofsRx' = proofsRx \ {i}
          /\ WorkerTo(s, "basic", Proof("Basic", i))
          /\ UNCHANGED <<toCalculate, witnessRx, inFlight, recursiveRx, handlerVars, pending>>
      BY <2>1 DEF PollProofs, Going
    <2>3. NProve' = NProve - 1
      BY <2>2, FiniteSets, FS_RemoveElement DEF NProve, CountsInv
    <2>4. NWorkers' = NWorkers - 0 + 1
      BY <2>2, WorkerToCounts DEF Working
    <2> QED
      BY <2>2, <2>3, <2>4, CountedSum, SameCounts DEF Counted
  <1>2. CASE \E w \in witnessRx : Select(s, w)
    <2>1. PICK w \in witnessRx : Select(s, w)
      BY <1>2
    <2>2. /\ spc[s] = "select" /\ witnessRx' = witnessRx \ {w}
          /\ \E pc \in {"register", "store"} : WorkerTo(s, pc, w)
          /\ UNCHANGED <<toCalculate, proofsRx, inFlight, recursiveRx, handlerVars, pending>>
      BY <2>1 DEF Select
    <2>3. NWitness' = NWitness - 1
      BY <2>2, FS_RemoveElement DEF NWitness, CountsInv, Finite
    <2>4. NWorkers' = NWorkers - 0 + 1
      BY <2>2, WorkerToCounts DEF Working
    <2> QED
      BY <2>2, <2>3, <2>4, CountedSum, SameCounts DEF Counted
  <1>3. CASE PollWitness(s) \/ SelectDefault(s)
    <2>1. /\ spc[s] \in {"poll", "select"}
          /\ \E pc \in {"poll", "select", "exit"} : WorkerTo(s, pc, None)
          /\ UNCHANGED <<toCalculate, proofsRx, witnessRx, inFlight, recursiveRx, handlerVars,
                         pending>>
      BY <1>3 DEF PollWitness, SelectDefault
    <2>2. NWorkers' = NWorkers - 0 + 0
      BY <2>1, WorkerToCounts DEF Working
    <2> QED
      BY <2>1, <2>2, CountedSum, SameCounts DEF Counted
  <1>4. CASE Register(s) \/ Store(s) \/ Commit(s)
    <2>1. /\ spc[s] \in {"register", "store", "commit"}
          /\ \E pc \in {"store", "commit", "prove"} : \E job : WorkerTo(s, pc, job)
          /\ UNCHANGED <<toCalculate, proofsRx, witnessRx, inFlight, recursiveRx, handlerVars,
                         pending>>
      BY <1>4 DEF Register, Store, Commit
    <2>2. NWorkers' = NWorkers - 1 + 1
      BY <2>1, WorkerToCounts DEF Working
    <2> QED
      BY <2>1, <2>2, CountedSum, SameCounts DEF Counted
  <1> QED
    BY <1>1, <1>2, <1>3, <1>4, ProveBasicAccounts, ProveRecursiveAccounts DEF Worker

(* A device stream is done: its proof goes from the device to the channel.  *)
LEMMA DeviceAccounts ==
  ASSUME TypeOK, SlotsInv, CountsInv, Going, NEW m \in inFlight, StreamDone(m)
  PROVE  pending' = Counted'
  <1>1. callback
    BY CallbackWhileWorking DEF NothingLeft
  <1>2. /\ inFlight' = inFlight \ {m} /\ recursiveRx' = Append(recursiveRx, m)
        /\ UNCHANGED <<toCalculate, proofsRx, witnessRx, handlerVars, workerVars, pending>>
    BY <1>1 DEF StreamDone, Report, feedVars
  <1>3. m # Sentinel
    BY DEF SlotsInv, Messages, Reports, Sentinel, ProofTypes, ChainTypes
  <1>4. NDevice' = NDevice - 1
    BY <1>2, FS_RemoveElement DEF NDevice, CountsInv, Finite
  <1>5. NQueue' = NQueue + 1
    BY <1>2, <1>3, WaitingAppend DEF NQueue, TypeOK, ChannelTypes
  <1> QED
    BY <1>2, <1>4, <1>5, CountedSum, SameCounts DEF Counted

LEMMA NextAccounts ==
  ASSUME TypeOK, TraceInv, SlotsInv, CountsInv, [Next]_vars
  PROVE  Accounts'
  <1> SUFFICES ASSUME Going' PROVE pending' = Counted'
    BY DEF Accounts
  <1>1. CASE Main
    BY <1>1, MainAccounts
  <1>2. CASE \E s \in Streams : Handler(s) \/ Worker(s)
    <2>1. UNCHANGED <<mpc, cancelled>>
      BY <1>2 DEF Handler, Receive, TakeProof, TakeRecursive1, TakeRecursive2, TakeBuffer,
         Increment, Send, Decrement, Worker, PollProofs, PollWitness, ProveBasic, Select,
         SelectDefault, Register, Store, Commit, ProveRecursive, faultVars, mainVars
    <2>2. Going
      BY <2>1 DEF Going
    <2> QED
      BY <1>2, <2>2, HandlerAccounts, WorkerAccounts
  <1>3. CASE Device
    <2>1. Going
      BY <1>3 DEF Device, StreamDone, Going, faultVars, mainVars
    <2> QED
      BY <1>3, <2>1, DeviceAccounts DEF Device
  <1>4. CASE Fault \/ Restart
    BY <1>4 DEF Fault, Cancel, FailPrecalculate, FailResident, FailWitness,
       FailRecursiveWitness, FailWorker, Restart, Going
  <1>5. CASE Returned \/ UNCHANGED vars
    <2>1. /\ Going
          /\ UNCHANGED <<toCalculate, proofsRx, witnessRx, inFlight, recursiveRx, handlerVars,
                         workerVars, pending>>
      BY <1>5 DEF Returned, vars, Going, mainVars, faultVars, feedVars, deviceVars
    <2> QED
      BY <2>1, CountedSum, SameCounts DEF Counted
  <1> QED
    BY <1>1, <1>2, <1>3, <1>4, <1>5 DEF Next

LEMMA InitCountsInv == Init => CountsInv
  BY FS_EmptySet DEF Init, CountsInv, Finite, CallbackOn, Finished, Accounts, Going

LEMMA NextCountsInv ==
  TypeOK /\ TraceInv /\ SlotsInv /\ CountsInv /\ [Next]_vars => CountsInv'
  BY NextFinite, NextCallbackOn, NextFinished, NextAccounts DEF CountsInv

LEMMA CountsAlways == Spec => [](TypeOK /\ TraceInv /\ SlotsInv /\ CountsInv)
  <1>1. Init => TypeOK /\ TraceInv /\ SlotsInv /\ CountsInv
    BY InvariantSteps, InitCountsInv
  <1>2. TypeOK /\ TraceInv /\ SlotsInv /\ CountsInv /\ [Next]_vars
          => (TypeOK /\ TraceInv /\ SlotsInv /\ CountsInv)'
    BY InvariantSteps, NextCountsInv
  <1> QED
    BY <1>1, <1>2, PTL DEF Spec

(* proofs_pending is right whatever the threads do: no instance, no proof,  *)
(* no message and no witness is forgotten or counted twice, so the wait for *)
(* zero neither ends early nor lasts for ever on a wrong count.             *)
THEOREM PendingCorrect == Spec => []PendingAccounts
  <1>1. CountsInv => PendingAccounts
    BY AccountsIsPendingAccounts DEF CountsInv
  <1> QED
    BY <1>1, CountsAlways, PTL

(* What the main thread relies on when it dismisses the others: after the   *)
(* wait for zero there is nothing left that they could do.                  *)
THEOREM DismissalIsSafe == Spec => []NothingAfterDismissal
  <1>1. SlotsInv /\ CountsInv => NothingAfterDismissal
    <2> SUFFICES ASSUME SlotsInv, CountsInv, ~cancelled, mpc \in {"join", "check", "done"}
                 PROVE  /\ toFeed = {} /\ toCalculate = {} /\ proofsRx = {} /\ witnessRx = {}
                        /\ Announced = {}
                        /\ WorkingHandlers = {} /\ WorkingWorkers = {}
      BY DEF NothingAfterDismissal
    <2>1. NothingLeft
      BY DEF CountsInv, Finished, Going
    <2>2. toFeed = {}
      BY DEF SlotsInv, Phases
    <2>3. Announced = {}
      BY <2>1 DEF Announced, NothingLeft, Waiting, WorkingHandlers
    <2> QED
      BY <2>1, <2>2, <2>3 DEF NothingLeft
  <1> QED
    BY <1>1, CountsAlways, PTL

-----------------------------------------------------------------------------
(* The witness buffers.                                                     *)

HandlerLoads == {hjob[h] : h \in {g \in Streams : hpc[g] \in {"witness", "send"}}}

WorkerLoads == {sjob[s] : s \in {t \in Streams : spc[t] \in {"register", "store", "commit"}}}

(* The witnesses that have a buffer, and those of a pool.                   *)
Loads == witnessRx \cup HandlerLoads \cup WorkerLoads

OfPool(p, W) == {w \in W : PoolOf(w) = p}

(* What the other handlers and workers have.                                *)
OtherHandlers(h) ==
  {hjob[g] : g \in {f \in Streams \ {h} : hpc[f] \in {"witness", "send"}}}

OtherWorkers(s) ==
  {sjob[t] : t \in {u \in Streams \ {s} : spc[u] \in {"register", "store", "commit"}}}

LEMMA HeldOfPool ==
  \A p : Held(p) = OfPool(p, Loads) /\ Held(p)' = OfPool(p, Loads')
  BY DEF Held, OfPool, Loads, HandlerLoads, WorkerLoads

LEMMA ImagesFinite ==
  ASSUME NEW S, NEW f, NEW U \in SUBSET S, IsFiniteSet(U)
  PROVE  IsFiniteSet({f[u] : u \in U})
  <1> DEFINE T == {f[u] : u \in U}
             g == [u \in U |-> f[u]]
  <1>1. g \in [U -> T] /\ \A t \in T : \E u \in U : g[u] = t
    OBVIOUS
  <1>2. g \in Surjection(U, T)
    BY <1>1, Fun_IsSurj
  <1> HIDE DEF g, T
  <1>3. IsFiniteSet(T)
    BY <1>2, FS_Surjection
  <1> QED
    BY <1>3 DEF T

LEMMA LoadsFinite ==
  ASSUME TypeOK, Finite
  PROVE  IsFiniteSet(Loads)
  <1>1. IsFiniteSet({g \in Streams : hpc[g] \in {"witness", "send"}})
    BY SystemAssumption, FS_Subset
  <1>2. IsFiniteSet({t \in Streams : spc[t] \in {"register", "store", "commit"}})
    BY SystemAssumption, FS_Subset
  <1>3. IsFiniteSet({hjob[h] : h \in {g \in Streams : hpc[g] \in {"witness", "send"}}})
    BY <1>1, ImagesFinite
  <1>4. IsFiniteSet({sjob[s] : s \in {t \in Streams : spc[t] \in {"register", "store", "commit"}}})
    BY <1>2, ImagesFinite
  <1>5. IsFiniteSet(HandlerLoads) /\ IsFiniteSet(WorkerLoads)
    BY <1>3, <1>4 DEF HandlerLoads, WorkerLoads
  <1>6. IsFiniteSet(witnessRx \cup HandlerLoads)
    BY <1>5, FS_Union DEF Finite
  <1> QED
    BY <1>5, <1>6, FS_Union DEF Loads

(* One witness more.                                                        *)
LEMMA OneMore ==
  ASSUME NEW W, IsFiniteSet(W), NEW w, w \notin W, NEW p
  PROVE  /\ Cardinality(OfPool(p, W)) \in Nat
         /\ Cardinality(OfPool(p, W \cup {w})) =
              Cardinality(OfPool(p, W)) + (IF PoolOf(w) = p THEN 1 ELSE 0)
  <1>1. IsFiniteSet(OfPool(p, W)) /\ w \notin OfPool(p, W)
    BY FS_Subset DEF OfPool
  <1>2. Cardinality(OfPool(p, W)) \in Nat
    BY <1>1, FS_CardinalityType
  <1>3. CASE PoolOf(w) = p
    <2>1. OfPool(p, W \cup {w}) = OfPool(p, W) \cup {w}
      BY <1>3 DEF OfPool
    <2> QED
      BY <1>1, <1>2, <1>3, <2>1, FS_AddElement
  <1>4. CASE PoolOf(w) # p
    <2>1. OfPool(p, W \cup {w}) = OfPool(p, W)
      BY <1>4 DEF OfPool
    <2> QED
      BY <1>2, <1>4, <2>1
  <1> QED
    BY <1>3, <1>4

LEMMA HandlerToLoads ==
  ASSUME HandlerTypes, NEW h \in Streams, NEW pc, NEW job, HandlerTo(h, pc, job)
  PROVE  /\ HandlerLoads = OtherHandlers(h)
              \cup (IF hpc[h] \in {"witness", "send"} THEN {hjob[h]} ELSE {})
         /\ HandlerLoads' = OtherHandlers(h)
              \cup (IF pc \in {"witness", "send"} THEN {job} ELSE {})
  <1>1. /\ \A g \in Streams : g # h => hpc'[g] = hpc[g] /\ hjob'[g] = hjob[g]
        /\ hpc'[h] = pc /\ hjob'[h] = job
    BY DEF HandlerTypes, HandlerTo
  <1>2. HandlerLoads = OtherHandlers(h)
          \cup (IF hpc[h] \in {"witness", "send"} THEN {hjob[h]} ELSE {})
    BY DEF HandlerLoads, OtherHandlers
  <1>3. HandlerLoads' = OtherHandlers(h)
          \cup (IF pc \in {"witness", "send"} THEN {job} ELSE {})
    BY <1>1 DEF HandlerLoads, OtherHandlers
  <1> QED
    BY <1>2, <1>3

LEMMA WorkerToLoads ==
  ASSUME WorkerTypes, NEW s \in Streams, NEW pc, NEW job, WorkerTo(s, pc, job)
  PROVE  /\ WorkerLoads = OtherWorkers(s)
              \cup (IF spc[s] \in {"register", "store", "commit"} THEN {sjob[s]} ELSE {})
         /\ WorkerLoads' = OtherWorkers(s)
              \cup (IF pc \in {"register", "store", "commit"} THEN {job} ELSE {})
  <1>1. /\ \A t \in Streams : t # s => spc'[t] = spc[t] /\ sjob'[t] = sjob[t]
        /\ spc'[s] = pc /\ sjob'[s] = job
    BY DEF WorkerTypes, WorkerTo
  <1>2. WorkerLoads = OtherWorkers(s)
          \cup (IF spc[s] \in {"register", "store", "commit"} THEN {sjob[s]} ELSE {})
    BY DEF WorkerLoads, OtherWorkers
  <1>3. WorkerLoads' = OtherWorkers(s)
          \cup (IF pc \in {"register", "store", "commit"} THEN {job} ELSE {})
    BY <1>1 DEF WorkerLoads, OtherWorkers
  <1> QED
    BY <1>2, <1>3

LEMMA SameLoads ==
  /\ UNCHANGED handlerVars => HandlerLoads' = HandlerLoads
  /\ UNCHANGED workerVars => WorkerLoads' = WorkerLoads
  BY DEF HandlerLoads, WorkerLoads, handlerVars, workerVars

(* Where the instances of a stored witness are.                             *)
LEMMA StoredIsThere ==
  ASSUME TypeOK, SlotsInv, NEW t \in Streams, Storing(t), NEW i \in sjob[t].leaves
  PROVE  \E k \in {"slot", "ongoing"} : \E x : At(k, x, i)
  <1>1. CASE sjob[t].type = "Recursive2"
    <2>1. sjob[t].id \in DOMAIN ongoing /\ ongoing[sjob[t].id] = sjob[t]
      BY <1>1 DEF SlotsInv, StoredStay, InSlot
    <2>2. sjob[t] # None
      BY NoneAssumption DEF Storing, TypeOK, WorkerTypes
    <2>3. At("ongoing", sjob[t].id, i)
      BY <2>1, <2>2 DEF At, PositionHas
    <2> QED
      BY <2>3
  <1>2. CASE sjob[t].type # "Recursive2"
    <2>1. At("slot", sjob[t], i)
      BY <1>2 DEF SlotsInv, StoredStay, InSlot, At, SlotHas
    <2> QED
      BY <2>1
  <1> QED
    BY <1>1, <1>2

(* A witness that a handler carries is nowhere else.                        *)
LEMMA CarriedApart ==
  ASSUME TypeOK, SlotsInv, NEW h \in Streams, Carrying(h)
  PROVE  hjob[h] \notin witnessRx \cup OtherHandlers(h) \cup WorkerLoads
  <1>1. Shaped(hjob[h]) /\ hjob[h] \in Work
    BY DEF SlotsInv, Shapes, HandlerShapes, Carrying, TypeOK, HandlerTypes
  <1>2. PICK i \in Instances : i \in hjob[h].leaves
    BY <1>1 DEF Shaped, LeavesOf
  <1>3. At("handler", h, i)
    BY <1>2 DEF At, HandlerHas
  <1>4. \A k, x : At(k, x, i) => k = "handler" /\ x = h
    BY <1>3 DEF SlotsInv, InOnePlace
  <1>5. hjob[h] \notin witnessRx
    BY <1>2, <1>4 DEF At, QueueHas
  <1>6. hjob[h] \notin OtherHandlers(h)
    BY <1>2, <1>4 DEF At, HandlerHas, Carrying, OtherHandlers
  <1>7. hjob[h] \notin WorkerLoads
    <2> SUFFICES ASSUME NEW t \in Streams, spc[t] \in {"register", "store", "commit"},
                        sjob[t] = hjob[h]
                 PROVE  FALSE
      BY DEF WorkerLoads
    <2>1. CASE Holding(t)
      BY <1>2, <1>4, <2>1 DEF At, WorkerHas
    <2>2. CASE Storing(t)
      BY <1>2, <1>4, <2>2, StoredIsThere
    <2> QED
      BY <2>1, <2>2 DEF Holding, Storing
  <1> QED
    BY <1>5, <1>6, <1>7

(* Nor is one that a worker holds, under any position.                      *)
LEMMA HeldApart ==
  ASSUME TypeOK, SlotsInv, NEW s \in Streams, Holding(s), NEW v, v.leaves = sjob[s].leaves
  PROVE  v \notin witnessRx \cup HandlerLoads \cup OtherWorkers(s)
  <1>1. Shaped(sjob[s]) /\ sjob[s] \in Work
    BY DEF SlotsInv, Shapes, WorkerShapes, Holding, TypeOK, WorkerTypes, Work
  <1>2. PICK i \in Instances : i \in sjob[s].leaves
    BY <1>1 DEF Shaped, LeavesOf
  <1>3. At("worker", s, i)
    BY <1>2 DEF At, WorkerHas
  <1>4. \A k, x : At(k, x, i) => k = "worker" /\ x = s
    BY <1>3 DEF SlotsInv, InOnePlace
  <1>5. v \notin witnessRx
    BY <1>2, <1>4 DEF At, QueueHas
  <1>6. v \notin HandlerLoads
    BY <1>2, <1>4 DEF At, HandlerHas, Carrying, HandlerLoads
  <1>7. v \notin OtherWorkers(s)
    <2> SUFFICES ASSUME NEW t \in Streams, t # s, spc[t] \in {"register", "store", "commit"},
                        sjob[t] = v
                 PROVE  FALSE
      BY DEF OtherWorkers
    <2>1. CASE Holding(t)
      BY <1>2, <1>4, <2>1 DEF At, WorkerHas
    <2>2. CASE Storing(t)
      BY <1>2, <1>4, <2>2, StoredIsThere
    <2> QED
      BY <2>1, <2>2 DEF Holding, Storing
  <1> QED
    BY <1>5, <1>6, <1>7

(* Nor is one that a worker has stored.                                     *)
LEMMA StoredApart ==
  ASSUME TypeOK, SlotsInv, NEW s \in Streams, Storing(s)
  PROVE  sjob[s] \notin witnessRx \cup HandlerLoads \cup OtherWorkers(s)
  <1>1. Shaped(sjob[s]) /\ sjob[s] \in Work /\ sjob[s].id \in Nat
    BY DEF SlotsInv, Shapes, WorkerShapes, Storing, TypeOK, WorkerTypes
  <1>2. PICK i \in Instances : i \in sjob[s].leaves
    BY <1>1 DEF Shaped, LeavesOf
  <1>3. \A k, x : At(k, x, i) => k \in {"slot", "ongoing"}
    BY <1>2, StoredIsThere DEF SlotsInv, InOnePlace
  <1>4. sjob[s] \notin witnessRx
    BY <1>2, <1>3 DEF At, QueueHas
  <1>5. sjob[s] \notin HandlerLoads
    BY <1>2, <1>3 DEF At, HandlerHas, Carrying, HandlerLoads
  <1>6. sjob[s] \notin OtherWorkers(s)
    <2> SUFFICES ASSUME NEW t \in Streams, t # s, spc[t] \in {"register", "store", "commit"},
                        sjob[t] = sjob[s]
                 PROVE  FALSE
      BY DEF OtherWorkers
    <2>1. CASE Holding(t)
      BY <1>2, <1>3, <2>1 DEF At, WorkerHas
    <2>2. CASE Storing(t)
      <3>1. Refers("worker", s, Done(sjob[s])) /\ Refers("worker", t, Done(sjob[s]))
        BY <2>2 DEF Refers, WorkerRefers
      <3>2. Done(sjob[s]) \in Reports
        BY <1>1, WorkReports
      <3> QED
        BY <3>1, <3>2 DEF SlotsInv, OneReference
    <2> QED
      BY <2>1, <2>2 DEF Holding, Storing
  <1> QED
    BY <1>4, <1>5, <1>6

(* The buffers after a step, from what the step does to the loads.          *)
LEMMA LoadsKept ==
  ASSUME BuffersConserved, Loads' = Loads, UNCHANGED free,
         run' = 1 /\ ~cancelled' => run = 1 /\ ~cancelled
  PROVE  BuffersConserved'
  <1>1. \A p : Held(p)' = Held(p)
    BY HeldOfPool DEF OfPool
  <1> QED
    BY <1>1 DEF BuffersConserved

LEMMA LoadsDropped ==
  ASSUME TypeOK, Finite, BuffersConserved, Loads' \subseteq Loads, UNCHANGED free,
         ~(run' = 1 /\ ~cancelled')
  PROVE  BuffersConserved'
  <1> SUFFICES ASSUME NEW p \in Pools
               PROVE  free[p] + Cardinality(Held(p)') <= Buffers[p]
    BY DEF BuffersConserved
  <1>1. Held(p)' \subseteq Held(p)
    BY HeldOfPool DEF OfPool
  <1>2. IsFiniteSet(Held(p))
    BY LoadsFinite, HeldOfPool, FS_Subset DEF OfPool
  <1>3. /\ Cardinality(Held(p)') <= Cardinality(Held(p))
        /\ Cardinality(Held(p)') \in Nat /\ Cardinality(Held(p)) \in Nat
    BY <1>1, <1>2, FS_Subset, FS_CardinalityType
  <1>4. free[p] \in Nat /\ Buffers[p] \in Nat
    BY SystemAssumption DEF TypeOK, ChannelTypes
  <1> QED
    BY <1>3, <1>4 DEF BuffersConserved

(* A witness gets, loses or keeps its buffer.                               *)
LEMMA BuffersBalance ==
  ASSUME BuffersConserved, UNCHANGED <<run, cancelled>>,
         \A p \in Pools : free'[p] + Cardinality(Held(p)') = free[p] + Cardinality(Held(p))
  PROVE  BuffersConserved'
  BY DEF BuffersConserved

LEMMA LoadGained ==
  ASSUME TypeOK, BuffersConserved, UNCHANGED <<run, cancelled>>, IsFiniteSet(Loads),
         NEW w, w \notin Loads, Loads' = Loads \cup {w},
         free' = [free EXCEPT ![PoolOf(w)] = @ - 1]
  PROVE  BuffersConserved'
  <1> SUFFICES ASSUME NEW p \in Pools
               PROVE  free'[p] + Cardinality(Held(p)') = free[p] + Cardinality(Held(p))
    BY BuffersBalance
  <1>1. /\ Cardinality(OfPool(p, Loads)) \in Nat
        /\ Cardinality(OfPool(p, Loads \cup {w})) =
             Cardinality(OfPool(p, Loads)) + (IF PoolOf(w) = p THEN 1 ELSE 0)
    BY OneMore
  <1>2. Held(p) = OfPool(p, Loads) /\ Held(p)' = OfPool(p, Loads \cup {w})
    BY HeldOfPool
  <1>3. free'[p] = free[p] - (IF PoolOf(w) = p THEN 1 ELSE 0) /\ free[p] \in Nat
    BY DEF TypeOK, ChannelTypes
  <1> QED
    BY <1>1, <1>2, <1>3

LEMMA LoadLost ==
  ASSUME TypeOK, BuffersConserved, UNCHANGED <<run, cancelled>>, IsFiniteSet(Loads'),
         NEW w, w \notin Loads', Loads = Loads' \cup {w},
         free' = [free EXCEPT ![PoolOf(w)] = @ + 1]
  PROVE  BuffersConserved'
  <1> SUFFICES ASSUME NEW p \in Pools
               PROVE  free'[p] + Cardinality(Held(p)') = free[p] + Cardinality(Held(p))
    BY BuffersBalance
  <1>1. /\ Cardinality(OfPool(p, Loads')) \in Nat
        /\ Cardinality(OfPool(p, Loads' \cup {w})) =
             Cardinality(OfPool(p, Loads')) + (IF PoolOf(w) = p THEN 1 ELSE 0)
    BY OneMore
  <1>2. Held(p) = OfPool(p, Loads' \cup {w}) /\ Held(p)' = OfPool(p, Loads')
    BY HeldOfPool
  <1>3. free'[p] = free[p] + (IF PoolOf(w) = p THEN 1 ELSE 0) /\ free[p] \in Nat
    BY DEF TypeOK, ChannelTypes
  <1> QED
    BY <1>1, <1>2, <1>3

LEMMA LoadRenamed ==
  ASSUME BuffersConserved, UNCHANGED <<run, cancelled, free>>,
         NEW W, IsFiniteSet(W), NEW w, w \notin W, NEW v, v \notin W,
         Loads = W \cup {w}, Loads' = W \cup {v}, PoolOf(v) = PoolOf(w)
  PROVE  BuffersConserved'
  <1> SUFFICES ASSUME NEW p \in Pools
               PROVE  free'[p] + Cardinality(Held(p)') = free[p] + Cardinality(Held(p))
    BY BuffersBalance
  <1>1. /\ Cardinality(OfPool(p, W \cup {w})) =
             Cardinality(OfPool(p, W)) + (IF PoolOf(w) = p THEN 1 ELSE 0)
        /\ Cardinality(OfPool(p, W \cup {v})) =
             Cardinality(OfPool(p, W)) + (IF PoolOf(v) = p THEN 1 ELSE 0)
    BY OneMore
  <1>2. Held(p) = OfPool(p, W \cup {w}) /\ Held(p)' = OfPool(p, W \cup {v})
    BY HeldOfPool
  <1> QED
    BY <1>1, <1>2

LEMMA MainBuffers ==
  ASSUME TypeOK, TraceInv, SlotsInv, Finite, BuffersConserved, Main
  PROVE  BuffersConserved'
  <1> USE DEF proofVars, deviceVars, mainVars, faultVars
  <1>1. CASE Start
    <2>1. \A s \in Streams : hpc[s] = "exit" /\ hpc'[s] = "recv"
      BY <1>1 DEF Start, SlotsInv, Phases
    <2>2. HandlerLoads' = HandlerLoads
      BY <2>1 DEF HandlerLoads
    <2>3. Loads' = Loads
      BY <1>1, <2>2, SameLoads DEF Start, Loads
    <2> QED
      BY <1>1, <2>3, LoadsKept DEF Start
  <1>2. CASE StartWorkers
    <2>1. \A s \in Streams : spc[s] = "exit" /\ spc'[s] = "poll"
      BY <1>2 DEF StartWorkers, TraceInv, Quiet
    <2>2. WorkerLoads' = WorkerLoads
      BY <2>1 DEF WorkerLoads
    <2>3. Loads' = Loads
      BY <1>2, <2>2, SameLoads DEF StartWorkers, Loads
    <2> QED
      BY <1>2, <2>3, LoadsKept DEF StartWorkers
  <1>3. CASE FailCancelled
    <2>1. Loads' \subseteq Loads
      BY <1>3, SameLoads DEF FailCancelled, Reset, Loads
    <2> QED
      BY <1>3, <2>1, LoadsDropped DEF FailCancelled
  <1>4. CASE \/ (\E i \in toFeed : ProveResident(i) \/ Feed(i)) \/ EndFeed
             \/ (\E i \in toCalculate : ComputeWitness(i)) \/ EndWitness
             \/ WaitZero \/ Dismiss \/ Join \/ Succeed \/ Unwind \/ UnwindJoin
    <2>1. UNCHANGED <<witnessRx, handlerVars, workerVars, free, run, cancelled>>
      BY <1>4 DEF ProveResident, Feed, EndFeed, ComputeWitness, EndWitness, WaitZero,
         Dismiss, Join, Succeed, Unwind, UnwindJoin
    <2>2. Loads' = Loads
      BY <2>1, SameLoads DEF Loads
    <2> QED
      BY <2>1, <2>2, LoadsKept
  <1> QED
    BY <1>1, <1>2, <1>3, <1>4 DEF Main

LEMMA HandlerBuffers ==
  ASSUME TypeOK, SlotsInv, Finite, BuffersConserved, NEW h \in Streams, Handler(h)
  PROVE  BuffersConserved'
  <1> USE DEF mainVars, faultVars
  <1>1. CASE TakeBuffer(h)
    <2>1. PICK w : w = hjob[h]
      OBVIOUS
    <2>2. /\ hpc[h] = "buffer" /\ HandlerTo(h, "witness", w)
          /\ free' = [free EXCEPT ![PoolOf(w)] = @ - 1]
          /\ UNCHANGED <<witnessRx, workerVars, run, cancelled>>
      BY <1>1, <2>1 DEF TakeBuffer
    <2>3. Loads' = Loads \cup {w}
      <3>1. HandlerLoads' = HandlerLoads \cup {w}
        BY <2>2, HandlerToLoads DEF TypeOK
      <3> QED
        BY <2>2, <3>1, SameLoads DEF Loads
    <2>4. w \notin Loads
      <3>1. HandlerLoads = OtherHandlers(h)
        BY <2>2, HandlerToLoads DEF TypeOK
      <3> QED
        BY <2>1, <2>2, <3>1, CarriedApart DEF Carrying, Loads
    <2> QED
      BY <2>2, <2>3, <2>4, LoadsFinite, LoadGained
  <1>2. CASE Send(h)
    <2>1. PICK w : w = hjob[h]
      OBVIOUS
    <2>2. /\ hpc[h] = "send" /\ HandlerTo(h, "decrement", None)
          /\ witnessRx' = witnessRx \cup {w}
          /\ UNCHANGED <<workerVars, free, run, cancelled>>
      BY <1>2, <2>1 DEF Send
    <2>3. HandlerLoads = OtherHandlers(h) \cup {w} /\ HandlerLoads' = OtherHandlers(h)
      BY <2>1, <2>2, HandlerToLoads DEF TypeOK
    <2>4. Loads' = Loads
      BY <2>2, <2>3, SameLoads DEF Loads
    <2> QED
      BY <2>2, <2>4, LoadsKept
  <1>3. CASE Increment(h)
    <2>1. /\ hpc[h] = "witness" /\ HandlerTo(h, "send", hjob[h])
          /\ UNCHANGED <<witnessRx, workerVars, free, run, cancelled>>
      BY <1>3 DEF Increment
    <2>2. HandlerLoads' = HandlerLoads
      BY <2>1, HandlerToLoads DEF TypeOK
    <2>3. Loads' = Loads
      BY <2>1, <2>2, SameLoads DEF Loads
    <2> QED
      BY <2>1, <2>3, LoadsKept
  <1>4. CASE \/ Receive(h) \/ TakeProof(h) \/ TakeRecursive1(h) \/ TakeRecursive2(h)
             \/ Decrement(h)
    <2>1. /\ hpc[h] \in {"recv", "take", "decrement"}
          /\ UNCHANGED <<witnessRx, workerVars, free, run, cancelled>>
      BY <1>4 DEF Receive, TakeProof, TakeRecursive1, TakeRecursive2, Decrement
    <2>2. PICK job : \E pc \in {"take", "buffer", "decrement", "recv", "exit"} :
            HandlerTo(h, pc, job)
      BY <1>4, JoinGoesOn DEF Receive, TakeProof, TakeRecursive1, TakeRecursive2, Decrement
    <2>3. HandlerLoads' = HandlerLoads
      BY <2>1, <2>2, HandlerToLoads DEF TypeOK
    <2>4. Loads' = Loads
      BY <2>1, <2>3, SameLoads DEF Loads
    <2> QED
      BY <2>1, <2>4, LoadsKept
  <1> QED
    BY <1>1, <1>2, <1>3, <1>4 DEF Handler

LEMMA WorkerBuffers ==
  ASSUME TypeOK, SlotsInv, Finite, BuffersConserved, NEW s \in Streams, Worker(s)
  PROVE  BuffersConserved'
  <1> USE DEF mainVars, faultVars
  <1>1. CASE Commit(s)
    <2>1. PICK w : w = sjob[s]
      OBVIOUS
    <2>2. /\ spc[s] = "commit" /\ WorkerTo(s, "prove", w)
          /\ free' = [free EXCEPT ![PoolOf(w)] = @ + 1]
          /\ UNCHANGED <<witnessRx, handlerVars, run, cancelled>>
      BY <1>1, <2>1 DEF Commit
    <2>3. PICK W : W = witnessRx \cup HandlerLoads \cup OtherWorkers(s)
      OBVIOUS
    <2>4. WorkerLoads = OtherWorkers(s) \cup {w} /\ WorkerLoads' = OtherWorkers(s)
      BY <2>1, <2>2, WorkerToLoads DEF TypeOK
    <2>5. w \notin W
      BY <2>1, <2>2, <2>3, StoredApart DEF Storing
    <2>6. Loads = W \cup {w} /\ Loads' = W
      BY <2>2, <2>3, <2>4, SameLoads DEF Loads
    <2>7. IsFiniteSet(W)
      BY <2>6, LoadsFinite, FS_Subset
    <2> QED
      BY <2>2, <2>5, <2>6, <2>7, LoadLost
  <1>2. CASE Register(s)
    <2>1. PICK w, v : w = sjob[s] /\ v = [w EXCEPT !.id = Len(ongoing) + 1]
      OBVIOUS
    <2>2. /\ spc[s] = "register" /\ WorkerTo(s, "store", v)
          /\ UNCHANGED <<witnessRx, handlerVars, free, run, cancelled>>
      BY <1>2, <2>1 DEF Register
    <2>3. w \in MergeWork
      BY <2>1, <2>2 DEF TypeOK, WorkerTypes
    <2>4. v.leaves = w.leaves /\ PoolOf(v) = PoolOf(w)
      BY <2>1, <2>3 DEF MergeWork, PoolOf
    <2>5. PICK W : W = witnessRx \cup HandlerLoads \cup OtherWorkers(s)
      OBVIOUS
    <2>6. /\ WorkerLoads = OtherWorkers(s) \cup {w}
          /\ WorkerLoads' = OtherWorkers(s) \cup {v}
      BY <2>1, <2>2, WorkerToLoads DEF TypeOK
    <2>7. w \notin W /\ v \notin W
      BY <2>1, <2>2, <2>4, <2>5, HeldApart DEF Holding
    <2>8. Loads = W \cup {w} /\ Loads' = W \cup {v}
      BY <2>2, <2>5, <2>6, SameLoads DEF Loads
    <2>9. IsFiniteSet(W)
      BY <2>8, LoadsFinite, FS_Subset
    <2> QED
      BY <2>2, <2>4, <2>7, <2>8, <2>9, LoadRenamed
  <1>3. CASE \E w \in witnessRx : Select(s, w)
    <2>1. PICK w \in witnessRx : Select(s, w)
      BY <1>3
    <2>2. /\ spc[s] = "select" /\ witnessRx' = witnessRx \ {w}
          /\ \E pc \in {"register", "store"} : WorkerTo(s, pc, w)
          /\ UNCHANGED <<handlerVars, free, run, cancelled>>
      BY <2>1 DEF Select
    <2>3. WorkerLoads = OtherWorkers(s) /\ WorkerLoads' = OtherWorkers(s) \cup {w}
      BY <2>2, WorkerToLoads DEF TypeOK
    <2>4. Loads' = Loads
      BY <2>2, <2>3, SameLoads DEF Loads
    <2> QED
      BY <2>2, <2>4, LoadsKept
  <1>4. CASE Store(s)
    <2>1. /\ spc[s] = "store" /\ WorkerTo(s, "commit", sjob[s])
          /\ UNCHANGED <<witnessRx, handlerVars, free, run, cancelled>>
      BY <1>4 DEF Store
    <2>2. WorkerLoads' = WorkerLoads
      BY <2>1, WorkerToLoads DEF TypeOK
    <2>3. Loads' = Loads
      BY <2>1, <2>2, SameLoads DEF Loads
    <2> QED
      BY <2>1, <2>3, LoadsKept
  <1>5. CASE \/ (\E i \in proofsRx : PollProofs(s, i)) \/ PollWitness(s) \/ ProveBasic(s)
             \/ SelectDefault(s) \/ ProveRecursive(s)
    <2>1. UNCHANGED <<witnessRx, handlerVars, free, run, cancelled>>
      BY <1>5 DEF PollProofs, PollWitness, ProveBasic, SelectDefault, ProveRecursive
    <2>2. WorkerLoads' = WorkerLoads
      <3>1. CASE UNCHANGED workerVars
        BY <3>1, SameLoads
      <3>2. CASE ~UNCHANGED workerVars
        <4>1. /\ spc[s] \in {"poll", "select", "basic", "prove"}
              /\ \E pc \in {"basic", "select", "poll", "exit"} : \E job : WorkerTo(s, pc, job)
          BY <1>5, <3>2 DEF PollProofs, PollWitness, ProveBasic, SelectDefault,
             ProveRecursive
        <4> QED
          BY <4>1, WorkerToLoads DEF TypeOK
      <3> QED
        BY <3>1, <3>2
    <2>3. Loads' = Loads
      BY <2>1, <2>2, SameLoads DEF Loads
    <2> QED
      BY <2>1, <2>3, LoadsKept
  <1> QED
    BY <1>1, <1>2, <1>3, <1>4, <1>5 DEF Worker

LEMMA OtherBuffers ==
  ASSUME TypeOK, Finite, BuffersConserved, Device \/ Fault \/ Restart \/ Returned
  PROVE  BuffersConserved'
  <1> USE DEF mainVars, faultVars
  <1>1. CASE \/ Device \/ Cancel \/ FailPrecalculate \/ Returned
             \/ (\E i \in toCalculate : FailWitness(i)) \/ (\E i \in toFeed : FailResident(i))
    <2>1. /\ UNCHANGED <<witnessRx, handlerVars, workerVars, free, run>>
          /\ (cancelled' = cancelled) \/ cancelled'
      BY <1>1 DEF Device, StreamDone, Cancel, FailPrecalculate, Returned, FailWitness,
         FailResident, vars
    <2>2. Loads' = Loads
      BY <2>1, SameLoads DEF Loads
    <2> QED
      BY <2>1, <2>2, LoadsKept
  <1>2. CASE \E h \in Streams : FailRecursiveWitness(h)
    <2>1. PICK h \in Streams : FailRecursiveWitness(h)
      BY <1>2
    <2>2. /\ UNCHANGED <<witnessRx, workerVars, free, run>> /\ cancelled'
          /\ HandlerTo(h, "exit", None)
      BY <2>1 DEF FailRecursiveWitness
    <2>3. HandlerLoads' \subseteq HandlerLoads
      BY <2>2, HandlerToLoads DEF TypeOK
    <2>4. Loads' \subseteq Loads
      BY <2>2, <2>3, SameLoads DEF Loads
    <2> QED
      BY <2>2, <2>4, LoadsDropped
  <1>3. CASE \E s \in Streams : FailWorker(s)
    <2>1. PICK s \in Streams : FailWorker(s)
      BY <1>3
    <2>2. /\ UNCHANGED <<witnessRx, handlerVars, free, run>> /\ cancelled'
          /\ WorkerTo(s, "exit", None)
      BY <2>1 DEF FailWorker
    <2>3. WorkerLoads' \subseteq WorkerLoads
      BY <2>2, WorkerToLoads DEF TypeOK
    <2>4. Loads' \subseteq Loads
      BY <2>2, <2>3, SameLoads DEF Loads
    <2> QED
      BY <2>2, <2>4, LoadsDropped
  <1>4. CASE Restart
    <2>1. Loads' \subseteq Loads /\ UNCHANGED free
      BY <1>4, SameLoads DEF Restart, Reset, Loads
    <2>2. run' # 1
      BY <1>4 DEF Restart, TypeOK, MainTypes
    <2> QED
      BY <2>1, <2>2, LoadsDropped
  <1> QED
    BY <1>1, <1>2, <1>3, <1>4 DEF Fault

LEMMA InitBuffers == Init => BuffersConserved
  <1> SUFFICES ASSUME Init PROVE BuffersConserved
    OBVIOUS
  <1> SUFFICES ASSUME NEW p \in Pools
               PROVE  free[p] + Cardinality(Held(p)) = Buffers[p] /\ Buffers[p] \in Nat
    BY DEF BuffersConserved
  <1>1. Held(p) = {}
    BY DEF Init, Held
  <1>2. Buffers[p] \in Nat
    BY SystemAssumption
  <1> QED
    BY <1>1, <1>2, FS_EmptySet DEF Init

LEMMA NextBuffers ==
  TypeOK /\ TraceInv /\ SlotsInv /\ CountsInv /\ BuffersConserved /\ [Next]_vars
    => BuffersConserved'
  <1> SUFFICES ASSUME TypeOK, TraceInv, SlotsInv, CountsInv, BuffersConserved, [Next]_vars
               PROVE  BuffersConserved'
    OBVIOUS
  <1>1. Finite
    BY DEF CountsInv
  <1>2. CASE UNCHANGED vars
    <2>1. UNCHANGED <<witnessRx, handlerVars, workerVars, free, run, cancelled>>
      BY <1>2 DEF vars, mainVars, faultVars
    <2>2. Loads' = Loads
      BY <2>1, SameLoads DEF Loads
    <2> QED
      BY <2>1, <2>2, LoadsKept
  <1> QED
    BY <1>1, <1>2, MainBuffers, HandlerBuffers, WorkerBuffers, OtherBuffers DEF Next

(* A witness buffer is free or goes with one witness; no two witnesses that *)
(* the pipeline holds at a time are the same, so none is counted for two,   *)
(* and Commit never gives back to a full pool.                              *)
THEOREM BuffersStay == Spec => []BuffersConserved
  <1>1. Init => BuffersConserved
    BY InitBuffers
  <1>2. TypeOK /\ TraceInv /\ SlotsInv /\ CountsInv /\ BuffersConserved /\ [Next]_vars
          => BuffersConserved'
    BY NextBuffers
  <1> QED
    BY <1>1, <1>2, CountsAlways, PTL DEF Spec

-----------------------------------------------------------------------------
(* No deadlock.                                                             *)

Alive == {h \in Streams : hpc[h] # "exit"}

(* Until the call is cancelled or dismisses them, the handlers and workers  *)
(* are there.  Then there is a sentinel for each handler that is left; the  *)
(* others in the channel are Waiting.                                       *)
HandlersThere ==
  ~cancelled /\ mpc \in {"resident", "feed", "witness", "wait", "collect", "unwind"} =>
    /\ \A h \in Streams : hpc[h] # "exit"
    /\ Sentinel \notin {recursiveRx[k] : k \in DOMAIN recursiveRx}

WorkersThere ==
  /\ mpc \in {"feed", "witness", "wait", "collect", "unwind", "unwindJoin"} =>
       ~finished /\ (~cancelled => \A s \in Streams : spc[s] # "exit")
  /\ mpc = "join" => finished

Calculated == ~cancelled /\ mpc \in {"wait", "collect"} => toCalculate = {}

SentinelsSuffice ==
  mpc \in {"join", "unwindJoin"} => Cardinality(Alive) <= Len(recursiveRx) - NQueue

ThreadsInv == HandlersThere /\ WorkersThere /\ Calculated /\ SentinelsSuffice

LEMMA NextHandlersThere ==
  ASSUME TypeOK, SlotsInv, HandlersThere, [Next]_vars
  PROVE  HandlersThere'
  <1> USE DEF HandlersThere, mainVars, faultVars, handlerVars, deviceVars
  <1>1. CASE Start
    BY <1>1 DEF Start, SlotsInv, Phases
  <1>2. CASE (\E i \in toFeed : ProveResident(i) \/ Feed(i)) \/ StartWorkers \/ EndFeed
             \/ (\E i \in toCalculate : ComputeWitness(i)) \/ EndWitness \/ WaitZero
    BY <1>2 DEF ProveResident, Feed, StartWorkers, EndFeed, ComputeWitness, EndWitness,
       WaitZero
  <1>3. CASE Dismiss \/ Join \/ Succeed \/ FailCancelled \/ Unwind \/ UnwindJoin \/ Restart
    BY <1>3 DEF Dismiss, Join, Succeed, FailCancelled, Unwind, UnwindJoin, Restart
  <1>4. CASE Fault
    BY <1>4 DEF Fault, Cancel, FailPrecalculate, FailResident, FailWitness,
       FailRecursiveWitness, FailWorker
  <1>5. ASSUME NEW h \in Streams, Handler(h) PROVE HandlersThere'
    <2> SUFFICES ASSUME ~cancelled, mpc' = mpc,
                        \A g \in Streams : hpc[g] # "exit",
                        Sentinel \notin {recursiveRx[k] : k \in DOMAIN recursiveRx}
                 PROVE  /\ \A g \in Streams : hpc'[g] # "exit"
                        /\ Sentinel \notin {recursiveRx'[k] : k \in DOMAIN recursiveRx'}
      BY <1>5 DEF Handler, Receive, TakeProof, TakeRecursive1, TakeRecursive2, TakeBuffer,
         Increment, Send, Decrement
    <2>1. CASE Receive(h)
      <3>1. /\ recursiveRx # <<>> /\ recursiveRx \in Seq(Message)
            /\ recursiveRx' = Tail(recursiveRx)
        BY <2>1 DEF Receive, TypeOK, ChannelTypes
      <3>2. 1 \in DOMAIN recursiveRx /\ Head(recursiveRx) = recursiveRx[1]
        BY <3>1
      <3>3. \A k \in DOMAIN recursiveRx' :
              k + 1 \in DOMAIN recursiveRx /\ recursiveRx'[k] = recursiveRx[k + 1]
        BY <3>1
      <3>4. \E pc \in {"decrement", "take"} : hpc' = [hpc EXCEPT ![h] = pc]
        BY <2>1, <3>2 DEF Receive, HandlerTo
      <3> QED
        BY <3>3, <3>4
    <2>2. CASE TakeProof(h) \/ TakeRecursive1(h) \/ TakeRecursive2(h)
      <3>1. /\ \E pc \in {"decrement", "buffer"} : hpc' = [hpc EXCEPT ![h] = pc]
            /\ UNCHANGED recursiveRx
        BY <2>2 DEF TakeProof, TakeRecursive1, TakeRecursive2, JoinAirgroup, HandlerTo
      <3> QED
        BY <3>1
    <2>3. CASE TakeBuffer(h) \/ Increment(h) \/ Send(h) \/ Decrement(h)
      <3>1. /\ \E pc \in {"witness", "send", "decrement", "recv"} : hpc' = [hpc EXCEPT ![h] = pc]
            /\ UNCHANGED recursiveRx
        BY <2>3 DEF TakeBuffer, Increment, Send, Decrement, HandlerTo
      <3> QED
        BY <3>1
    <2> QED
      BY <1>5, <2>1, <2>2, <2>3 DEF Handler
  <1>6. ASSUME NEW s \in Streams, Worker(s) PROVE HandlersThere'
    <2>1. CASE UNCHANGED recursiveRx
      BY <1>6, <2>1 DEF Worker, PollProofs, PollWitness, ProveBasic, Select, SelectDefault,
         Register, Store, Commit, ProveRecursive
    <2>2. CASE (ProveBasic(s) \/ ProveRecursive(s)) /\ recursiveRx' # recursiveRx
      <3>1. /\ UNCHANGED <<mpc, cancelled, hpc>>
            /\ recursiveRx' = Append(recursiveRx, Done(sjob[s]))
        BY <2>2 DEF ProveBasic, ProveRecursive, Submit, Report
      <3>2. Done(sjob[s]) # Sentinel
        BY <2>2 DEF ProveBasic, ProveRecursive, Done, Sentinel, TypeOK, WorkerTypes, Work,
           ChainWork, MergeWork, ChainTypes
      <3> QED
        BY <3>1, <3>2 DEF TypeOK, ChannelTypes
    <2> QED
      BY <1>6, <2>1, <2>2 DEF Worker, PollProofs, PollWitness, Select, SelectDefault,
         Register, Store, Commit
  <1>7. CASE Device
    <2>1. PICK m \in inFlight : StreamDone(m)
      BY <1>7 DEF Device
    <2>2. m # Sentinel
      BY DEF SlotsInv, Messages, Reports, Sentinel, ProofTypes, ChainTypes
    <2> QED
      BY <2>1, <2>2 DEF StreamDone, Report, TypeOK, ChannelTypes
  <1>8. CASE Returned \/ UNCHANGED vars
    BY <1>8 DEF Returned, vars
  <1> QED
    BY <1>1, <1>2, <1>3, <1>4, <1>5, <1>6, <1>7, <1>8 DEF Next, Main

LEMMA NextWorkersThere ==
  ASSUME TypeOK, WorkersThere, [Next]_vars
  PROVE  WorkersThere'
  <1> USE DEF WorkersThere, mainVars, faultVars, workerVars
  <1>1. CASE Main
    BY <1>1 DEF Main, Start, ProveResident, Feed, StartWorkers, EndFeed, ComputeWitness,
       EndWitness, WaitZero, Dismiss, Join, Succeed, FailCancelled, Unwind, UnwindJoin
  <1>2. CASE Fault \/ Restart
    BY <1>2 DEF Fault, Cancel, FailPrecalculate, FailResident, FailWitness,
       FailRecursiveWitness, FailWorker, Restart
  <1>3. ASSUME NEW h \in Streams, Handler(h) PROVE WorkersThere'
    BY <1>3 DEF Handler, Receive, TakeProof, TakeRecursive1, TakeRecursive2, TakeBuffer,
       Increment, Send, Decrement
  <1>4. ASSUME NEW s \in Streams, Worker(s) PROVE WorkersThere'
    <2>1. UNCHANGED <<mpc, cancelled, finished>>
      BY <1>4 DEF Worker, PollProofs, PollWitness, ProveBasic, Select, SelectDefault,
         Register, Store, Commit, ProveRecursive
    <2>2. \/ UNCHANGED spc
          \/ \E pc \in {"poll", "basic", "select", "register", "store", "commit", "prove"} :
               spc' = [spc EXCEPT ![s] = pc]
          \/ spc' = [spc EXCEPT ![s] = "exit"] /\ (cancelled \/ finished)
      BY <1>4 DEF Worker, PollProofs, PollWitness, ProveBasic, Select, SelectDefault,
         Register, Store, Commit, ProveRecursive, WorkerTo
    <2> QED
      BY <2>1, <2>2 DEF TypeOK, WorkerTypes
  <1>5. CASE Device \/ Returned \/ UNCHANGED vars
    BY <1>5 DEF Device, StreamDone, Returned, vars
  <1> QED
    BY <1>1, <1>2, <1>3, <1>4, <1>5 DEF Next

LEMMA NextCalculated ==
  ASSUME Calculated, [Next]_vars
  PROVE  Calculated'
  <1> USE DEF Calculated, mainVars, faultVars, feedVars
  <1>1. CASE Main
    BY <1>1 DEF Main, Start, ProveResident, Feed, StartWorkers, EndFeed, ComputeWitness,
       EndWitness, WaitZero, Dismiss, Join, Succeed, FailCancelled, Unwind, UnwindJoin
  <1>2. CASE Fault \/ Restart
    BY <1>2 DEF Fault, Cancel, FailPrecalculate, FailResident, FailWitness,
       FailRecursiveWitness, FailWorker, Restart
  <1>3. CASE \E s \in Streams : Handler(s) \/ Worker(s)
    BY <1>3 DEF Handler, Receive, TakeProof, TakeRecursive1, TakeRecursive2, TakeBuffer,
       Increment, Send, Decrement, Worker, PollProofs, PollWitness, ProveBasic, Select,
       SelectDefault, Register, Store, Commit, ProveRecursive
  <1>4. CASE Device \/ Returned \/ UNCHANGED vars
    BY <1>4 DEF Device, StreamDone, Returned, vars
  <1> QED
    BY <1>1, <1>2, <1>3, <1>4 DEF Next

(* The channel is the messages that wait, and the sentinels.                *)
LEMMA QueueLength ==
  ASSUME TypeOK
  PROVE  /\ Len(recursiveRx) \in Nat /\ NQueue \in Nat /\ NQueue <= Len(recursiveRx)
         /\ IsFiniteSet(Alive) /\ Cardinality(Alive) \in Nat
         /\ Cardinality(Alive) <= Cardinality(Streams)
  <1>1. recursiveRx \in Seq(Message)
    BY DEF TypeOK, ChannelTypes
  <1>2. /\ IsFiniteSet(1 .. Len(recursiveRx))
        /\ Cardinality(1 .. Len(recursiveRx)) = Len(recursiveRx)
    <2>1. Len(recursiveRx) \in Nat
      BY <1>1
    <2> QED
      BY <2>1, FS_Interval
  <1>3. Waiting(recursiveRx) \in SUBSET (1 .. Len(recursiveRx))
    BY <1>1 DEF Waiting
  <1>4. NQueue \in Nat /\ NQueue <= Len(recursiveRx)
    BY <1>1, <1>2, <1>3, FS_Subset, WaitingFinite DEF NQueue
  <1>5. Alive \in SUBSET Streams /\ IsFiniteSet(Streams)
    BY SystemAssumption DEF Alive
  <1> QED
    BY <1>1, <1>4, <1>5, FS_Subset, FS_CardinalityType

LEMMA NextSentinelsSuffice ==
  ASSUME TypeOK, SlotsInv, SentinelsSuffice, [Next]_vars
  PROVE  SentinelsSuffice'
  <1> USE DEF SentinelsSuffice, mainVars, faultVars, handlerVars, deviceVars
  <1>1. CASE Dismiss \/ Unwind
    <2>1. recursiveRx' = recursiveRx \o Sentinels /\ UNCHANGED hpc
      BY <1>1 DEF Dismiss, Unwind
    <2>2. recursiveRx \in Seq(Message) /\ Sentinels \in Seq(Message)
          /\ Len(Sentinels) = Cardinality(Streams) /\ Cardinality(Streams) \in Nat
      BY SentinelsType DEF TypeOK, ChannelTypes, Sentinels
    <2>3. Len(recursiveRx') = Len(recursiveRx) + Cardinality(Streams)
      BY <2>1, <2>2, ConcatProperties
    <2>4. NQueue' = NQueue
      BY <2>1, <2>2, WaitingSentinels DEF NQueue
    <2>5. Alive' = Alive
      BY <2>1 DEF Alive
    <2> QED
      BY <2>2, <2>3, <2>4, <2>5, QueueLength
  <1>2. CASE Main /\ ~Dismiss /\ ~Unwind
    BY <1>2 DEF Main, Start, ProveResident, Feed, StartWorkers, EndFeed, ComputeWitness,
       EndWitness, WaitZero, Join, Succeed, FailCancelled, UnwindJoin
  <1>3. CASE UNCHANGED recursiveRx /\ Alive' \subseteq Alive /\ mpc' = mpc
    <2>1. Cardinality(Alive') <= Cardinality(Alive) /\ Cardinality(Alive') \in Nat
      BY <1>3, QueueLength, FS_Subset, FS_CardinalityType
    <2> QED
      BY <1>3, <2>1, QueueLength DEF NQueue
  <1>4. ASSUME NEW m, m # Sentinel, recursiveRx' = Append(recursiveRx, m),
               UNCHANGED <<mpc, hpc>>
        PROVE  SentinelsSuffice'
    <2>1. recursiveRx \in Seq(Message)
      BY DEF TypeOK, ChannelTypes
    <2>2. Len(recursiveRx') = Len(recursiveRx) + 1
      BY <1>4, <2>1
    <2>3. NQueue' = NQueue + 1
      BY <1>4, <2>1, WaitingAppend DEF NQueue
    <2>4. Alive' = Alive
      BY <1>4 DEF Alive
    <2> QED
      BY <1>4, <2>2, <2>3, <2>4, QueueLength
  <1>5. ASSUME NEW h \in Streams, Handler(h) PROVE SentinelsSuffice'
    <2>1. CASE Receive(h)
      <3>1. /\ recursiveRx # <<>> /\ recursiveRx \in Seq(Message)
            /\ recursiveRx' = Tail(recursiveRx) /\ mpc' = mpc
        BY <2>1 DEF Receive, TypeOK, ChannelTypes
      <3>2. Len(recursiveRx') = Len(recursiveRx) - 1
        BY <3>1
      <3>3. NQueue' = NQueue - (IF Head(recursiveRx) = Sentinel THEN 0 ELSE 1)
        BY <3>1, WaitingTail DEF NQueue
      <3>4. hpc[h] = "recv" /\ hpc = [g \in Streams |-> hpc[g]]
        BY <2>1 DEF Receive, TypeOK, HandlerTypes
      <3>5. \E pc : /\ hpc' = [hpc EXCEPT ![h] = pc]
                    /\ Head(recursiveRx) = Sentinel => pc = "exit"
        BY <2>1 DEF Receive, HandlerTo
      <3>6. Alive' \subseteq Alive
        BY <3>4, <3>5 DEF Alive
      <3>7. Head(recursiveRx) = Sentinel => Alive' \subseteq Alive \ {h}
        BY <3>4, <3>5 DEF Alive
      <3>8. h \in Alive
        BY <3>4 DEF Alive
      <3>9. /\ Cardinality(Alive \ {h}) = Cardinality(Alive) - 1
            /\ IsFiniteSet(Alive \ {h})
        BY <3>8, QueueLength, FS_RemoveElement
      <3>10. /\ Cardinality(Alive') \in Nat
             /\ Cardinality(Alive') <= Cardinality(Alive)
             /\ Head(recursiveRx) = Sentinel => Cardinality(Alive') <= Cardinality(Alive) - 1
        BY <3>6, <3>7, <3>9, QueueLength, FS_Subset, FS_CardinalityType
      <3> QED
        BY <3>1, <3>2, <3>3, <3>10, QueueLength
    <2>2. CASE ~Receive(h)
      <3>1. /\ UNCHANGED <<recursiveRx, mpc>>
            /\ hpc[h] # "exit" /\ \E pc : hpc' = [hpc EXCEPT ![h] = pc]
        BY <1>5, <2>2 DEF Handler, TakeProof, TakeRecursive1, TakeRecursive2, TakeBuffer,
           Increment, Send, Decrement, HandlerTo, JoinAirgroup
      <3>2. Alive' \subseteq Alive
        BY <3>1 DEF Alive, TypeOK, HandlerTypes
      <3> QED
        BY <1>3, <3>1, <3>2
    <2> QED
      BY <2>1, <2>2
  <1>6. ASSUME NEW s \in Streams, Worker(s) PROVE SentinelsSuffice'
    <2>1. UNCHANGED <<mpc, hpc>>
      BY <1>6 DEF Worker, PollProofs, PollWitness, ProveBasic, Select, SelectDefault,
         Register, Store, Commit, ProveRecursive
    <2>2. CASE UNCHANGED recursiveRx
      BY <1>3, <2>1, <2>2 DEF Alive
    <2>3. CASE recursiveRx' # recursiveRx
      <3>1. ProveBasic(s) \/ ProveRecursive(s)
        BY <1>6, <2>3 DEF Worker, PollProofs, PollWitness, Select, SelectDefault, Register,
           Store, Commit
      <3>2. recursiveRx' = Append(recursiveRx, Done(sjob[s]))
        BY <2>3, <3>1 DEF ProveBasic, ProveRecursive, Submit, Report
      <3>3. Done(sjob[s]) # Sentinel
        BY <3>1 DEF ProveBasic, ProveRecursive, Done, Sentinel, TypeOK, WorkerTypes, Work,
           ChainWork, MergeWork, ChainTypes
      <3> QED
        BY <1>4, <2>1, <3>2, <3>3
    <2> QED
      BY <2>2, <2>3
  <1>7. CASE Device
    <2>1. PICK m \in inFlight : StreamDone(m)
      BY <1>7 DEF Device
    <2>2. m # Sentinel
      BY DEF SlotsInv, Messages, Reports, Sentinel, ProofTypes, ChainTypes
    <2>3. UNCHANGED <<mpc, hpc>>
      BY <2>1 DEF StreamDone
    <2> QED
      BY <1>3, <1>4, <2>1, <2>2, <2>3 DEF StreamDone, Report, Alive
  <1>8. CASE Fault
    <2>1. UNCHANGED recursiveRx /\ (mpc' = mpc \/ mpc' = "unwind")
      BY <1>8 DEF Fault, Cancel, FailPrecalculate, FailResident, FailWitness,
         FailRecursiveWitness, FailWorker
    <2>2. UNCHANGED hpc \/ \E h \in Streams : hpc' = [hpc EXCEPT ![h] = "exit"]
      BY <1>8 DEF Fault, Cancel, FailPrecalculate, FailResident, FailWitness,
         FailRecursiveWitness, FailWorker, HandlerTo
    <2>3. Alive' \subseteq Alive
      BY <2>2 DEF Alive, TypeOK, HandlerTypes
    <2> QED
      BY <1>3, <2>1, <2>3
  <1>9. CASE Restart
    BY <1>9 DEF Restart
  <1>10. CASE Returned \/ UNCHANGED vars
    BY <1>3, <1>10 DEF Returned, vars, Alive
  <1> QED
    BY <1>1, <1>2, <1>5, <1>6, <1>7, <1>8, <1>9, <1>10 DEF Next

LEMMA ThreadsAlways == Spec => []ThreadsInv
  <1>1. Init => ThreadsInv
    BY DEF Init, ThreadsInv, HandlersThere, WorkersThere, Calculated, SentinelsSuffice
  <1>2. TypeOK /\ SlotsInv /\ ThreadsInv /\ [Next]_vars => ThreadsInv'
    BY NextHandlersThere, NextWorkersThere, NextCalculated, NextSentinelsSuffice
       DEF ThreadsInv
  <1> QED
    BY <1>1, <1>2, CountsAlways, PTL DEF Spec

SomeoneGoesOn ==
  \/ MainGoesOn \/ DeviceGoesOn
  \/ \E s \in Streams : HandlerGoesOn(s) \/ WorkerGoesOn(s)

(* A worker that proves goes on, or waits for a device stream that itself   *)
(* lets finish.                                                             *)
LEMMA ProverGoesOn ==
  ASSUME NEW s \in Streams, spc[s] \in {"basic", "prove"}
  PROVE  SomeoneGoesOn
  <1>1. CASE inFlight = {}
    <2>1. Cardinality(inFlight) = 0
      BY <1>1, FS_EmptySet
    <2>2. Cardinality(Streams) \in Nat /\ Cardinality(Streams) # 0
      BY SystemAssumption, FS_CardinalityType, FS_EmptySet
    <2> QED
      BY <2>1, <2>2 DEF WorkerGoesOn, SomeoneGoesOn
  <1>2. CASE inFlight # {}
    BY <1>2 DEF DeviceGoesOn, SomeoneGoesOn
  <1> QED
    BY <1>1, <1>2

(* Who holds the lock of recursive2_proofs_ongoing goes on.                 *)
LEMMA LockedGoesOn ==
  ASSUME ~OngoingUnlocked
  PROVE  SomeoneGoesOn
  <1>1. PICK s \in Streams : spc[s] \in {"commit", "prove"}
    BY DEF OngoingUnlocked
  <1> QED
    BY <1>1, ProverGoesOn DEF WorkerGoesOn, SomeoneGoesOn

LEMMA WorkingWorkerGoesOn ==
  ASSUME TypeOK, NEW s \in WorkingWorkers
  PROVE  SomeoneGoesOn
  <1>1. s \in Streams /\ spc[s] \in {"basic", "register", "store", "commit", "prove"}
    BY DEF WorkingWorkers, TypeOK, WorkerTypes
  <1> QED
    BY <1>1, ProverGoesOn, LockedGoesOn DEF WorkerGoesOn, SomeoneGoesOn

(* What waits for a worker is taken by one that is no recursive-only stream. *)
LEMMA QueuedGoesOn ==
  ASSUME TypeOK, proofsRx # {} \/ witnessRx # {}, \A s \in Streams : spc[s] # "exit"
  PROVE  SomeoneGoesOn
  <1>1. PICK s \in Streams : s \notin RecursiveStreams
    BY SystemAssumption
  <1>2. CASE spc[s] \in {"poll", "select"}
    BY <1>1, <1>2 DEF WorkerGoesOn, Selectable, SomeoneGoesOn
  <1>3. CASE spc[s] \notin {"poll", "select"}
    BY <1>1, <1>3, WorkingWorkerGoesOn DEF WorkingWorkers
  <1> QED
    BY <1>2, <1>3

(* A handler at work goes on, or somebody for whom it waits does, or there  *)
(* is no buffer left for it.                                                *)
LEMMA WorkingHandlerGoesOn ==
  ASSUME TypeOK, SlotsInv, BuffersConserved, NEW h \in WorkingHandlers,
         ~cancelled => \A s \in Streams : spc[s] # "exit"
  PROVE  SomeoneGoesOn \/ Starved
  <1>1. h \in Streams /\ hpc[h] \in {"take", "buffer", "witness", "send", "decrement"}
    BY DEF WorkingHandlers, TypeOK, HandlerTypes
  <1>2. CASE hpc[h] = "take"
    <2>1. hjob[h] \in Reports
      BY <1>1, <1>2 DEF SlotsInv, Messages
    <2>2. Refers("handler", h, hjob[h])
      BY <1>1, <1>2 DEF Refers, HandlerRefers
    <2>3. Filled(hjob[h])
      BY <2>1, <2>2 DEF SlotsInv, RefersToFilled
    <2> QED
      BY <1>1, <1>2, <2>3, LockedGoesOn DEF Filled, TakeGoesOn, HandlerGoesOn, SomeoneGoesOn
  <1>3. CASE hpc[h] = "buffer" /\ ~cancelled /\ run = 1 /\ ~(free[PoolOf(hjob[h])] > 0)
    <2> DEFINE p == PoolOf(hjob[h])
    <2>1. p \in Pools /\ free[p] \in Nat /\ Buffers[p] \in Nat \ {0}
      BY PoolOfType, SystemAssumption DEF TypeOK, ChannelTypes
    <2>2. free[p] + Cardinality(Held(p)) = Buffers[p]
      BY <1>3, <2>1 DEF BuffersConserved
    <2>3. free[p] = 0
      BY <1>3, <2>1
    <2>4. Held(p) # {}
      BY <2>1, <2>2, <2>3, FS_EmptySet
    <2>5. \/ witnessRx # {}
          \/ \E g \in Streams : hpc[g] \in {"witness", "send"}
          \/ \E s \in Streams : spc[s] \in {"register", "store", "commit"}
      BY <2>4 DEF Held
    <2>6. CASE witnessRx # {}
      BY <1>3, <2>6, QueuedGoesOn
    <2>7. CASE \E g \in Streams : hpc[g] \in {"witness", "send"}
      BY <2>7 DEF HandlerGoesOn, SomeoneGoesOn
    <2>8. CASE \E s \in Streams : spc[s] \in {"register", "store", "commit"}
      BY <2>8, WorkingWorkerGoesOn DEF WorkingWorkers
    <2> QED
      BY <2>5, <2>6, <2>7, <2>8
  <1>4. CASE hpc[h] = "buffer" /\ (cancelled \/ run > 1 \/ free[PoolOf(hjob[h])] > 0)
    BY <1>1, <1>4 DEF HandlerGoesOn, SomeoneGoesOn, Starved
  <1>5. CASE hpc[h] \in {"witness", "send", "decrement"}
    BY <1>1, <1>5 DEF HandlerGoesOn, SomeoneGoesOn
  <1> QED
    BY <1>1, <1>2, <1>3, <1>4, <1>5 DEF TypeOK, MainTypes

LEMMA SomeoneIsThere ==
  ASSUME TypeOK, SlotsInv, CountsInv, BuffersConserved, ThreadsInv
  PROVE  NeverStuck
  <1> SUFFICES ASSUME mpc \in {"wait", "collect", "join", "unwindJoin"}
               PROVE  SomeoneGoesOn \/ Starved \/ Abandoned
    BY DEF NeverStuck, SomeoneGoesOn, MainGoesOn, TypeOK, MainTypes
  <1>1. CASE mpc \in {"wait", "collect"} /\ cancelled
    BY <1>1 DEF MainGoesOn, SomeoneGoesOn
  <1>2. CASE mpc = "collect" /\ ~cancelled
    BY <1>2 DEF MainGoesOn, SomeoneGoesOn, CountsInv, Finished, Going, NothingLeft
  <1>3. CASE mpc = "wait" /\ ~cancelled
    <2>1. /\ \A h \in Streams : hpc[h] # "exit" /\ spc[h] # "exit"
          /\ toCalculate = {}
      BY <1>3 DEF ThreadsInv, HandlersThere, WorkersThere, Calculated
    <2>2. pending = Counted
      BY <1>3 DEF CountsInv, Accounts, Going
    <2>3. CASE pending = 0
      BY <1>3, <2>3 DEF MainGoesOn, SomeoneGoesOn
    <2>4. CASE proofsRx # {} \/ witnessRx # {}
      BY <2>1, <2>4, QueuedGoesOn
    <2>5. CASE inFlight # {}
      BY <1>3, <2>5 DEF DeviceGoesOn, SomeoneGoesOn
    <2>6. CASE WorkingWorkers # {}
      BY <2>6, WorkingWorkerGoesOn
    <2>7. CASE WorkingHandlers # {}
      BY <2>1, <2>7, WorkingHandlerGoesOn
    <2>8. CASE WorkingHandlers = {} /\ Waiting(recursiveRx) # {}
      <3>1. PICK h \in Streams : TRUE
        BY SystemAssumption
      <3>2. hpc[h] = "recv" /\ recursiveRx # <<>>
        BY <2>1, <2>8 DEF WorkingHandlers, Waiting
      <3> QED
        BY <3>2 DEF HandlerGoesOn, SomeoneGoesOn
    <2>9. CASE /\ proofsRx = {} /\ witnessRx = {} /\ inFlight = {} /\ WorkingWorkers = {}
               /\ WorkingHandlers = {} /\ Waiting(recursiveRx) = {}
      <3>1. Senders = {}
        BY <2>9 DEF Senders, WorkingHandlers
      <3>2. Counted = 0
        BY <2>1, <2>9, <3>1, FS_EmptySet DEF Counted, NCalculate, NProve, NWitness, NDevice,
           NQueue, NWorkers, NHandlers, NSenders
      <3> QED
        BY <2>2, <2>3, <3>2
    <2> QED
      BY <2>4, <2>5, <2>6, <2>7, <2>8, <2>9
  <1>4. CASE mpc \in {"join", "unwindJoin"}
    <2>1. CASE AllExited
      BY <1>4, <2>1 DEF MainGoesOn, SomeoneGoesOn
    <2>2. ASSUME NEW s \in Streams, spc[s] # "exit"
          PROVE  SomeoneGoesOn \/ Abandoned
      <3>1. CASE spc[s] \in {"poll", "select"}
        BY <1>4, <3>1 DEF ThreadsInv, WorkersThere, WorkerGoesOn, SomeoneGoesOn, Abandoned
      <3>2. CASE spc[s] \notin {"poll", "select"}
        BY <2>2, <3>2, WorkingWorkerGoesOn DEF WorkingWorkers
      <3> QED
        BY <3>1, <3>2
    <2>3. ASSUME NEW h \in Streams, hpc[h] = "recv"
          PROVE  SomeoneGoesOn
      <3>1. h \in Alive
        BY <2>3 DEF Alive
      <3>2. Cardinality(Alive) # 0
        BY <3>1, QueueLength, FS_EmptySet
      <3>3. Len(recursiveRx) > 0
        BY <1>4, <3>2, QueueLength DEF ThreadsInv, SentinelsSuffice
      <3> QED
        BY <2>3, <3>3 DEF HandlerGoesOn, SomeoneGoesOn
    <2>4. ASSUME NEW h \in WorkingHandlers
          PROVE  SomeoneGoesOn \/ Starved
      <3>1. CASE mpc = "unwindJoin" \/ cancelled
        BY <3>1, WorkingHandlerGoesOn DEF ThreadsInv, WorkersThere
      <3>2. CASE mpc = "join" /\ ~cancelled
        BY <3>2 DEF CountsInv, Finished, Going, NothingLeft
      <3> QED
        BY <1>4, <3>1, <3>2
    <2> QED
      BY <2>1, <2>2, <2>3, <2>4 DEF AllExited, WorkingHandlers
  <1> QED
    BY <1>1, <1>2, <1>3, <1>4

(* The threads of a call never come to a stop before it returns, whatever   *)
(* the number of streams, buffers and instances and whatever fails: unless  *)
(* a cancellation has lost the buffer a handler waits for, or an early      *)
(* return has left the workers polling, somebody can go on.                 *)
THEOREM NoDeadlock == Spec => []NeverStuck
  BY SomeoneIsThere, CountsAlways, BuffersStay, ThreadsAlways, PTL

-----------------------------------------------------------------------------
(* What a call that goes on ends with.                                      *)

(* A call succeeds only if nothing was cancelled.                           *)
DoneClean == mpc = "done" => ~cancelled

(* Without aggregation the handlers only count, and no recursive proof is   *)
(* ever made.                                                               *)
PlainCall ==
  ~aggregate =>
    /\ \A h \in Streams : hpc[h] \in {"recv", "decrement", "exit"}
    /\ \A s \in Streams : spc[s] \in {"poll", "basic", "select", "exit"}
    /\ witnessRx = {} /\ ongoing = <<>> /\ pool = [a \in Airgroups |-> {}]
    /\ \A p \in slots : p.type = "Basic"

(* Fewer than three proofs of an airgroup wait for others.                  *)
SmallPools == \A a \in Airgroups : Cardinality(pool[a]) < NRecursive

(* No instance gets lost.                                                   *)
AllThere ==
  Going => \A i \in Instances :
             (mpc = "resident" => i \in Resident) => \E k, x : At(k, x, i)

(* No proof stays in a slot without somebody to announce it.                *)
Answered ==
  Going /\ aggregate => \A m \in Reports : Filled(m) => \E k, x : Refers(k, x, m)

(* A trace is kept only until its instance is proved.                       *)
TracesAhead ==
  Going => \A i \in traces :
             (mpc = "resident" => i \in Resident) =>
               \/ i \in toFeed \cup toCalculate \cup proofsRx
               \/ \E s \in Streams : Proving(s) /\ sjob[s].id = i

EndsInv ==
  /\ DoneClean
  /\ PlainCall
  /\ SmallPools
  /\ AllThere
  /\ Answered
  /\ TracesAhead

(* Where a step that keeps the call going comes from.                       *)
LEMMA GoingOn ==
  ASSUME [Next]_vars, Going'
  PROVE  /\ ~cancelled /\ ~Fault /\ ~Restart
         /\ aggregate' = aggregate
         /\ Start \/ Going
         /\ mpc = "resident" => mpc' = "resident" \/ StartWorkers
         /\ mpc # "resident" => mpc' # "resident" \/ Start
  <1> USE DEF Going, mainVars, faultVars
  <1>1. CASE Fault \/ Restart
    BY <1>1 DEF Fault, Cancel, FailPrecalculate, FailResident, FailWitness,
       FailRecursiveWitness, FailWorker, Restart
  <1>2. CASE Main /\ ~Fault /\ ~Restart
    BY <1>2 DEF Main, Start, ProveResident, Feed, StartWorkers, EndFeed, ComputeWitness,
       EndWitness, WaitZero, Dismiss, Join, Succeed, FailCancelled, Unwind, UnwindJoin
  <1>3. CASE (\E s \in Streams : Handler(s) \/ Worker(s)) /\ ~Fault /\ ~Restart
    <2>1. UNCHANGED <<mpc, cancelled, aggregate>>
      BY <1>3 DEF Handler, Receive, TakeProof, TakeRecursive1, TakeRecursive2, TakeBuffer,
         Increment, Send, Decrement, Worker, PollProofs, PollWitness, ProveBasic, Select,
         SelectDefault, Register, Store, Commit, ProveRecursive
    <2> QED
      BY <1>3, <2>1
  <1>4. CASE (Device \/ Returned \/ UNCHANGED vars) /\ ~Fault /\ ~Restart
    <2>1. UNCHANGED <<mpc, cancelled, aggregate>>
      BY <1>4 DEF Device, StreamDone, Returned, vars
    <2> QED
      BY <1>4, <2>1
  <1> QED
    BY <1>1, <1>2, <1>3, <1>4 DEF Next

LEMMA NextDoneClean ==
  ASSUME TypeOK, TraceInv, SlotsInv, DoneClean, [Next]_vars
  PROVE  DoneClean'
  <1> SUFFICES ASSUME mpc' = "done" PROVE ~cancelled'
    BY DEF DoneClean
  <1> USE DEF mainVars, faultVars
  <1>1. CASE Main
    BY <1>1 DEF Main, Start, ProveResident, Feed, StartWorkers, EndFeed, ComputeWitness,
       EndWitness, WaitZero, Dismiss, Join, Succeed, FailCancelled, Unwind, UnwindJoin,
       DoneClean
  <1>2. CASE \E s \in Streams : Handler(s) \/ Worker(s)
    <2>1. UNCHANGED <<mpc, cancelled>>
      BY <1>2 DEF Handler, Receive, TakeProof, TakeRecursive1, TakeRecursive2, TakeBuffer,
         Increment, Send, Decrement, Worker, PollProofs, PollWitness, ProveBasic, Select,
         SelectDefault, Register, Store, Commit, ProveRecursive
    <2> QED
      BY <2>1 DEF DoneClean
  <1>3. CASE Device \/ Restart \/ Returned \/ UNCHANGED vars
    BY <1>3 DEF Device, StreamDone, Restart, Returned, vars, DoneClean
  <1>4. CASE Fault
    <2>1. CASE \E s \in Streams : FailRecursiveWitness(s) \/ FailWorker(s)
      BY <2>1 DEF FailRecursiveWitness, FailWorker, TraceInv, Quiet, SlotsInv, Phases
    <2>2. CASE Cancel \/ FailPrecalculate \/ (\E i \in toFeed : FailResident(i))
               \/ (\E i \in toCalculate : FailWitness(i))
      BY <2>2 DEF Cancel, FailPrecalculate, FailResident, FailWitness
    <2> QED
      BY <1>4, <2>1, <2>2 DEF Fault
  <1> QED
    BY <1>1, <1>2, <1>3, <1>4 DEF Next

LEMMA NextAllThere ==
  ASSUME TypeOK, TraceInv, SlotsInv, AllThere, [Next]_vars
  PROVE  AllThere'
  <1> SUFFICES ASSUME Going', NEW i \in Instances, mpc' = "resident" => i \in Resident
               PROVE  \E k, x : At(k, x, i)'
    BY DEF AllThere
  <1>1. Stays(i) \/ Goes(i)
    BY GoingOn, NextMoves DEF Moves
  <1>2. CASE \E k, x : At(k, x, i)
    BY <1>1, <1>2 DEF Stays, Goes
  <1>3. CASE Start /\ i \in Resident
    <2>1. At("feed", i, i)'
      BY <1>3 DEF Start, At
    <2> QED
      BY <2>1
  <1>4. CASE StartWorkers /\ i \notin Resident
    <2>1. At("feed", i, i)'
      BY <1>4 DEF StartWorkers, At
    <2> QED
      BY <2>1
  <1>5. Start => mpc' = "resident"
    BY DEF Start
  <1> QED
    BY <1>2, <1>3, <1>4, <1>5, GoingOn DEF AllThere

LEMMA NextAnswered ==
  ASSUME TypeOK, TraceInv, SlotsInv, CountsInv, Answered, [Next]_vars
  PROVE  Answered'
  <1> SUFFICES ASSUME Going', aggregate', NEW m \in Reports, Filled(m)'
               PROVE  \E k, x : Refers(k, x, m)'
    BY DEF Answered
  <1>1. aggregate /\ ~cancelled /\ ~Fault /\ ~Restart /\ (Start \/ Going)
    BY GoingOn
  <1>2. \E k, x : Refers(k, x, m) \/ ~Filled(m)
    <2>1. CASE Start
      <3>1. ~Filled(m)
        BY <2>1 DEF Start, SlotsInv, Phases, Filled
      <3> QED
        BY <3>1
    <2>2. CASE Going
      BY <1>1, <2>2 DEF Answered
    <2> QED
      BY <1>1, <2>1, <2>2
  <1>3. Announces
    <2>1. CASE Main
      BY <1>1, <2>1, MainShuffles
    <2>2. CASE \E h \in Streams : Handler(h)
      BY <1>1, <2>2, HandlerShuffles
    <2>3. CASE \E s \in Streams : Worker(s)
      <3>1. PICK s \in Streams : Worker(s)
        BY <2>3
      <3>2. Going
        BY <1>1, <3>1 DEF Start, Worker, PollProofs, PollWitness, ProveBasic, Select,
           SelectDefault, Register, Store, Commit, ProveRecursive, TraceInv, Quiet
      <3>3. CASE callback
        BY <3>1, <3>3, WorkerShuffles
      <3>4. CASE NothingLeft
        <4>1. ~Storing(s) /\ witnessRx = {} /\ proofsRx = {}
              /\ spc[s] \in {"poll", "select", "exit"}
          BY <3>4 DEF NothingLeft, WorkingWorkers, Storing
        <4>2. PollWitness(s) \/ SelectDefault(s)
          BY <3>1, <4>1 DEF Worker, ProveBasic, Register, Store, Commit, ProveRecursive
        <4>3. /\ \E pc \in {"poll", "select", "exit"} : WorkerTo(s, pc, None)
              /\ UNCHANGED <<inFlight, recursiveRx, slots, ongoing, handlerVars>>
          BY <4>2 DEF PollWitness, SelectDefault, deviceVars, proofVars
        <4>4. \A n : Filled(n)' <=> Filled(n)
          BY <4>3, SameReferences
        <4> QED
          BY <4>1, <4>3, <4>4, SilentWorker DEF TypeOK
      <3> QED
        BY <3>2, <3>3, <3>4, CallbackWhileWorking
    <2>4. CASE Device
      <3>1. Going
        BY <1>1, <2>4 DEF Start, Device, StreamDone, TraceInv, Quiet
      <3>2. ~NothingLeft
        BY <2>4 DEF Device, NothingLeft
      <3> QED
        BY <1>1, <2>4, <3>1, <3>2, CallbackWhileWorking, OthersShuffle
    <2>5. CASE Returned \/ UNCHANGED vars
      <3>1. UNCHANGED <<inFlight, recursiveRx, slots, ongoing, handlerVars, workerVars>>
        BY <2>5 DEF Returned, vars, deviceVars, proofVars
      <3> QED
        BY <3>1, SameReferences, NothingAnnounced
    <2> QED
      BY <1>1, <2>1, <2>2, <2>3, <2>4, <2>5 DEF Next
  <1> QED
    BY <1>2, <1>3 DEF Announces, RefKeeps, RefGoes, RefOnlyAt, RefEnds

LEMMA NextPlainCall ==
  ASSUME TypeOK, TraceInv, SlotsInv, PlainCall, [Next]_vars
  PROVE  PlainCall'
  <1> SUFFICES ASSUME ~aggregate'
               PROVE  /\ \A h \in Streams : hpc'[h] \in {"recv", "decrement", "exit"}
                      /\ \A s \in Streams : spc'[s] \in {"poll", "basic", "select", "exit"}
                      /\ witnessRx' = {} /\ ongoing' = <<>>
                      /\ pool' = [a \in Airgroups |-> {}]
                      /\ \A p \in slots' : p.type = "Basic"
    BY DEF PlainCall
  <1> USE DEF mainVars, handlerVars, workerVars, proofVars, PlainCall
  <1>1. CASE Start
    <2>1. ~aggregate /\ pool' = [a \in Airgroups |-> pool[a]]
      BY <1>1 DEF Start
    <2> QED
      BY <1>1, <2>1 DEF Start
  <1>2. CASE (Main \/ Device) /\ ~Start /\ ~FailCancelled
    <2>1. CASE \E i \in toFeed : ProveResident(i)
      BY <2>1 DEF ProveResident, Proof
    <2>2. CASE StartWorkers
      BY <2>2 DEF StartWorkers
    <2> QED
      BY <1>2, <2>1, <2>2 DEF Main, Device, StreamDone, Feed, EndFeed, ComputeWitness,
         EndWitness, WaitZero, Dismiss, Join, Succeed, Unwind, UnwindJoin
  <1>3. CASE FailCancelled \/ Restart
    BY <1>3 DEF FailCancelled, Restart, Reset, TraceInv, Quiet, SlotsInv, Phases
  <1>4. CASE \E h \in Streams : Handler(h) \/ FailRecursiveWitness(h)
    <2>1. PICK h \in Streams : Handler(h) \/ FailRecursiveWitness(h)
      BY <1>4
    <2>2. ~aggregate
      BY <2>1 DEF Handler, Receive, TakeProof, TakeRecursive1, TakeRecursive2, TakeBuffer,
         Increment, Send, Decrement, FailRecursiveWitness
    <2>3. hpc[h] \in {"recv", "decrement", "exit"}
      BY <2>2
    <2>4. Receive(h) \/ Decrement(h)
      BY <2>1, <2>3 DEF Handler, TakeProof, TakeRecursive1, TakeRecursive2, TakeBuffer,
         Increment, Send, FailRecursiveWitness
    <2>5. /\ \E pc \in {"recv", "decrement", "exit"} : HandlerTo(h, pc, None)
          /\ UNCHANGED <<spc, witnessRx, ongoing, pool, slots>>
      BY <2>2, <2>4 DEF Receive, Decrement
    <2> QED
      BY <2>2, <2>5 DEF HandlerTo, TypeOK, HandlerTypes
  <1>5. CASE \E s \in Streams : Worker(s) \/ FailWorker(s)
    <2>1. PICK s \in Streams : Worker(s) \/ FailWorker(s)
      BY <1>5
    <2>2. ~aggregate
      BY <2>1 DEF Worker, PollProofs, PollWitness, ProveBasic, Select, SelectDefault,
         Register, Store, Commit, ProveRecursive, FailWorker
    <2>3. spc[s] \in {"poll", "basic", "select", "exit"} /\ witnessRx = {}
      BY <2>2
    <2>4. /\ \/ spc' = spc
             \/ \E pc \in {"poll", "basic", "select", "exit"} : spc' = [spc EXCEPT ![s] = pc]
          /\ slots' = slots \/ (slots' = slots \cup {sjob[s]} /\ spc[s] = "basic")
          /\ UNCHANGED <<hpc, witnessRx, ongoing, pool>>
      BY <2>1, <2>3 DEF Worker, PollProofs, PollWitness, ProveBasic, Select, SelectDefault,
         Register, Store, Commit, ProveRecursive, FailWorker, WorkerTo
    <2>5. spc[s] = "basic" => sjob[s].type = "Basic"
      BY DEF SlotsInv, Shapes, WorkerShapes
    <2> QED
      BY <2>2, <2>4, <2>5 DEF TypeOK, WorkerTypes
  <1>6. CASE \/ Cancel \/ FailPrecalculate \/ (\E i \in toFeed : FailResident(i))
             \/ (\E i \in toCalculate : FailWitness(i)) \/ Returned \/ UNCHANGED vars
    BY <1>6 DEF Cancel, FailPrecalculate, FailResident, FailWitness, Returned, vars
  <1> QED
    BY <1>1, <1>2, <1>3, <1>4, <1>5, <1>6 DEF Next, Fault

(* The proofs that wait are finitely many.                                  *)
LEMMA PoolFinite ==
  ASSUME TypeOK
  PROVE  /\ IsFiniteSet(SUBSET Instances)
         /\ \A a \in Airgroups : IsFiniteSet(pool[a])
  <1>1. IsFiniteSet(SUBSET Instances)
    BY SystemAssumption, FS_SUBSET
  <1>2. ASSUME NEW a \in Airgroups PROVE IsFiniteSet(pool[a])
    <2>1. pool[a] \in SUBSET (SUBSET Instances)
      BY DEF TypeOK, StoreTypes
    <2> QED
      BY <1>1, <2>1, FS_Subset
  <1> QED
    BY <1>1, <1>2

(* Three proofs of more leave fewer than three, since one joins at a time.  *)
LEMMA JoinKeepsSmall ==
  ASSUME TypeOK, SmallPools, NEW h, NEW p, p.airgroup \in Airgroups, JoinAirgroup(h, p)
  PROVE  SmallPools'
  <1> DEFINE a == p.airgroup
             all == pool[a] \cup {p.leaves}
  <1>1. /\ IsFiniteSet(pool[a]) /\ Cardinality(pool[a]) \in Nat
        /\ Cardinality(pool[a]) < 3
    BY PoolFinite, FS_CardinalityType DEF SmallPools, NRecursive
  <1>2. /\ IsFiniteSet(all) /\ Cardinality(all) \in Nat
        /\ Cardinality(all) <= Cardinality(pool[a]) + 1
    BY <1>1, FS_AddElement, FS_CardinalityType
  <1>3. DOMAIN pool = Airgroups
    BY DEF TypeOK, StoreTypes
  <1>4. CASE Cardinality(all) < NRecursive
    <2>1. pool' = [pool EXCEPT ![a] = all]
      BY <1>4 DEF JoinAirgroup
    <2> QED
      BY <1>3, <1>4, <2>1 DEF SmallPools
  <1>5. CASE ~(Cardinality(all) < NRecursive)
    <2>1. PICK three \in SUBSET all :
            Cardinality(three) = NRecursive /\ pool' = [pool EXCEPT ![a] = all \ three]
      BY <1>5 DEF JoinAirgroup
    <2>2. Cardinality(all) = 3
      BY <1>1, <1>2, <1>5 DEF NRecursive
    <2>3. three = all
      BY <1>2, <2>1, <2>2, FS_Subset DEF NRecursive
    <2>4. pool'[a] = {} /\ \A b \in Airgroups : b # a => pool'[b] = pool[b]
      BY <1>3, <2>1, <2>3
    <2> QED
      BY <2>4, FS_EmptySet DEF SmallPools, NRecursive
  <1> QED
    BY <1>4, <1>5

LEMMA NextSmallPools ==
  ASSUME TypeOK, TraceInv, SlotsInv, SmallPools, [Next]_vars
  PROVE  SmallPools'
  <1> USE DEF proofVars
  <1>1. CASE Start
    <2>1. ASSUME NEW a \in Airgroups PROVE Cardinality(pool'[a]) < NRecursive
      <3>1. pool'[a] = {} \/ pool'[a] = {{}}
        BY <1>1 DEF Start, SlotsInv, Phases, Padding
      <3>2. Cardinality(pool'[a]) \in {0, 1}
        BY <3>1, FS_EmptySet, FS_Singleton
      <3> QED
        BY <3>2 DEF NRecursive
    <2> QED
      BY <2>1 DEF SmallPools
  <1>2. CASE FailCancelled \/ Restart
    <2>1. \A a \in Airgroups : pool'[a] = {}
      BY <1>2 DEF FailCancelled, Restart, Reset
    <2>2. Cardinality({}) < NRecursive
      BY FS_EmptySet DEF NRecursive
    <2> QED
      BY <2>1, <2>2 DEF SmallPools
  <1>3. CASE \E h \in Streams : TakeRecursive1(h)
    <2>1. PICK h \in Streams : \E p \in slots : JoinAirgroup(h, p)
      BY <1>3 DEF TakeRecursive1
    <2>2. \A p \in slots : p.airgroup \in Airgroups
      BY DEF TypeOK, StoreTypes, ChainWork
    <2> QED
      BY <2>1, <2>2, JoinKeepsSmall
  <1>4. CASE \E h \in Streams : TakeRecursive2(h)
    <2>1. PICK h \in Streams, k \in DOMAIN ongoing :
            ongoing[k] # None /\ JoinAirgroup(h, ongoing[k])
      BY <1>4 DEF TakeRecursive2
    <2>2. ongoing[k].airgroup \in Airgroups
      BY <2>1 DEF TypeOK, StoreTypes, Work, ChainWork, MergeWork
    <2> QED
      BY <2>1, <2>2, JoinKeepsSmall
  <1>5. CASE \E h \in Streams : \/ Receive(h) \/ TakeProof(h) \/ TakeBuffer(h) \/ Increment(h)
                                \/ Send(h) \/ Decrement(h) \/ FailRecursiveWitness(h)
    BY <1>5 DEF Receive, TakeProof, TakeBuffer, Increment, Send, Decrement,
       FailRecursiveWitness, SmallPools
  <1>6. CASE \E s \in Streams : Worker(s) \/ FailWorker(s)
    BY <1>6 DEF Worker, PollProofs, PollWitness, ProveBasic, Select, SelectDefault,
       Register, Store, Commit, ProveRecursive, FailWorker, SmallPools
  <1>7. CASE \/ Main /\ ~Start /\ ~FailCancelled
             \/ Device \/ Cancel \/ FailPrecalculate
             \/ (\E i \in toFeed : FailResident(i))
             \/ (\E i \in toCalculate : FailWitness(i)) \/ Returned \/ UNCHANGED vars
    BY <1>7 DEF Main, ProveResident, Feed, StartWorkers, EndFeed, ComputeWitness, EndWitness,
       WaitZero, Dismiss, Join, Succeed, Unwind, UnwindJoin, Device, StreamDone, Cancel,
       FailPrecalculate, FailResident, FailWitness, Returned, vars, SmallPools
  <1> QED
    BY <1>1, <1>2, <1>3, <1>4, <1>5, <1>6, <1>7 DEF Next, Handler, Fault

(* Where a trace stays ahead of its instance.                               *)
LEMMA NextTracesAhead ==
  ASSUME TypeOK, TraceInv, SlotsInv, TracesAhead, [Next]_vars
  PROVE  TracesAhead'
  <1> SUFFICES ASSUME Going', NEW i \in traces', mpc' = "resident" => i \in Resident
               PROVE  \/ i \in toFeed' \cup toCalculate' \cup proofsRx'
                      \/ \E s \in Streams : spc'[s] = "basic" /\ sjob'[s].id = i
    BY DEF TracesAhead, Proving
  <1>1. ~cancelled /\ ~Fault /\ ~Restart /\ (Start \/ Going)
    BY GoingOn
  <1> USE DEF mainVars, feedVars, workerVars
  <1>2. CASE Start
    BY <1>2 DEF Start
  <1>3. CASE StartWorkers
    BY <1>1, <1>3 DEF StartWorkers, Start, TracesAhead, Proving, TypeOK, FeedTypes, TraceInv,
       Quiet
  <1>4. CASE Going /\ Main /\ ~Start /\ ~StartWorkers
    <2>1. /\ i \in traces => (mpc = "resident" => i \in Resident)
          /\ UNCHANGED workerVars
      BY <1>4 DEF Main, ProveResident, Feed, EndFeed, ComputeWitness,
         EndWitness, WaitZero, Dismiss, Join, Succeed, FailCancelled, Unwind, UnwindJoin
    <2>2. CASE i \in toCalculate' \cup proofsRx' \cup toFeed'
      BY <2>2
    <2>3. CASE i \notin toCalculate' \cup proofsRx' \cup toFeed'
      <3>1. i \in traces /\ i \notin toFeed \cup toCalculate \cup proofsRx
        BY <1>1, <1>4, <2>3 DEF Main, ProveResident, Feed, EndFeed, ComputeWitness,
           EndWitness, WaitZero, Dismiss, Join, Succeed, FailCancelled, Unwind, UnwindJoin
      <3> QED
        BY <1>4, <2>1, <3>1 DEF TracesAhead, Proving
    <2> QED
      BY <2>2, <2>3
  <1>5. CASE Going /\ \E s \in Streams : Worker(s)
    <2>1. PICK s \in Streams : Worker(s)
      BY <1>5
    <2>2. /\ i \in traces /\ UNCHANGED <<mpc, toFeed, toCalculate>>
      BY <2>1 DEF Worker, PollProofs, PollWitness, ProveBasic, Select, SelectDefault,
         Register, Store, Commit, ProveRecursive
    <2>3. \/ i \in toFeed \cup toCalculate \cup proofsRx
          \/ \E t \in Streams : spc[t] = "basic" /\ sjob[t].id = i
      BY <1>5, <2>2 DEF TracesAhead, Proving
    <2>4. CASE \E j \in proofsRx : PollProofs(s, j)
      <3>1. PICK j \in proofsRx : PollProofs(s, j)
        BY <2>4
      <3>2. /\ proofsRx' = proofsRx \ {j} /\ spc[s] = "poll"
            /\ WorkerTo(s, "basic", Proof("Basic", j)) /\ Proof("Basic", j).id = j
        BY <1>1, <3>1 DEF PollProofs, Proof
      <3> QED
        BY <2>2, <2>3, <3>2 DEF WorkerTo, TypeOK, WorkerTypes
    <2>5. CASE ProveBasic(s)
      BY <2>2, <2>3, <2>5 DEF ProveBasic, WorkerTo, TypeOK, WorkerTypes
    <2>6. CASE ~ProveBasic(s) /\ ~\E j \in proofsRx : PollProofs(s, j)
      <3>1. /\ spc[s] # "basic" /\ proofsRx' = proofsRx
            /\ \E pc, job : WorkerTo(s, pc, job)
        BY <2>1, <2>6 DEF Worker, PollWitness, Select, SelectDefault, Register, Store,
           Commit, ProveRecursive
      <3> QED
        BY <2>2, <2>3, <3>1 DEF WorkerTo, TypeOK, WorkerTypes
    <2> QED
      BY <2>4, <2>5, <2>6
  <1>6. CASE Going /\ (Device \/ Returned \/ UNCHANGED vars \/ \E h \in Streams : Handler(h))
    <2>1. UNCHANGED <<mpc, toFeed, toCalculate, proofsRx, traces, spc, sjob>>
      BY <1>6 DEF Device, StreamDone, Returned, vars, Handler, Receive, TakeProof,
         TakeRecursive1, TakeRecursive2, TakeBuffer, Increment, Send, Decrement
    <2> QED
      BY <1>6, <2>1 DEF TracesAhead, Proving
  <1> QED
    BY <1>1, <1>2, <1>3, <1>4, <1>5, <1>6 DEF Next

-----------------------------------------------------------------------------
(* The merges.  What stands for several proofs of the airgroup a that cover *)
(* the instances x: a witness on its way, or a proof at its position.       *)

IsMerge(w, a, x) == w.type = "Recursive2" /\ w.airgroup = a /\ w.leaves = x

WorkerMerges(s, a, x) == s \in Streams /\ Holding(s) /\ IsMerge(sjob[s], a, x)

HandlerMerges(h, a, x) == h \in Streams /\ Carrying(h) /\ IsMerge(hjob[h], a, x)

QueueMerges(w, a, x) == w \in witnessRx /\ IsMerge(w, a, x)

PositionMerges(k, a, x) ==
  k \in DOMAIN ongoing /\ ongoing[k] # None /\ IsMerge(ongoing[k], a, x)

InMerge(a, x) ==
  \/ \E s : WorkerMerges(s, a, x)
  \/ \E h : HandlerMerges(h, a, x)
  \/ \E w : QueueMerges(w, a, x)
  \/ \E k : PositionMerges(k, a, x)

Joined(a) == pool[a] \cup Merged(a)

(* The pieces of the instances L of which those in J are joined.            *)
PiecesOf(J, L) == J \cup {{i} : i \in L \ UNION J}

(* A worker that has stored its merge need not be counted.                  *)
LEMMA MergedIs == TypeOK /\ SlotsInv => \A a, x : x \in Merged(a) <=> InMerge(a, x)
  <1> SUFFICES ASSUME TypeOK, SlotsInv, NEW a, NEW x
               PROVE  x \in Merged(a) <=> InMerge(a, x)
    OBVIOUS
  <1> DEFINE Is(w) == IsMerge(w, a, x)
  <1>1. x \in Merged(a) <=>
          \/ \E w \in witnessRx : IsMerge(w, a, x)
          \/ \E h \in Streams : Carrying(h) /\ IsMerge(hjob[h], a, x)
          \/ \E s \in Streams : (Holding(s) \/ Storing(s)) /\ IsMerge(sjob[s], a, x)
          \/ \E k \in DOMAIN ongoing : ongoing[k] # None /\ IsMerge(ongoing[k], a, x)
    <2>1. \A s \in Streams : Holding(s) \/ Storing(s) <=> spc[s] \notin {"poll", "select", "exit"}
      BY DEF Holding, Storing, TypeOK, WorkerTypes
    <2> QED
      BY <2>1 DEF Merged, IsMerge, Carrying
  <1>2. ASSUME NEW s \in Streams, Storing(s), IsMerge(sjob[s], a, x)
        PROVE  \E k \in DOMAIN ongoing : ongoing[k] # None /\ IsMerge(ongoing[k], a, x)
    <2>1. sjob[s].id \in DOMAIN ongoing /\ ongoing[sjob[s].id] = sjob[s]
      BY <1>2 DEF SlotsInv, StoredStay, InSlot, IsMerge
    <2>2. sjob[s] # None
      BY <1>2, NoneAssumption DEF Storing, TypeOK, WorkerTypes
    <2> QED
      BY <1>2, <2>1, <2>2
  <1> QED
    BY <1>1, <1>2 DEF InMerge, WorkerMerges, HandlerMerges, QueueMerges, PositionMerges

LEMMA MergedNext ==
  ASSUME TypeOK, TraceInv, SlotsInv, [Next]_vars
  PROVE  /\ \A a, x : x \in Merged(a) <=> InMerge(a, x)
         /\ \A a, x : x \in Merged(a)' <=> InMerge(a, x)'
  <1>1. (TypeOK /\ SlotsInv)'
    BY InvariantSteps
  <1>2. (TypeOK /\ SlotsInv => \A a, x : x \in Merged(a) <=> InMerge(a, x))'
    BY MergedIs, PTL
  <1> QED
    BY <1>1, <1>2, MergedIs

(* What is merged is somewhere in the pipeline, and not waiting.            *)
LEMMA MergeIsSomewhere ==
  ASSUME TypeOK, SlotsInv, NEW a, NEW x, InMerge(a, x)
  PROVE  /\ x # {} /\ x \subseteq LeavesOf(a)
         /\ \A i \in x : \/ \E s : WorkerMerges(s, a, x) /\ At("worker", s, i)
                         \/ \E h : HandlerMerges(h, a, x) /\ At("handler", h, i)
                         \/ \E w : QueueMerges(w, a, x) /\ At("witness", w, i)
                         \/ \E k : PositionMerges(k, a, x) /\ At("ongoing", k, i)
  <1>1. CASE \E s : WorkerMerges(s, a, x)
    <2>1. PICK s : WorkerMerges(s, a, x)
      BY <1>1
    <2>2. Shaped(sjob[s])
      BY <2>1 DEF WorkerMerges, SlotsInv, Shapes, WorkerShapes
    <2> QED
      BY <2>1, <2>2 DEF WorkerMerges, IsMerge, Shaped, At, WorkerHas
  <1>2. CASE \E h : HandlerMerges(h, a, x)
    <2>1. PICK h : HandlerMerges(h, a, x)
      BY <1>2
    <2>2. Shaped(hjob[h])
      BY <2>1 DEF HandlerMerges, SlotsInv, Shapes, HandlerShapes
    <2> QED
      BY <2>1, <2>2 DEF HandlerMerges, IsMerge, Shaped, At, HandlerHas
  <1>3. CASE \E w : QueueMerges(w, a, x)
    <2>1. PICK w : QueueMerges(w, a, x)
      BY <1>3
    <2>2. Shaped(w)
      BY <2>1 DEF QueueMerges, SlotsInv, Shapes, StoreShapes
    <2> QED
      BY <2>1, <2>2 DEF QueueMerges, IsMerge, Shaped, At, QueueHas
  <1>4. CASE \E k : PositionMerges(k, a, x)
    <2>1. PICK k : PositionMerges(k, a, x)
      BY <1>4
    <2>2. Shaped(ongoing[k])
      BY <2>1 DEF PositionMerges, SlotsInv, Shapes, PositionShapes
    <2> QED
      BY <2>1, <2>2 DEF PositionMerges, IsMerge, Shaped, At, PositionHas
  <1> QED
    BY <1>1, <1>2, <1>3, <1>4 DEF InMerge

(* Merges of a kind that did not change.                                    *)
LEMMA SameMerges ==
  /\ UNCHANGED workerVars => \A y, a, x : WorkerMerges(y, a, x)' <=> WorkerMerges(y, a, x)
  /\ UNCHANGED handlerVars => \A y, a, x : HandlerMerges(y, a, x)' <=> HandlerMerges(y, a, x)
  /\ UNCHANGED witnessRx => \A y, a, x : QueueMerges(y, a, x)' <=> QueueMerges(y, a, x)
  /\ UNCHANGED ongoing => \A y, a, x : PositionMerges(y, a, x)' <=> PositionMerges(y, a, x)
  BY DEF WorkerMerges, HandlerMerges, QueueMerges, PositionMerges, Holding, Carrying,
         workerVars, handlerVars

LEMMA WorkerToMerges ==
  ASSUME WorkerTypes, NEW s \in Streams, NEW pc, NEW job, WorkerTo(s, pc, job)
  PROVE  /\ \A y, a, x : y # s => (WorkerMerges(y, a, x)' <=> WorkerMerges(y, a, x))
         /\ \A a, x : WorkerMerges(s, a, x)' <=>
                        pc \in {"basic", "register", "store"} /\ IsMerge(job, a, x)
  BY DEF WorkerTypes, WorkerTo, WorkerMerges, Holding

LEMMA HandlerToMerges ==
  ASSUME HandlerTypes, NEW h \in Streams, NEW pc, NEW job, HandlerTo(h, pc, job)
  PROVE  /\ \A y, a, x : y # h => (HandlerMerges(y, a, x)' <=> HandlerMerges(y, a, x))
         /\ \A a, x : HandlerMerges(h, a, x)' <=>
                        pc \in {"buffer", "witness", "send"} /\ IsMerge(job, a, x)
  BY DEF HandlerTypes, HandlerTo, HandlerMerges, Carrying

MergesStay == \A a, x : InMerge(a, x)' <=> InMerge(a, x)

(* Only taking the proof of an airgroup, and starting, change the merges    *)
(* and the pools.                                                           *)
LEMMA MainMerges ==
  ASSUME TypeOK, TraceInv, SlotsInv, Main, ~Start, ~cancelled
  PROVE  MergesStay /\ UNCHANGED <<pool, aggregate>> /\ mpc # "start" /\ mpc' # "start"
  <1>1. /\ UNCHANGED <<pool, aggregate, handlerVars, witnessRx, ongoing>>
        /\ mpc # "start" /\ mpc' # "start"
        /\ UNCHANGED workerVars \/ StartWorkers
    BY DEF Main, ProveResident, Feed, StartWorkers, EndFeed, ComputeWitness, EndWitness,
       WaitZero, Dismiss, Join, Succeed, FailCancelled, Unwind, UnwindJoin, proofVars,
       mainVars
  <1>2. \A y, a, x : WorkerMerges(y, a, x)' <=> WorkerMerges(y, a, x)
    <2>1. CASE StartWorkers
      BY <2>1 DEF StartWorkers, WorkerMerges, Holding, TraceInv, Quiet
    <2> QED
      BY <1>1, <2>1, SameMerges
  <1>3. MergesStay
    BY <1>1, <1>2, SameMerges DEF MergesStay, InMerge
  <1> QED
    BY <1>1, <1>3

LEMMA HandlerMergesStay ==
  ASSUME TypeOK, TraceInv, SlotsInv, NEW h \in Streams, Handler(h),
         ~TakeRecursive1(h), ~TakeRecursive2(h)
  PROVE  MergesStay /\ UNCHANGED <<pool, aggregate, mpc>>
  <1> USE DEF mainVars, proofVars
  <1>1. CASE Receive(h) \/ TakeBuffer(h) \/ Increment(h) \/ Decrement(h)
    <2>1. /\ UNCHANGED <<witnessRx, ongoing, pool, workerVars, aggregate, mpc>>
          /\ \E pc, job :
               /\ HandlerTo(h, pc, job)
               /\ IF Carrying(h) THEN pc \in {"buffer", "witness", "send"} /\ job = hjob[h]
                  ELSE pc \notin {"buffer", "witness", "send"}
      BY <1>1 DEF Receive, TakeBuffer, Increment, Decrement, Carrying
    <2>2. \A y, a, x : HandlerMerges(y, a, x)' <=> HandlerMerges(y, a, x)
      BY <2>1, HandlerToMerges DEF HandlerMerges, TypeOK
    <2> QED
      BY <2>1, <2>2, SameMerges DEF MergesStay, InMerge
  <1>2. CASE TakeProof(h)
    <2>1. PICK p \in slots : Done(p) = hjob[h] /\ HandlerTo(h, "buffer", Proof(NextType(p), p.id))
      BY <1>2 DEF TakeProof
    <2>2. p.type = hjob[h].type /\ p.id = hjob[h].id
      BY <2>1 DEF Done
    <2>3. Proof(NextType(p), p.id).type # "Recursive2"
      BY <1>2, <2>2 DEF TakeProof, NextType, Proof
    <2>4. /\ UNCHANGED <<witnessRx, ongoing, pool, workerVars, aggregate, mpc>>
          /\ ~Carrying(h)
      BY <1>2 DEF TakeProof, Carrying
    <2>5. \A y, a, x : HandlerMerges(y, a, x)' <=> HandlerMerges(y, a, x)
      BY <2>1, <2>3, <2>4, HandlerToMerges DEF HandlerMerges, IsMerge, TypeOK
    <2> QED
      BY <2>4, <2>5, SameMerges DEF MergesStay, InMerge
  <1>3. CASE Send(h)
    <2>1. /\ Carrying(h) /\ witnessRx' = witnessRx \cup {hjob[h]}
          /\ HandlerTo(h, "decrement", None)
          /\ UNCHANGED <<ongoing, pool, workerVars, aggregate, mpc>>
      BY <1>3 DEF Send, Carrying
    <2>2. /\ \A y, a, x : HandlerMerges(y, a, x)' <=> HandlerMerges(y, a, x) /\ y # h
          /\ \A a, x : HandlerMerges(h, a, x) <=> IsMerge(hjob[h], a, x)
      BY <2>1, HandlerToMerges DEF HandlerMerges, TypeOK
    <2>3. \A y, a, x : QueueMerges(y, a, x)' <=>
                       QueueMerges(y, a, x) \/ (y = hjob[h] /\ IsMerge(hjob[h], a, x))
      BY <2>1 DEF QueueMerges
    <2>4. /\ \A y, a, x : WorkerMerges(y, a, x)' <=> WorkerMerges(y, a, x)
          /\ \A y, a, x : PositionMerges(y, a, x)' <=> PositionMerges(y, a, x)
      BY <2>1, SameMerges
    <2>5. ASSUME NEW a, NEW x PROVE InMerge(a, x)' <=> InMerge(a, x)
      BY <2>2, <2>3, <2>4 DEF InMerge
    <2> QED
      BY <2>1, <2>5 DEF MergesStay
  <1> QED
    BY <1>1, <1>2, <1>3 DEF Handler

LEMMA WorkerMergesStay ==
  ASSUME TypeOK, TraceInv, SlotsInv, ~cancelled, NEW s \in Streams, Worker(s)
  PROVE  MergesStay /\ UNCHANGED <<pool, aggregate, mpc>>
  <1> USE DEF mainVars, proofVars
  <1>1. UNCHANGED <<pool, aggregate, mpc, handlerVars>>
    BY DEF Worker, PollProofs, PollWitness, ProveBasic, Select, SelectDefault, Register,
       Store, Commit, ProveRecursive
  <1>2. \A y, a, x : HandlerMerges(y, a, x)' <=> HandlerMerges(y, a, x)
    BY <1>1, SameMerges
  <1>3. CASE \/ \E i \in proofsRx : PollProofs(s, i)
             \/ PollWitness(s) \/ ProveBasic(s) \/ SelectDefault(s) \/ Commit(s)
             \/ ProveRecursive(s)
    <2>1. /\ \A a, x : ~WorkerMerges(s, a, x)
          /\ UNCHANGED <<witnessRx, ongoing>>
      BY <1>3 DEF PollProofs, PollWitness, ProveBasic, SelectDefault, Commit,
         ProveRecursive, WorkerMerges, Holding, IsMerge, SlotsInv, Shapes, WorkerShapes
    <2>2. \E pc, job : /\ WorkerTo(s, pc, job)
                       /\ pc \in {"basic", "register", "store"} => job.type # "Recursive2"
      <3>1. CASE \E i \in proofsRx : PollProofs(s, i)
        <4>1. PICK i \in proofsRx : WorkerTo(s, "basic", Proof("Basic", i))
          BY <3>1 DEF PollProofs
        <4>2. Proof("Basic", i).type # "Recursive2"
          BY DEF Proof
        <4> QED
          BY <4>1, <4>2
      <3>2. CASE ~\E i \in proofsRx : PollProofs(s, i)
        <4>1. \E pc \in {"poll", "select", "exit", "prove"}, job \in Work \cup {None} :
                WorkerTo(s, pc, job)
          BY <1>3, <3>2 DEF PollWitness, ProveBasic, SelectDefault, Commit, ProveRecursive,
             TypeOK, WorkerTypes
        <4> QED
          BY <4>1
      <3> QED
        BY <3>1, <3>2
    <2>3. \A y, a, x : WorkerMerges(y, a, x)' <=> WorkerMerges(y, a, x)
      BY <2>1, <2>2, WorkerToMerges DEF IsMerge, TypeOK
    <2> QED
      BY <1>1, <1>2, <2>1, <2>3, SameMerges DEF MergesStay, InMerge
  <1>4. CASE \E w \in witnessRx : Select(s, w)
    <2>1. PICK w \in witnessRx : Select(s, w)
      BY <1>4
    <2>2. /\ witnessRx' = witnessRx \ {w} /\ ~Holding(s) /\ UNCHANGED ongoing
          /\ \E pc \in {"register", "store"} : WorkerTo(s, pc, w)
      BY <2>1 DEF Select, Holding
    <2>3. \A y, a, x : WorkerMerges(y, a, x)' <=>
                       WorkerMerges(y, a, x) \/ (y = s /\ IsMerge(w, a, x))
      BY <2>2, WorkerToMerges DEF WorkerMerges, TypeOK
    <2>4. /\ \A y, a, x : QueueMerges(y, a, x)' <=> QueueMerges(y, a, x) /\ y # w
          /\ \A a, x : QueueMerges(w, a, x) <=> IsMerge(w, a, x)
      BY <2>2 DEF QueueMerges
    <2>5. \A y, a, x : PositionMerges(y, a, x)' <=> PositionMerges(y, a, x)
      BY <2>2, SameMerges
    <2>6. ASSUME NEW a, NEW x PROVE InMerge(a, x)' <=> InMerge(a, x)
      BY <1>2, <2>3, <2>4, <2>5 DEF InMerge
    <2> QED
      BY <1>1, <2>6 DEF MergesStay
  <1>5. CASE Register(s)
    <2>1. /\ WorkerTo(s, "store", [sjob[s] EXCEPT !.id = Len(ongoing) + 1])
          /\ Holding(s) /\ sjob[s] \in MergeWork /\ UNCHANGED witnessRx
          /\ ongoing' = Append(ongoing, None)
      BY <1>5 DEF Register, Holding, TypeOK, WorkerTypes
    <2>2. \A a, x : IsMerge([sjob[s] EXCEPT !.id = Len(ongoing) + 1], a, x)
                      <=> IsMerge(sjob[s], a, x)
      BY <2>1 DEF MergeWork, IsMerge
    <2>3. \A y, a, x : WorkerMerges(y, a, x)' <=> WorkerMerges(y, a, x)
      BY <2>1, <2>2, WorkerToMerges DEF WorkerMerges, TypeOK
    <2>4. \A y, a, x : PositionMerges(y, a, x)' <=> PositionMerges(y, a, x)
      BY <2>1 DEF PositionMerges, TypeOK, StoreTypes
    <2> QED
      BY <1>1, <1>2, <2>1, <2>3, <2>4, SameMerges DEF MergesStay, InMerge
  <1>6. CASE Store(s)
    <2>1. WorkerTo(s, "commit", sjob[s]) /\ Holding(s) /\ UNCHANGED witnessRx
      BY <1>6 DEF Store, Holding
    <2>2. /\ \A y, a, x : WorkerMerges(y, a, x)' <=> WorkerMerges(y, a, x) /\ y # s
          /\ \A a, x : WorkerMerges(s, a, x) <=> IsMerge(sjob[s], a, x)
      BY <2>1, WorkerToMerges DEF WorkerMerges, TypeOK
    <2>3. \A a, x : (\E k : PositionMerges(k, a, x)') <=>
                    (\E k : PositionMerges(k, a, x)) \/ IsMerge(sjob[s], a, x)
      <3>1. CASE sjob[s].type # "Recursive2"
        BY <1>6, <3>1, SameMerges DEF Store, IsMerge
      <3>2. CASE sjob[s].type = "Recursive2"
        <4> DEFINE n == sjob[s].id
        <4>1. ongoing' = [ongoing EXCEPT ![n] = sjob[s]]
          BY <1>6, <3>2 DEF Store
        <4>2. n \in DOMAIN ongoing /\ ongoing[n] = None
          BY <1>6, <3>2 DEF Store, SlotsInv, Positions, ToStore
        <4>3. sjob[s] # None
          BY <1>6, NoneAssumption DEF Store, TypeOK, WorkerTypes
        <4>4. \A k, a, x : PositionMerges(k, a, x)' <=>
                           PositionMerges(k, a, x) \/ (k = n /\ IsMerge(sjob[s], a, x))
          BY <4>1, <4>2, <4>3 DEF PositionMerges, TypeOK, StoreTypes
        <4> QED
          BY <4>4
      <3> QED
        BY <3>1, <3>2
    <2>4. \A y, a, x : QueueMerges(y, a, x)' <=> QueueMerges(y, a, x)
      BY <2>1, SameMerges
    <2>5. ASSUME NEW a, NEW x PROVE InMerge(a, x)' <=> InMerge(a, x)
      BY <1>2, <2>2, <2>3, <2>4 DEF InMerge
    <2> QED
      BY <1>1, <2>5 DEF MergesStay
  <1> QED
    BY <1>3, <1>4, <1>5, <1>6 DEF Worker

(* Instances joined as they are, and three pieces that become one.          *)
LEMMA SingletonJoins ==
  ASSUME NEW J, NEW L, NEW i \in L, i \notin UNION J
  PROVE  PiecesOf(J \cup {{i}}, L) = PiecesOf(J, L)
  <1>1. UNION (J \cup {{i}}) = (UNION J) \cup {i}
    OBVIOUS
  <1>2. {{j} : j \in L \ ((UNION J) \cup {i})} \cup {{i}} = {{j} : j \in L \ UNION J}
    OBVIOUS
  <1> QED
    BY <1>1, <1>2 DEF PiecesOf

Becomes(J, T) == (J \ T) \cup {UNION T}

LEMMA ThreeJoin ==
  ASSUME NEW J, NEW L, NEW T, T \subseteq J
  PROVE  PiecesOf(Becomes(J, T), L) = Becomes(PiecesOf(J, L), T)
  <1> DEFINE S == {{i} : i \in L \ UNION J}
  <1>1. UNION ((J \ T) \cup {UNION T}) = UNION J
    <2>1. ASSUME NEW i \in UNION J PROVE i \in UNION ((J \ T) \cup {UNION T})
      <3>1. PICK x \in J : i \in x
        OBVIOUS
      <3>2. CASE x \in T
        <4>1. i \in UNION T
          BY <3>1, <3>2
        <4> QED
          BY <4>1, Zenon
      <3>3. CASE x \notin T
        <4>1. x \in (J \ T) \cup {UNION T}
          BY <3>3
        <4> QED
          BY <3>1, <4>1, Zenon
      <3> QED
        BY <3>2, <3>3
    <2>2. ASSUME NEW i \in UNION ((J \ T) \cup {UNION T}) PROVE i \in UNION J
      <3>1. PICK x \in (J \ T) \cup {UNION T} : i \in x
        BY Zenon
      <3>2. CASE x = UNION T
        BY <3>1, <3>2
      <3>3. CASE x \in J \ T
        BY <3>1, <3>3
      <3> QED
        BY <3>1, <3>2, <3>3, Zenon
    <2> QED
      BY <2>1, <2>2, Zenon
  <1>2. ASSUME NEW x \in T PROVE x \notin S
    OBVIOUS
  <1>3. PiecesOf(Becomes(J, T), L) = ((J \ T) \cup {UNION T}) \cup S
    BY <1>1 DEF PiecesOf, Becomes
  <1>4. PiecesOf(J, L) = J \cup S
    BY DEF PiecesOf
  <1> HIDE DEF S
  <1> QED
    BY <1>2, <1>3, <1>4 DEF Becomes

LEMMA ThreeElements ==
  ASSUME NEW T, IsFiniteSet(T), Cardinality(T) = 3
  PROVE  \E x, y, z \in T : x # y /\ x # z /\ y # z /\ T = {x, y, z}
  <1>1. T # {}
    BY FS_EmptySet
  <1>2. PICK x : x \in T
    BY <1>1
  <1>3. IsFiniteSet(T \ {x}) /\ Cardinality(T \ {x}) = 2
    BY <1>2, FS_RemoveElement
  <1>4. T \ {x} # {}
    BY <1>3, FS_EmptySet
  <1>5. PICK y : y \in T \ {x}
    BY <1>4
  <1>6. IsFiniteSet((T \ {x}) \ {y}) /\ Cardinality((T \ {x}) \ {y}) = 1
    BY <1>3, <1>5, FS_RemoveElement
  <1>7. PICK z : (T \ {x}) \ {y} = {z}
    BY <1>6, FS_Singleton
  <1>8. T = {x, y, z} /\ z \in T /\ z # x /\ z # y /\ y # x /\ y \in T
    BY <1>2, <1>5, <1>7
  <1> QED
    BY <1>2, <1>8

(* What a step may do to the pieces of an airgroup, and does to one at most. *)
MergesThree(a) ==
  \E x, y, z \in Pieces(a) :
    /\ x # y /\ x # z /\ y # z
    /\ Pieces(a)' = (Pieces(a) \ {x, y, z}) \cup {x \cup y \cup z}

PiecesStep ==
  \/ \A a \in Airgroups : Pieces(a)' = Pieces(a)
  \/ \E a \in Airgroups :
       MergesThree(a) /\ \A b \in Airgroups \ {a} : Pieces(b)' = Pieces(b)

MergedAre == \A a, x : x \in Merged(a) <=> InMerge(a, x)

LEMMA PiecesSame ==
  ASSUME MergedAre, MergedAre', MergesStay, UNCHANGED <<pool, aggregate>>,
         mpc # "start", mpc' # "start"
  PROVE  PiecesStep
  <1>1. ASSUME NEW a PROVE Merged(a)' = Merged(a)
    <2>1. \A x : x \in Merged(a)' <=> x \in Merged(a)
      BY DEF MergedAre, MergesStay
    <2>2. Merged(a) = {x \in Merged(a) : TRUE} /\ Merged(a)' = {x \in Merged(a)' : TRUE}
      BY DEF Merged
    <2> QED
      BY <2>1, <2>2
  <1>2. ASSUME NEW a PROVE Pieces(a)' = Pieces(a)
    BY <1>1 DEF Pieces, LeavesOf, Padding
  <1> QED
    BY <1>2 DEF PiecesStep

LEMMA StartPieces ==
  ASSUME TypeOK, TraceInv, SlotsInv, MergedAre', Start
  PROVE  PiecesStep
  <1>1. /\ mpc = "start" /\ mpc' = "resident" /\ aggregate' = aggregate
        /\ pool' = [a \in Airgroups |-> pool[a] \cup (IF aggregate THEN Padding(a) ELSE {})]
        /\ UNCHANGED <<workerVars, witnessRx, ongoing>>
        /\ hpc' = [h \in Streams |-> "recv"]
    BY DEF Start
  <1>2. \A a, x : ~InMerge(a, x)'
    <2>1. \A s, a, x : ~WorkerMerges(s, a, x)'
      BY <1>1 DEF WorkerMerges, Holding, TraceInv, Quiet, workerVars
    <2>2. \A h, a, x : ~HandlerMerges(h, a, x)'
      BY <1>1 DEF HandlerMerges, Carrying
    <2>3. \A w, a, x : ~QueueMerges(w, a, x)' /\ ~PositionMerges(w, a, x)'
      BY <1>1 DEF QueueMerges, PositionMerges, SlotsInv, Phases
    <2> QED
      BY <2>1, <2>2, <2>3 DEF InMerge
  <1>3. ASSUME NEW a \in Airgroups PROVE Pieces(a)' = Pieces(a)
    <2>1. CASE ~aggregate
      BY <1>1, <2>1 DEF Pieces, LeavesOf, Padding
    <2>2. CASE aggregate
      <3>1. Joined(a)' = Padding(a)
        <4>1. \A x : x \notin Merged(a)'
          BY <1>2 DEF MergedAre
        <4>2. pool'[a] = Padding(a)
          BY <1>1, <2>2 DEF SlotsInv, Phases
        <4> QED
          BY <4>1, <4>2 DEF Joined
      <3>2. Pieces(a)' = PiecesOf(Padding(a), LeavesOf(a))
        <4>1. Pieces(a)' = PiecesOf(Joined(a)', LeavesOf(a))
          BY <1>1, <2>2 DEF Pieces, PiecesOf, Joined, LeavesOf
        <4> QED
          BY <3>1, <4>1
      <3>3. UNION Padding(a) = {}
        BY DEF Padding
      <3>4. Pieces(a) = {{i} : i \in LeavesOf(a)} \cup Padding(a)
        BY <1>1 DEF Pieces
      <3> QED
        BY <3>2, <3>3, <3>4 DEF PiecesOf
    <2> QED
      BY <2>1, <2>2
  <1> QED
    BY <1>3 DEF PiecesStep

(* What else stands for merged proofs when a handler takes the proof at     *)
(* place y of kind l, and how that proof was counted before.                *)
OtherMerge(l, y, a, x) ==
  \/ \E s : WorkerMerges(s, a, x)
  \/ \E h : HandlerMerges(h, a, x)
  \/ \E w : QueueMerges(w, a, x)
  \/ \E k : PositionMerges(k, a, x) /\ ~(l = "ongoing" /\ k = y)

Takes(l, y, p) ==
  /\ Empties(l, y, p)
  /\ \A k, a, x : PositionMerges(k, a, x)' <=>
                    PositionMerges(k, a, x) /\ ~(l = "ongoing" /\ k = y)
  /\ \/ l = "slot" /\ \E i : p.leaves = {i}
     \/ l = "ongoing" /\ \A a, x : PositionMerges(y, a, x) <=>
                                     a = p.airgroup /\ x = p.leaves

(* The proof taken was in one place only.                                   *)
LEMMA TakenApart ==
  ASSUME TypeOK, SlotsInv, NEW p, Shaped(p), NEW l, NEW y, Takes(l, y, p)
  PROVE  /\ \A a, x : OtherMerge(l, y, a, x) => x \cap p.leaves = {} /\ x # p.leaves
         /\ \A a \in Airgroups : \A x \in pool[a] : x \cap p.leaves = {}
  <1>1. p.leaves # {} /\ p.leaves \subseteq LeavesOf(p.airgroup)
    BY DEF Shaped
  <1>2. \A i \in p.leaves : \A k, z : At(k, z, i) => k = l /\ z = y
    BY <1>1 DEF Takes, Empties, SlotsInv, InOnePlace, LeavesOf
  <1>3. l \in {"slot", "ongoing"}
    BY DEF Takes, Empties
  <1>4. ASSUME NEW a, NEW x, OtherMerge(l, y, a, x), NEW i \in x, i \in p.leaves
        PROVE  FALSE
    <2>1. CASE \E s : WorkerMerges(s, a, x)
      BY <1>2, <1>3, <1>4, <2>1 DEF WorkerMerges, IsMerge, At, WorkerHas
    <2>2. CASE \E h : HandlerMerges(h, a, x)
      BY <1>2, <1>3, <1>4, <2>2 DEF HandlerMerges, IsMerge, At, HandlerHas
    <2>3. CASE \E w : QueueMerges(w, a, x)
      BY <1>2, <1>3, <1>4, <2>3 DEF QueueMerges, IsMerge, At, QueueHas
    <2>4. CASE \E k : PositionMerges(k, a, x) /\ ~(l = "ongoing" /\ k = y)
      BY <1>2, <1>3, <1>4, <2>4 DEF PositionMerges, IsMerge, At, PositionHas
    <2> QED
      BY <1>4, <2>1, <2>2, <2>3, <2>4 DEF OtherMerge
  <1>5. ASSUME NEW a \in Airgroups, NEW x \in pool[a], NEW i \in x, i \in p.leaves
        PROVE  FALSE
    <2>1. i \in LeavesOf(a)
      BY <1>5 DEF SlotsInv, Shapes, PoolShapes
    <2>2. At("pool", x, i)
      BY <1>5, <2>1 DEF LeavesOf, At, PoolHas
    <2> QED
      BY <1>2, <1>3, <1>5, <2>2
  <1>6. \A a, x : OtherMerge(l, y, a, x) => x \cap p.leaves = {}
    BY <1>4
  <1> QED
    BY <1>1, <1>5, <1>6

(* What is merged does not wait.                                            *)
LEMMA MergedApart ==
  ASSUME TypeOK, SlotsInv, NEW a \in Airgroups, NEW x, InMerge(a, x)
  PROVE  \A z \in pool[a] : x \cap z = {} /\ x # z
  <1>1. /\ x # {} /\ x \subseteq LeavesOf(a)
        /\ \A i \in x : \E k \in {"worker", "handler", "witness", "ongoing"} :
             \E y : At(k, y, i)
    BY MergeIsSomewhere
  <1>2. ASSUME NEW z \in pool[a], NEW i \in x, i \in z PROVE FALSE
    <2>1. At("pool", z, i)
      BY <1>1, <1>2 DEF LeavesOf, At, PoolHas
    <2>2. i \in Instances
      BY <1>1 DEF LeavesOf
    <2> QED
      BY <1>1, <2>1, <2>2 DEF SlotsInv, InOnePlace
  <1> QED
    BY <1>1, <1>2

LEMMA JoinPieces ==
  ASSUME TypeOK, SlotsInv, MergedAre, MergedAre', NEW h \in Streams, hpc[h] = "take",
         NEW p \in Work, Shaped(p), JoinAirgroup(h, p), NEW l, NEW y, Takes(l, y, p),
         UNCHANGED aggregate, aggregate, mpc # "start", mpc' # "start"
  PROVE  PiecesStep
  <1> DEFINE a == p.airgroup
             all == pool[a] \cup {p.leaves}
             J == Joined(a)
             J0 == Joined(a) \cup {p.leaves}
             L == LeavesOf(a)
  <1>1. a \in Airgroups /\ p.leaves \subseteq L /\ p.leaves # {}
    BY DEF Work, ChainWork, MergeWork, Shaped
  <1>2. /\ \A b, x : OtherMerge(l, y, b, x) => x \cap p.leaves = {} /\ x # p.leaves
        /\ \A b \in Airgroups : \A x \in pool[b] : x \cap p.leaves = {}
    BY TakenApart
  <1>3. \A b, x : InMerge(b, x) <=>
                    OtherMerge(l, y, b, x) \/ (l = "ongoing" /\ b = a /\ x = p.leaves)
    <2>1. CASE l = "slot"
      BY <2>1 DEF InMerge, OtherMerge
    <2>2. CASE l = "ongoing"
      BY <2>2 DEF InMerge, OtherMerge, Takes
    <2> QED
      BY <2>1, <2>2 DEF Takes, Empties
  <1>4. \A b, x : (\E g : g # h /\ HandlerMerges(g, b, x)) <=> \E g : HandlerMerges(g, b, x)
    BY DEF HandlerMerges, Carrying
  <1>5. /\ \A s, b, x : WorkerMerges(s, b, x)' <=> WorkerMerges(s, b, x)
        /\ \A w, b, x : QueueMerges(w, b, x)' <=> QueueMerges(w, b, x)
    BY SameMerges DEF Takes, Empties
  <1>6. ASSUME NEW pc, NEW job, HandlerTo(h, pc, job)
        PROVE  \A b, x : InMerge(b, x)' <=>
                           \/ OtherMerge(l, y, b, x)
                           \/ pc \in {"buffer", "witness", "send"} /\ IsMerge(job, b, x)
    <2>1. /\ \A g, b, x : g # h => (HandlerMerges(g, b, x)' <=> HandlerMerges(g, b, x))
          /\ \A b, x : HandlerMerges(h, b, x)' <=>
                         pc \in {"buffer", "witness", "send"} /\ IsMerge(job, b, x)
      BY <1>6, HandlerToMerges DEF TypeOK
    <2>2. ASSUME NEW b, NEW x
          PROVE  InMerge(b, x)' <=>
                   \/ OtherMerge(l, y, b, x)
                   \/ pc \in {"buffer", "witness", "send"} /\ IsMerge(job, b, x)
      BY <1>4, <1>5, <2>1 DEF InMerge, OtherMerge, Takes
    <2> QED
      BY <2>2
  <1>7. PiecesOf(J0, L) = PiecesOf(J, L)
    <2>1. CASE l = "ongoing"
      <3>1. p.leaves \in Merged(a)
        BY <1>3, <2>1 DEF MergedAre
      <3> QED
        BY <3>1 DEF Joined
    <2>2. CASE l = "slot"
      <3>1. PICK i : p.leaves = {i}
        BY <2>2 DEF Takes
      <3>2. \A x \in Merged(a) : i \notin x
        BY <1>2, <1>3, <2>2, <3>1 DEF MergedAre
      <3>3. \A x \in pool[a] : i \notin x
        BY <1>1, <1>2, <3>1
      <3>4. i \notin UNION J /\ i \in L
        BY <1>1, <3>1, <3>2, <3>3 DEF Joined
      <3> QED
        BY <3>1, <3>4, SingletonJoins
    <2> QED
      BY <2>1, <2>2 DEF Takes, Empties
  <1>8. /\ \A b : Pieces(b) = PiecesOf(Joined(b), LeavesOf(b))
        /\ \A b : Pieces(b)' = PiecesOf(Joined(b)', LeavesOf(b))
    BY DEF Pieces, PiecesOf, Joined, LeavesOf
  <1>9. ASSUME NEW b \in Airgroups \ {a}, pool'[b] = pool[b],
               \A x : InMerge(b, x)' <=> InMerge(b, x)
        PROVE  Pieces(b)' = Pieces(b)
    <2>1. \A x : x \in Merged(b)' <=> x \in Merged(b)
      BY <1>9 DEF MergedAre
    <2>2. Joined(b)' = Joined(b)
      BY <1>9, <2>1 DEF Joined
    <2> QED
      BY <1>8, <2>2
  <1>10. DOMAIN pool = Airgroups
    BY DEF TypeOK, StoreTypes
  <1>11. CASE Cardinality(all) < NRecursive
    <2>1. pool' = [pool EXCEPT ![a] = all] /\ HandlerTo(h, "decrement", None)
      BY <1>11 DEF JoinAirgroup
    <2>2. pool'[a] = all /\ \A b \in Airgroups \ {a} : pool'[b] = pool[b]
      BY <1>1, <1>10, <2>1
    <2>3. \A b, x : InMerge(b, x)' <=> OtherMerge(l, y, b, x)
      BY <1>6, <2>1
    <2>4. Joined(a)' = J0
      <3>1. \A x : x \in Merged(a)' \/ x = p.leaves <=> x \in Merged(a) \/ x = p.leaves
        BY <1>3, <2>3 DEF MergedAre
      <3> QED
        BY <2>2, <3>1 DEF Joined
    <2>5. \A b \in Airgroups \ {a} : Pieces(b)' = Pieces(b)
      BY <1>3, <1>9, <2>2, <2>3
    <2>6. Pieces(a)' = Pieces(a)
      BY <1>7, <1>8, <2>4
    <2> QED
      BY <2>5, <2>6 DEF PiecesStep
  <1>12. CASE ~(Cardinality(all) < NRecursive)
    <2>1. PICK three \in SUBSET all :
            /\ Cardinality(three) = NRecursive
            /\ p.leaves \in three
            /\ pool' = [pool EXCEPT ![a] = all \ three]
            /\ HandlerTo(h, "buffer", [type |-> "Recursive2", id |-> None,
                                       airgroup |-> a, leaves |-> UNION three])
      BY <1>12 DEF JoinAirgroup
    <2>2. pool'[a] = all \ three /\ \A b \in Airgroups \ {a} : pool'[b] = pool[b]
      BY <1>1, <1>10, <2>1
    <2>3. \A b, x : InMerge(b, x)' <=>
                      OtherMerge(l, y, b, x) \/ (b = a /\ x = UNION three)
      <3> DEFINE job == [type |-> "Recursive2", id |-> None, airgroup |-> a,
                         leaves |-> UNION three]
      <3>1. \A b, x : IsMerge(job, b, x) <=> b = a /\ x = UNION three
        BY DEF IsMerge
      <3>2. \A b, x : InMerge(b, x)' <=> OtherMerge(l, y, b, x) \/ IsMerge(job, b, x)
        BY <1>6, <2>1
      <3> QED
        BY <3>1, <3>2
    <2>4. \A x \in three : ~OtherMerge(l, y, a, x)
      BY <1>1, <1>2, <1>3, <2>1, MergedApart
    <2>5. Joined(a)' = (J0 \ three) \cup {UNION three}
      <3>1. \A x : x \in Merged(a)' <=> OtherMerge(l, y, a, x) \/ x = UNION three
        BY <2>3 DEF MergedAre
      <3>2. \A x : x \in Merged(a) \/ x = p.leaves <=> OtherMerge(l, y, a, x) \/ x = p.leaves
        BY <1>3 DEF MergedAre
      <3>3. \A x : x \in J0 \ three <=>
                     (x \in all \/ OtherMerge(l, y, a, x)) /\ x \notin three
        BY <3>2 DEF Joined
      <3>4. \A x : x \in Joined(a)' <=>
                     x \in all \ three \/ OtherMerge(l, y, a, x) \/ x = UNION three
        BY <2>2, <3>1 DEF Joined
      <3> QED
        BY <2>4, <3>3, <3>4
    <2>6. three \in SUBSET J0
      BY <2>1 DEF Joined
    <2>7. Pieces(a)' = (Pieces(a) \ three) \cup {UNION three}
      <3>1. PICK K : K = J0
        OBVIOUS
      <3>2. PICK M : M = L
        OBVIOUS
      <3>3. PICK N : N = Joined(a)'
        OBVIOUS
      <3>4. three \subseteq K
        BY <2>6, <3>1, Zenon
      <3>5. N = Becomes(K, three)
        BY <2>5, <3>1, <3>3 DEF Becomes
      <3>6. PiecesOf(N, M) = Becomes(PiecesOf(K, M), three)
        BY <3>4, <3>5, ThreeJoin
      <3>7. Pieces(a)' = PiecesOf(N, M)
        BY <1>8, <3>2, <3>3
      <3>8. Pieces(a) = PiecesOf(K, M)
        BY <1>7, <1>8, <3>1, <3>2
      <3> QED
        BY <3>6, <3>7, <3>8 DEF Becomes
    <2>8. three \subseteq Pieces(a)
      BY <1>7, <1>8, <2>6 DEF PiecesOf
    <2>9. IsFiniteSet(three)
      <3>1. IsFiniteSet(all)
        BY <1>1, PoolFinite, FS_AddElement
      <3> QED
        BY <2>1, <3>1, FS_Subset
    <2>10. PICK x, z, w \in three : x # z /\ x # w /\ z # w /\ three = {x, z, w}
      BY <2>1, <2>9, ThreeElements DEF NRecursive
    <2>11. UNION three = x \cup z \cup w
      BY <2>10
    <2>12. MergesThree(a)
      <3>1. x \in Pieces(a) /\ z \in Pieces(a) /\ w \in Pieces(a)
        BY <2>8
      <3>2. Pieces(a)' = (Pieces(a) \ {x, z, w}) \cup {x \cup z \cup w}
        BY <2>7, <2>10, <2>11
      <3> QED
        BY <2>10, <3>1, <3>2 DEF MergesThree
    <2>13. \A b \in Airgroups \ {a} : Pieces(b)' = Pieces(b)
      BY <1>3, <1>9, <2>2, <2>3
    <2> QED
      BY <1>1, <2>12, <2>13 DEF PiecesStep
  <1> QED
    BY <1>11, <1>12

LEMMA NextPieces ==
  ASSUME TypeOK, TraceInv, SlotsInv, CountsInv, PlainCall, ~cancelled, ~Fault, ~Restart,
         [Next]_vars
  PROVE  PiecesStep
  <1> USE DEF mainVars
  <1>1. MergedAre /\ MergedAre'
    BY MergedNext DEF MergedAre
  <1>2. CASE Start
    BY <1>1, <1>2, StartPieces
  <1>3. CASE Main /\ ~Start
    BY <1>1, <1>3, MainMerges, PiecesSame
  <1>4. CASE \E h \in Streams : Handler(h)
    <2>1. PICK h \in Streams : Handler(h)
      BY <1>4
    <2>2. hpc[h] # "exit" /\ UNCHANGED <<mpc, aggregate>>
      BY <2>1 DEF Handler, Receive, TakeProof, TakeRecursive1, TakeRecursive2, TakeBuffer,
         Increment, Send, Decrement
    <2>3. mpc # "start"
      BY <2>2 DEF SlotsInv, Phases
    <2>4. CASE TakeRecursive1(h)
      <3>1. PICK p \in slots : slots' = slots \ {p} /\ JoinAirgroup(h, p)
        BY <2>4 DEF TakeRecursive1
      <3>2. /\ UNCHANGED <<toFeed, toCalculate, proofsRx, witnessRx, ongoing, workerVars>>
            /\ hpc[h] = "take" /\ aggregate
        BY <2>4 DEF TakeRecursive1, feedVars, PlainCall
      <3>3. Takes("slot", p, p)
        <4>1. \E i : p.leaves = {i}
          BY SlotProof
        <4>2. \A k, a, x : PositionMerges(k, a, x)' <=> PositionMerges(k, a, x)
          BY <3>2, SameMerges
        <4> QED
          BY <3>1, <3>2, <4>1, <4>2, TakeSlotEmpties DEF Takes
      <3> QED
        BY <1>1, <2>2, <2>3, <3>1, <3>2, <3>3, SlotProof, JoinPieces
    <2>5. CASE TakeRecursive2(h)
      <3> DEFINE k == hjob[h].id
      <3>1. /\ k \in DOMAIN ongoing /\ ongoing[k] # None
            /\ ongoing' = [ongoing EXCEPT ![k] = None]
            /\ JoinAirgroup(h, ongoing[k])
        BY <2>5 DEF TakeRecursive2
      <3>2. /\ UNCHANGED <<toFeed, toCalculate, proofsRx, witnessRx, slots, workerVars>>
            /\ hpc[h] = "take" /\ aggregate
        BY <2>5 DEF TakeRecursive2, feedVars, PlainCall
      <3>3. ongoing[k] \in Work /\ Shaped(ongoing[k]) /\ ongoing[k].type = "Recursive2"
        BY <3>1 DEF TypeOK, StoreTypes, SlotsInv, Shapes, PositionShapes
      <3>4. Takes("ongoing", k, ongoing[k])
        <4>1. Empties("ongoing", k, ongoing[k])
          BY <3>1, <3>2, TakePositionEmpties DEF TypeOK
        <4>2. \A j, a, x : PositionMerges(j, a, x)' <=> PositionMerges(j, a, x) /\ j # k
          BY <3>1 DEF PositionMerges, TypeOK, StoreTypes
        <4>3. \A a, x : PositionMerges(k, a, x) <=> a = ongoing[k].airgroup /\ x = ongoing[k].leaves
          BY <3>1, <3>3 DEF PositionMerges, IsMerge
        <4> QED
          BY <4>1, <4>2, <4>3 DEF Takes
      <3> QED
        BY <1>1, <2>2, <2>3, <3>1, <3>2, <3>3, <3>4, JoinPieces
    <2>6. CASE ~TakeRecursive1(h) /\ ~TakeRecursive2(h)
      BY <1>1, <2>1, <2>2, <2>3, <2>6, HandlerMergesStay, PiecesSame
    <2> QED
      BY <2>4, <2>5, <2>6
  <1>5. CASE \E s \in Streams : Worker(s)
    <2>1. PICK s \in Streams : Worker(s)
      BY <1>5
    <2>2. spc[s] # "exit"
      BY <2>1 DEF Worker, PollProofs, PollWitness, ProveBasic, Select, SelectDefault,
         Register, Store, Commit, ProveRecursive
    <2>3. mpc # "start"
      BY <2>2 DEF TraceInv, Quiet
    <2> QED
      BY <1>1, <2>1, <2>3, WorkerMergesStay, PiecesSame
  <1>6. CASE Device \/ Returned \/ UNCHANGED vars
    <2>1. UNCHANGED <<pool, aggregate, mpc, handlerVars, workerVars, witnessRx, ongoing>>
      BY <1>6 DEF Device, StreamDone, Returned, vars, proofVars
    <2>2. MergesStay
      BY <2>1, SameMerges DEF MergesStay, InMerge
    <2>3. CASE mpc # "start"
      BY <1>1, <2>1, <2>2, <2>3, PiecesSame
    <2>4. CASE mpc = "start"
      <3>1. \A a : Pieces(a)' = Pieces(a)
        BY <2>1, <2>4 DEF Pieces, LeavesOf, Padding
      <3> QED
        BY <3>1 DEF PiecesStep
    <2> QED
      BY <2>3, <2>4
  <1> QED
    BY <1>2, <1>3, <1>4, <1>5, <1>6 DEF Next

(* The theorems about Aggregation, of the pieces.                           *)
Merging == INSTANCE Aggregation_proofs
             WITH Leaves <- Instances, pieces <- [a \in Airgroups |-> Pieces(a)]

LEMMA SameFinite == \A S : Merging!IsFiniteSet(S) <=> IsFiniteSet(S)
  BY DEF Merging!IsFiniteSet, IsFiniteSet

LEMMA SameCardinality == \A S : Merging!Cardinality(S) = Cardinality(S)
  BY Zenon DEF Merging!Cardinality, Cardinality

LEMMA MergingAssumption == Merging!LeavesAssumption
  BY SystemAssumption, SameFinite DEF Merging!LeavesAssumption

(* What makes a set of proofs end on one proof of everything.               *)
EndsOnOne(P, L) ==
  /\ P \subseteq SUBSET Instances
  /\ UNION P = L
  /\ \A x, y \in P : x # y => x \cap y = {}
  /\ IsFiniteSet(P)
  /\ Cardinality(P) % 2 = 1

LEMMA SameSound == \A P, L : Merging!Sound(P, L) <=> EndsOnOne(P, L)
  BY SameFinite, SameCardinality DEF Merging!Sound, EndsOnOne

LEMMA MergeEndsOnOne ==
  ASSUME NEW P, NEW L, EndsOnOne(P, L),
         NEW x \in P, NEW y \in P, NEW z \in P, x # y, x # z, y # z
  PROVE  EndsOnOne((P \ {x, y, z}) \cup {x \cup y \cup z}, L)
  BY MergingAssumption, Merging!MergeSound, SameSound

(* The null proof of has_remaining, written in the two ways.                *)
LEMMA SameInitial ==
  ASSUME NEW a \in Airgroups
  PROVE  Merging!InitialPieces(a) = {{i} : i \in LeavesOf(a)} \cup Padding(a)
  <1> DEFINE n == Cardinality(LeavesOf(a))
  <1>1. Merging!LeavesOf(a) = LeavesOf(a)
    BY DEF Merging!LeavesOf, LeavesOf
  <1>2. IsFiniteSet(LeavesOf(a))
    BY SystemAssumption, FS_Subset DEF LeavesOf
  <1>3. n \in Nat
    BY <1>2, FS_CardinalityType
  <1>4. Merging!HasRemaining(n) \/ n = 0 <=> n % 2 = 0
    BY <1>3 DEF Merging!HasRemaining
  <1>5. Merging!Padding(a) = Padding(a)
    BY <1>1, <1>4, SameCardinality DEF Merging!Padding, Padding
  <1> QED
    BY <1>1, <1>5 DEF Merging!InitialPieces

LEMMA StartEndsOnOne ==
  ASSUME mpc = "start", NEW a \in Airgroups
  PROVE  EndsOnOne(Pieces(a), LeavesOf(a))
  <1>1. Merging!Sound(Merging!InitialPieces(a), Merging!LeavesOf(a))
    BY MergingAssumption, Merging!InitialSound
  <1>2. Merging!LeavesOf(a) = LeavesOf(a)
    BY DEF Merging!LeavesOf, LeavesOf
  <1>3. Pieces(a) = {{i} : i \in LeavesOf(a)} \cup Padding(a)
    BY DEF Pieces
  <1> QED
    BY <1>1, <1>2, <1>3, SameInitial, SameSound

OddPieces == Going => \A a \in Airgroups : EndsOnOne(Pieces(a), LeavesOf(a))

LEMMA NextOddPieces ==
  ASSUME TypeOK, TraceInv, SlotsInv, CountsInv, PlainCall, OddPieces, [Next]_vars
  PROVE  OddPieces'
  <1> SUFFICES ASSUME Going', NEW a \in Airgroups
               PROVE  EndsOnOne(Pieces(a)', LeavesOf(a))
    BY DEF OddPieces, EndsOnOne, LeavesOf
  <1>1. ~cancelled /\ ~Fault /\ ~Restart /\ (Start \/ Going)
    BY GoingOn
  <1>2. EndsOnOne(Pieces(a), LeavesOf(a))
    BY <1>1, StartEndsOnOne DEF OddPieces, Start
  <1>3. Pieces(a)' = Pieces(a) \/ MergesThree(a)
    BY <1>1, NextPieces DEF PiecesStep
  <1>4. CASE MergesThree(a)
    <2>1. PICK x, y, z \in Pieces(a) :
            /\ x # y /\ x # z /\ y # z
            /\ Pieces(a)' = (Pieces(a) \ {x, y, z}) \cup {x \cup y \cup z}
      BY <1>4 DEF MergesThree
    <2> QED
      BY <1>2, <2>1, MergeEndsOnOne
  <1> QED
    BY <1>2, <1>3, <1>4

LEMMA InitEnds == Init => EndsInv /\ OddPieces
  <1> SUFFICES ASSUME Init PROVE EndsInv /\ OddPieces
    OBVIOUS
  <1> USE DEF Init
  <1>1. DoneClean /\ AllThere /\ Answered /\ TracesAhead /\ OddPieces
    BY DEF DoneClean, AllThere, Answered, TracesAhead, OddPieces, Going
  <1>2. PlainCall
    BY DEF PlainCall
  <1>3. SmallPools
    BY FS_EmptySet DEF SmallPools, NRecursive
  <1> QED
    BY <1>1, <1>2, <1>3 DEF EndsInv

LEMMA EndsAlways == Spec => [](TypeOK /\ TraceInv /\ SlotsInv /\ CountsInv /\ EndsInv /\ OddPieces)
  <1>1. TypeOK /\ TraceInv /\ SlotsInv /\ CountsInv /\ EndsInv /\ OddPieces /\ [Next]_vars
          => (EndsInv /\ OddPieces)'
    BY NextDoneClean, NextPlainCall, NextSmallPools, NextAllThere, NextAnswered,
       NextTracesAhead, NextOddPieces DEF EndsInv
  <1> QED
    BY <1>1, InitEnds, CountsAlways, PTL DEF Spec

(* A call that has returned ends with everything aggregated.                *)
LEMMA DoneIsQuiet ==
  ASSUME TypeOK, TraceInv, SlotsInv, CountsInv, EndsInv, mpc = "done"
  PROVE  /\ Going /\ toFeed = {} /\ NothingLeft
         /\ \A s \in Streams : hpc[s] = "exit" /\ spc[s] = "exit"
         /\ \A k, x, m : m \in Reports => ~Refers(k, x, m)
         /\ \A k, x, i : At(k, x, i) => k \in {"slot", "ongoing", "pool"}
  <1>1. Going
    BY DEF EndsInv, DoneClean, Going
  <1>2. NothingLeft
    BY <1>1 DEF CountsInv, Finished
  <1>3. toFeed = {} /\ \A s \in Streams : hpc[s] = "exit" /\ spc[s] = "exit"
    BY DEF SlotsInv, Phases, TraceInv, Quiet
  <1>4. ASSUME NEW m \in Reports, NEW k, NEW x, Refers(k, x, m) PROVE FALSE
    <2>1. m # Sentinel
      BY DEF Reports, Sentinel, ProofTypes, ChainTypes
    <2>2. CASE k = "queue"
      <3>1. x \in Waiting(recursiveRx)
        BY <1>4, <2>1, <2>2 DEF Refers, QueueRefers, Waiting
      <3> QED
        BY <1>2, <3>1 DEF NothingLeft
    <2>3. CASE k # "queue"
      BY <1>2, <1>3, <1>4, <2>3 DEF Refers, WorkerRefers, HandlerRefers, Storing, NothingLeft
    <2> QED
      BY <2>2, <2>3
  <1>5. ASSUME NEW k, NEW x, NEW i, At(k, x, i) PROVE k \in {"slot", "ongoing", "pool"}
    BY <1>2, <1>3, <1>5 DEF At, WorkerHas, HandlerHas, QueueHas, Holding, Carrying, NothingLeft
  <1> QED
    BY <1>1, <1>2, <1>3, <1>4, <1>5

LEMMA DoneIsAggregated ==
  ASSUME TypeOK, TraceInv, SlotsInv, CountsInv, EndsInv, OddPieces, mpc = "done", aggregate
  PROVE  /\ \A a \in Airgroups : pool[a] = {LeavesOf(a)}
         /\ slots = {}
         /\ \A k \in DOMAIN ongoing : ongoing[k] = None
  <1>1. \A m \in Reports : ~Filled(m)
    BY DoneIsQuiet DEF EndsInv, Answered
  <1>2. slots = {}
    <2> SUFFICES ASSUME NEW p \in slots PROVE FALSE
      OBVIOUS
    <2>1. p \in ChainWork
      BY DEF TypeOK, StoreTypes
    <2>2. Done(p) \in Reports /\ Done(p).type # "Recursive2"
      BY <2>1, SystemAssumption DEF ChainWork, Done, Reports, ProofTypes, ChainTypes
    <2> QED
      BY <1>1, <2>2 DEF Filled
  <1>3. ASSUME NEW k \in DOMAIN ongoing PROVE ongoing[k] = None
    <2> DEFINE m == [type |-> "Recursive2", id |-> k]
    <2>1. k \in Nat
      BY DEF TypeOK, StoreTypes
    <2>2. m \in Reports
      BY <2>1 DEF Reports, ProofTypes
    <2> QED
      BY <1>1, <2>2 DEF Filled
  <1>4. \A a, x : ~InMerge(a, x)
    BY <1>3, DoneIsQuiet DEF InMerge, WorkerMerges, HandlerMerges, QueueMerges, PositionMerges,
       Holding, Carrying, NothingLeft
  <1>5. ASSUME NEW a \in Airgroups PROVE pool[a] = {LeavesOf(a)}
    <2>1. Merged(a) = {}
      <3>1. \A x : x \notin Merged(a)
        BY <1>4, MergedIs
      <3> QED
        BY <3>1
    <2>2. \A i \in LeavesOf(a) : i \in UNION pool[a]
      <3> SUFFICES ASSUME NEW i \in LeavesOf(a) PROVE \E x \in pool[a] : i \in x
        OBVIOUS
      <3>1. i \in Instances /\ AirgroupOf[i] = a
        BY DEF LeavesOf
      <3>2. PICK k, x : At(k, x, i)
        BY <3>1, DoneIsQuiet DEF EndsInv, AllThere
      <3>3. k \in {"slot", "ongoing", "pool"}
        BY <3>2, DoneIsQuiet
      <3>4. x \in pool[a] /\ i \in x
        BY <1>2, <1>3, <3>1, <3>2, <3>3 DEF At, SlotHas, PositionHas, PoolHas
      <3> QED
        BY <3>4
    <2>3. Pieces(a) = pool[a]
      <3>1. Pieces(a) = PiecesOf(pool[a] \cup Merged(a), LeavesOf(a))
        BY DEF Pieces, PiecesOf
      <3>2. pool[a] \cup Merged(a) = pool[a]
        BY <2>1
      <3>3. {{i} : i \in LeavesOf(a) \ UNION pool[a]} = {}
        BY <2>2
      <3> QED
        BY <3>1, <3>2, <3>3 DEF PiecesOf
    <2>4. EndsOnOne(pool[a], LeavesOf(a))
      BY <2>3, DoneIsQuiet DEF OddPieces
    <2>5. /\ UNION pool[a] = LeavesOf(a) /\ IsFiniteSet(pool[a])
          /\ Cardinality(pool[a]) % 2 = 1
      BY <2>4 DEF EndsOnOne
    <2>6. Cardinality(pool[a]) \in Nat /\ Cardinality(pool[a]) < 3
      BY <2>5, FS_CardinalityType DEF EndsInv, SmallPools, NRecursive
    <2>7. Cardinality(pool[a]) = 1
      BY <2>5, <2>6
    <2>8. PICK x : pool[a] = {x}
      BY <2>5, <2>7, FS_Singleton
    <2>9. x = UNION pool[a]
      BY <2>8
    <2> QED
      BY <2>5, <2>8, <2>9
  <1> QED
    BY <1>2, <1>3, <1>5

LEMMA DoneIsPlain ==
  ASSUME TypeOK, TraceInv, SlotsInv, CountsInv, EndsInv, mpc = "done", ~aggregate
  PROVE  slots = {Proof("Basic", i) : i \in Instances}
  <1>1. ongoing = <<>> /\ pool = [a \in Airgroups |-> {}] /\ \A p \in slots : p.type = "Basic"
    BY DEF EndsInv, PlainCall
  <1>2. ASSUME NEW i \in Instances PROVE Proof("Basic", i) \in slots
    <2>1. PICK k, x : At(k, x, i)
      BY DoneIsQuiet DEF EndsInv, AllThere
    <2>2. k \in {"slot", "ongoing", "pool"}
      BY <2>1, DoneIsQuiet
    <2>3. AirgroupOf[i] \in Airgroups
      BY SystemAssumption
    <2>4. x \in slots /\ i \in x.leaves
      BY <1>1, <2>1, <2>2, <2>3 DEF At, SlotHas, PositionHas, PoolHas
    <2>5. x.type = "Basic" /\ x = Proof(x.type, x.id)
      BY <1>1, <2>4 DEF SlotsInv, Shapes, StoreShapes, Shaped
    <2>6. i = x.id
      BY <2>4, <2>5 DEF Proof
    <2> QED
      BY <2>4, <2>5, <2>6
  <1>3. ASSUME NEW p \in slots PROVE \E i \in Instances : p = Proof("Basic", i)
    BY <1>1 DEF SlotsInv, Shapes, StoreShapes, Shaped, TypeOK, StoreTypes, ChainWork
  <1> QED
    BY <1>2, <1>3

(* What a successful call returns, for every set of instances, every choice *)
(* of airs with compressors, every number of streams and buffers: one proof *)
(* per airgroup that covers all its instances, or, without aggregation, the *)
(* basic proof of every instance; and no trace is kept.                     *)
THEOREM ResultCorrect == Spec => []ResultComplete
  <1>1. ASSUME TypeOK, TraceInv, SlotsInv, CountsInv, EndsInv, OddPieces
        PROVE  ResultComplete
    <2> SUFFICES ASSUME mpc = "done"
                 PROVE  /\ IF aggregate
                           THEN /\ \A a \in Airgroups : pool[a] = {LeavesOf(a)}
                                /\ slots = {}
                                /\ \A k \in DOMAIN ongoing : ongoing[k] = None
                           ELSE slots = {Proof("Basic", i) : i \in Instances}
                        /\ traces = {}
      BY DEF ResultComplete
    <2>1. traces = {}
      BY <1>1, DoneIsQuiet DEF EndsInv, TracesAhead, NothingLeft, Proving
    <2> QED
      BY <1>1, <2>1, DoneIsAggregated, DoneIsPlain
  <1> QED
    BY <1>1, EndsAlways, PTL

-----------------------------------------------------------------------------
(* The refinement of Aggregation.                                           *)

AllPieces == [a \in Airgroups |-> Pieces(a)]

LEMMA StepIsMerge == PiecesStep => [Abstract!Next]_AllPieces
  <1>1. ASSUME \A a \in Airgroups : Pieces(a)' = Pieces(a)
        PROVE  UNCHANGED AllPieces
    BY <1>1 DEF AllPieces
  <1>2. ASSUME NEW a \in Airgroups, MergesThree(a),
               \A b \in Airgroups \ {a} : Pieces(b)' = Pieces(b)
        PROVE  Abstract!Merge(a)
    <2>1. PICK x, y, z \in Pieces(a) :
            /\ x # y /\ x # z /\ y # z
            /\ Pieces(a)' = (Pieces(a) \ {x, y, z}) \cup {x \cup y \cup z}
      BY <1>2 DEF MergesThree
    <2>2. x \in AllPieces[a] /\ y \in AllPieces[a] /\ z \in AllPieces[a]
      BY <2>1 DEF AllPieces
    <2>3. AllPieces' = [AllPieces EXCEPT ![a] = (@ \ {x, y, z}) \cup {x \cup y \cup z}]
      <3>1. \A b \in Airgroups :
              Pieces(b)' = IF b = a THEN (Pieces(a) \ {x, y, z}) \cup {x \cup y \cup z}
                           ELSE Pieces(b)
        BY <1>2, <2>1
      <3> QED
        BY <3>1 DEF AllPieces
    <2>4. \E v, w, u \in AllPieces[a] :
            /\ v # w /\ v # u /\ w # u
            /\ AllPieces' = [AllPieces EXCEPT ![a] = (@ \ {v, w, u}) \cup {v \cup w \cup u}]
      <3>1. /\ x # y /\ x # z /\ y # z
            /\ AllPieces' = [AllPieces EXCEPT ![a] = (@ \ {x, y, z}) \cup {x \cup y \cup z}]
        BY <2>1, <2>3
      <3> QED
        BY <2>2, <3>1, Zenon
    <2> QED
      BY <2>4, Zenon DEF Abstract!Merge, AllPieces
  <1> QED
    BY <1>1, <1>2 DEF PiecesStep, Abstract!Next

(* Whatever may have failed before or may fail later, a step of a call that *)
(* goes on merges three proofs of one airgroup, or none.                    *)
THEOREM StepsMerge == Spec => [][~cancelled /\ ~Fault /\ ~Restart => [Abstract!Next]_AllPieces]_vars
  <1>1. TypeOK /\ TraceInv /\ SlotsInv /\ CountsInv /\ EndsInv /\ [Next]_vars
          => [~cancelled /\ ~Fault /\ ~Restart => [Abstract!Next]_AllPieces]_vars
    BY NextPieces, StepIsMerge DEF EndsInv
  <1> QED
    BY <1>1, EndsAlways, PTL DEF Spec

LEMMA SameAbstractCardinality == \A S : Abstract!Cardinality(S) = Cardinality(S)
  BY Zenon DEF Abstract!Cardinality, Cardinality

LEMMA InitIsAbstract == Init => Abstract!Init
  <1> SUFFICES ASSUME Init PROVE Abstract!Init
    OBVIOUS
  <1>1. ASSUME NEW a \in Airgroups PROVE Pieces(a) = Abstract!InitialPieces(a)
    <2> DEFINE n == Cardinality(LeavesOf(a))
    <2>1. Abstract!LeavesOf(a) = LeavesOf(a)
      BY DEF Abstract!LeavesOf, LeavesOf
    <2>2. IsFiniteSet(LeavesOf(a))
      BY SystemAssumption, FS_Subset DEF LeavesOf
    <2>3. n \in Nat
      BY <2>2, FS_CardinalityType
    <2>4. Abstract!HasRemaining(n) \/ n = 0 <=> n % 2 = 0
      BY <2>3 DEF Abstract!HasRemaining
    <2>5. Abstract!Padding(a) = Padding(a)
      BY <2>1, <2>4, SameAbstractCardinality DEF Abstract!Padding, Padding
    <2>6. Pieces(a) = {{i} : i \in LeavesOf(a)} \cup Padding(a)
      BY DEF Init, Pieces
    <2> QED
      BY <2>1, <2>5, <2>6 DEF Abstract!InitialPieces
  <1> QED
    BY <1>1 DEF Abstract!Init

(* A call in which nothing fails is a behaviour of Aggregation: whatever    *)
(* the streams and the buffers, the threads do to an airgroup what merging  *)
(* three proofs at a time does.                                             *)
THEOREM Refinement ==
  ASSUME Faults = {}, MaxRuns = 1
  PROVE  Spec => ImplementsAggregation
  <1>1. Init => Abstract!Init /\ ~cancelled
    BY InitIsAbstract DEF Init
  <1>2. TypeOK => ~Fault /\ ~Restart
    <2>1. ~Fault
      BY DEF Fault, Cancel, FailPrecalculate, FailResident, FailWitness,
         FailRecursiveWitness, FailWorker
    <2>2. TypeOK => ~Restart
      BY DEF TypeOK, MainTypes, Restart
    <2> QED
      BY <2>1, <2>2
  <1>3. TypeOK /\ ~cancelled /\ [Next]_vars => ~cancelled'
    <2> SUFFICES ASSUME TypeOK, ~cancelled, [Next]_vars PROVE cancelled' = cancelled
      OBVIOUS
    <2> USE DEF mainVars, faultVars
    <2>1. CASE Main
      BY <2>1 DEF Main, Start, ProveResident, Feed, StartWorkers, EndFeed, ComputeWitness,
         EndWitness, WaitZero, Dismiss, Join, Succeed, FailCancelled, Unwind, UnwindJoin
    <2>2. CASE \E s \in Streams : Handler(s) \/ Worker(s)
      BY <2>2 DEF Handler, Receive, TakeProof, TakeRecursive1, TakeRecursive2, TakeBuffer,
         Increment, Send, Decrement, Worker, PollProofs, PollWitness, ProveBasic, Select,
         SelectDefault, Register, Store, Commit, ProveRecursive
    <2>3. CASE Device \/ Returned \/ UNCHANGED vars
      BY <2>3 DEF Device, StreamDone, Returned, vars
    <2> QED
      BY <1>2, <2>1, <2>2, <2>3 DEF Next
  <1>4. Spec => []~cancelled
    BY <1>1, <1>3, TypeCorrect, PTL DEF Spec
  <1>5. TypeOK /\ ~cancelled /\ [~cancelled /\ ~Fault /\ ~Restart => [Abstract!Next]_AllPieces]_vars
          => [Abstract!Next]_AllPieces
    <2>1. UNCHANGED vars => UNCHANGED AllPieces
      BY DEF vars, mainVars, handlerVars, workerVars, proofVars, AllPieces, Pieces, Merged,
         LeavesOf, Padding
    <2> QED
      BY <1>2, <2>1
  <1>6. Abstract!Spec <=> Abstract!Init /\ [][Abstract!Next]_AllPieces
    BY DEF Abstract!Spec, AllPieces
  <1> QED
    BY <1>1, <1>4, <1>5, <1>6, StepsMerge, TypeCorrect, PTL DEF Spec, ImplementsAggregation

=============================================================================
