----------------------- MODULE RecursiveSlots_proofs -----------------------
(***************************************************************************)
(* For any number of instances, airgroups, streams and buffers, on the CPU *)
(* and the GPU, with and without faults: every instance is in one place    *)
(* of the pipeline, every proof in a slot is spoken for once, and so no    *)
(* handler finds the slot of its message empty and no position of          *)
(* recursive2_proofs_ongoing is used twice at a time.                      *)
(***************************************************************************)
EXTENDS RecursivePipeline_proofs

-----------------------------------------------------------------------------
(* The invariant.                                                           *)

(* What a worker holds itself, and what it has put into a slot.             *)
Holding(s) == spc[s] \in {"basic", "register", "store"}

Storing(s) == spc[s] \in {"commit", "prove"}

Carrying(h) == hpc[h] \in {"buffer", "witness", "send"}

(* Who has the instance i, alone or merged with others.                     *)
WorkerHas(s, i) == s \in Streams /\ Holding(s) /\ i \in sjob[s].leaves

HandlerHas(h, i) == h \in Streams /\ Carrying(h) /\ i \in hjob[h].leaves

QueueHas(w, i) == w \in witnessRx /\ i \in w.leaves

SlotHas(p, i) == p \in slots /\ i \in p.leaves

PositionHas(k, i) == k \in DOMAIN ongoing /\ ongoing[k] # None /\ i \in ongoing[k].leaves

PoolHas(x, i) == x \in pool[AirgroupOf[i]] /\ i \in x

(* The place x of kind k has it.                                            *)
At(k, x, i) ==
  \/ k = "feed" /\ x = i /\ i \in toFeed
  \/ k = "calculate" /\ x = i /\ i \in toCalculate
  \/ k = "prove" /\ x = i /\ i \in proofsRx
  \/ k = "worker" /\ WorkerHas(x, i)
  \/ k = "handler" /\ HandlerHas(x, i)
  \/ k = "witness" /\ QueueHas(x, i)
  \/ k = "slot" /\ SlotHas(x, i)
  \/ k = "ongoing" /\ PositionHas(x, i)
  \/ k = "pool" /\ PoolHas(x, i)

InOnePlace ==
  \A i \in Instances : \A k, x, l, y : At(k, x, i) /\ At(l, y, i) => k = l /\ x = y

(* Nothing is anywhere before a call starts, and only resident instances    *)
(* are before the feed.                                                     *)
Untouched ==
  \A i \in Instances : \A k, x :
    At(k, x, i) => mpc # "start" /\ (mpc = "resident" => i \in Resident)

(* A proof or witness covers instances of its airgroup, the proof of an     *)
(* instance that one only.                                                  *)
Shaped(w) ==
  /\ w.leaves # {} /\ w.leaves \subseteq LeavesOf(w.airgroup)
  /\ w.type # "Recursive2" => w = Proof(w.type, w.id)

StoreShapes == \A w \in witnessRx \cup slots : Shaped(w)

HandlerShapes == \A h \in Streams : Carrying(h) => Shaped(hjob[h])

WorkerShapes ==
  \A s \in Streams :
    /\ Holding(s) \/ Storing(s) => Shaped(sjob[s])
    /\ spc[s] = "basic" => sjob[s].type = "Basic"

PoolShapes == \A a \in Airgroups : \A x \in pool[a] : x \subseteq LeavesOf(a)

(* A position of recursive2_proofs_ongoing holds the proof it was given to. *)
PositionShapes ==
  \A k \in DOMAIN ongoing :
    ongoing[k] # None =>
      ongoing[k].type = "Recursive2" /\ ongoing[k].id = k /\ Shaped(ongoing[k])

Shapes ==
  /\ StoreShapes
  /\ HandlerShapes
  /\ WorkerShapes
  /\ PoolShapes
  /\ PositionShapes

(* A worker that has not stored its recursive2 proof yet is the only one    *)
(* with its position, which is empty.                                       *)
ToStore(s) == spc[s] = "store" /\ sjob[s].type = "Recursive2"

Positions ==
  /\ \A s \in Streams :
       ToStore(s) => sjob[s].id \in DOMAIN ongoing /\ ongoing[sjob[s].id] = None
  /\ \A s, t \in Streams : ToStore(s) /\ ToStore(t) /\ s # t => sjob[s].id # sjob[t].id

(* The proof of a worker that has stored it is still there.                 *)
InSlot(s) ==
  IF sjob[s].type = "Recursive2"
  THEN sjob[s].id \in DOMAIN ongoing /\ ongoing[sjob[s].id] = sjob[s]
  ELSE sjob[s] \in slots

StoredStay == \A s \in Streams : Storing(s) => InSlot(s)

(* What announces a proof, and who will announce the proof m or does.       *)
Reports == [type : ProofTypes, id : Nat]

WorkerRefers(s, m) == s \in Streams /\ Storing(s) /\ Done(sjob[s]) = m

QueueRefers(j, m) == j \in DOMAIN recursiveRx /\ recursiveRx[j] = m

HandlerRefers(h, m) == h \in Streams /\ hpc[h] = "take" /\ hjob[h] = m

Refers(k, x, m) ==
  \/ k = "worker" /\ WorkerRefers(x, m)
  \/ k = "device" /\ x = m /\ m \in inFlight
  \/ k = "queue" /\ QueueRefers(x, m)
  \/ k = "handler" /\ HandlerRefers(x, m)

OneReference ==
  \A m \in Reports :
    \A k, x, l, y : Refers(k, x, m) /\ Refers(l, y, m) => k = l /\ x = y

(* The slot of m is full.                                                   *)
Filled(m) ==
  IF m.type = "Recursive2"
  THEN m.id \in DOMAIN ongoing /\ ongoing[m.id] # None
  ELSE \E p \in slots : Done(p) = m

RefersToFilled == \A m \in Reports : \A k, x : Refers(k, x, m) => Filled(m)

(* The messages are reports, and sentinels in the channel only.             *)
Messages ==
  /\ inFlight \subseteq Reports
  /\ recursiveRx \in Seq(Reports \cup {Sentinel})
  /\ \A h \in Streams : hpc[h] = "take" => hjob[h] \in Reports

Phases ==
  /\ mpc \notin {"resident", "feed"} => toFeed = {}
  /\ mpc \in {"start", "check", "done", "failed"} => \A h \in Streams : hpc[h] = "exit"
  /\ mpc = "start" =>
       /\ slots = {} /\ ongoing = <<>> /\ pool = [a \in Airgroups |-> {}]
       /\ witnessRx = {} /\ inFlight = {} /\ recursiveRx = <<>>

SlotsInv ==
  /\ InOnePlace
  /\ Untouched
  /\ Shapes
  /\ Positions
  /\ StoredStay
  /\ OneReference
  /\ RefersToFilled
  /\ Messages
  /\ Phases

-----------------------------------------------------------------------------
(* How a step may move instances.                                           *)

Stays(i) == \A k, x : At(k, x, i)' <=> At(k, x, i)

Drops(i) == \A k, x : At(k, x, i)' => At(k, x, i)

(* It was somewhere, or is fed now, and is in one place afterwards.         *)
Known(i) == i \in toFeed' \/ \E k, x : At(k, x, i)

Goes(i) ==
  /\ Known(i)
  /\ \E l, y : \A k, x : At(k, x, i)' <=> k = l /\ x = y

(* What place y of kind l has goes to place z of kind n, the rest stays.    *)
Relocates(l, y, n, z) ==
  \A i \in Instances : \A k, x :
    At(k, x, i)' <=> \/ At(k, x, i) /\ ~(k = l /\ x = y)
                     \/ k = n /\ x = z /\ At(l, y, i)

LEMMA GoesTo ==
  ASSUME NEW i, NEW n, NEW z, \A k, x : At(k, x, i)' <=> k = n /\ x = z,
         Known(i)
  PROVE  Goes(i)
  <1> SUFFICES \E m, w : \A k, x : At(k, x, i)' <=> k = m /\ x = w
    BY DEF Goes
  <1> WITNESS n, z
  <1> QED
    OBVIOUS

LEMMA RelocatesMoves ==
  ASSUME InOnePlace, NEW l, NEW y, NEW n, NEW z, Relocates(l, y, n, z)
  PROVE  \A i \in Instances : Stays(i) \/ Goes(i)
  <1> SUFFICES ASSUME NEW i \in Instances PROVE Stays(i) \/ Goes(i)
    OBVIOUS
  <1>1. CASE At(l, y, i)
    <2>1. \A k, x : At(k, x, i) => k = l /\ x = y
      BY <1>1 DEF InOnePlace
    <2>2. \A k, x : At(k, x, i)' <=> k = n /\ x = z
      BY <1>1, <2>1 DEF Relocates
    <2>3. Known(i)
      BY <1>1 DEF Known
    <2> QED
      BY <2>2, <2>3, GoesTo
  <1>2. CASE ~At(l, y, i)
    BY <1>2, Zenon DEF Relocates, Stays
  <1> QED
    BY <1>1, <1>2

LEMMA MovesKeepInOnePlace ==
  ASSUME InOnePlace, \A i \in Instances : Drops(i) \/ Goes(i)
  PROVE  InOnePlace'
  <1> SUFFICES ASSUME NEW i \in Instances
               PROVE  \A k, x, l, y : At(k, x, i)' /\ At(l, y, i)' => k = l /\ x = y
    BY DEF InOnePlace
  <1>1. CASE Drops(i)
    BY <1>1 DEF InOnePlace, Drops
  <1>2. CASE Goes(i)
    BY <1>2 DEF Goes
  <1> QED
    BY <1>1, <1>2

LEMMA StaysDrops == \A i : Stays(i) => Drops(i)
  BY Zenon DEF Stays, Drops

(* Places of a kind that did not change.                                    *)
LEMMA Elsewhere ==
  /\ UNCHANGED workerVars => \A x, i : WorkerHas(x, i)' <=> WorkerHas(x, i)
  /\ UNCHANGED handlerVars => \A x, i : HandlerHas(x, i)' <=> HandlerHas(x, i)
  /\ UNCHANGED witnessRx => \A x, i : QueueHas(x, i)' <=> QueueHas(x, i)
  /\ UNCHANGED slots => \A x, i : SlotHas(x, i)' <=> SlotHas(x, i)
  /\ UNCHANGED ongoing => \A x, i : PositionHas(x, i)' <=> PositionHas(x, i)
  /\ UNCHANGED pool => \A x, i : PoolHas(x, i)' <=> PoolHas(x, i)
  BY DEF WorkerHas, HandlerHas, QueueHas, SlotHas, PositionHas, PoolHas, Holding,
         Carrying, workerVars, handlerVars

LEMMA WorkerToHas ==
  ASSUME WorkerTypes, NEW s \in Streams, NEW pc, NEW job, WorkerTo(s, pc, job)
  PROVE  /\ \A x, i : x # s => (WorkerHas(x, i)' <=> WorkerHas(x, i))
         /\ \A i : WorkerHas(s, i)' <=>
                    pc \in {"basic", "register", "store"} /\ i \in job.leaves
  BY DEF WorkerTypes, WorkerTo, WorkerHas, Holding

LEMMA HandlerToHas ==
  ASSUME HandlerTypes, NEW h \in Streams, NEW pc, NEW job, HandlerTo(h, pc, job)
  PROVE  /\ \A x, i : x # h => (HandlerHas(x, i)' <=> HandlerHas(x, i))
         /\ \A i : HandlerHas(h, i)' <=>
                    pc \in {"buffer", "witness", "send"} /\ i \in job.leaves
  BY DEF HandlerTypes, HandlerTo, HandlerHas, Carrying

Moves == \A i \in Instances : Stays(i) \/ Goes(i)

Shrinks == \A i \in Instances : Drops(i) \/ Goes(i)

LEMMA MovesShrinks == Moves => Shrinks
  BY StaysDrops, Zenon DEF Moves, Shrinks

(* Nothing moves where no place changes.                                    *)
LEMMA NothingMoves ==
  ASSUME UNCHANGED <<toFeed, toCalculate, proofsRx, witnessRx, slots, ongoing, pool>>,
         \A x, i : WorkerHas(x, i)' <=> WorkerHas(x, i),
         \A x, i : HandlerHas(x, i)' <=> HandlerHas(x, i)
  PROVE  Moves
  <1>1. /\ \A x, i : QueueHas(x, i)' <=> QueueHas(x, i)
        /\ \A x, i : SlotHas(x, i)' <=> SlotHas(x, i)
        /\ \A x, i : PositionHas(x, i)' <=> PositionHas(x, i)
        /\ \A x, i : PoolHas(x, i)' <=> PoolHas(x, i)
    BY Elsewhere
  <1> QED
    BY <1>1 DEF At, Moves, Stays

(* The main thread.                                                         *)
LEMMA StartMoves ==
  ASSUME TypeOK, TraceInv, SlotsInv, Start
  PROVE  Moves
  <1> SUFFICES ASSUME NEW i \in Instances PROVE Stays(i) \/ Goes(i)
    BY DEF Moves
  <1>1. \A k, x : ~At(k, x, i)
    BY DEF Start, SlotsInv, Untouched
  <1>2. \A x : WorkerHas(x, i)' <=> WorkerHas(x, i)
    BY Elsewhere DEF Start
  <1>3. \A x : ~HandlerHas(x, i)'
    BY DEF Start, HandlerHas, Carrying
  <1>4. /\ \A x : QueueHas(x, i)' <=> QueueHas(x, i)
        /\ \A x : SlotHas(x, i)' <=> SlotHas(x, i)
        /\ \A x : PositionHas(x, i)' <=> PositionHas(x, i)
    BY Elsewhere DEF Start
  <1>5. \A x : PoolHas(x, i)' <=> PoolHas(x, i)
    <2>1. AirgroupOf[i] \in Airgroups
      BY SystemAssumption
    <2>2. /\ pool'[AirgroupOf[i]]
                = pool[AirgroupOf[i]] \cup (IF aggregate THEN Padding(AirgroupOf[i]) ELSE {})
      BY <2>1 DEF Start
    <2>3. \A x \in Padding(AirgroupOf[i]) : i \notin x
      BY DEF Padding
    <2> QED
      BY <2>2, <2>3 DEF PoolHas
  <1>6. /\ toFeed' = Resident /\ UNCHANGED <<toCalculate, proofsRx>>
    BY DEF Start, feedVars
  <1>7. \A k, x : At(k, x, i)' => k = "feed" /\ x = i /\ i \in Resident
    BY <1>1, <1>2, <1>3, <1>4, <1>5, <1>6 DEF At
  <1>8. CASE i \in Resident
    <2>1. \A k, x : At(k, x, i)' <=> k = "feed" /\ x = i
      BY <1>6, <1>7, <1>8 DEF At
    <2>2. Known(i)
      BY <1>6, <1>8 DEF Known
    <2> QED
      BY <2>1, <2>2, GoesTo
  <1>9. CASE i \notin Resident
    BY <1>1, <1>7, <1>9 DEF Stays
  <1> QED
    BY <1>8, <1>9

LEMMA ProveResidentMoves ==
  ASSUME TypeOK, TraceInv, SlotsInv, NEW j \in toFeed, ProveResident(j)
  PROVE  Moves
  <1> DEFINE p == Proof("Basic", j)
  <1>1. j \in Instances /\ p.leaves = {j}
    BY DEF TypeOK, FeedTypes, Proof
  <1>2. /\ toFeed' = toFeed \ {j} /\ slots' = slots \cup {p}
        /\ UNCHANGED <<toCalculate, proofsRx, witnessRx, ongoing, pool, handlerVars,
                       workerVars>>
    BY DEF ProveResident
  <1>3. /\ \A x, i : WorkerHas(x, i)' <=> WorkerHas(x, i)
        /\ \A x, i : HandlerHas(x, i)' <=> HandlerHas(x, i)
        /\ \A x, i : QueueHas(x, i)' <=> QueueHas(x, i)
        /\ \A x, i : PositionHas(x, i)' <=> PositionHas(x, i)
        /\ \A x, i : PoolHas(x, i)' <=> PoolHas(x, i)
    BY <1>2, Elsewhere
  <1>4. \A x, i : SlotHas(x, i)' <=> SlotHas(x, i) \/ (x = p /\ i = j)
    BY <1>1, <1>2 DEF SlotHas
  <1>5. Relocates("feed", j, "slot", p)
    BY <1>1, <1>2, <1>3, <1>4 DEF Relocates, At
  <1> QED
    BY <1>5, RelocatesMoves DEF Moves, SlotsInv

LEMMA StartWorkersMoves ==
  ASSUME TypeOK, TraceInv, SlotsInv, StartWorkers
  PROVE  Shrinks /\ (~cancelled => Moves)
  <1>1. /\ mpc = "resident" /\ toFeed' = Instances \ Resident
        /\ UNCHANGED <<toCalculate, proofsRx, witnessRx, slots, ongoing, pool, handlerVars>>
        /\ toFeed = {} \/ cancelled
    BY DEF StartWorkers, feedVars, proofVars
  <1>2. \A x, i : ~WorkerHas(x, i) /\ ~WorkerHas(x, i)'
    BY DEF StartWorkers, WorkerHas, Holding, TraceInv, Quiet
  <1>3. /\ \A x, i : HandlerHas(x, i)' <=> HandlerHas(x, i)
        /\ \A x, i : QueueHas(x, i)' <=> QueueHas(x, i)
        /\ \A x, i : SlotHas(x, i)' <=> SlotHas(x, i)
        /\ \A x, i : PositionHas(x, i)' <=> PositionHas(x, i)
        /\ \A x, i : PoolHas(x, i)' <=> PoolHas(x, i)
    BY <1>1, Elsewhere
  <1>4. ASSUME NEW i \in Instances
        PROVE  (Drops(i) \/ Goes(i)) /\ (~cancelled => Stays(i) \/ Goes(i))
    <2>1. CASE i \in Resident
      <3>1. Drops(i)
        BY <1>1, <1>2, <1>3, <2>1 DEF Drops, At
      <3>2. ~cancelled => Stays(i)
        BY <1>1, <1>2, <1>3, <2>1 DEF Stays, At
      <3> QED
        BY <3>1, <3>2
    <2>2. CASE i \notin Resident
      <3>1. \A k, x : ~At(k, x, i)
        BY <1>1, <2>2 DEF SlotsInv, Untouched
      <3>2. \A k, x : At(k, x, i)' <=> k = "feed" /\ x = i
        BY <1>1, <1>2, <1>3, <2>2, <3>1 DEF At
      <3>3. Known(i)
        BY <1>1, <2>2 DEF Known
      <3>4. Goes(i)
        BY <3>2, <3>3, GoesTo
      <3> QED
        BY <3>4
    <2> QED
      BY <2>1, <2>2
  <1> QED
    BY <1>4 DEF Shrinks, Moves

LEMMA FeedMoves ==
  ASSUME TypeOK, TraceInv, SlotsInv, NEW j \in toFeed, Feed(j)
  PROVE  Moves
  <1>1. /\ toFeed' = toFeed \ {j}
        /\ UNCHANGED <<witnessRx, slots, ongoing, pool, handlerVars, workerVars>>
    BY DEF Feed, proofVars
  <1>2. /\ \A x, i : WorkerHas(x, i)' <=> WorkerHas(x, i)
        /\ \A x, i : HandlerHas(x, i)' <=> HandlerHas(x, i)
        /\ \A x, i : QueueHas(x, i)' <=> QueueHas(x, i)
        /\ \A x, i : SlotHas(x, i)' <=> SlotHas(x, i)
        /\ \A x, i : PositionHas(x, i)' <=> PositionHas(x, i)
        /\ \A x, i : PoolHas(x, i)' <=> PoolHas(x, i)
    BY <1>1, Elsewhere
  <1>3. CASE j \in traces
    <2>1. proofsRx' = proofsRx \cup {j} /\ toCalculate' = toCalculate
      BY <1>3 DEF Feed
    <2>2. Relocates("feed", j, "prove", j)
      BY <1>1, <1>2, <2>1 DEF Relocates, At
    <2> QED
      BY <2>2, RelocatesMoves DEF Moves, SlotsInv
  <1>4. CASE j \notin traces
    <2>1. toCalculate' = toCalculate \cup {j} /\ proofsRx' = proofsRx
      BY <1>4 DEF Feed
    <2>2. Relocates("feed", j, "calculate", j)
      BY <1>1, <1>2, <2>1 DEF Relocates, At
    <2> QED
      BY <2>2, RelocatesMoves DEF Moves, SlotsInv
  <1> QED
    BY <1>3, <1>4

LEMMA ComputeWitnessMoves ==
  ASSUME TypeOK, TraceInv, SlotsInv, NEW j \in toCalculate, ComputeWitness(j)
  PROVE  Moves
  <1>1. /\ toCalculate' = toCalculate \ {j} /\ proofsRx' = proofsRx \cup {j}
        /\ UNCHANGED <<toFeed, witnessRx, slots, ongoing, pool, handlerVars, workerVars>>
    BY DEF ComputeWitness, mainVars, proofVars
  <1>2. /\ \A x, i : WorkerHas(x, i)' <=> WorkerHas(x, i)
        /\ \A x, i : HandlerHas(x, i)' <=> HandlerHas(x, i)
        /\ \A x, i : QueueHas(x, i)' <=> QueueHas(x, i)
        /\ \A x, i : SlotHas(x, i)' <=> SlotHas(x, i)
        /\ \A x, i : PositionHas(x, i)' <=> PositionHas(x, i)
        /\ \A x, i : PoolHas(x, i)' <=> PoolHas(x, i)
    BY <1>1, Elsewhere
  <1>3. Relocates("calculate", j, "prove", j)
    BY <1>1, <1>2 DEF Relocates, At
  <1> QED
    BY <1>3, RelocatesMoves DEF Moves, SlotsInv

(* Emptied stores and queues hold nothing.                                  *)
LEMMA ResetShrinks ==
  ASSUME Reset, UNCHANGED <<toFeed, handlerVars, workerVars>>, toCalculate' = {}
  PROVE  Shrinks
  <1>1. /\ \A x, i : WorkerHas(x, i)' <=> WorkerHas(x, i)
        /\ \A x, i : HandlerHas(x, i)' <=> HandlerHas(x, i)
    BY Elsewhere
  <1>2. /\ \A x, i : ~QueueHas(x, i)' /\ ~SlotHas(x, i)' /\ ~PositionHas(x, i)'
        /\ \A i \in Instances : \A x : ~PoolHas(x, i)'
    BY SystemAssumption DEF Reset, QueueHas, SlotHas, PositionHas, PoolHas
  <1>3. \A i \in Instances : Drops(i)
    BY <1>1, <1>2 DEF Reset, Drops, At
  <1> QED
    BY <1>3 DEF Shrinks

LEMMA MainMoves ==
  ASSUME TypeOK, TraceInv, SlotsInv, Main
  PROVE  Shrinks /\ (~cancelled => Moves)
  <1>1. CASE Start \/ StartWorkers \/ \E i \in toFeed : ProveResident(i) \/ Feed(i)
    BY <1>1, StartMoves, StartWorkersMoves, ProveResidentMoves, FeedMoves, MovesShrinks
  <1>2. CASE \E i \in toCalculate : ComputeWitness(i)
    BY <1>2, ComputeWitnessMoves, MovesShrinks
  <1>3. CASE EndFeed \/ EndWitness \/ WaitZero \/ Dismiss \/ Join \/ Succeed \/ Unwind
             \/ UnwindJoin
    <2>1. UNCHANGED <<toFeed, toCalculate, proofsRx, witnessRx, slots, ongoing, pool,
                      handlerVars, workerVars>>
      BY <1>3 DEF EndFeed, EndWitness, WaitZero, Dismiss, Join, Succeed, Unwind, UnwindJoin,
         feedVars, proofVars
    <2> QED
      BY <2>1, Elsewhere, NothingMoves, MovesShrinks
  <1>4. CASE FailCancelled
    BY <1>4, ResetShrinks DEF FailCancelled
  <1> QED
    BY <1>1, <1>2, <1>3, <1>4 DEF Main

-----------------------------------------------------------------------------
(* A handler that takes the proof p from place y of kind l.                 *)
Empties(l, y, p) ==
  /\ l \in {"slot", "ongoing"}
  /\ \A i : At(l, y, i) <=> i \in p.leaves
  /\ \A x, i : SlotHas(x, i)' <=> SlotHas(x, i) /\ ~(l = "slot" /\ x = y)
  /\ \A x, i : PositionHas(x, i)' <=> PositionHas(x, i) /\ ~(l = "ongoing" /\ x = y)
  /\ UNCHANGED <<toFeed, toCalculate, proofsRx, witnessRx, workerVars>>

LEMMA TakeSlotEmpties ==
  ASSUME NEW p \in slots, slots' = slots \ {p},
         UNCHANGED <<toFeed, toCalculate, proofsRx, witnessRx, ongoing, workerVars>>
  PROVE  Empties("slot", p, p)
  BY Elsewhere DEF Empties, At, SlotHas

LEMMA TakePositionEmpties ==
  ASSUME StoreTypes, NEW k \in DOMAIN ongoing, ongoing[k] # None,
         ongoing' = [ongoing EXCEPT ![k] = None],
         UNCHANGED <<toFeed, toCalculate, proofsRx, witnessRx, slots, workerVars>>
  PROVE  Empties("ongoing", k, ongoing[k])
  <1>1. \A x, i : PositionHas(x, i)' <=> PositionHas(x, i) /\ x # k
    BY DEF PositionHas
  <1>2. \A i : PositionHas(k, i) <=> i \in ongoing[k].leaves
    BY DEF PositionHas
  <1> QED
    BY <1>1, <1>2, Elsewhere DEF Empties, At

LEMMA NextOfChainMoves ==
  ASSUME TypeOK, SlotsInv, NEW h \in Streams, hpc[h] = "take", NEW p,
         NEW w, w.leaves = p.leaves, HandlerTo(h, "buffer", w), UNCHANGED pool,
         Empties("slot", p, p)
  PROVE  Moves
  <1>1. /\ \A x, i : x # h => (HandlerHas(x, i)' <=> HandlerHas(x, i))
        /\ \A i : HandlerHas(h, i)' <=> i \in p.leaves
    BY HandlerToHas DEF TypeOK
  <1>2. \A i : ~HandlerHas(h, i)
    BY DEF HandlerHas, Carrying
  <1>3. /\ \A x, i : WorkerHas(x, i)' <=> WorkerHas(x, i)
        /\ \A x, i : QueueHas(x, i)' <=> QueueHas(x, i)
        /\ \A x, i : PoolHas(x, i)' <=> PoolHas(x, i)
    BY Elsewhere DEF Empties
  <1>4. Relocates("slot", p, "handler", h)
    BY <1>1, <1>2, <1>3 DEF Relocates, At, Empties
  <1> QED
    BY <1>4, RelocatesMoves DEF Moves, SlotsInv

LEMMA JoinMoves ==
  ASSUME TypeOK, SlotsInv, NEW h \in Streams, hpc[h] = "take", NEW p \in Work, Shaped(p),
         JoinAirgroup(h, p), NEW l, NEW y, Empties(l, y, p)
  PROVE  Moves
  <1> DEFINE a == p.airgroup
             all == pool[a] \cup {p.leaves}
  <1>1. a \in Airgroups /\ p.leaves \subseteq LeavesOf(a) /\ pool[a] \subseteq SUBSET Instances
    BY DEF Work, ChainWork, MergeWork, Shaped, TypeOK, StoreTypes
  <1>2. \A x \in all : \A i \in x : AirgroupOf[i] = a
    BY <1>1 DEF SlotsInv, Shapes, PoolShapes, LeavesOf
  <1>3. \A i : ~HandlerHas(h, i)
    BY DEF HandlerHas, Carrying
  <1>4. /\ \A x, i : WorkerHas(x, i)' <=> WorkerHas(x, i)
        /\ \A x, i : QueueHas(x, i)' <=> QueueHas(x, i)
    BY Elsewhere DEF Empties
  <1>5. CASE Cardinality(all) < NRecursive
    <2>1. pool' = [pool EXCEPT ![a] = all] /\ HandlerTo(h, "decrement", None)
      BY <1>5 DEF JoinAirgroup
    <2>2. \A x, i : HandlerHas(x, i)' <=> HandlerHas(x, i)
      BY <1>3, <2>1, HandlerToHas DEF TypeOK
    <2>3. \A i \in Instances : \A x :
            PoolHas(x, i)' <=> PoolHas(x, i) \/ (x = p.leaves /\ i \in p.leaves)
      BY <1>1, <1>2, <2>1, SystemAssumption DEF PoolHas, TypeOK, StoreTypes
    <2>4. Relocates(l, y, "pool", p.leaves)
      BY <1>4, <2>2, <2>3 DEF Relocates, At, Empties
    <2> QED
      BY <2>4, RelocatesMoves DEF Moves, SlotsInv
  <1>6. CASE ~(Cardinality(all) < NRecursive)
    <2>1. PICK three \in SUBSET all :
            /\ p.leaves \in three
            /\ pool' = [pool EXCEPT ![a] = all \ three]
            /\ HandlerTo(h, "buffer", [type |-> "Recursive2", id |-> None,
                                       airgroup |-> a, leaves |-> UNION three])
      BY <1>6 DEF JoinAirgroup
    <2>2. /\ \A x, i : x # h => (HandlerHas(x, i)' <=> HandlerHas(x, i))
          /\ \A i : HandlerHas(h, i)' <=> i \in UNION three
      BY <2>1, HandlerToHas DEF TypeOK
    <2>3. \A i \in Instances : \A x :
            PoolHas(x, i)' <=> PoolHas(x, i) /\ x \notin three
      BY <1>1, <1>2, <2>1, SystemAssumption DEF PoolHas, TypeOK, StoreTypes
    <2>4. ASSUME NEW i \in Instances, i \notin UNION three
          PROVE  Stays(i)
      <3>1. i \notin p.leaves
        BY <2>1, <2>4
      <3>2. \A x : PoolHas(x, i)' <=> PoolHas(x, i)
        BY <2>3, <2>4 DEF PoolHas
      <3>3. \A x : HandlerHas(x, i)' <=> HandlerHas(x, i)
        BY <1>3, <2>2, <2>4
      <3>4. ~At(l, y, i)
        BY <3>1 DEF Empties
      <3> QED
        BY <1>4, <3>2, <3>3, <3>4 DEF Stays, At, Empties
    <2>5. ASSUME NEW i \in Instances, i \in UNION three
          PROVE  Goes(i)
      <3>1. \/ At(l, y, i)
            \/ \E x \in three : At("pool", x, i)
        BY <1>2, <2>1, <2>5 DEF Empties, At, PoolHas
      <3>2. \A k, x : At(k, x, i) =>
                         (k = l /\ x = y) \/ (k = "pool" /\ x \in three)
        BY <3>1 DEF SlotsInv, InOnePlace
      <3>3. \A k, x : At(k, x, i)' => k = "handler" /\ x = h
        BY <1>4, <2>2, <2>3, <3>2 DEF At, Empties
      <3>4. At("handler", h, i)'
        BY <2>2, <2>5 DEF At
      <3>5. Known(i)
        BY <3>1 DEF Known
      <3> QED
        BY <3>3, <3>4, <3>5, GoesTo
    <2> QED
      BY <2>4, <2>5 DEF Moves
  <1> QED
    BY <1>5, <1>6

(* A proof in a slot is that of an instance.                                *)
LEMMA SlotProof ==
  ASSUME TypeOK, SlotsInv, NEW p \in slots
  PROVE  /\ p \in Work /\ p.type \in ChainTypes /\ p.type # "Recursive2" /\ p.id \in Instances
         /\ Shaped(p) /\ p = Proof(p.type, p.id) /\ p.leaves = {p.id}
  <1>1. p \in ChainWork /\ Shaped(p)
    BY DEF TypeOK, StoreTypes, SlotsInv, Shapes, StoreShapes
  <1>2. p \in Work /\ p.type \in ChainTypes /\ p.type # "Recursive2" /\ p.id \in Instances
    BY <1>1 DEF ChainWork, Work, ChainTypes
  <1>3. p = Proof(p.type, p.id)
    BY <1>1, <1>2 DEF Shaped
  <1>4. Proof(p.type, p.id).leaves = {p.id}
    BY DEF Proof
  <1> QED
    BY <1>1, <1>2, <1>3, <1>4

(* A handler.                                                               *)
LEMMA HandlerMoves ==
  ASSUME TypeOK, TraceInv, SlotsInv, NEW h \in Streams, Handler(h)
  PROVE  Moves
  <1> USE DEF feedVars, mainVars, proofVars
  <1>1. CASE Receive(h) \/ TakeBuffer(h) \/ Increment(h) \/ Decrement(h)
    <2>1. /\ UNCHANGED <<toFeed, toCalculate, proofsRx, witnessRx, slots, ongoing, pool,
                         workerVars>>
          /\ \E pc, job :
               /\ HandlerTo(h, pc, job)
               /\ IF Carrying(h) THEN pc \in {"buffer", "witness", "send"} /\ job = hjob[h]
                  ELSE pc \notin {"buffer", "witness", "send"}
      BY <1>1 DEF Receive, TakeBuffer, Increment, Decrement, Carrying
    <2>2. \A x, i : HandlerHas(x, i)' <=> HandlerHas(x, i)
      BY <2>1, HandlerToHas DEF HandlerHas, TypeOK
    <2> QED
      BY <2>1, <2>2, Elsewhere, NothingMoves
  <1>2. CASE TakeProof(h)
    <2>1. PICK p \in slots : /\ slots' = slots \ {p}
                             /\ HandlerTo(h, "buffer", Proof(NextType(p), p.id))
      BY <1>2 DEF TakeProof
    <2>2. Proof(NextType(p), p.id).leaves = p.leaves
      BY SlotProof DEF Proof
    <2>3. /\ UNCHANGED <<toFeed, toCalculate, proofsRx, witnessRx, ongoing, workerVars>>
          /\ UNCHANGED pool /\ hpc[h] = "take"
      BY <1>2 DEF TakeProof
    <2>4. Empties("slot", p, p)
      BY <2>1, <2>3, TakeSlotEmpties
    <2> QED
      BY <2>1, <2>2, <2>3, <2>4, NextOfChainMoves
  <1>3. CASE TakeRecursive1(h)
    <2>1. PICK p \in slots : slots' = slots \ {p} /\ JoinAirgroup(h, p)
      BY <1>3 DEF TakeRecursive1
    <2>2. /\ UNCHANGED <<toFeed, toCalculate, proofsRx, witnessRx, ongoing, workerVars>>
          /\ hpc[h] = "take"
      BY <1>3 DEF TakeRecursive1
    <2>3. Empties("slot", p, p)
      BY <2>1, <2>2, TakeSlotEmpties
    <2>4. p \in Work /\ Shaped(p)
      BY SlotProof
    <2> QED
      BY <2>1, <2>2, <2>3, <2>4, JoinMoves
  <1>4. CASE TakeRecursive2(h)
    <2> DEFINE k == hjob[h].id
    <2>1. /\ k \in DOMAIN ongoing /\ ongoing[k] # None
          /\ ongoing' = [ongoing EXCEPT ![k] = None]
          /\ JoinAirgroup(h, ongoing[k])
      BY <1>4 DEF TakeRecursive2
    <2>2. /\ UNCHANGED <<toFeed, toCalculate, proofsRx, witnessRx, slots, workerVars>>
          /\ hpc[h] = "take"
      BY <1>4 DEF TakeRecursive2
    <2>3. Empties("ongoing", k, ongoing[k])
      BY <2>1, <2>2, TakePositionEmpties DEF TypeOK
    <2>4. ongoing[k] \in Work /\ Shaped(ongoing[k])
      BY <2>1 DEF TypeOK, StoreTypes, SlotsInv, Shapes, PositionShapes
    <2> QED
      BY <2>1, <2>2, <2>3, <2>4, JoinMoves
  <1>5. CASE Send(h)
    <2>1. /\ hpc[h] = "send" /\ witnessRx' = witnessRx \cup {hjob[h]}
          /\ HandlerTo(h, "decrement", None)
          /\ UNCHANGED <<toFeed, toCalculate, proofsRx, slots, ongoing, pool, workerVars>>
      BY <1>5 DEF Send
    <2>2. /\ \A x, i : HandlerHas(x, i)' <=> HandlerHas(x, i) /\ x # h
          /\ \A i : HandlerHas(h, i) <=> i \in hjob[h].leaves
      BY <2>1, HandlerToHas DEF HandlerHas, Carrying, TypeOK
    <2>3. \A x, i : QueueHas(x, i)' <=>
                    QueueHas(x, i) \/ (x = hjob[h] /\ i \in hjob[h].leaves)
      BY <2>1 DEF QueueHas
    <2>4. /\ \A x, i : WorkerHas(x, i)' <=> WorkerHas(x, i)
          /\ \A x, i : SlotHas(x, i)' <=> SlotHas(x, i)
          /\ \A x, i : PositionHas(x, i)' <=> PositionHas(x, i)
          /\ \A x, i : PoolHas(x, i)' <=> PoolHas(x, i)
      BY <2>1, Elsewhere
    <2>5. Relocates("handler", h, "witness", hjob[h])
      BY <2>1, <2>2, <2>3, <2>4 DEF Relocates, At
    <2> QED
      BY <2>5, RelocatesMoves DEF Moves, SlotsInv
  <1> QED
    BY <1>1, <1>2, <1>3, <1>4, <1>5 DEF Handler

-----------------------------------------------------------------------------
(* A worker that puts what it holds into place y of kind l.                 *)
LEMMA WorkerPutsMoves ==
  ASSUME TypeOK, SlotsInv, NEW s \in Streams, NEW pc, NEW job, WorkerTo(s, pc, job),
         Holding(s), pc \notin {"basic", "register", "store"},
         NEW l \in {"slot", "ongoing"}, NEW y,
         \A x, i : SlotHas(x, i)' <=>
           SlotHas(x, i) \/ (l = "slot" /\ x = y /\ i \in sjob[s].leaves),
         \A x, i : PositionHas(x, i)' <=>
           PositionHas(x, i) \/ (l = "ongoing" /\ x = y /\ i \in sjob[s].leaves),
         UNCHANGED <<toFeed, toCalculate, proofsRx, witnessRx, pool, handlerVars>>
  PROVE  Moves
  <1>1. /\ \A x, i : WorkerHas(x, i)' <=> WorkerHas(x, i) /\ x # s
        /\ \A i : WorkerHas(s, i) <=> i \in sjob[s].leaves
    BY WorkerToHas DEF WorkerHas, TypeOK
  <1>2. /\ \A x, i : HandlerHas(x, i)' <=> HandlerHas(x, i)
        /\ \A x, i : QueueHas(x, i)' <=> QueueHas(x, i)
        /\ \A x, i : PoolHas(x, i)' <=> PoolHas(x, i)
    BY Elsewhere
  <1>3. Relocates("worker", s, l, y)
    BY <1>1, <1>2 DEF Relocates, At
  <1> QED
    BY <1>3, RelocatesMoves DEF Moves, SlotsInv

LEMMA WorkerMoves ==
  ASSUME TypeOK, TraceInv, SlotsInv, NEW s \in Streams, Worker(s)
  PROVE  Shrinks /\ (~cancelled => Moves)
  <1> USE DEF feedVars, mainVars, proofVars
  <1>1. CASE \E i \in proofsRx : PollProofs(s, i)
    <2>1. PICK j \in proofsRx : PollProofs(s, j)
      BY <1>1
    <2>2. /\ proofsRx' = proofsRx \ {j} /\ spc[s] = "poll"
          /\ UNCHANGED <<toFeed, toCalculate, witnessRx, slots, ongoing, pool, handlerVars>>
      BY <2>1 DEF PollProofs
    <2>3. /\ \A x, i : HandlerHas(x, i)' <=> HandlerHas(x, i)
          /\ \A x, i : QueueHas(x, i)' <=> QueueHas(x, i)
          /\ \A x, i : SlotHas(x, i)' <=> SlotHas(x, i)
          /\ \A x, i : PositionHas(x, i)' <=> PositionHas(x, i)
          /\ \A x, i : PoolHas(x, i)' <=> PoolHas(x, i)
      BY <2>2, Elsewhere
    <2>4. CASE cancelled
      <3>1. \A x, i : WorkerHas(x, i)' <=> WorkerHas(x, i)
        BY <2>1, <2>4, Elsewhere DEF PollProofs
      <3>2. \A i : Drops(i)
        BY <2>2, <2>3, <3>1 DEF Drops, At
      <3> QED
        BY <2>4, <3>2 DEF Shrinks
    <2>5. CASE ~cancelled
      <3>1. WorkerTo(s, "basic", Proof("Basic", j)) /\ Proof("Basic", j).leaves = {j}
        BY <2>1, <2>5 DEF PollProofs, Proof
      <3>2. \A x, i : WorkerHas(x, i)' <=> WorkerHas(x, i) \/ (x = s /\ i = j)
        BY <2>2, <3>1, WorkerToHas DEF WorkerHas, Holding, TypeOK
      <3>3. Relocates("prove", j, "worker", s)
        BY <2>2, <2>3, <3>2 DEF Relocates, At
      <3>4. Moves
        BY <3>3, RelocatesMoves DEF Moves, SlotsInv
      <3> QED
        BY <3>4, MovesShrinks
    <2> QED
      BY <2>4, <2>5
  <1>2. CASE PollWitness(s) \/ SelectDefault(s) \/ Register(s) \/ Commit(s) \/ ProveRecursive(s)
    <2>1. /\ \E pc, job :
               /\ WorkerTo(s, pc, job)
               /\ IF Holding(s) THEN /\ pc \in {"basic", "register", "store"}
                                     /\ job.leaves = sjob[s].leaves
                  ELSE pc \notin {"basic", "register", "store"}
          /\ UNCHANGED <<toFeed, toCalculate, proofsRx, witnessRx, slots, pool, handlerVars>>
          /\ \A x, i : PositionHas(x, i)' <=> PositionHas(x, i)
      <3>1. CASE PollWitness(s) \/ SelectDefault(s) \/ Commit(s) \/ ProveRecursive(s)
        BY <3>1, Elsewhere DEF PollWitness, SelectDefault, Commit, ProveRecursive, Holding
      <3>2. CASE Register(s)
        <4>1. sjob[s] \in MergeWork
          BY <3>2 DEF Register, TypeOK, WorkerTypes
        <4>2. [sjob[s] EXCEPT !.id = Len(ongoing) + 1].leaves = sjob[s].leaves
          BY <4>1 DEF MergeWork
        <4>3. \A x, i : PositionHas(x, i)' <=> PositionHas(x, i)
          BY <3>2 DEF Register, PositionHas, TypeOK, StoreTypes
        <4> QED
          BY <3>2, <4>2, <4>3 DEF Register, Holding
      <3> QED
        BY <1>2, <3>1, <3>2
    <2>2. \A x, i : WorkerHas(x, i)' <=> WorkerHas(x, i)
      BY <2>1, WorkerToHas DEF WorkerHas, TypeOK
    <2>3. Moves
      BY <2>1, <2>2, Elsewhere DEF Moves, Stays, At
    <2> QED
      BY <2>3, MovesShrinks
  <1>3. CASE ProveBasic(s)
    <2>1. /\ Holding(s) /\ WorkerTo(s, "poll", None) /\ slots' = slots \cup {sjob[s]}
          /\ UNCHANGED <<toFeed, toCalculate, proofsRx, witnessRx, ongoing, pool, handlerVars>>
      BY <1>3 DEF ProveBasic, Holding
    <2>2. /\ \A x, i : SlotHas(x, i)' <=>
                        SlotHas(x, i) \/ (x = sjob[s] /\ i \in sjob[s].leaves)
          /\ \A x, i : PositionHas(x, i)' <=> PositionHas(x, i)
      BY <2>1, Elsewhere DEF SlotHas
    <2>3. Moves
      BY <2>1, <2>2, WorkerPutsMoves
    <2> QED
      BY <2>3, MovesShrinks
  <1>4. CASE \E w \in witnessRx : Select(s, w)
    <2>1. PICK w \in witnessRx : Select(s, w)
      BY <1>4
    <2>2. /\ witnessRx' = witnessRx \ {w} /\ ~Holding(s)
          /\ \E pc \in {"register", "store"} : WorkerTo(s, pc, w)
          /\ UNCHANGED <<toFeed, toCalculate, proofsRx, slots, ongoing, pool, handlerVars>>
      BY <2>1 DEF Select, Holding
    <2>3. /\ \A x, i : HandlerHas(x, i)' <=> HandlerHas(x, i)
          /\ \A x, i : SlotHas(x, i)' <=> SlotHas(x, i)
          /\ \A x, i : PositionHas(x, i)' <=> PositionHas(x, i)
          /\ \A x, i : PoolHas(x, i)' <=> PoolHas(x, i)
      BY <2>2, Elsewhere
    <2>4. \A x, i : WorkerHas(x, i)' <=> WorkerHas(x, i) \/ (x = s /\ i \in w.leaves)
      BY <2>2, WorkerToHas DEF WorkerHas, TypeOK
    <2>5. /\ \A x, i : QueueHas(x, i)' <=> QueueHas(x, i) /\ x # w
          /\ \A i : QueueHas(w, i) <=> i \in w.leaves
      BY <2>2 DEF QueueHas
    <2>6. Relocates("witness", w, "worker", s)
      BY <2>2, <2>3, <2>4, <2>5 DEF Relocates, At
    <2>7. Moves
      BY <2>6, RelocatesMoves DEF Moves, SlotsInv
    <2> QED
      BY <2>7, MovesShrinks
  <1>5. CASE Store(s)
    <2>1. /\ Holding(s) /\ WorkerTo(s, "commit", sjob[s])
          /\ UNCHANGED <<toFeed, toCalculate, proofsRx, witnessRx, pool, handlerVars>>
      BY <1>5 DEF Store, Holding
    <2>2. CASE sjob[s].type # "Recursive2"
      <3>1. slots' = slots \cup {sjob[s]} /\ ongoing' = ongoing
        BY <1>5, <2>2 DEF Store
      <3>2. \A x, i : SlotHas(x, i)' <=>
                      SlotHas(x, i) \/ (x = sjob[s] /\ i \in sjob[s].leaves)
        BY <3>1 DEF SlotHas
      <3>3. \A x, i : PositionHas(x, i)' <=> PositionHas(x, i)
        BY <3>1, Elsewhere
      <3>4. Moves
        BY <2>1, <3>2, <3>3, WorkerPutsMoves
      <3> QED
        BY <3>4, MovesShrinks
    <2>3. CASE sjob[s].type = "Recursive2"
      <3> DEFINE k == sjob[s].id
      <3>1. /\ ongoing' = [ongoing EXCEPT ![k] = sjob[s]] /\ slots' = slots
        BY <1>5, <2>3 DEF Store
      <3>2. k \in DOMAIN ongoing /\ ongoing[k] = None
        BY <1>5, <2>3 DEF Store, SlotsInv, Positions, ToStore
      <3>3. sjob[s] # None
        BY <1>5, NoneAssumption DEF Store, TypeOK, WorkerTypes
      <3>4. \A x, i : PositionHas(x, i)' <=>
                      PositionHas(x, i) \/ (x = k /\ i \in sjob[s].leaves)
        BY <3>1, <3>2, <3>3 DEF PositionHas, TypeOK, StoreTypes
      <3>5. \A x, i : SlotHas(x, i)' <=> SlotHas(x, i)
        BY <3>1, Elsewhere
      <3>6. Moves
        BY <2>1, <3>4, <3>5, WorkerPutsMoves
      <3> QED
        BY <3>6, MovesShrinks
    <2> QED
      BY <2>2, <2>3
  <1> QED
    BY <1>1, <1>2, <1>3, <1>4, <1>5 DEF Worker

(* The device, the faults and the next call.                                *)
LEMMA OthersMove ==
  ASSUME TypeOK, TraceInv, SlotsInv, Device \/ Fault \/ Restart \/ Returned
  PROVE  Shrinks /\ (Device \/ Cancel \/ Returned => Moves)
  <1> USE DEF feedVars, mainVars, proofVars
  <1>1. CASE Device \/ Cancel \/ Returned
    <2>1. UNCHANGED <<toFeed, toCalculate, proofsRx, witnessRx, slots, ongoing, pool,
                      handlerVars, workerVars>>
      BY <1>1 DEF Device, StreamDone, Cancel, Returned, vars
    <2> QED
      BY <2>1, Elsewhere, NothingMoves, MovesShrinks
  <1>2. CASE FailPrecalculate \/ (\E i \in toCalculate : FailWitness(i))
             \/ (\E i \in toFeed : FailResident(i))
    <2>1. /\ UNCHANGED <<proofsRx, witnessRx, slots, ongoing, pool, handlerVars, workerVars>>
          /\ toFeed' \subseteq toFeed /\ toCalculate' \subseteq toCalculate
      BY <1>2 DEF FailPrecalculate, FailWitness, FailResident
    <2>2. \A i : Drops(i)
      BY <2>1, Elsewhere DEF Drops, At
    <2> QED
      BY <1>1, <2>2 DEF Shrinks
  <1>3. CASE \E h \in Streams : FailRecursiveWitness(h)
    <2>1. PICK h \in Streams : FailRecursiveWitness(h)
      BY <1>3
    <2>2. /\ UNCHANGED <<toFeed, toCalculate, proofsRx, witnessRx, slots, ongoing, pool,
                         workerVars>>
          /\ HandlerTo(h, "exit", None)
      BY <2>1 DEF FailRecursiveWitness
    <2>3. \A x, i : HandlerHas(x, i)' => HandlerHas(x, i)
      BY <2>2, HandlerToHas DEF TypeOK
    <2>4. \A i : Drops(i)
      BY <2>2, <2>3, Elsewhere DEF Drops, At
    <2> QED
      BY <1>1, <2>4 DEF Shrinks
  <1>4. CASE \E s \in Streams : FailWorker(s)
    <2>1. PICK s \in Streams : FailWorker(s)
      BY <1>4
    <2>2. /\ UNCHANGED <<toFeed, toCalculate, proofsRx, witnessRx, slots, ongoing, pool,
                         handlerVars>>
          /\ WorkerTo(s, "exit", None)
      BY <2>1 DEF FailWorker
    <2>3. \A x, i : WorkerHas(x, i)' => WorkerHas(x, i)
      BY <2>2, WorkerToHas DEF TypeOK
    <2>4. \A i : Drops(i)
      BY <2>2, <2>3, Elsewhere DEF Drops, At
    <2> QED
      BY <1>1, <2>4 DEF Shrinks
  <1>5. CASE Restart
    BY <1>1, <1>5, ResetShrinks DEF Restart
  <1> QED
    BY <1>1, <1>2, <1>3, <1>4, <1>5 DEF Fault

LEMMA NextMoves ==
  ASSUME TypeOK, TraceInv, SlotsInv, [Next]_vars
  PROVE  /\ Shrinks
         /\ ~Fault /\ ~Restart /\ ~cancelled => Moves
  <1>1. CASE UNCHANGED vars
    <2>1. UNCHANGED <<toFeed, toCalculate, proofsRx, witnessRx, slots, ongoing, pool,
                      handlerVars, workerVars>>
      BY <1>1 DEF vars, mainVars, feedVars, proofVars
    <2> QED
      BY <2>1, Elsewhere, NothingMoves, MovesShrinks
  <1>2. CASE Next
    BY <1>2, MainMoves, HandlerMoves, WorkerMoves, OthersMove, MovesShrinks DEF Next
  <1> QED
    BY <1>1, <1>2

-----------------------------------------------------------------------------
(* What is said of the phases.                                              *)

LEMMA NextPhases ==
  ASSUME TypeOK, TraceInv, SlotsInv, [Next]_vars
  PROVE  Phases' /\ (mpc' = "resident" => toFeed' \subseteq Resident)
  <1> USE DEF mainVars, feedVars, handlerVars, deviceVars, proofVars
  <1>1. /\ Phases
        /\ mpc = "resident" => toFeed \subseteq Resident
    <2>1. \A i \in toFeed : i \in Instances /\ At("feed", i, i)
      BY DEF TypeOK, FeedTypes, At
    <2> QED
      BY <2>1 DEF SlotsInv, Untouched
  <1>2. CASE Start
    BY <1>2 DEF Start, Phases
  <1>3. CASE StartWorkers \/ (\E i \in toFeed : ProveResident(i) \/ Feed(i) \/ FailResident(i))
             \/ EndFeed
    BY <1>1, <1>3 DEF StartWorkers, ProveResident, Feed, FailResident, EndFeed, Phases
  <1>4. CASE \/ (\E i \in toCalculate : ComputeWitness(i) \/ FailWitness(i))
             \/ EndWitness \/ WaitZero \/ Dismiss \/ Succeed \/ Unwind \/ FailPrecalculate
    BY <1>1, <1>4 DEF ComputeWitness, FailWitness, EndWitness, WaitZero, Dismiss, Succeed,
       Unwind, FailPrecalculate, Phases
  <1>5. CASE Join \/ UnwindJoin \/ FailCancelled \/ Restart
    BY <1>1, <1>5 DEF Join, UnwindJoin, FailCancelled, Restart, Reset, AllExited, Phases
  <1>6. CASE Cancel \/ Returned \/ UNCHANGED vars
    BY <1>1, <1>6 DEF Cancel, Returned, vars, Phases
  <1>7. CASE Device
    <2>1. mpc # "start" /\ UNCHANGED <<mpc, toFeed, hpc>>
      BY <1>7 DEF Device, StreamDone, TraceInv, Quiet
    <2> QED
      BY <1>1, <2>1 DEF Phases
  <1>8. CASE \E h \in Streams : Handler(h) \/ FailRecursiveWitness(h)
    <2>1. PICK h \in Streams : Handler(h) \/ FailRecursiveWitness(h)
      BY <1>8
    <2>2. hpc[h] # "exit" /\ UNCHANGED <<mpc, toFeed>>
      BY <2>1 DEF Handler, Receive, TakeProof, TakeRecursive1, TakeRecursive2, TakeBuffer,
         Increment, Send, Decrement, FailRecursiveWitness
    <2> QED
      BY <1>1, <2>2 DEF Phases
  <1>9. CASE \E s \in Streams : Worker(s) \/ FailWorker(s)
    <2>1. PICK s \in Streams : Worker(s) \/ FailWorker(s)
      BY <1>9
    <2>2. spc[s] # "exit" /\ UNCHANGED <<mpc, toFeed, hpc>>
      BY <2>1 DEF Worker, PollProofs, PollWitness, ProveBasic, Select, SelectDefault,
         Register, Store, Commit, ProveRecursive, FailWorker
    <2>3. mpc # "start"
      BY <2>2 DEF TraceInv, Quiet
    <2> QED
      BY <1>1, <2>2, <2>3 DEF Phases
  <1> QED
    BY <1>2, <1>3, <1>4, <1>5, <1>6, <1>7, <1>8, <1>9 DEF Next, Main, Fault

LEMMA NextUntouched ==
  ASSUME TypeOK, TraceInv, SlotsInv, [Next]_vars
  PROVE  InOnePlace' /\ Untouched'
  <1>1. Shrinks
    BY NextMoves
  <1>2. Phases' /\ (mpc' = "resident" => toFeed' \subseteq Resident)
    BY NextPhases
  <1>3. TraceInv'
    BY NextTraceInv
  <1>4. InOnePlace'
    BY <1>1, MovesKeepInOnePlace DEF Shrinks, SlotsInv
  <1>5. mpc' = "start" => \A i \in Instances : \A k, x : ~At(k, x, i)'
    <2> SUFFICES ASSUME mpc' = "start", NEW i \in Instances, NEW k, NEW x
                 PROVE  ~At(k, x, i)'
      OBVIOUS
    <2>1. /\ \A y : ~WorkerHas(y, i)' /\ ~HandlerHas(y, i)'
          /\ \A y : ~QueueHas(y, i)' /\ ~SlotHas(y, i)' /\ ~PositionHas(y, i)'
          /\ \A y : ~PoolHas(y, i)'
      BY <1>2, <1>3, SystemAssumption DEF Phases, TraceInv, Quiet, WorkerHas, Holding,
         HandlerHas, Carrying, QueueHas, SlotHas, PositionHas, PoolHas
    <2> QED
      BY <1>2, <1>3, <2>1 DEF Phases, TraceInv, Quiet, At
  <1>6. mpc' = "resident" => mpc \in {"start", "resident"}
    BY DEF Next, Main, Start, ProveResident, Feed, StartWorkers, EndFeed, ComputeWitness,
       EndWitness, WaitZero, Dismiss, Join, Succeed, FailCancelled, Unwind, UnwindJoin,
       Handler, Receive, TakeProof, TakeRecursive1, TakeRecursive2, TakeBuffer, Increment,
       Send, Decrement, Worker, PollProofs, PollWitness, ProveBasic, Select, SelectDefault,
       Register, Store, Commit, ProveRecursive, Device, StreamDone, Fault, Cancel,
       FailPrecalculate, FailResident, FailWitness, FailRecursiveWitness, FailWorker,
       Restart, Returned, vars, mainVars
  <1>7. ASSUME mpc' = "resident", NEW i \in Instances, NEW k, NEW x, At(k, x, i)'
        PROVE  i \in Resident
    <2>1. i \in toFeed' \/ \E l, y : At(l, y, i)
      BY <1>1, <1>7 DEF Shrinks, Drops, Goes, Known
    <2> QED
      BY <1>2, <1>6, <1>7, <2>1 DEF SlotsInv, Untouched
  <1>8. Untouched'
    BY <1>5, <1>7 DEF Untouched
  <1> QED
    BY <1>4, <1>8

-----------------------------------------------------------------------------
(* Proofs and witnesses keep their shape.                                   *)

LEMMA ProofShaped ==
  ASSUME NEW t \in ChainTypes, NEW i \in Instances
  PROVE  Shaped(Proof(t, i))
  BY DEF Proof, Shaped, LeavesOf

LEMMA SameShapes ==
  /\ StoreShapes /\ UNCHANGED <<witnessRx, slots>> => StoreShapes'
  /\ HandlerShapes /\ UNCHANGED handlerVars => HandlerShapes'
  /\ WorkerShapes /\ UNCHANGED workerVars => WorkerShapes'
  /\ PoolShapes /\ UNCHANGED pool => PoolShapes'
  /\ PositionShapes /\ UNCHANGED ongoing => PositionShapes'
  BY DEF StoreShapes, HandlerShapes, WorkerShapes, PoolShapes, PositionShapes, Carrying,
         Holding, Storing, handlerVars, workerVars

LEMMA HandlerToShapes ==
  ASSUME HandlerTypes, HandlerShapes, NEW h \in Streams, NEW pc, NEW job,
         HandlerTo(h, pc, job), pc \in {"buffer", "witness", "send"} => Shaped(job)
  PROVE  HandlerShapes'
  BY DEF HandlerTypes, HandlerShapes, HandlerTo, Carrying

LEMMA WorkerToShapes ==
  ASSUME WorkerTypes, WorkerShapes, NEW s \in Streams, NEW pc, NEW job,
         WorkerTo(s, pc, job),
         pc \in {"basic", "register", "store", "commit", "prove"} => Shaped(job),
         pc = "basic" => job.type = "Basic"
  PROVE  WorkerShapes'
  BY DEF WorkerTypes, WorkerShapes, WorkerTo, Holding, Storing

LEMMA JoinShapes ==
  ASSUME TypeOK, HandlerShapes, PoolShapes, NEW h \in Streams, NEW p \in Work, Shaped(p),
         JoinAirgroup(h, p)
  PROVE  HandlerShapes' /\ PoolShapes'
  <1> DEFINE a == p.airgroup
             all == pool[a] \cup {p.leaves}
  <1>1. a \in Airgroups /\ p.leaves \subseteq LeavesOf(a) /\ p.leaves # {}
    BY DEF Work, ChainWork, MergeWork, Shaped
  <1>2. \A x \in all : x \subseteq LeavesOf(a)
    BY <1>1 DEF PoolShapes
  <1>3. CASE Cardinality(all) < NRecursive
    <2>1. pool' = [pool EXCEPT ![a] = all] /\ HandlerTo(h, "decrement", None)
      BY <1>3 DEF JoinAirgroup
    <2>2. HandlerShapes'
      BY <2>1, HandlerToShapes DEF TypeOK
    <2>3. PoolShapes'
      BY <1>1, <1>2, <2>1 DEF PoolShapes, TypeOK, StoreTypes
    <2> QED
      BY <2>2, <2>3
  <1>4. CASE ~(Cardinality(all) < NRecursive)
    <2> DEFINE w(x) == [type |-> "Recursive2", id |-> None, airgroup |-> a, leaves |-> x]
    <2>1. PICK three \in SUBSET all :
            /\ p.leaves \in three
            /\ pool' = [pool EXCEPT ![a] = all \ three]
            /\ HandlerTo(h, "buffer", w(UNION three))
      BY <1>4 DEF JoinAirgroup
    <2>2. UNION three # {} /\ UNION three \subseteq LeavesOf(a)
      BY <1>1, <1>2, <2>1
    <2>3. Shaped(w(UNION three))
      BY <2>2 DEF Shaped
    <2>4. HandlerShapes'
      BY <2>1, <2>3, HandlerToShapes DEF TypeOK
    <2>5. PoolShapes'
      BY <1>1, <1>2, <2>1 DEF PoolShapes, TypeOK, StoreTypes
    <2> QED
      BY <2>4, <2>5
  <1> QED
    BY <1>3, <1>4

LEMMA ResetShapes ==
  ASSUME Reset
  PROVE  StoreShapes' /\ PoolShapes' /\ PositionShapes'
  BY DEF Reset, StoreShapes, PoolShapes, PositionShapes

(* The main thread, the device and the faults.                              *)
LEMMA MainShapes ==
  ASSUME TypeOK, TraceInv, SlotsInv, Main
  PROVE  Shapes'
  <1> USE DEF Shapes, proofVars
  <1>1. CASE Start
    <2>1. PoolShapes'
      <3>1. \A a \in Airgroups : \A x \in Padding(a) : x = {}
        BY DEF Padding
      <3> QED
        BY <1>1, <3>1 DEF Start, SlotsInv, PoolShapes
    <2>2. HandlerShapes'
      BY <1>1 DEF Start, HandlerShapes, Carrying
    <2> QED
      BY <1>1, <2>1, <2>2, SameShapes DEF Start, SlotsInv
  <1>2. CASE \E i \in toFeed : ProveResident(i)
    <2>1. PICK i \in toFeed : ProveResident(i)
      BY <1>2
    <2>2. i \in Instances
      BY DEF TypeOK, FeedTypes
    <2>3. Shaped(Proof("Basic", i))
      BY <2>2, ProofShaped DEF ChainTypes
    <2>4. StoreShapes'
      BY <2>1, <2>3 DEF ProveResident, SlotsInv, StoreShapes
    <2> QED
      BY <2>1, <2>4, SameShapes DEF ProveResident, SlotsInv
  <1>3. CASE StartWorkers
    <2>1. WorkerShapes'
      BY <1>3 DEF StartWorkers, WorkerShapes, Holding, Storing
    <2> QED
      BY <1>3, <2>1, SameShapes DEF StartWorkers, SlotsInv
  <1>4. CASE FailCancelled
    BY <1>4, ResetShapes, SameShapes DEF FailCancelled, SlotsInv
  <1>5. CASE \/ (\E i \in toFeed : Feed(i)) \/ EndFeed
             \/ (\E i \in toCalculate : ComputeWitness(i)) \/ EndWitness
             \/ WaitZero \/ Dismiss \/ Join \/ Succeed \/ Unwind \/ UnwindJoin
    <2>1. UNCHANGED <<witnessRx, slots, ongoing, pool, handlerVars, workerVars>>
      BY <1>5 DEF Feed, EndFeed, ComputeWitness, EndWitness, WaitZero, Dismiss, Join, Succeed,
         Unwind, UnwindJoin
    <2> QED
      BY <2>1, SameShapes DEF SlotsInv
  <1> QED
    BY <1>1, <1>2, <1>3, <1>4, <1>5 DEF Main

LEMMA OthersShapes ==
  ASSUME TypeOK, TraceInv, SlotsInv, Device \/ Fault \/ Restart \/ Returned
  PROVE  Shapes'
  <1> USE DEF Shapes, proofVars
  <1>1. CASE \/ Device \/ Cancel \/ FailPrecalculate \/ Returned
             \/ (\E i \in toCalculate : FailWitness(i)) \/ (\E i \in toFeed : FailResident(i))
    <2>1. UNCHANGED <<witnessRx, slots, ongoing, pool, handlerVars, workerVars>>
      BY <1>1 DEF Device, StreamDone, Cancel, FailPrecalculate, FailWitness, FailResident,
         Returned, vars
    <2> QED
      BY <2>1, SameShapes DEF SlotsInv
  <1>2. CASE Restart
    BY <1>2, ResetShapes, SameShapes DEF Restart, SlotsInv
  <1>3. CASE \E h \in Streams : FailRecursiveWitness(h)
    <2>1. PICK h \in Streams : FailRecursiveWitness(h)
      BY <1>3
    <2>2. HandlerShapes'
      BY <2>1, HandlerToShapes DEF FailRecursiveWitness, SlotsInv, TypeOK
    <2> QED
      BY <2>1, <2>2, SameShapes DEF FailRecursiveWitness, SlotsInv
  <1>4. CASE \E s \in Streams : FailWorker(s)
    <2>1. PICK s \in Streams : FailWorker(s)
      BY <1>4
    <2>2. WorkerShapes'
      BY <2>1, WorkerToShapes DEF FailWorker, SlotsInv, TypeOK
    <2> QED
      BY <2>1, <2>2, SameShapes DEF FailWorker, SlotsInv
  <1> QED
    BY <1>1, <1>2, <1>3, <1>4 DEF Fault

(* A handler.                                                               *)
LEMMA HandlerShapesKept ==
  ASSUME TypeOK, TraceInv, SlotsInv, NEW h \in Streams, Handler(h)
  PROVE  Shapes'
  <1> USE DEF Shapes, proofVars, TypeOK, SlotsInv
  <1>1. CASE Receive(h) \/ TakeBuffer(h) \/ Increment(h) \/ Decrement(h)
    <2>1. \E pc, job : /\ HandlerTo(h, pc, job)
                       /\ pc \in {"buffer", "witness", "send"} => Shaped(job)
      BY <1>1 DEF Receive, TakeBuffer, Increment, Decrement, HandlerShapes, Carrying
    <2>2. HandlerShapes'
      BY <2>1, HandlerToShapes
    <2> QED
      BY <1>1, <2>2, SameShapes DEF Receive, TakeBuffer, Increment, Decrement
  <1>2. CASE TakeProof(h)
    <2>1. PICK p \in slots : /\ slots' = slots \ {p} /\ Done(p) = hjob[h]
                             /\ HandlerTo(h, "buffer", Proof(NextType(p), p.id))
      BY <1>2 DEF TakeProof
    <2>2. NextType(p) # "Recursive2"
      BY <1>2, <2>1 DEF TakeProof, NextType, Done
    <2>3. NextType(p) \in ChainTypes /\ p.id \in Instances
      BY <2>2, SlotProof DEF NextType, ChainTypes
    <2>4. HandlerShapes'
      BY <2>1, <2>3, ProofShaped, HandlerToShapes
    <2>5. StoreShapes'
      BY <1>2, <2>1 DEF TakeProof, StoreShapes
    <2> QED
      BY <1>2, <2>4, <2>5, SameShapes DEF TakeProof
  <1>3. CASE TakeRecursive1(h)
    <2>1. PICK p \in slots : slots' = slots \ {p} /\ JoinAirgroup(h, p)
      BY <1>3 DEF TakeRecursive1
    <2>2. HandlerShapes' /\ PoolShapes'
      BY <2>1, SlotProof, JoinShapes
    <2>3. StoreShapes'
      BY <1>3, <2>1 DEF TakeRecursive1, StoreShapes
    <2> QED
      BY <1>3, <2>2, <2>3, SameShapes DEF TakeRecursive1
  <1>4. CASE TakeRecursive2(h)
    <2> DEFINE k == hjob[h].id
    <2>1. /\ k \in DOMAIN ongoing /\ ongoing[k] # None
          /\ ongoing' = [ongoing EXCEPT ![k] = None]
          /\ JoinAirgroup(h, ongoing[k])
      BY <1>4 DEF TakeRecursive2
    <2>2. ongoing[k] \in Work /\ Shaped(ongoing[k])
      BY <2>1 DEF StoreTypes, PositionShapes
    <2>3. HandlerShapes' /\ PoolShapes'
      BY <2>1, <2>2, JoinShapes
    <2>4. PositionShapes'
      BY <2>1 DEF PositionShapes
    <2> QED
      BY <1>4, <2>3, <2>4, SameShapes DEF TakeRecursive2
  <1>5. CASE Send(h)
    <2>1. StoreShapes'
      BY <1>5 DEF Send, StoreShapes, HandlerShapes, Carrying
    <2>2. HandlerShapes'
      BY <1>5, HandlerToShapes DEF Send
    <2> QED
      BY <1>5, <2>1, <2>2, SameShapes DEF Send
  <1> QED
    BY <1>1, <1>2, <1>3, <1>4, <1>5 DEF Handler

(* A worker.                                                                *)
LEMMA WorkerShapesKept ==
  ASSUME TypeOK, TraceInv, SlotsInv, NEW s \in Streams, Worker(s)
  PROVE  Shapes'
  <1> USE DEF Shapes, proofVars, TypeOK, SlotsInv
  <1>1. CASE \E i \in proofsRx : PollProofs(s, i)
    <2>1. PICK i \in proofsRx : PollProofs(s, i)
      BY <1>1
    <2>2. Shaped(Proof("Basic", i)) /\ Proof("Basic", i).type = "Basic"
      BY ProofShaped DEF FeedTypes, ChainTypes, Proof
    <2>3. WorkerShapes'
      BY <2>1, <2>2, WorkerToShapes, SameShapes DEF PollProofs
    <2> QED
      BY <2>1, <2>3, SameShapes DEF PollProofs
  <1>2. CASE PollWitness(s) \/ SelectDefault(s) \/ Commit(s) \/ ProveRecursive(s)
    <2>1. \E pc, job :
            /\ WorkerTo(s, pc, job) /\ pc # "basic"
            /\ pc \in {"basic", "register", "store", "commit", "prove"} => Shaped(job)
      BY <1>2 DEF PollWitness, SelectDefault, Commit, ProveRecursive, WorkerShapes, Storing
    <2>2. WorkerShapes'
      BY <2>1, WorkerToShapes
    <2> QED
      BY <1>2, <2>2, SameShapes DEF PollWitness, SelectDefault, Commit, ProveRecursive
  <1>3. CASE ProveBasic(s)
    <2>1. StoreShapes'
      BY <1>3 DEF ProveBasic, StoreShapes, WorkerShapes, Holding
    <2>2. WorkerShapes'
      BY <1>3, WorkerToShapes DEF ProveBasic
    <2> QED
      BY <1>3, <2>1, <2>2, SameShapes DEF ProveBasic
  <1>4. CASE \E w \in witnessRx : Select(s, w)
    <2>1. PICK w \in witnessRx : Select(s, w)
      BY <1>4
    <2>2. StoreShapes' /\ Shaped(w)
      BY <2>1 DEF Select, StoreShapes
    <2>3. \E pc \in {"register", "store"} : WorkerTo(s, pc, w)
      BY <2>1 DEF Select
    <2>4. WorkerShapes'
      BY <2>2, <2>3, WorkerToShapes
    <2> QED
      BY <2>1, <2>2, <2>4, SameShapes DEF Select
  <1>5. CASE Register(s)
    <2> DEFINE w == [sjob[s] EXCEPT !.id = Len(ongoing) + 1]
    <2>1. sjob[s] \in MergeWork /\ Shaped(sjob[s])
      BY <1>5 DEF Register, WorkerTypes, WorkerShapes, Holding
    <2>2. w.type = "Recursive2" /\ w.leaves = sjob[s].leaves /\ w.airgroup = sjob[s].airgroup
      BY <2>1 DEF MergeWork
    <2>3. Shaped(w)
      BY <2>1, <2>2 DEF Shaped
    <2>4. WorkerShapes'
      BY <1>5, <2>3, WorkerToShapes DEF Register
    <2>5. PositionShapes'
      BY <1>5 DEF Register, PositionShapes, StoreTypes
    <2> QED
      BY <1>5, <2>4, <2>5, SameShapes DEF Register
  <1>6. CASE Store(s)
    <2>1. Shaped(sjob[s])
      BY <1>6 DEF Store, WorkerShapes, Holding
    <2>2. WorkerShapes'
      BY <1>6, <2>1, WorkerToShapes DEF Store
    <2>3. StoreShapes' /\ PositionShapes'
      <3>1. CASE sjob[s].type = "Recursive2"
        <4>1. slots' = slots /\ witnessRx' = witnessRx
              /\ ongoing' = [ongoing EXCEPT ![sjob[s].id] = sjob[s]]
          BY <1>6, <3>1 DEF Store
        <4>2. PositionShapes'
          BY <2>1, <3>1, <4>1 DEF PositionShapes
        <4> QED
          BY <4>1, <4>2, SameShapes
      <3>2. CASE sjob[s].type # "Recursive2"
        <4>1. /\ slots' = slots \cup {sjob[s]} /\ witnessRx' = witnessRx
              /\ ongoing' = ongoing
          BY <1>6, <3>2 DEF Store
        <4> QED
          BY <2>1, <4>1, SameShapes DEF StoreShapes
      <3> QED
        BY <3>1, <3>2
    <2> QED
      BY <1>6, <2>2, <2>3, SameShapes DEF Store
  <1> QED
    BY <1>1, <1>2, <1>3, <1>4, <1>5, <1>6 DEF Worker

LEMMA NextShapes ==
  ASSUME TypeOK, TraceInv, SlotsInv, [Next]_vars
  PROVE  Shapes'
  <1>1. CASE UNCHANGED vars
    BY <1>1, SameShapes DEF SlotsInv, Shapes, vars, proofVars
  <1> QED
    BY <1>1, MainShapes, HandlerShapesKept, WorkerShapesKept, OthersShapes DEF Next

-----------------------------------------------------------------------------
(* How a step may deal with the announcement of m: leave it, lose who       *)
(* announces it, hand it on, or be done with the proof.                     *)

RefKeeps(m) ==
  /\ \A k, x : Refers(k, x, m)' <=> Refers(k, x, m)
  /\ Filled(m)' <=> Filled(m)

RefDrops(m) ==
  /\ \A k, x : Refers(k, x, m)' => Refers(k, x, m)
  /\ Filled(m) => Filled(m)'

RefOnlyAt(m, l, y) == \A k, x : Refers(k, x, m)' <=> k = l /\ x = y

RefGoes(m) == Filled(m)' /\ \E l, y : RefOnlyAt(m, l, y)

RefFalls(m) == \A k, x : ~Refers(k, x, m)'

RefEnds(m) == RefFalls(m) /\ ~Filled(m)'

Announces == \A m \in Reports : RefKeeps(m) \/ RefGoes(m) \/ RefEnds(m)

Shuffles == \A m \in Reports : RefDrops(m) \/ RefGoes(m) \/ RefFalls(m)

LEMMA AnnouncesShuffles == Announces => Shuffles
  <1>1. \A m : RefKeeps(m) => RefDrops(m)
    BY DEF RefKeeps, RefDrops
  <1>2. \A m : RefEnds(m) => RefFalls(m)
    BY DEF RefEnds
  <1> QED
    BY <1>1, <1>2, Zenon DEF Announces, Shuffles

LEMMA ShufflesKeepReferences ==
  ASSUME OneReference, RefersToFilled, Shuffles
  PROVE  OneReference' /\ RefersToFilled'
  <1> SUFFICES ASSUME NEW m \in Reports
               PROVE  /\ \A k, x, l, y : Refers(k, x, m)' /\ Refers(l, y, m)' => k = l /\ x = y
                      /\ \A k, x : Refers(k, x, m)' => Filled(m)'
    BY DEF OneReference, RefersToFilled
  <1>1. CASE RefDrops(m)
    BY <1>1 DEF OneReference, RefersToFilled, RefDrops
  <1>2. CASE RefGoes(m)
    BY <1>2 DEF RefGoes, RefOnlyAt
  <1>3. CASE RefFalls(m)
    BY <1>3 DEF RefFalls
  <1> QED
    BY <1>1, <1>2, <1>3 DEF Shuffles

(* References of a kind, and slots, that did not change.                    *)
LEMMA SameReferences ==
  /\ UNCHANGED workerVars => \A x, m : WorkerRefers(x, m)' <=> WorkerRefers(x, m)
  /\ UNCHANGED handlerVars => \A x, m : HandlerRefers(x, m)' <=> HandlerRefers(x, m)
  /\ UNCHANGED recursiveRx => \A x, m : QueueRefers(x, m)' <=> QueueRefers(x, m)
  /\ UNCHANGED <<slots, ongoing>> => \A m : Filled(m)' <=> Filled(m)
  BY DEF WorkerRefers, HandlerRefers, QueueRefers, Storing, Filled, workerVars, handlerVars

LEMMA WorkerToRefers ==
  ASSUME WorkerTypes, NEW s \in Streams, NEW pc, NEW job, WorkerTo(s, pc, job)
  PROVE  /\ \A x, m : x # s => (WorkerRefers(x, m)' <=> WorkerRefers(x, m))
         /\ \A m : WorkerRefers(s, m)' <=> pc \in {"commit", "prove"} /\ Done(job) = m
  BY DEF WorkerTypes, WorkerTo, WorkerRefers, Storing

LEMMA HandlerToRefers ==
  ASSUME HandlerTypes, NEW h \in Streams, NEW pc, NEW job, HandlerTo(h, pc, job)
  PROVE  /\ \A x, m : x # h => (HandlerRefers(x, m)' <=> HandlerRefers(x, m))
         /\ \A m : HandlerRefers(h, m)' <=> pc = "take" /\ job = m
  BY DEF HandlerTypes, HandlerTo, HandlerRefers

(* Nothing is announced or taken.                                           *)
LEMMA NothingAnnounced ==
  ASSUME UNCHANGED <<inFlight, recursiveRx, slots, ongoing>>,
         \A x, m : WorkerRefers(x, m)' <=> WorkerRefers(x, m),
         \A x, m : HandlerRefers(x, m)' <=> HandlerRefers(x, m)
  PROVE  Announces
  BY SameReferences DEF Announces, RefKeeps, Refers

(* Sentinels announce nothing.                                              *)
LEMMA SentinelsAnnounceNothing ==
  ASSUME Messages, recursiveRx' = recursiveRx \o Sentinels,
         UNCHANGED <<inFlight, slots, ongoing, handlerVars, workerVars>>
  PROVE  Announces
  <1>1. Sentinels \in Seq({Sentinel})
    BY SystemAssumption, FS_CardinalityType DEF Sentinels
  <1>2. Sentinel \notin Reports
    BY DEF Sentinel, Reports, ProofTypes, ChainTypes
  <1>3. \A m \in Reports : \A x : QueueRefers(x, m)' <=> QueueRefers(x, m)
    BY <1>1, <1>2 DEF QueueRefers, Messages
  <1> QED
    BY <1>3, SameReferences DEF Announces, RefKeeps, Refers

(* A report in the channel, or none if no callback is registered.           *)
LEMMA ReportRefers ==
  ASSUME Messages, NEW n \in Reports, Report(n)
  PROVE  /\ \A m \in Reports : \A x :
              QueueRefers(x, m)' <=>
                QueueRefers(x, m) \/ (callback /\ m = n /\ x = Len(recursiveRx) + 1)
         /\ \A m : ~QueueRefers(Len(recursiveRx) + 1, m)
  BY DEF Report, QueueRefers, Messages

(* A proof handed to the prover, by nobody else announced.                  *)
LEMMA SubmitAnnounces ==
  ASSUME Messages, NEW n \in Reports, Submit(n),
         n \notin inFlight, \A x : ~QueueRefers(x, n),
         \A x : ~WorkerRefers(x, n)' /\ ~HandlerRefers(x, n)',
         \A m \in Reports \ {n} :
           /\ \A x : WorkerRefers(x, m)' <=> WorkerRefers(x, m)
           /\ \A x : HandlerRefers(x, m)' <=> HandlerRefers(x, m)
           /\ Filled(m)' <=> Filled(m),
         Filled(n)'
  PROVE  Shuffles /\ (callback \/ Gpu => Announces)
  <1>1. CASE Gpu
    <2>1. inFlight' = inFlight \cup {n} /\ recursiveRx' = recursiveRx
      BY <1>1 DEF Submit
    <2>2. RefOnlyAt(n, "device", n)
      BY <2>1, SameReferences DEF RefOnlyAt, Refers
    <2>3. RefGoes(n)
      BY <2>2 DEF RefGoes
    <2>4. \A m \in Reports \ {n} : RefKeeps(m)
      BY <2>1, SameReferences DEF RefKeeps, Refers
    <2>5. Announces
      BY <2>3, <2>4, Zenon DEF Announces
    <2> QED
      BY <2>5, AnnouncesShuffles
  <1>2. CASE ~Gpu
    <2>1. Report(n) /\ inFlight' = inFlight
      BY <1>2 DEF Submit
    <2> DEFINE z == Len(recursiveRx) + 1
    <2>2. \A m \in Reports : \A x :
            QueueRefers(x, m)' <=> QueueRefers(x, m) \/ (callback /\ m = n /\ x = z)
      BY <2>1, ReportRefers
    <2>3. \A k, x : Refers(k, x, n)' <=> callback /\ k = "queue" /\ x = z
      BY <2>1, <2>2 DEF Refers
    <2>4. \A m \in Reports \ {n} : RefKeeps(m)
      BY <2>1, <2>2 DEF RefKeeps, Refers
    <2>5. CASE callback
      <3>1. RefOnlyAt(n, "queue", z)
        BY <2>3, <2>5 DEF RefOnlyAt
      <3>2. RefGoes(n)
        BY <3>1 DEF RefGoes
      <3>3. Announces
        BY <2>4, <3>2, Zenon DEF Announces
      <3> QED
        BY <3>3, AnnouncesShuffles
    <2>6. CASE ~callback
      <3>1. RefFalls(n)
        BY <2>3, <2>6 DEF RefFalls
      <3>2. \A m \in Reports \ {n} : RefDrops(m)
        BY <2>4 DEF RefKeeps, RefDrops
      <3> QED
        BY <1>2, <2>6, <3>1, <3>2, Zenon DEF Shuffles
    <2> QED
      BY <2>5, <2>6
  <1> QED
    BY <1>1, <1>2

(* The slot of an instance that is elsewhere is empty.                      *)
LEMMA ElsewhereUnannounced ==
  ASSUME TypeOK, SlotsInv, NEW i \in Instances, NEW k, NEW x, At(k, x, i), k # "slot",
         NEW t \in ChainTypes
  PROVE  /\ Done(Proof(t, i)) \in Reports
         /\ ~Filled(Done(Proof(t, i)))
         /\ \A l, y : ~Refers(l, y, Done(Proof(t, i)))
  <1> DEFINE m == Done(Proof(t, i))
  <1>1. m.type = t /\ m.id = i /\ t # "Recursive2" /\ m \in Reports
    BY SystemAssumption DEF Done, Proof, Reports, ProofTypes, ChainTypes
  <1>2. ~Filled(m)
    <2> SUFFICES ASSUME NEW p \in slots, Done(p) = m PROVE FALSE
      BY <1>1 DEF Filled
    <2>1. p.id = i /\ p.leaves = {p.id}
      BY <1>1, SlotProof DEF Done
    <2>2. At("slot", p, i)
      BY <2>1 DEF At, SlotHas
    <2> QED
      BY <2>2 DEF SlotsInv, InOnePlace
  <1>3. \A l, y : ~Refers(l, y, m)
    BY <1>1, <1>2 DEF SlotsInv, RefersToFilled
  <1> QED
    BY <1>1, <1>2, <1>3

(* Another proof does not fill the slot of m.                               *)
LEMMA FillsOne ==
  ASSUME NEW p, slots' = slots \cup {p}, UNCHANGED ongoing
  PROVE  /\ \A m : m # Done(p) => (Filled(m)' <=> Filled(m))
         /\ Done(p).type # "Recursive2" => Filled(Done(p))'
  BY DEF Filled

LEMMA ProveResidentAnnounces ==
  ASSUME TypeOK, TraceInv, SlotsInv, NEW j \in toFeed, ProveResident(j)
  PROVE  Announces
  <1> DEFINE p == Proof("Basic", j)
             n == Done(p)
  <1>1. j \in Instances /\ At("feed", j, j) /\ "Basic" \in ChainTypes
    BY DEF TypeOK, FeedTypes, At, ChainTypes
  <1>2. n \in Reports /\ \A l, y : ~Refers(l, y, n)
    BY <1>1, ElsewhereUnannounced
  <1>3. /\ slots' = slots \cup {p} /\ inFlight' = inFlight \cup {n}
        /\ UNCHANGED <<recursiveRx, ongoing, handlerVars, workerVars>>
    BY DEF ProveResident
  <1>4. n.type # "Recursive2"
    BY DEF Done, Proof
  <1>5. RefOnlyAt(n, "device", n)
    BY <1>2, <1>3, SameReferences DEF RefOnlyAt, Refers
  <1>6. RefGoes(n)
    BY <1>3, <1>4, <1>5, FillsOne DEF RefGoes
  <1>7. \A m \in Reports \ {n} : RefKeeps(m)
    <2>1. \A m \in Reports \ {n} : Filled(m)' <=> Filled(m)
      BY <1>3, FillsOne
    <2>2. \A m \in Reports \ {n} : \A k, x : Refers(k, x, m)' <=> Refers(k, x, m)
      BY <1>3, SameReferences DEF Refers
    <2> QED
      BY <2>1, <2>2 DEF RefKeeps
  <1> QED
    BY <1>6, <1>7, Zenon DEF Announces

LEMMA ResetShuffles ==
  ASSUME Reset, UNCHANGED <<handlerVars, workerVars>>,
         \A s \in Streams : hpc[s] = "exit" /\ spc[s] = "exit"
  PROVE  Shuffles
  <1>1. \A m, x : ~WorkerRefers(x, m)' /\ ~HandlerRefers(x, m)' /\ ~QueueRefers(x, m)'
    BY DEF WorkerRefers, HandlerRefers, QueueRefers, Storing, Reset, workerVars, handlerVars
  <1> QED
    BY <1>1 DEF Shuffles, RefFalls, Refers, Reset

LEMMA MainShuffles ==
  ASSUME TypeOK, TraceInv, SlotsInv, Main
  PROVE  Shuffles /\ (~cancelled => Announces)
  <1> USE DEF proofVars, deviceVars
  <1>1. CASE Start
    <2>1. \A s \in Streams : hpc[s] = "exit" /\ hpc'[s] = "recv"
      BY <1>1 DEF Start, SlotsInv, Phases
    <2>2. \A x, m : HandlerRefers(x, m)' <=> HandlerRefers(x, m)
      BY <2>1 DEF HandlerRefers
    <2>3. Announces
      BY <1>1, <2>2, SameReferences, NothingAnnounced DEF Start
    <2> QED
      BY <2>3, AnnouncesShuffles
  <1>2. CASE StartWorkers
    <2>1. \A s \in Streams : spc[s] = "exit" /\ spc'[s] = "poll"
      BY <1>2 DEF StartWorkers, TraceInv, Quiet
    <2>2. \A x, m : WorkerRefers(x, m)' <=> WorkerRefers(x, m)
      BY <2>1 DEF WorkerRefers, Storing
    <2>3. Announces
      BY <1>2, <2>2, SameReferences, NothingAnnounced DEF StartWorkers
    <2> QED
      BY <2>3, AnnouncesShuffles
  <1>3. CASE \E i \in toFeed : ProveResident(i)
    BY <1>3, ProveResidentAnnounces, AnnouncesShuffles
  <1>4. CASE Dismiss \/ Unwind
    BY <1>4, SentinelsAnnounceNothing, AnnouncesShuffles DEF Dismiss, Unwind, SlotsInv
  <1>5. CASE FailCancelled
    <2>1. \A s \in Streams : hpc[s] = "exit" /\ spc[s] = "exit"
      BY <1>5 DEF FailCancelled, SlotsInv, Phases, TraceInv, Quiet
    <2> QED
      BY <1>5, <2>1, ResetShuffles DEF FailCancelled
  <1>6. CASE \/ (\E i \in toFeed : Feed(i)) \/ EndFeed
             \/ (\E i \in toCalculate : ComputeWitness(i)) \/ EndWitness
             \/ WaitZero \/ Join \/ Succeed \/ UnwindJoin
    <2>1. UNCHANGED <<inFlight, recursiveRx, slots, ongoing, handlerVars, workerVars>>
      BY <1>6 DEF Feed, EndFeed, ComputeWitness, EndWitness, WaitZero, Join, Succeed,
         UnwindJoin
    <2> QED
      BY <2>1, SameReferences, NothingAnnounced, AnnouncesShuffles
  <1> QED
    BY <1>1, <1>2, <1>3, <1>4, <1>5, <1>6 DEF Main

(* A device stream is done: its report goes to the channel.                 *)
LEMMA StreamDoneAnnounces ==
  ASSUME TypeOK, SlotsInv, NEW n \in inFlight, StreamDone(n)
  PROVE  Shuffles /\ (callback => Announces)
  <1> DEFINE z == Len(recursiveRx) + 1
  <1>1. /\ inFlight' = inFlight \ {n} /\ Report(n)
        /\ UNCHANGED <<slots, ongoing, handlerVars, workerVars>>
    BY DEF StreamDone, proofVars
  <1>2. n \in Reports
    BY DEF SlotsInv, Messages
  <1>3. /\ \A m \in Reports : \A x :
             QueueRefers(x, m)' <=> QueueRefers(x, m) \/ (callback /\ m = n /\ x = z)
        /\ \A m : Filled(m)' <=> Filled(m)
        /\ \A x, m : WorkerRefers(x, m)' <=> WorkerRefers(x, m)
        /\ \A x, m : HandlerRefers(x, m)' <=> HandlerRefers(x, m)
    BY <1>1, <1>2, ReportRefers, SameReferences DEF SlotsInv
  <1>4. Refers("device", n, n)
    BY DEF Refers
  <1>5. Filled(n) /\ \A k, x : Refers(k, x, n) => k = "device" /\ x = n
    BY <1>2, <1>4 DEF SlotsInv, OneReference, RefersToFilled
  <1>6. \A x : ~QueueRefers(x, n) /\ ~WorkerRefers(x, n) /\ ~HandlerRefers(x, n)
    BY <1>5 DEF Refers
  <1>7. \A m \in Reports \ {n} : RefKeeps(m)
    BY <1>1, <1>3 DEF RefKeeps, Refers
  <1>8. CASE callback
    <2>1. RefOnlyAt(n, "queue", z)
      BY <1>1, <1>2, <1>3, <1>6, <1>8 DEF RefOnlyAt, Refers
    <2>2. RefGoes(n)
      BY <1>3, <1>5, <2>1 DEF RefGoes
    <2>3. Announces
      BY <1>7, <2>2, Zenon DEF Announces
    <2> QED
      BY <2>3, AnnouncesShuffles
  <1>9. CASE ~callback
    <2>1. RefFalls(n)
      BY <1>1, <1>2, <1>3, <1>6, <1>9 DEF RefFalls, Refers
    <2>2. \A m \in Reports \ {n} : RefDrops(m)
      BY <1>7 DEF RefKeeps, RefDrops
    <2> QED
      BY <1>9, <2>1, <2>2, Zenon DEF Shuffles
  <1> QED
    BY <1>8, <1>9

LEMMA OthersShuffle ==
  ASSUME TypeOK, TraceInv, SlotsInv, Device \/ Fault \/ Restart \/ Returned
  PROVE  Shuffles /\ (~Fault /\ ~Restart /\ callback => Announces)
  <1> USE DEF proofVars, deviceVars
  <1>1. CASE Device
    BY <1>1, StreamDoneAnnounces DEF Device
  <1>2. CASE \/ Cancel \/ FailPrecalculate \/ Returned
             \/ (\E i \in toCalculate : FailWitness(i)) \/ (\E i \in toFeed : FailResident(i))
    <2>1. UNCHANGED <<inFlight, recursiveRx, slots, ongoing, handlerVars, workerVars>>
      BY <1>2 DEF Cancel, FailPrecalculate, Returned, FailWitness, FailResident, vars
    <2> QED
      BY <2>1, SameReferences, NothingAnnounced, AnnouncesShuffles
  <1>3. CASE Restart
    <2>1. \A s \in Streams : hpc[s] = "exit" /\ spc[s] = "exit"
      BY <1>3 DEF Restart, SlotsInv, Phases, TraceInv, Quiet
    <2> QED
      BY <1>3, <2>1, ResetShuffles DEF Restart
  <1>4. CASE \E h \in Streams : FailRecursiveWitness(h)
    <2>1. PICK h \in Streams : FailRecursiveWitness(h)
      BY <1>4
    <2>2. /\ hpc[h] # "take" /\ HandlerTo(h, "exit", None)
          /\ UNCHANGED <<inFlight, recursiveRx, slots, ongoing, workerVars>>
      BY <2>1 DEF FailRecursiveWitness
    <2>3. \A x, m : HandlerRefers(x, m)' <=> HandlerRefers(x, m)
      BY <2>2, HandlerToRefers DEF HandlerRefers, TypeOK
    <2> QED
      BY <2>2, <2>3, SameReferences, NothingAnnounced, AnnouncesShuffles
  <1>5. CASE \E s \in Streams : FailWorker(s)
    <2>1. PICK s \in Streams : FailWorker(s)
      BY <1>5
    <2>2. /\ WorkerTo(s, "exit", None)
          /\ UNCHANGED <<inFlight, recursiveRx, slots, ongoing, handlerVars>>
      BY <2>1 DEF FailWorker
    <2>3. \A x, m : WorkerRefers(x, m)' => WorkerRefers(x, m)
      BY <2>2, WorkerToRefers DEF TypeOK
    <2>4. \A m : RefDrops(m)
      BY <2>2, <2>3, SameReferences DEF RefDrops, Refers
    <2> QED
      BY <1>5, <2>4 DEF Shuffles, Fault
  <1> QED
    BY <1>1, <1>2, <1>3, <1>4, <1>5 DEF Fault

-----------------------------------------------------------------------------
(* The first message leaves the channel; those behind it move up.           *)
LEMMA ReceiveRefers ==
  ASSUME Messages, recursiveRx # <<>>, recursiveRx' = Tail(recursiveRx)
  PROVE  \A m \in Reports : \A x :
           QueueRefers(x, m)' <=> x \in 1 .. Len(recursiveRx) - 1 /\ recursiveRx[x + 1] = m
  BY DEF Messages, QueueRefers

LEMMA ReceiveShuffles ==
  ASSUME TypeOK, SlotsInv, NEW h \in Streams, Receive(h)
  PROVE  Shuffles /\ (~cancelled /\ aggregate => Announces)
  <1>0. PICK n : n = Head(recursiveRx)
    OBVIOUS
  <1>1. /\ recursiveRx # <<>> /\ recursiveRx' = Tail(recursiveRx) /\ hpc[h] = "recv"
        /\ UNCHANGED <<inFlight, slots, ongoing, workerVars>>
    BY DEF Receive, proofVars
  <1>2. /\ recursiveRx \in Seq(Reports \cup {Sentinel}) /\ Len(recursiveRx) \in Nat
        /\ 1 \in DOMAIN recursiveRx /\ n = recursiveRx[1]
        /\ DOMAIN recursiveRx = 1 .. Len(recursiveRx)
    BY <1>0, <1>1 DEF SlotsInv, Messages
  <1>3. \A m \in Reports : \A x :
          QueueRefers(x, m)' <=> x \in 1 .. Len(recursiveRx) - 1 /\ recursiveRx[x + 1] = m
    BY <1>1, ReceiveRefers DEF SlotsInv
  <1>4. /\ \A m : Filled(m)' <=> Filled(m)
        /\ \A x, m : WorkerRefers(x, m)' <=> WorkerRefers(x, m)
    BY <1>1, SameReferences
  <1>5. Sentinel \notin Reports
    BY DEF Sentinel, Reports, ProofTypes, ChainTypes
  <1>6. \E pc, job : /\ HandlerTo(h, pc, job)
                     /\ pc = "take" => job = n
                     /\ n # Sentinel /\ ~cancelled /\ aggregate => pc = "take"
    BY <1>0 DEF Receive
  <1>7. /\ \A x, m : x # h => (HandlerRefers(x, m)' <=> HandlerRefers(x, m))
        /\ \A m : ~HandlerRefers(h, m) /\ (HandlerRefers(h, m)' => m = n)
        /\ n # Sentinel /\ ~cancelled /\ aggregate => HandlerRefers(h, n)'
    <2>1. PICK pc, job : /\ HandlerTo(h, pc, job)
                         /\ pc = "take" => job = n
                         /\ n # Sentinel /\ ~cancelled /\ aggregate => pc = "take"
      BY <1>6
    <2>2. \A m : ~HandlerRefers(h, m)
      BY <1>1 DEF HandlerRefers
    <2>3. /\ \A x, m : x # h => (HandlerRefers(x, m)' <=> HandlerRefers(x, m))
          /\ \A m : HandlerRefers(h, m)' <=> pc = "take" /\ job = m
      BY <2>1, HandlerToRefers DEF TypeOK
    <2> QED
      BY <2>1, <2>2, <2>3
  <1>8. ASSUME NEW m \in Reports, m # n PROVE RefKeeps(m) \/ RefGoes(m)
    <2>1. \A x : HandlerRefers(x, m)' <=> HandlerRefers(x, m)
      BY <1>7, <1>8
    <2>2. CASE \E j : QueueRefers(j, m)
      <3>1. PICK j : QueueRefers(j, m)
        BY <2>2
      <3>2. j \in 2 .. Len(recursiveRx) /\ recursiveRx[j] = m
        BY <1>2, <1>8, <3>1 DEF QueueRefers
      <3>3. Filled(m) /\ \A k, x : Refers(k, x, m) => k = "queue" /\ x = j
        BY <3>1 DEF Refers, SlotsInv, OneReference, RefersToFilled
      <3>4. /\ \A x : /\ ~WorkerRefers(x, m) /\ ~HandlerRefers(x, m)
                      /\ QueueRefers(x, m) => x = j
            /\ m \notin inFlight
        BY <3>3 DEF Refers
      <3>5. \A x : QueueRefers(x, m)' <=> x = j - 1
        <4>1. ASSUME NEW x, QueueRefers(x, m)' PROVE x = j - 1
          <5>1. x \in 1 .. Len(recursiveRx) - 1 /\ recursiveRx[x + 1] = m
            BY <1>3, <4>1
          <5>2. QueueRefers(x + 1, m)
            BY <1>2, <5>1 DEF QueueRefers
          <5>3. x + 1 = j
            BY <3>4, <5>2
          <5> QED
            BY <3>2, <5>1, <5>3
        <4>2. QueueRefers(j - 1, m)'
          BY <1>2, <1>3, <3>2
        <4> QED
          BY <4>1, <4>2
      <3>6. RefOnlyAt(m, "queue", j - 1)
        BY <1>1, <1>4, <2>1, <3>4, <3>5 DEF RefOnlyAt, Refers
      <3> QED
        BY <1>4, <3>3, <3>6 DEF RefGoes
    <2>3. CASE ~\E j : QueueRefers(j, m)
      <3>1. \A x : ~QueueRefers(x, m)'
        BY <1>2, <1>3, <2>3 DEF QueueRefers
      <3> QED
        BY <1>1, <1>4, <2>1, <2>3, <3>1 DEF RefKeeps, Refers
    <2> QED
      BY <2>2, <2>3
  <1>9. ASSUME n \in Reports
        PROVE  (RefGoes(n) \/ RefFalls(n)) /\ (~cancelled /\ aggregate => RefGoes(n))
    <2>1. QueueRefers(1, n)
      BY <1>2 DEF QueueRefers
    <2>2. Filled(n) /\ \A k, x : Refers(k, x, n) => k = "queue" /\ x = 1
      BY <1>9, <2>1 DEF Refers, SlotsInv, OneReference, RefersToFilled
    <2>3. /\ \A x : /\ ~WorkerRefers(x, n) /\ ~HandlerRefers(x, n)
                    /\ QueueRefers(x, n) => x = 1
          /\ n \notin inFlight
      BY <2>2 DEF Refers
    <2>4. \A x : ~QueueRefers(x, n)'
      <3> SUFFICES ASSUME NEW x, QueueRefers(x, n)' PROVE FALSE
        OBVIOUS
      <3>1. x \in 1 .. Len(recursiveRx) - 1 /\ recursiveRx[x + 1] = n
        BY <1>3, <1>9
      <3>2. QueueRefers(x + 1, n)
        BY <1>2, <3>1 DEF QueueRefers
      <3> QED
        BY <2>3, <3>1, <3>2
    <2>5. CASE HandlerRefers(h, n)'
      <3>1. RefOnlyAt(n, "handler", h)
        BY <1>1, <1>4, <1>7, <2>3, <2>4, <2>5 DEF RefOnlyAt, Refers
      <3> QED
        BY <1>4, <2>2, <3>1 DEF RefGoes
    <2>6. CASE ~HandlerRefers(h, n)'
      <3>1. RefFalls(n)
        BY <1>1, <1>4, <1>7, <2>3, <2>4, <2>6 DEF RefFalls, Refers
      <3> QED
        BY <1>5, <1>7, <1>9, <2>6, <3>1
    <2> QED
      BY <2>5, <2>6
  <1>10. \A m : RefKeeps(m) => RefDrops(m)
    BY DEF RefKeeps, RefDrops
  <1> QED
    BY <1>8, <1>9, <1>10, Zenon DEF Shuffles, Announces

(* What each kind of reference is.                                          *)
LEMMA ReferenceKinds ==
  /\ \A x, m : WorkerRefers(x, m) => Refers("worker", x, m)
  /\ \A x, m : QueueRefers(x, m) => Refers("queue", x, m)
  /\ \A x, m : HandlerRefers(x, m) => Refers("handler", x, m)
  /\ \A m \in inFlight : Refers("device", m, m)
  BY DEF Refers

(* A handler that takes the proof of its message is done with it.           *)
LEMMA TakeEnds ==
  ASSUME TypeOK, SlotsInv, NEW h \in Streams, hpc[h] = "take", NEW n, n = hjob[h],
         NEW pc, pc # "take", NEW job, HandlerTo(h, pc, job),
         UNCHANGED <<inFlight, recursiveRx, workerVars>>,
         ~Filled(n)', \A m \in Reports \ {n} : Filled(m)' <=> Filled(m)
  PROVE  Announces
  <1>1. /\ \A x, m : x # h => (HandlerRefers(x, m)' <=> HandlerRefers(x, m))
        /\ \A m : ~HandlerRefers(h, m)'
    BY HandlerToRefers DEF TypeOK
  <1>2. /\ \A x, m : WorkerRefers(x, m)' <=> WorkerRefers(x, m)
        /\ \A x, m : QueueRefers(x, m)' <=> QueueRefers(x, m)
    BY SameReferences
  <1>3. n \in Reports /\ HandlerRefers(h, n) /\ \A m : HandlerRefers(h, m) => m = n
    BY DEF SlotsInv, Messages, HandlerRefers
  <1>4. \A k, x : Refers(k, x, n) => k = "handler" /\ x = h
    BY <1>3 DEF SlotsInv, OneReference, Refers
  <1>5. /\ \A x : ~WorkerRefers(x, n) /\ ~QueueRefers(x, n)
        /\ \A x : HandlerRefers(x, n) => x = h
        /\ n \notin inFlight
    BY <1>4, ReferenceKinds
  <1>6. RefEnds(n)
    BY <1>1, <1>2, <1>5 DEF RefEnds, RefFalls, Refers
  <1>7. ASSUME NEW m \in Reports, m # n PROVE RefKeeps(m)
    <2>1. \A x : HandlerRefers(x, m)' <=> HandlerRefers(x, m)
      BY <1>1, <1>3, <1>7
    <2> QED
      BY <1>2, <1>7, <2>1 DEF RefKeeps, Refers
  <1> QED
    BY <1>6, <1>7, Zenon DEF Announces

(* A proof taken from a slot empties that slot and no other.                *)
LEMMA SlotEmptied ==
  ASSUME TypeOK, SlotsInv, NEW p \in slots, slots' = slots \ {p}, UNCHANGED ongoing,
         NEW n, n = Done(p)
  PROVE  ~Filled(n)' /\ \A m \in Reports \ {n} : Filled(m)' <=> Filled(m)
  <1>1. n.type # "Recursive2"
    BY SlotProof DEF Done
  <1>2. \A q \in slots : Done(q) = n => q = p
    <2> SUFFICES ASSUME NEW q \in slots, Done(q) = n PROVE q = p
      OBVIOUS
    <2>1. q.type = p.type /\ q.id = p.id
      BY DEF Done
    <2>2. q = Proof(q.type, q.id) /\ p = Proof(p.type, p.id)
      BY SlotProof
    <2> QED
      BY <2>1, <2>2
  <1>3. ~Filled(n)'
    BY <1>1, <1>2 DEF Filled
  <1>4. \A m \in Reports \ {n} : Filled(m)' <=> Filled(m)
    BY DEF Filled
  <1> QED
    BY <1>3, <1>4

LEMMA PositionEmptied ==
  ASSUME TypeOK, NEW n \in Reports, n.type = "Recursive2", n.id \in DOMAIN ongoing,
         ongoing' = [ongoing EXCEPT ![n.id] = None], UNCHANGED slots
  PROVE  ~Filled(n)' /\ \A m \in Reports \ {n} : Filled(m)' <=> Filled(m)
  <1>1. \A m \in Reports \ {n} : m.type = "Recursive2" => m.id # n.id
    BY DEF Reports
  <1>2. DOMAIN ongoing' = DOMAIN ongoing /\ ongoing'[n.id] = None
    OBVIOUS
  <1>3. \A k \in DOMAIN ongoing : k # n.id => ongoing'[k] = ongoing[k]
    OBVIOUS
  <1> QED
    BY <1>1, <1>2, <1>3 DEF Filled

LEMMA JoinGoesOn ==
  ASSUME NEW h, NEW p, JoinAirgroup(h, p)
  PROVE  \E pc \in {"decrement", "buffer"} : \E job : HandlerTo(h, pc, job)
  <1>1. CASE Cardinality(pool[p.airgroup] \cup {p.leaves}) < NRecursive
    BY <1>1 DEF JoinAirgroup
  <1>2. CASE ~(Cardinality(pool[p.airgroup] \cup {p.leaves}) < NRecursive)
    BY <1>2 DEF JoinAirgroup
  <1> QED
    BY <1>1, <1>2

(* A handler.                                                               *)
LEMMA HandlerShuffles ==
  ASSUME TypeOK, TraceInv, SlotsInv, NEW h \in Streams, Handler(h)
  PROVE  Shuffles /\ (~cancelled /\ aggregate => Announces)
  <1> USE DEF proofVars, deviceVars
  <1>1. CASE Receive(h)
    BY <1>1, ReceiveShuffles
  <1>2. CASE TakeProof(h)
    <2>1. PICK p \in slots : /\ slots' = slots \ {p} /\ Done(p) = hjob[h]
                             /\ HandlerTo(h, "buffer", Proof(NextType(p), p.id))
      BY <1>2 DEF TakeProof
    <2>2. /\ hpc[h] = "take"
          /\ UNCHANGED <<inFlight, recursiveRx, workerVars, ongoing>>
      BY <1>2 DEF TakeProof
    <2>3. PICK n : n = Done(p)
      OBVIOUS
    <2>4. ~Filled(n)' /\ \A m \in Reports \ {n} : Filled(m)' <=> Filled(m)
      BY <2>1, <2>2, <2>3, SlotEmptied
    <2> QED
      BY <2>1, <2>2, <2>3, <2>4, TakeEnds, AnnouncesShuffles
  <1>3. CASE TakeRecursive1(h)
    <2>1. PICK p \in slots : /\ slots' = slots \ {p} /\ Done(p) = hjob[h]
                             /\ JoinAirgroup(h, p)
      BY <1>3 DEF TakeRecursive1
    <2>2. /\ hpc[h] = "take"
          /\ UNCHANGED <<inFlight, recursiveRx, workerVars, ongoing>>
      BY <1>3 DEF TakeRecursive1
    <2>3. PICK n : n = Done(p)
      OBVIOUS
    <2>4. ~Filled(n)' /\ \A m \in Reports \ {n} : Filled(m)' <=> Filled(m)
      BY <2>1, <2>2, <2>3, SlotEmptied
    <2>5. PICK pc \in {"decrement", "buffer"} : \E job : HandlerTo(h, pc, job)
      BY <2>1, JoinGoesOn
    <2> QED
      BY <2>1, <2>2, <2>3, <2>4, <2>5, TakeEnds, AnnouncesShuffles
  <1>4. CASE TakeRecursive2(h)
    <2>1. PICK n : n = hjob[h]
      OBVIOUS
    <2>2. /\ hpc[h] = "take" /\ n.type = "Recursive2" /\ n.id \in DOMAIN ongoing
          /\ ongoing' = [ongoing EXCEPT ![n.id] = None]
          /\ JoinAirgroup(h, ongoing[n.id])
          /\ UNCHANGED <<inFlight, recursiveRx, workerVars, slots>>
      BY <1>4, <2>1 DEF TakeRecursive2
    <2>3. n \in Reports
      BY <2>1, <2>2 DEF SlotsInv, Messages
    <2>4. ~Filled(n)' /\ \A m \in Reports \ {n} : Filled(m)' <=> Filled(m)
      BY <2>2, <2>3, PositionEmptied
    <2>5. PICK pc \in {"decrement", "buffer"} : \E job : HandlerTo(h, pc, job)
      BY <2>2, JoinGoesOn
    <2> QED
      BY <2>1, <2>2, <2>4, <2>5, TakeEnds, AnnouncesShuffles
  <1>5. CASE TakeBuffer(h) \/ Increment(h) \/ Send(h) \/ Decrement(h)
    <2>1. /\ hpc[h] # "take"
          /\ UNCHANGED <<inFlight, recursiveRx, slots, ongoing, workerVars>>
      BY <1>5 DEF TakeBuffer, Increment, Send, Decrement
    <2>2. \E pc, job : HandlerTo(h, pc, job) /\ pc # "take"
      BY <1>5 DEF TakeBuffer, Increment, Send, Decrement
    <2>3. \A x, m : HandlerRefers(x, m)' <=> HandlerRefers(x, m)
      BY <2>1, <2>2, HandlerToRefers DEF HandlerRefers, TypeOK
    <2> QED
      BY <2>1, <2>3, SameReferences, NothingAnnounced, AnnouncesShuffles
  <1> QED
    BY <1>1, <1>2, <1>3, <1>4, <1>5 DEF Handler

-----------------------------------------------------------------------------
(* A worker.                                                                *)

LEMMA WorkReports ==
  ASSUME NEW w \in Work, w.id \in Nat
  PROVE  Done(w) \in Reports /\ Done(w).type = w.type /\ Done(w).id = w.id
  BY DEF Work, ChainWork, MergeWork, Done, Reports, ProofTypes

(* A worker that announces neither before nor after.                        *)
LEMMA SilentWorker ==
  ASSUME WorkerTypes, NEW s \in Streams, ~Storing(s), NEW pc, pc \notin {"commit", "prove"},
         NEW job, WorkerTo(s, pc, job),
         UNCHANGED <<inFlight, recursiveRx, slots, handlerVars>>,
         \A m \in Reports : Filled(m)' <=> Filled(m)
  PROVE  Announces
  <1>1. \A x, m : WorkerRefers(x, m)' <=> WorkerRefers(x, m)
    BY WorkerToRefers DEF WorkerRefers
  <1> QED
    BY <1>1, SameReferences DEF Announces, RefKeeps, Refers

LEMMA ProveBasicAnnounces ==
  ASSUME TypeOK, TraceInv, SlotsInv, NEW s \in Streams, ProveBasic(s)
  PROVE  Shuffles /\ (callback \/ Gpu => Announces)
  <1> DEFINE w == sjob[s]
  <1>1. /\ spc[s] = "basic" /\ slots' = slots \cup {w} /\ Submit(Done(w))
        /\ WorkerTo(s, "poll", None) /\ UNCHANGED <<ongoing, handlerVars>>
    BY DEF ProveBasic
  <1>2. w \in ChainWork /\ w.type = "Basic" /\ w = Proof("Basic", w.id)
    BY <1>1 DEF TypeOK, WorkerTypes, SlotsInv, Shapes, WorkerShapes, Holding, Shaped
  <1>3. w.id \in Instances /\ w.id \in w.leaves
    BY <1>2, ChainDone DEF Proof
  <1>4. At("worker", s, w.id)
    BY <1>1, <1>3 DEF At, WorkerHas, Holding
  <1>5. PICK n : n = Done(w)
    OBVIOUS
  <1>6. n \in Reports /\ \A k, x : ~Refers(k, x, n)
    BY <1>2, <1>3, <1>4, <1>5, ElsewhereUnannounced DEF ChainTypes
  <1>7. /\ n \notin inFlight
        /\ \A x : ~QueueRefers(x, n) /\ ~WorkerRefers(x, n) /\ ~HandlerRefers(x, n)
    BY <1>6, ReferenceKinds
  <1>8. \A x, m : WorkerRefers(x, m)' <=> WorkerRefers(x, m)
    BY <1>1, WorkerToRefers DEF WorkerRefers, Storing, TypeOK
  <1>9. \A x, m : HandlerRefers(x, m)' <=> HandlerRefers(x, m)
    BY <1>1, SameReferences
  <1>10. /\ \A m : m # n => (Filled(m)' <=> Filled(m))
         /\ n.type # "Recursive2" => Filled(n)'
    BY <1>1, <1>5, FillsOne
  <1>11. n.type # "Recursive2"
    BY <1>2, <1>5 DEF Done
  <1> QED
    BY <1>1, <1>5, <1>6, <1>7, <1>8, <1>9, <1>10, <1>11, SubmitAnnounces DEF SlotsInv

LEMMA ProveRecursiveAnnounces ==
  ASSUME TypeOK, SlotsInv, NEW s \in Streams, ProveRecursive(s)
  PROVE  Shuffles /\ (callback \/ Gpu => Announces)
  <1> DEFINE w == sjob[s]
  <1>1. /\ spc[s] = "prove" /\ Submit(Done(w)) /\ WorkerTo(s, "poll", None)
        /\ UNCHANGED <<slots, ongoing, handlerVars>>
    BY DEF ProveRecursive, proofVars
  <1>2. PICK n : n = Done(w)
    OBVIOUS
  <1>3. n \in Reports
    BY <1>1, <1>2, WorkReports DEF TypeOK, WorkerTypes
  <1>4. Refers("worker", s, n)
    BY <1>1, <1>2 DEF Refers, WorkerRefers, Storing
  <1>5. Filled(n) /\ \A k, x : Refers(k, x, n) => k = "worker" /\ x = s
    BY <1>3, <1>4 DEF SlotsInv, OneReference, RefersToFilled
  <1>6. /\ n \notin inFlight
        /\ \A x : ~QueueRefers(x, n) /\ ~HandlerRefers(x, n)
        /\ \A x : WorkerRefers(x, n) => x = s
    BY <1>5, ReferenceKinds
  <1>7. /\ \A x, m : x # s => (WorkerRefers(x, m)' <=> WorkerRefers(x, m))
        /\ \A m : ~WorkerRefers(s, m)'
    BY <1>1, WorkerToRefers DEF TypeOK
  <1>8. \A m : WorkerRefers(s, m) => m = n
    BY <1>2 DEF WorkerRefers
  <1>9. /\ \A x, m : HandlerRefers(x, m)' <=> HandlerRefers(x, m)
        /\ \A m : Filled(m)' <=> Filled(m)
    BY <1>1, SameReferences
  <1>10. \A x : ~WorkerRefers(x, n)' /\ ~HandlerRefers(x, n)'
    BY <1>6, <1>7, <1>9
  <1>11. \A m \in Reports \ {n} :
           /\ \A x : WorkerRefers(x, m)' <=> WorkerRefers(x, m)
           /\ \A x : HandlerRefers(x, m)' <=> HandlerRefers(x, m)
           /\ Filled(m)' <=> Filled(m)
    BY <1>7, <1>8, <1>9
  <1> QED
    BY <1>1, <1>2, <1>3, <1>5, <1>6, <1>9, <1>10, <1>11, SubmitAnnounces DEF SlotsInv

(* Storing a proof fills its slot, which was empty.                         *)
LEMMA StoreFills ==
  ASSUME TypeOK, SlotsInv, NEW s \in Streams, Store(s), NEW n, n = Done(sjob[s])
  PROVE  /\ n \in Reports
         /\ \A k, x : ~Refers(k, x, n)
         /\ Filled(n)'
         /\ \A m \in Reports \ {n} : Filled(m)' <=> Filled(m)
  <1> DEFINE w == sjob[s]
  <1>1. /\ w \in Work /\ w.id \in Nat /\ Shaped(w)
        /\ n \in Reports /\ n.type = w.type /\ n.id = w.id
    BY WorkReports DEF Store, TypeOK, WorkerTypes, SlotsInv, Shapes, WorkerShapes, Holding
  <1>2. CASE w.type = "Recursive2"
    <2>1. w.id \in DOMAIN ongoing /\ ongoing[w.id] = None
      BY <1>2 DEF Store, SlotsInv, Positions, ToStore
    <2>2. ongoing' = [ongoing EXCEPT ![w.id] = w] /\ slots' = slots
      BY <1>2 DEF Store
    <2>3. ~Filled(n)
      BY <1>1, <1>2, <2>1 DEF Filled
    <2>4. ongoing'[w.id] = w /\ w # None /\ DOMAIN ongoing' = DOMAIN ongoing
      BY <1>1, <2>1, <2>2, NoneAssumption
    <2>5. Filled(n)'
      BY <1>1, <1>2, <2>1, <2>4 DEF Filled
    <2>6. \A m \in Reports \ {n} : m.type = "Recursive2" => m.id # n.id
      BY <1>1, <1>2 DEF Reports
    <2>7. \A m \in Reports \ {n} : Filled(m)' <=> Filled(m)
      BY <1>1, <2>2, <2>4, <2>6 DEF Filled
    <2>8. \A k, x : ~Refers(k, x, n)
      BY <1>1, <2>3 DEF SlotsInv, RefersToFilled
    <2> QED
      BY <1>1, <2>5, <2>7, <2>8
  <1>3. CASE w.type # "Recursive2"
    <2>1. w \in ChainWork /\ w = Proof(w.type, w.id)
      BY <1>1, <1>3 DEF Work, MergeWork, Shaped
    <2>2. w.type \in ChainTypes /\ w.id \in Instances /\ w.id \in w.leaves
      BY <2>1 DEF ChainWork, Proof
    <2>3. At("worker", s, w.id)
      BY <2>2 DEF At, WorkerHas, Holding, Store
    <2>4. \A k, x : ~Refers(k, x, n)
      BY <2>1, <2>2, <2>3, ElsewhereUnannounced
    <2>5. slots' = slots \cup {w} /\ ongoing' = ongoing
      BY <1>3 DEF Store
    <2>6. /\ \A m : m # n => (Filled(m)' <=> Filled(m))
          /\ n.type # "Recursive2" => Filled(n)'
      BY <2>5, FillsOne
    <2> QED
      BY <1>1, <1>3, <2>4, <2>6
  <1> QED
    BY <1>2, <1>3

LEMMA StoreAnnounces ==
  ASSUME TypeOK, SlotsInv, NEW s \in Streams, Store(s)
  PROVE  Announces
  <1>1. PICK n : n = Done(sjob[s])
    OBVIOUS
  <1>2. /\ n \in Reports
        /\ \A k, x : ~Refers(k, x, n)
        /\ Filled(n)'
        /\ \A m \in Reports \ {n} : Filled(m)' <=> Filled(m)
    BY <1>1, StoreFills
  <1>3. /\ spc[s] = "store" /\ WorkerTo(s, "commit", sjob[s])
        /\ UNCHANGED <<inFlight, recursiveRx, handlerVars>>
    BY DEF Store, deviceVars
  <1>4. /\ \A x, m : x # s => (WorkerRefers(x, m)' <=> WorkerRefers(x, m))
        /\ \A m : ~WorkerRefers(s, m) /\ (WorkerRefers(s, m)' <=> m = n)
    BY <1>1, <1>3, WorkerToRefers DEF WorkerRefers, Storing, TypeOK
  <1>5. /\ \A x, m : HandlerRefers(x, m)' <=> HandlerRefers(x, m)
        /\ \A x, m : QueueRefers(x, m)' <=> QueueRefers(x, m)
    BY <1>3, SameReferences
  <1>6. /\ n \notin inFlight
        /\ \A x : ~QueueRefers(x, n) /\ ~WorkerRefers(x, n) /\ ~HandlerRefers(x, n)
    BY <1>2, ReferenceKinds
  <1>7. RefOnlyAt(n, "worker", s)
    BY <1>3, <1>4, <1>5, <1>6 DEF RefOnlyAt, Refers
  <1>8. RefGoes(n)
    BY <1>2, <1>7 DEF RefGoes
  <1>9. ASSUME NEW m \in Reports, m # n PROVE RefKeeps(m)
    <2>1. \A x : WorkerRefers(x, m)' <=> WorkerRefers(x, m)
      BY <1>4, <1>9
    <2> QED
      BY <1>2, <1>3, <1>5, <1>9, <2>1 DEF RefKeeps, Refers
  <1> QED
    BY <1>8, <1>9, Zenon DEF Announces

LEMMA WorkerShuffles ==
  ASSUME TypeOK, TraceInv, SlotsInv, NEW s \in Streams, Worker(s)
  PROVE  Shuffles /\ (callback \/ Gpu => Announces)
  <1> USE DEF proofVars, deviceVars
  <1>1. CASE \E i \in proofsRx : PollProofs(s, i)
    <2>1. PICK i \in proofsRx : PollProofs(s, i)
      BY <1>1
    <2>2. /\ spc[s] = "poll"
          /\ UNCHANGED <<inFlight, recursiveRx, slots, ongoing, handlerVars>>
          /\ WorkerTo(s, "basic", Proof("Basic", i)) \/ UNCHANGED workerVars
      BY <2>1 DEF PollProofs
    <2>3. CASE UNCHANGED workerVars
      BY <2>2, <2>3, SameReferences, NothingAnnounced, AnnouncesShuffles
    <2>4. CASE WorkerTo(s, "basic", Proof("Basic", i))
      <3>1. Announces
        BY <2>2, <2>4, SameReferences, SilentWorker DEF Storing, TypeOK
      <3> QED
        BY <3>1, AnnouncesShuffles
    <2> QED
      BY <2>2, <2>3, <2>4
  <1>2. CASE \/ PollWitness(s) \/ SelectDefault(s)
             \/ (\E w \in witnessRx : Select(s, w))
    <2>1. /\ ~Storing(s)
          /\ UNCHANGED <<inFlight, recursiveRx, slots, ongoing, handlerVars>>
          /\ \E pc, job : pc \notin {"commit", "prove"} /\ WorkerTo(s, pc, job)
      BY <1>2 DEF PollWitness, SelectDefault, Select, Storing
    <2>2. Announces
      BY <2>1, SameReferences, SilentWorker DEF TypeOK
    <2> QED
      BY <2>2, AnnouncesShuffles
  <1>3. CASE Register(s)
    <2>1. /\ spc[s] = "register" /\ ongoing' = Append(ongoing, None)
          /\ WorkerTo(s, "store", [sjob[s] EXCEPT !.id = Len(ongoing) + 1])
          /\ UNCHANGED <<inFlight, recursiveRx, slots, handlerVars>>
      BY <1>3 DEF Register
    <2>2. \A k : k \in DOMAIN ongoing' /\ ongoing'[k] # None <=>
                 k \in DOMAIN ongoing /\ ongoing[k] # None
      BY <2>1 DEF TypeOK, StoreTypes
    <2>3. \A m \in Reports : Filled(m)' <=> Filled(m)
      BY <2>1, <2>2 DEF Filled
    <2>4. Announces
      BY <2>1, <2>3, SilentWorker DEF Storing, TypeOK
    <2> QED
      BY <2>4, AnnouncesShuffles
  <1>4. CASE Commit(s)
    <2>1. /\ spc[s] = "commit" /\ WorkerTo(s, "prove", sjob[s])
          /\ UNCHANGED <<inFlight, recursiveRx, slots, ongoing, handlerVars>>
      BY <1>4 DEF Commit
    <2>2. \A x, m : WorkerRefers(x, m)' <=> WorkerRefers(x, m)
      BY <2>1, WorkerToRefers DEF WorkerRefers, Storing, TypeOK
    <2> QED
      BY <2>1, <2>2, SameReferences, NothingAnnounced, AnnouncesShuffles
  <1> QED
    BY <1>1, <1>2, <1>3, <1>4, ProveBasicAnnounces, ProveRecursiveAnnounces, StoreAnnounces,
       AnnouncesShuffles DEF Worker

LEMMA NextShuffles ==
  ASSUME TypeOK, TraceInv, SlotsInv, [Next]_vars
  PROVE  Shuffles
  <1>1. CASE UNCHANGED vars
    <2>1. UNCHANGED <<inFlight, recursiveRx, slots, ongoing, handlerVars, workerVars>>
      BY <1>1 DEF vars, proofVars, deviceVars
    <2> QED
      BY <2>1, SameReferences, NothingAnnounced, AnnouncesShuffles
  <1> QED
    BY <1>1, MainShuffles, HandlerShuffles, WorkerShuffles, OthersShuffle DEF Next

-----------------------------------------------------------------------------
(* Messages stay reports.                                                   *)

LEMMA SameMessages ==
  ASSUME Messages, UNCHANGED <<inFlight, recursiveRx, handlerVars>>
  PROVE  Messages'
  BY DEF Messages, handlerVars

LEMMA HandlerToMessages ==
  ASSUME Messages, HandlerTypes, NEW h \in Streams, NEW pc, NEW job, HandlerTo(h, pc, job),
         pc = "take" => job \in Reports, UNCHANGED inFlight,
         recursiveRx' \in Seq(Reports \cup {Sentinel})
  PROVE  Messages'
  BY DEF Messages, HandlerTypes, HandlerTo

LEMMA SubmitMessages ==
  ASSUME Messages, NEW n \in Reports, Submit(n), UNCHANGED handlerVars
  PROVE  Messages'
  <1>1. CASE Gpu
    BY <1>1 DEF Submit, Messages, handlerVars
  <1>2. CASE ~Gpu
    BY <1>2 DEF Submit, Report, Messages, handlerVars
  <1> QED
    BY <1>1, <1>2

LEMMA MainMessages ==
  ASSUME TypeOK, TraceInv, SlotsInv, Main
  PROVE  Messages'
  <1> USE DEF deviceVars, proofVars
  <1>1. CASE \E i \in toFeed : ProveResident(i)
    <2>1. PICK i \in toFeed : ProveResident(i)
      BY <1>1
    <2>2. Proof("Basic", i) \in ChainWork
      BY ProofIsWork DEF TypeOK, FeedTypes, ChainTypes
    <2>3. Done(Proof("Basic", i)) \in Reports
      BY <2>2, ChainDone, WorkReports
    <2> QED
      BY <2>1, <2>3 DEF ProveResident, SlotsInv, Messages, handlerVars
  <1>2. CASE Start
    BY <1>2 DEF Start, SlotsInv, Messages
  <1>3. CASE Dismiss \/ Unwind
    <2>1. Sentinels \in Seq(Reports \cup {Sentinel})
      BY SystemAssumption, FS_CardinalityType DEF Sentinels
    <2>2. recursiveRx' = recursiveRx \o Sentinels
      BY <1>3 DEF Dismiss, Unwind
    <2>3. recursiveRx' \in Seq(Reports \cup {Sentinel})
      BY <2>1, <2>2, ConcatProperties DEF SlotsInv, Messages
    <2> QED
      BY <1>3, <2>3 DEF Dismiss, Unwind, SlotsInv, Messages, handlerVars
  <1>4. CASE FailCancelled
    BY <1>4 DEF FailCancelled, Reset, SlotsInv, Messages, handlerVars
  <1>5. CASE \/ (\E i \in toFeed : Feed(i)) \/ EndFeed \/ StartWorkers
             \/ (\E i \in toCalculate : ComputeWitness(i)) \/ EndWitness
             \/ WaitZero \/ Join \/ Succeed \/ UnwindJoin
    <2>1. UNCHANGED <<inFlight, recursiveRx, handlerVars>>
      BY <1>5 DEF Feed, EndFeed, ComputeWitness, EndWitness, WaitZero, Join, Succeed,
         UnwindJoin, StartWorkers
    <2> QED
      BY <2>1, SameMessages DEF SlotsInv
  <1> QED
    BY <1>1, <1>2, <1>3, <1>4, <1>5 DEF Main

LEMMA HandlerMessages ==
  ASSUME TypeOK, SlotsInv, NEW h \in Streams, Handler(h)
  PROVE  Messages'
  <1> USE DEF deviceVars
  <1>1. CASE Receive(h)
    <2>1. /\ recursiveRx # <<>> /\ recursiveRx' = Tail(recursiveRx) /\ UNCHANGED inFlight
          /\ recursiveRx \in Seq(Reports \cup {Sentinel})
      BY <1>1 DEF Receive, SlotsInv, Messages
    <2>2. /\ recursiveRx' \in Seq(Reports \cup {Sentinel})
          /\ Head(recursiveRx) \in Reports \cup {Sentinel}
      BY <2>1
    <2>3. \/ HandlerTo(h, "exit", None)
          \/ HandlerTo(h, "decrement", None)
          \/ Head(recursiveRx) # Sentinel /\ HandlerTo(h, "take", Head(recursiveRx))
      BY <1>1 DEF Receive
    <2>4. CASE HandlerTo(h, "exit", None) \/ HandlerTo(h, "decrement", None)
      BY <2>1, <2>2, <2>4, HandlerToMessages DEF SlotsInv, TypeOK
    <2>5. CASE Head(recursiveRx) # Sentinel /\ HandlerTo(h, "take", Head(recursiveRx))
      BY <2>1, <2>2, <2>5, HandlerToMessages DEF SlotsInv, TypeOK
    <2> QED
      BY <2>3, <2>4, <2>5
  <1>2. CASE \/ TakeProof(h) \/ TakeRecursive1(h) \/ TakeRecursive2(h) \/ TakeBuffer(h)
             \/ Increment(h) \/ Send(h) \/ Decrement(h)
    <2>1. UNCHANGED <<inFlight, recursiveRx>>
      BY <1>2 DEF TakeProof, TakeRecursive1, TakeRecursive2, TakeBuffer, Increment, Send,
         Decrement
    <2>2. \E pc, job : pc # "take" /\ HandlerTo(h, pc, job)
      <3>1. CASE TakeRecursive1(h)
        <4>1. PICK p \in slots : JoinAirgroup(h, p)
          BY <3>1 DEF TakeRecursive1
        <4> QED
          BY <4>1, JoinGoesOn
      <3>2. CASE TakeRecursive2(h)
        <4>1. JoinAirgroup(h, ongoing[hjob[h].id])
          BY <3>2 DEF TakeRecursive2
        <4> QED
          BY <4>1, JoinGoesOn
      <3>3. CASE TakeProof(h) \/ TakeBuffer(h) \/ Increment(h) \/ Send(h) \/ Decrement(h)
        BY <3>3 DEF TakeProof, TakeBuffer, Increment, Send, Decrement
      <3> QED
        BY <1>2, <3>1, <3>2, <3>3
    <2>3. recursiveRx' \in Seq(Reports \cup {Sentinel})
      BY <2>1 DEF SlotsInv, Messages
    <2> QED
      BY <2>1, <2>2, <2>3, HandlerToMessages DEF SlotsInv, TypeOK
  <1> QED
    BY <1>1, <1>2 DEF Handler

LEMMA WorkerMessages ==
  ASSUME TypeOK, SlotsInv, NEW s \in Streams, Worker(s)
  PROVE  Messages'
  <1>1. CASE ProveBasic(s)
    <2>0. sjob[s] \in ChainWork
      BY <1>1 DEF ProveBasic, TypeOK, WorkerTypes
    <2>1. Done(sjob[s]) \in Reports
      BY <2>0, ChainDone, WorkReports
    <2> QED
      BY <1>1, <2>1, SubmitMessages DEF ProveBasic, SlotsInv
  <1>2. CASE ProveRecursive(s)
    <2>0. sjob[s] \in Work /\ sjob[s].id \in Nat
      BY <1>2 DEF ProveRecursive, TypeOK, WorkerTypes
    <2>1. Done(sjob[s]) \in Reports
      BY <2>0, WorkReports
    <2> QED
      BY <1>2, <2>1, SubmitMessages DEF ProveRecursive, SlotsInv
  <1>3. CASE \/ (\E i \in proofsRx : PollProofs(s, i)) \/ PollWitness(s) \/ SelectDefault(s)
             \/ (\E w \in witnessRx : Select(s, w)) \/ Register(s) \/ Store(s) \/ Commit(s)
    <2>1. UNCHANGED <<inFlight, recursiveRx, handlerVars>>
      BY <1>3 DEF PollProofs, PollWitness, SelectDefault, Select, Register, Store, Commit,
         deviceVars
    <2> QED
      BY <2>1, SameMessages DEF SlotsInv
  <1> QED
    BY <1>1, <1>2, <1>3 DEF Worker

LEMMA NextMessages ==
  ASSUME TypeOK, TraceInv, SlotsInv, [Next]_vars
  PROVE  Messages'
  <1> USE DEF deviceVars
  <1>1. CASE Device
    <2>1. PICK n \in inFlight : StreamDone(n)
      BY <1>1 DEF Device
    <2>2. n \in Reports /\ Report(n) /\ inFlight' = inFlight \ {n} /\ UNCHANGED handlerVars
      BY <2>1 DEF StreamDone, SlotsInv, Messages
    <2> QED
      BY <2>2 DEF Report, SlotsInv, Messages, handlerVars
  <1>2. CASE \/ Cancel \/ FailPrecalculate \/ Returned \/ UNCHANGED vars
             \/ (\E i \in toCalculate : FailWitness(i)) \/ (\E i \in toFeed : FailResident(i))
             \/ (\E s \in Streams : FailWorker(s))
    <2>1. UNCHANGED <<inFlight, recursiveRx, handlerVars>>
      BY <1>2 DEF Cancel, FailPrecalculate, Returned, FailWitness, FailResident, FailWorker,
         vars
    <2> QED
      BY <2>1, SameMessages DEF SlotsInv
  <1>3. CASE Restart
    BY <1>3 DEF Restart, Reset, SlotsInv, Messages, handlerVars
  <1>4. CASE \E h \in Streams : FailRecursiveWitness(h)
    <2>1. PICK h \in Streams : FailRecursiveWitness(h)
      BY <1>4
    <2>2. HandlerTo(h, "exit", None) /\ UNCHANGED <<inFlight, recursiveRx>>
      BY <2>1 DEF FailRecursiveWitness
    <2>3. recursiveRx' \in Seq(Reports \cup {Sentinel})
      BY <2>2 DEF SlotsInv, Messages
    <2> QED
      BY <2>2, <2>3, HandlerToMessages DEF SlotsInv, TypeOK
  <1> QED
    BY <1>1, <1>2, <1>3, <1>4, MainMessages, HandlerMessages, WorkerMessages DEF Next, Fault

-----------------------------------------------------------------------------
(* A position is given to one proof and stays its own.                      *)

LEMMA SamePositions ==
  /\ Positions /\ UNCHANGED <<ongoing, workerVars>> => Positions'
  /\ StoredStay /\ UNCHANGED <<slots, ongoing, workerVars>> => StoredStay'
  BY DEF Positions, StoredStay, ToStore, Storing, InSlot, workerVars

LEMMA NobodyStores ==
  ASSUME \A s \in Streams : spc'[s] \in {"exit", "poll"}
  PROVE  Positions' /\ StoredStay'
  BY DEF Positions, StoredStay, ToStore, Storing

LEMMA MainPositions ==
  ASSUME TypeOK, TraceInv, SlotsInv, Main
  PROVE  Positions' /\ StoredStay'
  <1> USE DEF proofVars
  <1>1. CASE StartWorkers
    BY <1>1, NobodyStores DEF StartWorkers
  <1>2. CASE FailCancelled
    BY <1>2, NobodyStores DEF FailCancelled, TraceInv, Quiet, workerVars
  <1>3. CASE \E i \in toFeed : ProveResident(i)
    BY <1>3, NobodyStores DEF ProveResident, TraceInv, Quiet, workerVars
  <1>4. CASE \/ Start \/ (\E i \in toFeed : Feed(i)) \/ EndFeed
             \/ (\E i \in toCalculate : ComputeWitness(i)) \/ EndWitness
             \/ WaitZero \/ Dismiss \/ Join \/ Succeed \/ Unwind \/ UnwindJoin
    <2>1. UNCHANGED <<slots, ongoing, workerVars>>
      BY <1>4 DEF Start, Feed, EndFeed, ComputeWitness, EndWitness, WaitZero, Dismiss, Join,
         Succeed, Unwind, UnwindJoin
    <2> QED
      BY <2>1, SamePositions DEF SlotsInv
  <1> QED
    BY <1>1, <1>2, <1>3, <1>4 DEF Main

(* A handler takes only what no worker refers to.                           *)
LEMMA TakeLeavesStored ==
  ASSUME TypeOK, SlotsInv, NEW h \in Streams, hpc[h] = "take",
         NEW s \in Streams, Storing(s)
  PROVE  Done(sjob[s]) # hjob[h]
  <1> SUFFICES ASSUME Done(sjob[s]) = hjob[h] PROVE FALSE
    OBVIOUS
  <1>1. PICK n : n = hjob[h]
    OBVIOUS
  <1>2. n \in Reports
    BY <1>1 DEF SlotsInv, Messages
  <1>3. Refers("worker", s, n) /\ Refers("handler", h, n)
    BY <1>1 DEF Refers, WorkerRefers, HandlerRefers
  <1> QED
    BY <1>2, <1>3 DEF SlotsInv, OneReference

LEMMA HandlerPositions ==
  ASSUME TypeOK, SlotsInv, NEW h \in Streams, Handler(h)
  PROVE  Positions' /\ StoredStay'
  <1> USE DEF proofVars
  <1>1. CASE TakeProof(h) \/ TakeRecursive1(h)
    <2>1. PICK p \in slots : slots' = slots \ {p} /\ Done(p) = hjob[h]
      BY <1>1 DEF TakeProof, TakeRecursive1
    <2>2. hpc[h] = "take" /\ UNCHANGED <<ongoing, workerVars>>
      BY <1>1 DEF TakeProof, TakeRecursive1
    <2>3. \A s \in Streams : Storing(s) => sjob[s] # p
      BY <2>1, <2>2, TakeLeavesStored
    <2>4. StoredStay'
      BY <2>1, <2>2, <2>3 DEF SlotsInv, StoredStay, Storing, InSlot, workerVars
    <2> QED
      BY <2>2, <2>4, SamePositions DEF SlotsInv
  <1>2. CASE TakeRecursive2(h)
    <2>1. PICK k : k = hjob[h].id
      OBVIOUS
    <2>2. /\ hpc[h] = "take" /\ hjob[h].type = "Recursive2" /\ k \in DOMAIN ongoing
          /\ ongoing' = [ongoing EXCEPT ![k] = None]
          /\ UNCHANGED <<slots, workerVars>>
      BY <1>2, <2>1 DEF TakeRecursive2
    <2>3. \A s \in Streams : Storing(s) /\ sjob[s].type = "Recursive2" => sjob[s].id # k
      <3> SUFFICES ASSUME NEW s \in Streams, Storing(s), sjob[s].type = "Recursive2",
                          sjob[s].id = k
                   PROVE  FALSE
        OBVIOUS
      <3>1. hjob[h] \in Reports
        BY <2>2 DEF SlotsInv, Messages
      <3>2. hjob[h] = [type |-> "Recursive2", id |-> k]
        BY <2>1, <2>2, <3>1 DEF Reports
      <3>3. Done(sjob[s]) = hjob[h]
        BY <3>2 DEF Done
      <3> QED
        BY <2>2, <3>3, TakeLeavesStored
    <2>4. StoredStay'
      BY <2>2, <2>3 DEF SlotsInv, StoredStay, Storing, InSlot, workerVars
    <2>5. Positions'
      BY <2>2 DEF SlotsInv, Positions, ToStore, workerVars
    <2> QED
      BY <2>4, <2>5
  <1>3. CASE Receive(h) \/ TakeBuffer(h) \/ Increment(h) \/ Send(h) \/ Decrement(h)
    <2>1. UNCHANGED <<slots, ongoing, workerVars>>
      BY <1>3 DEF Receive, TakeBuffer, Increment, Send, Decrement
    <2> QED
      BY <2>1, SamePositions DEF SlotsInv
  <1> QED
    BY <1>1, <1>2, <1>3 DEF Handler

(* A worker that neither gets a position nor stores a proof.                *)
LEMMA WorkerToPositions ==
  ASSUME TypeOK, SlotsInv, NEW s \in Streams, NEW pc, NEW job, WorkerTo(s, pc, job),
         pc = "store" => job.type # "Recursive2",
         pc \in {"commit", "prove"} => Storing(s) /\ job = sjob[s],
         ongoing' = ongoing, slots \subseteq slots'
  PROVE  Positions' /\ StoredStay'
  <1>1. /\ \A t \in Streams : t # s => spc'[t] = spc[t] /\ sjob'[t] = sjob[t]
        /\ spc'[s] = pc /\ sjob'[s] = job
    BY DEF WorkerTo, TypeOK, WorkerTypes
  <1>2. Positions'
    BY <1>1 DEF SlotsInv, Positions, ToStore
  <1>3. StoredStay'
    BY <1>1 DEF SlotsInv, StoredStay, Storing, InSlot
  <1> QED
    BY <1>2, <1>3

LEMMA RegisterPositions ==
  ASSUME TypeOK, SlotsInv, NEW s \in Streams, Register(s)
  PROVE  Positions' /\ StoredStay'
  <1> DEFINE z == Len(ongoing) + 1
  <1>1. /\ spc[s] = "register" /\ ongoing' = Append(ongoing, None) /\ slots' = slots
        /\ WorkerTo(s, "store", [sjob[s] EXCEPT !.id = z]) /\ sjob[s] \in MergeWork
    BY DEF Register, TypeOK, WorkerTypes
  <1>2. /\ \A t \in Streams : t # s => spc'[t] = spc[t] /\ sjob'[t] = sjob[t]
        /\ spc'[s] = "store" /\ sjob'[s].id = z
    BY <1>1 DEF WorkerTo, TypeOK, WorkerTypes, MergeWork
  <1>3. /\ z \notin DOMAIN ongoing /\ z \in DOMAIN ongoing' /\ ongoing'[z] = None
        /\ \A k \in DOMAIN ongoing : k \in DOMAIN ongoing' /\ ongoing'[k] = ongoing[k]
    BY <1>1 DEF TypeOK, StoreTypes
  <1>4. Positions'
    BY <1>2, <1>3 DEF SlotsInv, Positions, ToStore
  <1>5. StoredStay'
    BY <1>1, <1>2, <1>3 DEF SlotsInv, StoredStay, Storing, InSlot
  <1> QED
    BY <1>4, <1>5

LEMMA StorePositions ==
  ASSUME TypeOK, SlotsInv, NEW s \in Streams, Store(s)
  PROVE  Positions' /\ StoredStay'
  <1>1. /\ spc[s] = "store" /\ WorkerTo(s, "commit", sjob[s])
        /\ sjob[s] \in Work
    BY DEF Store, TypeOK, WorkerTypes
  <1>2. /\ \A t \in Streams : t # s => spc'[t] = spc[t]
        /\ spc'[s] = "commit" /\ UNCHANGED sjob
    BY <1>1 DEF WorkerTo, TypeOK, WorkerTypes
  <1>3. CASE sjob[s].type = "Recursive2"
    <2>1. PICK z : z = sjob[s].id
      OBVIOUS
    <2>2. /\ ToStore(s) /\ z \in DOMAIN ongoing /\ ongoing[z] = None
      BY <1>1, <1>3, <2>1 DEF SlotsInv, Positions, ToStore
    <2>3. slots' = slots /\ ongoing' = [ongoing EXCEPT ![z] = sjob[s]]
      BY <1>3, <2>1 DEF Store
    <2>4. \A t \in Streams : ToStore(t) /\ t # s => sjob[t].id # z
      BY <2>1, <2>2 DEF SlotsInv, Positions
    <2>5. \A t \in Streams : Storing(t) /\ sjob[t].type = "Recursive2" => sjob[t].id # z
      <3> SUFFICES ASSUME NEW t \in Streams, Storing(t), sjob[t].type = "Recursive2",
                          sjob[t].id = z
                   PROVE  FALSE
        OBVIOUS
      <3>1. ongoing[z] = sjob[t] /\ sjob[t] \in Work
        BY DEF SlotsInv, StoredStay, InSlot, Storing, TypeOK, WorkerTypes
      <3> QED
        BY <2>2, <3>1, NoneAssumption
    <2>6. Positions'
      BY <1>2, <2>2, <2>3, <2>4 DEF SlotsInv, Positions, ToStore
    <2>7. StoredStay'
      BY <1>1, <1>2, <1>3, <2>1, <2>2, <2>3, <2>5 DEF SlotsInv, StoredStay, Storing, InSlot
    <2> QED
      BY <2>6, <2>7
  <1>4. CASE sjob[s].type # "Recursive2"
    <2>1. slots' = slots \cup {sjob[s]} /\ ongoing' = ongoing
      BY <1>4 DEF Store
    <2>2. Positions'
      BY <1>2, <1>4, <2>1 DEF SlotsInv, Positions, ToStore
    <2>3. StoredStay'
      BY <1>2, <1>4, <2>1 DEF SlotsInv, StoredStay, Storing, InSlot
    <2> QED
      BY <2>2, <2>3
  <1> QED
    BY <1>3, <1>4

LEMMA WorkerPositions ==
  ASSUME TypeOK, SlotsInv, NEW s \in Streams, Worker(s)
  PROVE  Positions' /\ StoredStay'
  <1> USE DEF proofVars
  <1>1. CASE \E i \in proofsRx : PollProofs(s, i)
    <2>1. /\ UNCHANGED <<slots, ongoing>>
          /\ UNCHANGED workerVars \/ \E job : WorkerTo(s, "basic", job)
      BY <1>1 DEF PollProofs
    <2> QED
      BY <2>1, SamePositions, WorkerToPositions DEF SlotsInv
  <1>2. CASE PollWitness(s) \/ SelectDefault(s) \/ (\E w \in witnessRx : Select(s, w))
    <2>1. /\ UNCHANGED <<slots, ongoing>>
          /\ \E pc, job : /\ WorkerTo(s, pc, job) /\ pc \notin {"commit", "prove"}
                          /\ pc = "store" => job.type # "Recursive2"
      BY <1>2 DEF PollWitness, SelectDefault, Select
    <2> QED
      BY <2>1, WorkerToPositions
  <1>3. CASE Commit(s)
    <2>1. /\ UNCHANGED <<slots, ongoing>> /\ WorkerTo(s, "prove", sjob[s]) /\ Storing(s)
      BY <1>3 DEF Commit, Storing
    <2> QED
      BY <2>1, WorkerToPositions
  <1>4. CASE ProveBasic(s) \/ ProveRecursive(s)
    <2>1. /\ slots \subseteq slots' /\ ongoing' = ongoing /\ WorkerTo(s, "poll", None)
      BY <1>4 DEF ProveBasic, ProveRecursive
    <2> QED
      BY <2>1, WorkerToPositions
  <1> QED
    BY <1>1, <1>2, <1>3, <1>4, RegisterPositions, StorePositions DEF Worker

LEMMA NextPositions ==
  ASSUME TypeOK, TraceInv, SlotsInv, [Next]_vars
  PROVE  Positions' /\ StoredStay'
  <1> USE DEF proofVars
  <1>1. CASE \/ Device \/ Cancel \/ FailPrecalculate \/ Returned \/ UNCHANGED vars
             \/ (\E i \in toCalculate : FailWitness(i)) \/ (\E i \in toFeed : FailResident(i))
             \/ (\E h \in Streams : FailRecursiveWitness(h))
    <2>1. UNCHANGED <<slots, ongoing, workerVars>>
      BY <1>1 DEF Device, StreamDone, Cancel, FailPrecalculate, Returned, FailWitness,
         FailResident, FailRecursiveWitness, vars
    <2> QED
      BY <2>1, SamePositions DEF SlotsInv
  <1>2. CASE \E s \in Streams : FailWorker(s)
    <2>1. PICK s \in Streams : FailWorker(s)
      BY <1>2
    <2>2. WorkerTo(s, "exit", None) /\ UNCHANGED <<slots, ongoing>>
      BY <2>1 DEF FailWorker
    <2> QED
      BY <2>2, WorkerToPositions
  <1>3. CASE Restart
    BY <1>3, NobodyStores DEF Restart, TraceInv, Quiet, workerVars
  <1> QED
    BY <1>1, <1>2, <1>3, MainPositions, HandlerPositions, WorkerPositions DEF Next, Fault

-----------------------------------------------------------------------------
(* The invariant holds, and with it what the runs check.                    *)

LEMMA InitSlotsInv == Init => SlotsInv
  <1> SUFFICES ASSUME Init PROVE SlotsInv
    OBVIOUS
  <1>1. \A i, k, x : ~At(k, x, i) \/ i \notin Instances
    BY SystemAssumption DEF Init, At, WorkerHas, Holding, HandlerHas, Carrying, QueueHas,
       SlotHas, PositionHas, PoolHas
  <1>2. \A k, x, m : ~Refers(k, x, m)
    BY DEF Init, Refers, WorkerRefers, Storing, QueueRefers, HandlerRefers
  <1>3. InOnePlace /\ Untouched
    BY <1>1 DEF InOnePlace, Untouched
  <1>4. OneReference /\ RefersToFilled
    BY <1>2 DEF OneReference, RefersToFilled
  <1>5. Shapes
    BY DEF Init, Shapes, StoreShapes, HandlerShapes, WorkerShapes, PoolShapes,
       PositionShapes, Carrying, Holding, Storing
  <1>6. Positions /\ StoredStay
    BY DEF Init, Positions, StoredStay, ToStore, Storing
  <1>7. Messages
    BY DEF Init, Messages
  <1>8. Phases
    BY DEF Init, Phases
  <1> QED
    BY <1>3, <1>4, <1>5, <1>6, <1>7, <1>8 DEF SlotsInv

LEMMA NextSlotsInv == TypeOK /\ TraceInv /\ SlotsInv /\ [Next]_vars => SlotsInv'
  <1> SUFFICES ASSUME TypeOK, TraceInv, SlotsInv, [Next]_vars PROVE SlotsInv'
    OBVIOUS
  <1>1. OneReference' /\ RefersToFilled'
    BY NextShuffles, ShufflesKeepReferences DEF SlotsInv
  <1> QED
    BY <1>1, NextUntouched, NextShapes, NextPositions, NextMessages, NextPhases DEF SlotsInv

LEMMA InvariantSteps ==
  /\ Init => TypeOK /\ TraceInv /\ SlotsInv
  /\ TypeOK /\ TraceInv /\ SlotsInv /\ [Next]_vars => (TypeOK /\ TraceInv /\ SlotsInv)'
  <1>1. Init => TypeOK /\ TraceInv /\ SlotsInv
    BY InitTypes, InitTraceInv, InitSlotsInv
  <1>2. ASSUME TypeOK, TraceInv, SlotsInv, [Next]_vars
        PROVE  (TypeOK /\ TraceInv /\ SlotsInv)'
    BY <1>2, NextTypes, NextTraceInv, NextSlotsInv
  <1> QED
    BY <1>1, <1>2

(* What is announced is a report somebody refers to.                        *)
LEMMA AnnouncedRefers ==
  ASSUME SlotsInv, NEW m \in Announced
  PROVE  m \in Reports /\ \E k, x : Refers(k, x, m)
  <1>1. CASE m \in inFlight
    BY <1>1, ReferenceKinds DEF SlotsInv, Messages
  <1>2. CASE \E j \in DOMAIN recursiveRx : m = recursiveRx[j] /\ m # Sentinel
    <2>1. PICK j \in DOMAIN recursiveRx : m = recursiveRx[j] /\ m # Sentinel
      BY <1>2
    <2>2. QueueRefers(j, m)
      BY <2>1 DEF QueueRefers
    <2>3. m \in Reports
      BY <2>1 DEF SlotsInv, Messages
    <2> QED
      BY <2>2, <2>3, ReferenceKinds
  <1>3. CASE \E h \in Streams : hpc[h] = "take" /\ m = hjob[h]
    <2>1. PICK h \in Streams : hpc[h] = "take" /\ m = hjob[h]
      BY <1>3
    <2>2. HandlerRefers(h, m)
      BY <2>1 DEF HandlerRefers
    <2>3. m \in Reports
      BY <2>1 DEF SlotsInv, Messages
    <2> QED
      BY <2>2, <2>3, ReferenceKinds
  <1> QED
    BY <1>1, <1>2, <1>3 DEF Announced

(* No handler unwraps an empty slot: what a message announces is where the  *)
(* message says until the one handler that got it takes it.                 *)
THEOREM ProofsPresent == Spec => []AnnouncedProofPresent
  <1>1. SlotsInv => AnnouncedProofPresent
    BY AnnouncedRefers DEF SlotsInv, RefersToFilled, Filled, AnnouncedProofPresent
  <1> QED
    BY <1>1, InvariantSteps, PTL DEF Spec

(* Everything an instance became is in one place: no instance is proved     *)
(* twice, aggregated twice or both proved and queued, whatever the threads  *)
(* do, and a proof in a slot is announced by one worker, stream, message or *)
(* handler at most, so two handlers never take the same proof.              *)
THEOREM OnePlaceEach == Spec => [](InOnePlace /\ OneReference)
  <1>1. SlotsInv => InOnePlace /\ OneReference
    BY DEF SlotsInv
  <1> QED
    BY <1>1, InvariantSteps, PTL DEF Spec

(* The steps of one call at the positions of recursive2_proofs_ongoing.     *)
LEMMA SlotsNotSharedStep ==
  ASSUME TypeOK, TraceInv, SlotsInv, Next, mpc' # "failed", mpc' # "start"
  PROVE  Len(ongoing') >= Len(ongoing) /\ \A k \in DOMAIN ongoing : OngoingStep(k)
  <1> USE DEF proofVars
  <1>0. ongoing \in Seq(Work \cup {None})
    BY DEF TypeOK, StoreTypes
  <1>1. CASE UNCHANGED ongoing
    BY <1>0, <1>1 DEF OngoingStep
  <1>2. CASE \E s \in Streams : Register(s)
    <2>1. ongoing' = Append(ongoing, None)
      BY <1>2 DEF Register
    <2> QED
      BY <1>0, <2>1 DEF OngoingStep
  <1>3. CASE \E s \in Streams : Store(s) /\ sjob[s].type = "Recursive2"
    <2>1. PICK s \in Streams : Store(s) /\ sjob[s].type = "Recursive2"
      BY <1>3
    <2>2. PICK z : z = sjob[s].id
      OBVIOUS
    <2>3. /\ ongoing' = [ongoing EXCEPT ![z] = sjob[s]]
          /\ z \in DOMAIN ongoing /\ ongoing[z] = None
      BY <2>1, <2>2 DEF Store, SlotsInv, Positions, ToStore
    <2>4. Done(sjob[s]) \notin Announced
      BY <2>1, StoreFills, AnnouncedRefers
    <2> QED
      BY <1>0, <2>3, <2>4 DEF OngoingStep
  <1>4. CASE \E h \in Streams : TakeRecursive2(h)
    <2>1. PICK h \in Streams : TakeRecursive2(h)
      BY <1>4
    <2>2. PICK z : z = hjob[h].id
      OBVIOUS
    <2>3. /\ hpc[h] = "take" /\ hjob[h].type = "Recursive2"
          /\ ongoing' = [ongoing EXCEPT ![z] = None]
          /\ z \in DOMAIN ongoing /\ ongoing[z] # None
      BY <2>1, <2>2 DEF TakeRecursive2
    <2>4. hjob[h] \in Announced /\ hjob[h] \in Reports
      BY <2>3 DEF Announced, SlotsInv, Messages
    <2>5. Done(ongoing[z]) = hjob[h]
      BY <2>2, <2>3, <2>4 DEF SlotsInv, Shapes, PositionShapes, Done, Reports
    <2> QED
      BY <1>0, <2>3, <2>4, <2>5 DEF OngoingStep
  <1>5. UNCHANGED ongoing \/ \E s \in Streams :
          Register(s) \/ (Store(s) /\ sjob[s].type = "Recursive2") \/ TakeRecursive2(s)
    <2>1. Main => UNCHANGED ongoing
      BY DEF Main, Start, ProveResident, Feed, StartWorkers, EndFeed, ComputeWitness,
         EndWitness, WaitZero, Dismiss, Join, Succeed, FailCancelled, Unwind, UnwindJoin
    <2>2. Device \/ Fault \/ Restart \/ Returned => UNCHANGED ongoing
      BY DEF Device, StreamDone, Fault, Cancel, FailPrecalculate, FailResident, FailWitness,
         FailRecursiveWitness, FailWorker, Restart, Returned, vars
    <2>3. \A h \in Streams : Handler(h) => TakeRecursive2(h) \/ UNCHANGED ongoing
      BY DEF Handler, Receive, TakeProof, TakeRecursive1, TakeBuffer, Increment, Send,
         Decrement
    <2>4. \A s \in Streams :
            Worker(s) => \/ UNCHANGED ongoing \/ Register(s)
                         \/ Store(s) /\ sjob[s].type = "Recursive2"
      BY DEF Worker, PollProofs, PollWitness, ProveBasic, Select, SelectDefault, Store,
         Commit, ProveRecursive
    <2> QED
      BY <2>1, <2>2, <2>3, <2>4 DEF Next
  <1> QED
    BY <1>1, <1>2, <1>3, <1>4, <1>5

(* Within a call a position of recursive2_proofs_ongoing is never reused:   *)
(* it is filled while nothing announces its proof and emptied only for the  *)
(* message that announces it.                                               *)
THEOREM PositionsNotShared == Spec => OngoingSlotsNotShared
  <1>1. TypeOK /\ TraceInv /\ SlotsInv /\ [Next]_vars =>
          [mpc' # "failed" /\ mpc' # "start" =>
             /\ Len(ongoing') >= Len(ongoing)
             /\ \A k \in DOMAIN ongoing : OngoingStep(k)]_vars
    BY SlotsNotSharedStep
  <1> QED
    BY <1>1, InvariantSteps, PTL DEF Spec, OngoingSlotsNotShared

=============================================================================
