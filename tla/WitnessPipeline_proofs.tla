----------------------- MODULE WitnessPipeline_proofs -----------------------
(***************************************************************************)
(* For any number of instances, tables, buffers, workers and tokens, in    *)
(* each mode and with every fault: the types of the witness pipeline, no   *)
(* trace is taken from under its reader, and buffers and thread tokens are *)
(* conserved.                                                              *)
(***************************************************************************)
EXTENDS WitnessPipeline, FiniteSetTheorems, TLAPS

-----------------------------------------------------------------------------
(* The inductive invariant.                                                *)

(* Where an instance is before its trace is stored.                        *)
Upcoming(i) ==
    \/ i \in todo \/ i \in witnessRx \/ dispatcher = i
    \/ thread[i] \in {"ready", "take", "hold"}

(* An instance gets one thread in a phase, and witness_done counts no more *)
(* than the threads that have ended.                                       *)
ThreadOnce ==
    /\ \A i \in Instances :
          i \in todo \/ i \in witnessRx \/ dispatcher = i => thread[i] = "none"
    /\ \A i \in todo \cup witnessRx : dispatcher # i
    /\ done <= Cardinality({i \in Instances : thread[i] = "ended"})

(* A trace is about to be stored, or queued for a worker, or with one      *)
(* worker, or marked for soft release, and never two of these.             *)
OnePlace ==
    /\ \A i \in Instances :
          Upcoming(i) => /\ trace[i] = "none" /\ i \notin jobs \cup toBeReleased
                         /\ \A w \in Workers : worker[w] # i
    /\ \A i \in jobs : trace[i] # "none" /\ i \notin toBeReleased
    /\ \A w \in Workers :
          worker[w] \in All =>
             /\ trace[worker[w]] # "none" /\ worker[w] \notin jobs \cup toBeReleased
             /\ \A v \in Workers \ {w} : worker[v] # worker[w]

(* Tables have memory of their own, there from the last step of the        *)
(* contributions on, and reach the workers only then.                      *)
TablesApart ==
    /\ \A t \in Tables : trace[t] # "shared"
    /\ phase = "contributions" /\ pc \in {"execute", "calculate", "wait", "join", "tables"}
          => \A t \in Tables : t \notin jobs /\ \A w \in Workers : worker[w] # t
    /\ (phase = "contributions" /\ pc = "drain" /\ ~failed) \/ pc = "resident"
          => \A t \in Tables : trace[t] # "none"

(* Who is still there at each place of the main thread.                    *)
Places ==
    /\ pc \in {"execute", "tables"} => phase = "contributions"
    /\ pc \in {"resident", "zero", "ok"} => phase = "internal"
    /\ phase = "internal" => toBeReleased = {}
    /\ mode # "queued" => witnessRx = {} /\ dispatcher = "waiting"
    /\ pc \in {"execute", "calculate", "resident"}
          => witnessRx = {} /\ dispatcher \notin Instances
    /\ dispatcher = "ended" /\ ~IsCancelled
          => witnessRx = {} /\ pc \notin {"execute", "calculate", "wait"}
    /\ pc \in {"tables", "resident", "zero", "drain", "ok", "failed", "reset"}
          => /\ \A i \in Instances : Finished(i)
             /\ mode = "queued" => dispatcher = "ended"
    /\ pc # "calculate" => todo = {}
    /\ closing => pc = "drain"
    /\ ~IsCancelled => \A w \in Workers :
          worker[w] = "ended" => jobs = {} /\ (closing \/ pc \in {"ok", "failed", "reset"})
    /\ pc \in {"ok", "failed", "reset"} => \A w \in Workers : worker[w] = "ended"
    /\ pc = "resident" => jobs = {} /\ \A w \in Workers : worker[w] = "idle"
    /\ pc = "execute" =>
          /\ jobs = {} /\ toBeReleased = {}
          /\ trace = [i \in All |-> "none"] /\ thread = [i \in Instances |-> "none"]
          /\ \A w \in Workers : worker[w] \notin All

IInv == TypeOK /\ ThreadOnce /\ OnePlace /\ TablesApart /\ Places /\ ResourcesConserved

-----------------------------------------------------------------------------
(* Facts about the operators.                                              *)
Held == {i \in Instances : thread[i] = "hold"}
Active == {i \in Instances : ~Finished(i)}
Ended == {i \in Instances : thread[i] = "ended"}
Accounted == pool + Cardinality(Held) + Cardinality(InPool(All))
Used == tokens + Need * Cardinality(Active)

(* A set of instances, or of instances and tables, has a cardinality.      *)
LEMMA Finite ==
  /\ \A S \in SUBSET All : IsFiniteSet(S) /\ Cardinality(S) \in Nat
  /\ \A S \in SUBSET Instances : /\ IsFiniteSet(S) /\ Cardinality(S) \in Nat
                                 /\ Cardinality(S) <= Cardinality(Instances)
  <1>1. IsFiniteSet(All)
    BY WitnessAssumption, FS_Union DEF All
  <1> QED
    BY <1>1, WitnessAssumption, FS_Subset, FS_CardinalityType

LEMMA Counts ==
  /\ Cardinality(Instances) \in Nat
  /\ IsFiniteSet(Active) /\ Cardinality(Active) \in Nat
  /\ IsFiniteSet(Held) /\ Cardinality(Held) \in Nat
  /\ IsFiniteSet(Ended) /\ Cardinality(Ended) \in Nat
  /\ Cardinality(Ended) <= Cardinality(Instances)
  /\ IsFiniteSet(InPool(All)) /\ Cardinality(InPool(All)) \in Nat
  <1>1. /\ Active \in SUBSET Instances /\ Held \in SUBSET Instances
        /\ Ended \in SUBSET Instances /\ InPool(All) \in SUBSET All
    BY DEF Active, Held, Ended, InPool
  <1>2. Cardinality(Instances) \in Nat
    BY WitnessAssumption, FS_CardinalityType
  <1> QED
    BY <1>1, <1>2, Finite

LEMMA CountsNext ==
  /\ IsFiniteSet(Active') /\ Cardinality(Active') \in Nat
  /\ IsFiniteSet(Held') /\ Cardinality(Held') \in Nat
  /\ IsFiniteSet(Ended') /\ Cardinality(Ended') \in Nat
  /\ Cardinality(Ended') <= Cardinality(Instances)
  /\ IsFiniteSet(InPool(All)') /\ Cardinality(InPool(All)') \in Nat
  <1>1. /\ Active' \in SUBSET Instances /\ Held' \in SUBSET Instances
        /\ Ended' \in SUBSET Instances /\ InPool(All)' \in SUBSET All
    BY DEF Active, Held, Ended, InPool
  <1> QED
    BY <1>1, Finite

LEMMA NeedType ==
  ASSUME TypeOK
  PROVE  Need \in Nat /\ Need <= MaxThreads /\ MaxThreads \in Nat
  BY WitnessAssumption DEF Need, TypeOK, MainTypes

LEMMA TokenTypes ==
  ASSUME IInv
  PROVE  /\ Need \in Nat /\ Need <= MaxThreads /\ MaxThreads \in Nat
         /\ tokens \in Nat /\ tokens <= MaxThreads
  <1>1. TypeOK
    BY DEF IInv
  <1>2. tokens \in 0 .. MaxThreads
    BY <1>1 DEF TypeOK, SpawnTypes
  <1> QED
    BY <1>1, <1>2, NeedType

LEMMA CountTypes ==
  ASSUME TypeOK
  PROVE  Accounted \in Nat /\ Used \in Nat
  BY NeedType, Counts DEF Accounted, Used, TypeOK, SpawnTypes, TraceTypes

(* A step that loses buffers or tokens only when the call is cancelled.    *)
LEMMA ResourcesStep ==
  ASSUME IInv, IsCancelled => IsCancelled',
         Accounted' \in Nat, Used' \in Nat, Accounted' <= Accounted, Used' <= Used,
         ~IsCancelled' => Accounted' = Accounted /\ Used' = Used
  PROVE  ResourcesConserved'
  <1> DEFINE Bounds == /\ Accounted <= NBuffers /\ Used <= MaxThreads
                       /\ ~IsCancelled => Accounted = NBuffers /\ Used = MaxThreads
  <1>1. Bounds
    BY DEF IInv, ResourcesConserved, Accounted, Used, Held, Active
  <1>2. Bounds'
    BY <1>1, CountTypes, WitnessAssumption DEF IInv
  <1> QED
    BY <1>2 DEF ResourcesConserved, Accounted, Used, Held, Active

(* One element enters a finite set or leaves it.                           *)
OneMoved(S, T, e) ==
  /\ Cardinality(S) \in Nat /\ Cardinality(T) \in Nat
  /\ e \in S /\ e \in T => Cardinality(T) = Cardinality(S)
  /\ e \notin S /\ e \notin T => Cardinality(T) = Cardinality(S)
  /\ e \notin S /\ e \in T => Cardinality(T) = Cardinality(S) + 1
  /\ e \in S /\ e \notin T => Cardinality(T) = Cardinality(S) - 1

LEMMA OneElement ==
  ASSUME NEW S, IsFiniteSet(S), NEW e, NEW T, T = S \cup {e} \/ T = S \ {e}
  PROVE  OneMoved(S, T, e)
  <1> USE DEF OneMoved
  <1>1. Cardinality(S) \in Nat
    BY FS_CardinalityType
  <1>2. CASE T = S \cup {e}
    BY <1>1, <1>2, FS_AddElement
  <1>3. CASE T = S \ {e}
    <2>1. IsFiniteSet(T) /\ Cardinality(T) \in Nat
      BY <1>3, FS_RemoveElement, FS_CardinalityType
    <2> QED
      BY <1>1, <1>3, <2>1, FS_RemoveElement
  <1> QED
    BY <1>2, <1>3

(* What is conserved fits in the channels.                                 *)
LEMMA ChannelsFit ==
  ASSUME ResourcesConserved', pool' \in Nat
  PROVE  pool' \in 0 .. NBuffers
  <1>1. Accounted' <= NBuffers
    BY DEF ResourcesConserved, Accounted, Held
  <1> QED
    BY <1>1, CountsNext, WitnessAssumption DEF Accounted

(* What a step of one thread does to the sets that are counted.            *)
ThreadMoved(i, to) ==
  /\ thread' \in [Instances -> {"none", "ready", "take", "hold", "give", "ended"}]
  /\ thread'[i] = to /\ \A j \in Instances \ {i} : thread'[j] = thread[j]
  /\ Cardinality(Held') = Cardinality(Held)
       + (IF to = "hold" THEN 1 ELSE 0) - (IF thread[i] = "hold" THEN 1 ELSE 0)
  /\ Cardinality(Active') = Cardinality(Active)
       + (IF to \in {"none", "ended"} THEN 0 ELSE 1)
       - (IF thread[i] \in {"none", "ended"} THEN 0 ELSE 1)
  /\ Cardinality(Ended') = Cardinality(Ended)
       + (IF to = "ended" THEN 1 ELSE 0) - (IF thread[i] = "ended" THEN 1 ELSE 0)
  /\ Cardinality(Held') \in Nat /\ Cardinality(Active') \in Nat
  /\ Cardinality(Ended') \in Nat

LEMMA ThreadStep ==
  ASSUME TypeOK, NEW i \in Instances,
         NEW to \in {"none", "ready", "take", "hold", "give", "ended"},
         thread' = [thread EXCEPT ![i] = to]
  PROVE  ThreadMoved(i, to)
  <1>1. /\ thread' \in [Instances -> {"none", "ready", "take", "hold", "give", "ended"}]
        /\ thread'[i] = to /\ \A j \in Instances \ {i} : thread'[j] = thread[j]
    BY DEF TypeOK, SpawnTypes
  <1>2. /\ Held' = Held \cup {i} \/ Held' = Held \ {i}
        /\ (i \in Held <=> thread[i] = "hold") /\ (i \in Held' <=> to = "hold")
    BY <1>1 DEF Held
  <1>3. /\ Active' = Active \cup {i} \/ Active' = Active \ {i}
        /\ i \in Active <=> thread[i] \notin {"none", "ended"}
        /\ i \in Active' <=> to \notin {"none", "ended"}
    BY <1>1 DEF Active, Finished
  <1>4. /\ Ended' = Ended \cup {i} \/ Ended' = Ended \ {i}
        /\ (i \in Ended <=> thread[i] = "ended") /\ (i \in Ended' <=> to = "ended")
    BY <1>1 DEF Ended
  <1>5. IsFiniteSet(Held) /\ IsFiniteSet(Active) /\ IsFiniteSet(Ended)
    BY Counts
  <1>6. /\ Cardinality(Held') = Cardinality(Held)
             + (IF to = "hold" THEN 1 ELSE 0) - (IF thread[i] = "hold" THEN 1 ELSE 0)
        /\ Cardinality(Held') \in Nat
    <2>1. OneMoved(Held, Held', i)
      BY <1>2, <1>5, OneElement
    <2> QED
      BY <1>2, <2>1 DEF OneMoved
  <1>7. /\ Cardinality(Active') = Cardinality(Active)
             + (IF to \in {"none", "ended"} THEN 0 ELSE 1)
             - (IF thread[i] \in {"none", "ended"} THEN 0 ELSE 1)
        /\ Cardinality(Active') \in Nat
    <2>1. OneMoved(Active, Active', i)
      BY <1>3, <1>5, OneElement
    <2> QED
      BY <1>3, <2>1 DEF OneMoved
  <1>8. /\ Cardinality(Ended') = Cardinality(Ended)
             + (IF to = "ended" THEN 1 ELSE 0) - (IF thread[i] = "ended" THEN 1 ELSE 0)
        /\ Cardinality(Ended') \in Nat
    <2>1. OneMoved(Ended, Ended', i)
      BY <1>4, <1>5, OneElement
    <2> QED
      BY <1>4, <2>1 DEF OneMoved
  <1> QED
    BY <1>1, <1>6, <1>7, <1>8 DEF ThreadMoved

(* What a step of one trace does to the buffers that are in use.           *)
TraceMoved(i, to) ==
  /\ trace' \in [All -> {"none", "shared", "own"}]
  /\ trace'[i] = to /\ \A j \in All \ {i} : trace'[j] = trace[j]
  /\ Cardinality(InPool(All)') = Cardinality(InPool(All))
       + (IF to = "shared" THEN 1 ELSE 0) - (IF trace[i] = "shared" THEN 1 ELSE 0)
  /\ Cardinality(InPool(All)') \in Nat

LEMMA TraceStep ==
  ASSUME TypeOK, NEW i \in All, NEW to \in {"none", "shared", "own"},
         trace' = [trace EXCEPT ![i] = to]
  PROVE  TraceMoved(i, to)
  <1> DEFINE S == InPool(All)
  <1>1. /\ trace' \in [All -> {"none", "shared", "own"}]
        /\ trace'[i] = to /\ \A j \in All \ {i} : trace'[j] = trace[j]
    BY DEF TypeOK, TraceTypes
  <1>2. /\ S' = S \cup {i} \/ S' = S \ {i}
        /\ (i \in S <=> trace[i] = "shared") /\ (i \in S' <=> to = "shared")
    BY <1>1 DEF InPool
  <1>3. IsFiniteSet(S)
    BY Counts
  <1> HIDE DEF S
  <1>4. /\ Cardinality(S') = Cardinality(S)
             + (IF to = "shared" THEN 1 ELSE 0) - (IF trace[i] = "shared" THEN 1 ELSE 0)
        /\ Cardinality(S') \in Nat
    <2>1. OneMoved(S, S', i)
      BY <1>2, <1>3, OneElement
    <2> QED
      BY <1>2, <2>1 DEF OneMoved
  <1> QED
    BY <1>1, <1>4 DEF S, TraceMoved

(* The traces of a set are given back.                                     *)
LEMMA ReleaseStep ==
  ASSUME TypeOK, NEW S \in SUBSET All, Release(S)
  PROVE  /\ trace' \in [All -> {"none", "shared", "own"}]
         /\ \A i \in S : trace'[i] = "none"
         /\ \A i \in All \ S : trace'[i] = trace[i]
         /\ pool' + Cardinality(InPool(All)') = pool + Cardinality(InPool(All))
         /\ pool' \in Nat /\ Cardinality(InPool(All)') \in Nat
  <1>1. /\ trace' \in [All -> {"none", "shared", "own"}]
        /\ \A i \in S : trace'[i] = "none"
        /\ \A i \in All \ S : trace'[i] = trace[i]
    BY DEF Release, TypeOK, TraceTypes
  <1>2. /\ InPool(All)' = InPool(All) \ InPool(S)
        /\ InPool(S) \subseteq InPool(All) /\ InPool(All) \subseteq All
        /\ InPool(All)' \subseteq All
    BY <1>1 DEF InPool
  <1>3. Cardinality(InPool(All)') = Cardinality(InPool(All)) - Cardinality(InPool(S))
    <2>1. InPool(All) \cap InPool(S) = InPool(S) /\ IsFiniteSet(InPool(All))
      BY <1>2, Finite
    <2> QED
      BY <1>2, <2>1, FS_Difference
  <1>4. Cardinality(InPool(S)) \in Nat /\ Cardinality(InPool(All)') \in Nat
    BY <1>2, Finite
  <1>5. pool' = pool + Cardinality(InPool(S))
    BY DEF Release
  <1> QED
    BY <1>1, <1>3, <1>4, <1>5, Counts DEF TypeOK, TraceTypes

(* A conjunct holds after a step that leaves its variables alone.          *)
LEMMA Frame ==
  ASSUME IInv
  PROVE  /\ UNCHANGED <<call, cancelled>> => MainTypes'
         /\ UNCHANGED spawning => SpawnTypes'
         /\ UNCHANGED buffers => TraceTypes'
         /\ UNCHANGED results => WorkTypes'
         /\ UNCHANGED <<todo, witnessRx, dispatcher, thread, done>> => ThreadOnce'
         /\ UNCHANGED <<todo, witnessRx, dispatcher, thread, trace, jobs, toBeReleased,
                        worker>> => OnePlace'
         /\ UNCHANGED <<trace, phase, pc, jobs, worker, failed>> => TablesApart'
         /\ UNCHANGED <<mode, thread, tokens, pool, trace>> /\ (IsCancelled => IsCancelled')
              => ResourcesConserved'
  <1>1. UNCHANGED <<call, cancelled>> => MainTypes'
    BY DEF IInv, TypeOK, MainTypes, call
  <1>2. UNCHANGED spawning => SpawnTypes'
    BY DEF IInv, TypeOK, SpawnTypes, spawning
  <1>3. UNCHANGED buffers => TraceTypes'
    BY DEF IInv, TypeOK, TraceTypes, buffers
  <1>4. UNCHANGED results => WorkTypes'
    BY DEF IInv, TypeOK, WorkTypes, results
  <1>5. UNCHANGED <<todo, witnessRx, dispatcher, thread, done>> => ThreadOnce'
    BY DEF IInv, ThreadOnce
  <1>6. UNCHANGED <<todo, witnessRx, dispatcher, thread, trace, jobs, toBeReleased, worker>>
          => OnePlace'
    BY DEF IInv, OnePlace, Upcoming
  <1>7. UNCHANGED <<trace, phase, pc, jobs, worker, failed>> => TablesApart'
    BY DEF IInv, TablesApart
  <1>8. UNCHANGED <<mode, thread, tokens, pool, trace>> /\ (IsCancelled => IsCancelled')
          => ResourcesConserved'
    BY DEF IInv, ResourcesConserved, Need, Finished, InPool
  <1> QED
    BY <1>1, <1>2, <1>3, <1>4, <1>5, <1>6, <1>7, <1>8

(* Tokens may be lost, and only after a cancellation.                      *)
LEMMA TokensLost ==
  ASSUME IInv, tokens' \in Nat, tokens' <= tokens, tokens' = tokens \/ IsCancelled,
         UNCHANGED <<mode, thread, pool, trace, cancelled>>
  PROVE  ResourcesConserved' /\ tokens' \in 0 .. MaxThreads
  <1>1. Accounted' = Accounted /\ IsCancelled' = IsCancelled
    BY DEF Accounted, Held, InPool, IsCancelled
  <1>2. /\ Need' = Need /\ Need \in Nat /\ tokens \in Nat /\ tokens <= MaxThreads
        /\ MaxThreads \in Nat
    BY TokenTypes DEF Need
  <1>3. Active' = Active /\ Cardinality(Active) \in Nat
    BY Counts DEF Active, Finished
  <1>4. Used' \in Nat /\ Used' <= Used /\ (tokens' = tokens => Used' = Used)
    <2> DEFINE n == Need * Cardinality(Active)
    <2>1. n \in Nat /\ Used = tokens + n /\ Used' = tokens' + n
      BY <1>2, <1>3 DEF Used
    <2> QED
      BY <2>1, <1>2
  <1>5. Accounted \in Nat
    BY CountTypes DEF IInv
  <1> QED
    BY <1>1, <1>2, <1>4, <1>5, ResourcesStep

(* A thread that ends without giving back its tokens loses them.           *)
LEMMA UsedLess ==
  ASSUME IInv, UNCHANGED <<mode, tokens>>, Cardinality(Active') <= Cardinality(Active)
  PROVE  /\ Used' \in Nat /\ Used' <= Used
         /\ Cardinality(Active') = Cardinality(Active) => Used' = Used
  <1>1. /\ Need' = Need /\ Need \in Nat /\ tokens \in Nat
        /\ Cardinality(Active) \in Nat /\ Cardinality(Active') \in Nat
    BY TokenTypes, Counts, CountsNext DEF Need
  <1>2. ASSUME NEW a \in Nat, NEW b \in Nat, NEW n \in Nat, a <= b
        PROVE  n * a \in Nat /\ n * b \in Nat /\ n * a <= n * b
    BY <1>2
  <1> QED
    BY <1>1, <1>2 DEF Used

(* A thread starts with the tokens that were collected for it.             *)
TokensTaken(i) ==
  /\ thread[i] = "none" /\ tokens >= Need
  /\ tokens' = tokens - Need /\ thread' = [thread EXCEPT ![i] = "ready"]
  /\ UNCHANGED <<mode, pool, trace, cancelled>>

LEMMA TakingTokens ==
  ASSUME IInv, NEW i \in Instances, TokensTaken(i)
  PROVE  ResourcesConserved' /\ tokens' \in 0 .. MaxThreads
  <1> USE DEF TokensTaken
  <1>1. Cardinality(Active') = Cardinality(Active) + 1 /\ Cardinality(Held') = Cardinality(Held)
    <2>1. TypeOK /\ thread[i] = "none" /\ thread' = [thread EXCEPT ![i] = "ready"]
      BY DEF IInv
    <2>2. Cardinality(Active) \in Nat /\ Cardinality(Held) \in Nat
      BY Counts
    <2>3. ThreadMoved(i, "ready")
      BY <2>1, ThreadStep
    <2> QED
      BY <2>1, <2>2, <2>3 DEF ThreadMoved
  <1>2. /\ Need' = Need /\ Need \in Nat /\ tokens \in Nat /\ tokens <= MaxThreads
        /\ MaxThreads \in Nat /\ Cardinality(Active) \in Nat
    BY TokenTypes, Counts DEF Need
  <1>3. Used' = Used
    <2> DEFINE n == Need * Cardinality(Active)
    <2>1. n \in Nat /\ Need * (Cardinality(Active) + 1) = n + Need
      BY <1>2
    <2>2. Used = tokens + n /\ Used' = tokens' + Need * (Cardinality(Active) + 1)
      BY <1>1, <1>2 DEF Used
    <2> QED
      BY <1>2, <2>1, <2>2
  <1>4. Accounted' = Accounted /\ IsCancelled' = IsCancelled
    BY <1>1 DEF Accounted, InPool, IsCancelled
  <1> QED
    BY <1>2, <1>3, <1>4, CountTypes, ResourcesStep DEF IInv

-----------------------------------------------------------------------------
LEMMA InitInv == Init => IInv
  <1> SUFFICES ASSUME Init PROVE IInv
    OBVIOUS
  <1> USE DEF Init
  <1>1. Held = {} /\ Active = {} /\ Ended = {} /\ InPool(All) = {}
    BY DEF Held, Active, Ended, Finished, InPool
  <1>2. Cardinality({}) = 0
    BY FS_EmptySet
  <1>3. TypeOK
    <2>1. MainTypes
      BY DEF MainTypes
    <2>2. SpawnTypes
      BY WitnessAssumption, Counts DEF SpawnTypes
    <2>3. TraceTypes /\ WorkTypes
      BY WitnessAssumption DEF TraceTypes, WorkTypes
    <2> QED
      BY <2>1, <2>2, <2>3 DEF TypeOK
  <1>4. ThreadOnce
    <2>1. Cardinality({i \in Instances : thread[i] = "ended"}) = 0
      BY <1>1, <1>2 DEF Ended
    <2> QED
      BY <2>1, WitnessAssumption DEF ThreadOnce
  <1>5. OnePlace
    BY WitnessAssumption DEF OnePlace, Upcoming, All
  <1>6. TablesApart
    BY WitnessAssumption DEF TablesApart, All
  <1>7. Places
    BY WitnessAssumption DEF Places, Finished, IsCancelled, All
  <1>8. ResourcesConserved
    <2>1. Need \in Nat /\ NBuffers \in Nat /\ MaxThreads \in Nat
      BY <1>3, NeedType, WitnessAssumption
    <2>2. Accounted = NBuffers /\ Used = MaxThreads
      BY <1>1, <1>2, <2>1 DEF Accounted, Used
    <2> QED
      BY <2>1, <2>2 DEF ResourcesConserved, Accounted, Used, Held, Active
  <1> QED
    BY <1>3, <1>4, <1>5, <1>6, <1>7, <1>8 DEF IInv

(* The main thread, until it waits for witness_done.                       *)
LEMMA SpawningKeepsInv ==
  ASSUME IInv, Execute \/ PreCalculate \/ MainSpawned \/ \E i \in Instances : MainSpawn(i)
  PROVE  IInv'
  <1> USE DEF IInv, TypeOK, call, spawning, buffers, results
  <1>1. CASE Execute
    <2>1. MainTypes'
      BY <1>1 DEF Execute, MainTypes, Fails, IsCancelled
    <2>2. SpawnTypes'
      BY <1>1, Counts DEF Execute, SpawnTypes
    <2>3. ThreadOnce'
      BY <1>1 DEF Execute, ThreadOnce, Places
    <2>4. OnePlace'
      BY <1>1, WitnessAssumption DEF Execute, OnePlace, Upcoming, Places, All, SpawnTypes
    <2>5. TablesApart'
      BY <1>1 DEF Execute, TablesApart
    <2>6. Places'
      BY <1>1 DEF Execute, Places, Finished, IsCancelled, Fails
    <2>7. ResourcesConserved'
      BY <1>1, Frame DEF Execute, IsCancelled, Fails
    <2> QED
      BY <1>1, <2>1, <2>2, <2>3, <2>4, <2>5, <2>6, <2>7, Frame DEF Execute
  <1>2. CASE PreCalculate
    <2>1. MainTypes'
      BY <1>2 DEF PreCalculate, MainTypes
    <2>2. SpawnTypes'
      BY <1>2 DEF PreCalculate, SpawnTypes
    <2>3. ThreadOnce'
      BY <1>2 DEF PreCalculate, ThreadOnce, Places
    <2>4. OnePlace'
      BY <1>2 DEF PreCalculate, OnePlace, Upcoming
    <2>5. TablesApart'
      BY <1>2 DEF PreCalculate, TablesApart
    <2>6. Places'
      BY <1>2 DEF PreCalculate, Places, Finished, IsCancelled
    <2>7. ResourcesConserved'
      BY <1>2, Frame DEF PreCalculate, IsCancelled
    <2> QED
      BY <1>2, <2>1, <2>2, <2>3, <2>4, <2>5, <2>6, <2>7, Frame DEF PreCalculate
  <1>3. CASE \E i \in Instances : MainSpawn(i)
    <2>1. PICK i \in Instances : MainSpawn(i)
      BY <1>3
    <2>2. CASE i \in skipped
      <3>1. SpawnTypes'
        BY <2>1, <2>2 DEF MainSpawn, SpawnTypes
      <3>2. ThreadOnce'
        BY <2>1, <2>2 DEF MainSpawn, ThreadOnce
      <3>3. OnePlace'
        BY <2>1, <2>2 DEF MainSpawn, OnePlace, Upcoming
      <3>4. Places'
        BY <2>1, <2>2 DEF MainSpawn, Places, Finished, IsCancelled
      <3> QED
        BY <2>1, <2>2, <3>1, <3>2, <3>3, <3>4, Frame DEF MainSpawn
    <2>3. CASE i \notin skipped
      <3>1. /\ i \in todo /\ thread[i] = "none" /\ tokens >= Need
            /\ todo' = todo \ {i}
            /\ tokens' = tokens - Need /\ thread' = [thread EXCEPT ![i] = "ready"]
            /\ UNCHANGED <<mode, pool, trace, cancelled, done, witnessRx, dispatcher>>
        BY <2>1, <2>3 DEF MainSpawn, ThreadOnce
      <3>2. TokensTaken(i)
        BY <3>1 DEF TokensTaken
      <3>3. SpawnTypes'
        BY <2>1, <3>1, <3>2, TakingTokens DEF MainSpawn, SpawnTypes
      <3>4. ThreadOnce'
        <4>1. ThreadMoved(i, "ready")
          BY <3>1, ThreadStep
        <4>2. Cardinality(Ended') = Cardinality(Ended)
          BY <3>1, <4>1, Counts DEF ThreadMoved
        <4>3. done' <= Cardinality({j \in Instances : thread[j] = "ended"}')
          BY <3>1, <4>2 DEF ThreadOnce, Ended
        <4>4. \A j \in Instances \ {i} : thread'[j] = thread[j]
          BY <4>1 DEF ThreadMoved
        <4>5. dispatcher # i /\ witnessRx = {}
          BY <2>1, <3>1 DEF MainSpawn, ThreadOnce, Places
        <4> QED
          BY <3>1, <4>3, <4>4, <4>5 DEF ThreadOnce
      <3>5. OnePlace'
        BY <2>1, <3>1 DEF MainSpawn, OnePlace, Upcoming, SpawnTypes
      <3>6. Places'
        BY <2>1, <3>1 DEF MainSpawn, Places, Finished, IsCancelled
      <3>7. ResourcesConserved'
        BY <3>2, TakingTokens
      <3> QED
        BY <2>1, <3>3, <3>4, <3>5, <3>6, <3>7, Frame DEF MainSpawn
    <2> QED
      BY <2>2, <2>3
  <1>4. CASE MainSpawned
    <2>1. /\ tokens' \in Nat /\ tokens' <= tokens /\ (tokens' = tokens \/ IsCancelled)
          /\ UNCHANGED <<mode, thread, pool, trace, cancelled>>
      BY <1>4, NeedType DEF MainSpawned, SpawnTypes
    <2>2. ResourcesConserved' /\ tokens' \in 0 .. MaxThreads
      BY <2>1, TokensLost
    <2>3. MainTypes'
      BY <1>4 DEF MainSpawned, MainTypes
    <2>4. SpawnTypes'
      BY <1>4, <2>2 DEF MainSpawned, SpawnTypes
    <2>5. ThreadOnce'
      BY <1>4 DEF MainSpawned, ThreadOnce
    <2>6. OnePlace'
      BY <1>4 DEF MainSpawned, OnePlace, Upcoming
    <2>7. TablesApart'
      BY <1>4 DEF MainSpawned, TablesApart
    <2>8. Places'
      BY <1>4 DEF MainSpawned, Places, Finished, IsCancelled
    <2> QED
      BY <1>4, <2>2, <2>3, <2>4, <2>5, <2>6, <2>7, <2>8, Frame DEF MainSpawned
  <1> QED
    BY <1>1, <1>2, <1>3, <1>4

(* The main thread, until the workers are joined.                          *)
LEMMA WaitingKeepsInv ==
  ASSUME IInv, WaitDone \/ JoinThreads \/ WaitZero \/ Close
  PROVE  IInv'
  <1> USE DEF IInv, TypeOK, call, spawning, buffers, results
  <1>1. CASE WaitDone
    <2>1. MainTypes'
      BY <1>1 DEF WaitDone, MainTypes
    <2>2. TablesApart'
      BY <1>1 DEF WaitDone, TablesApart
    <2>3. Places'
      BY <1>1 DEF WaitDone, Places, Finished, IsCancelled
    <2> QED
      BY <1>1, <2>1, <2>2, <2>3, Frame DEF WaitDone, IsCancelled
  <1>2. CASE JoinThreads
    <2>1. MainTypes'
      BY <1>2 DEF JoinThreads, MainTypes
    <2>2. TablesApart'
      BY <1>2 DEF JoinThreads, TablesApart, MainTypes
    <2>3. Places'
      BY <1>2 DEF JoinThreads, Places, Finished, IsCancelled, MainTypes
    <2> QED
      BY <1>2, <2>1, <2>2, <2>3, Frame DEF JoinThreads, IsCancelled
  <1>3. CASE WaitZero
    <2>1. MainTypes'
      BY <1>3 DEF WaitZero, MainTypes
    <2>2. TablesApart'
      BY <1>3 DEF WaitZero, TablesApart, Places
    <2>3. Places'
      BY <1>3 DEF WaitZero, Places, Finished, IsCancelled
    <2> QED
      BY <1>3, <2>1, <2>2, <2>3, Frame DEF WaitZero, IsCancelled
  <1>4. CASE Close
    <2>1. MainTypes'
      BY <1>4 DEF Close, MainTypes
    <2>2. TablesApart'
      BY <1>4 DEF Close, TablesApart
    <2>3. Places'
      BY <1>4 DEF Close, Places, Finished, IsCancelled
    <2> QED
      BY <1>4, <2>1, <2>2, <2>3, Frame DEF Close, IsCancelled
  <1> QED
    BY <1>1, <1>2, <1>3, <1>4

(* Traces of the tables are added beside those in the pool.                *)
LEMMA ComputeTablesKeepsInv ==
  ASSUME IInv, ComputeTables
  PROVE  IInv'
  <1> USE DEF IInv, TypeOK, call, spawning, buffers, results
  <1>1. PICK S \in SUBSET Tables :
          /\ (S = Tables /\ failed' = FALSE) \/ (S # Tables /\ failed' = TRUE)
          /\ trace' = [i \in All |-> IF i \in S THEN "own" ELSE trace[i]]
          /\ jobs' = jobs \cup S
    BY DEF ComputeTables
  <1>2. /\ pc = "tables" /\ pc' = "drain"
        /\ UNCHANGED <<mode, skipped, phase, closing, spawning, pool, toBeReleased, worker,
                       contributed, proved, cancelled>>
    BY DEF ComputeTables
  <1>3. /\ phase = "contributions" /\ S \subseteq All /\ Instances \cap S = {}
        /\ Instances \subseteq All
    BY <1>2, WitnessAssumption DEF Places, All
  <1>4. MainTypes'
    BY <1>1, <1>2 DEF MainTypes
  <1>5. TraceTypes' /\ WorkTypes'
    BY <1>1, <1>2, <1>3 DEF TraceTypes, WorkTypes
  <1>6. OnePlace'
    <2>1. \A i \in S : /\ trace'[i] = "own" /\ i \notin toBeReleased
                       /\ \A w \in Workers : worker[w] # i
      BY <1>1, <1>2, <1>3 DEF TablesApart, TraceTypes
    <2>2. \A i \in All \ S : trace'[i] = trace[i]
      BY <1>1, <1>3
    <2>3. \A i \in Instances : Upcoming(i)' = Upcoming(i)
      BY <1>2 DEF Upcoming
    <2>4. \A i \in Instances :
          Upcoming(i)' => /\ trace'[i] = "none" /\ i \notin jobs' \cup toBeReleased'
                          /\ \A w \in Workers : worker'[w] # i
      BY <1>1, <1>2, <1>3, <2>2, <2>3 DEF OnePlace
    <2>5. \A i \in jobs' : trace'[i] # "none" /\ i \notin toBeReleased'
      BY <1>1, <1>2, <2>1, <2>2 DEF OnePlace, WorkTypes
    <2>6. \A w \in Workers :
          worker'[w] \in All =>
             /\ trace'[worker'[w]] # "none" /\ worker'[w] \notin jobs' \cup toBeReleased'
             /\ \A v \in Workers \ {w} : worker'[v] # worker'[w]
      BY <1>1, <1>2, <2>1, <2>2 DEF OnePlace
    <2> QED
      BY <2>4, <2>5, <2>6 DEF OnePlace
  <1>7. TablesApart'
    BY <1>1, <1>2, <1>3 DEF TablesApart, All
  <1>8. Places'
    BY <1>1, <1>2, <1>3 DEF Places, Finished, IsCancelled
  <1>9. ResourcesConserved'
    <2>1. InPool(All)' = InPool(All)
      BY <1>1, <1>3 DEF InPool, TablesApart
    <2> QED
      BY <1>2, <2>1 DEF ResourcesConserved, Need, Finished, IsCancelled
  <1> QED
    BY <1>2, <1>4, <1>5, <1>6, <1>7, <1>8, <1>9, Frame

(* The workers are joined: the call ends, or its second phase starts.      *)
LEMMA JoinWorkersKeepsInv ==
  ASSUME IInv, JoinWorkers
  PROVE  IInv'
  <1> USE DEF IInv, TypeOK, call, spawning, buffers, results
  <1>1. /\ pc = "drain" /\ \A w \in Workers : worker[w] = "ended"
        /\ UNCHANGED <<mode, skipped, failed, todo, done, target, witnessRx, dispatcher,
                       tokens, thread, pool, trace, jobs, contributed, proved, cancelled>>
    BY DEF JoinWorkers
  <1>2. ThreadOnce' /\ ResourcesConserved'
    BY <1>1, Frame DEF IsCancelled
  <1>3. CASE /\ failed \/ IsCancelled \/ phase = "internal"
             /\ pc' = "failed" \/ (pc' = "ok" /\ phase = "internal")
             /\ closing' = FALSE
             /\ UNCHANGED <<phase, calculated, toBeReleased, worker>>
    <2>1. MainTypes' /\ SpawnTypes'
      BY <1>1, <1>3 DEF JoinWorkers, MainTypes, SpawnTypes
    <2>2. TablesApart'
      BY <1>1, <1>3 DEF TablesApart
    <2>3. Places'
      BY <1>1, <1>3 DEF JoinWorkers, Places, Finished, IsCancelled
    <2> QED
      BY <1>1, <1>2, <1>3, <2>1, <2>2, <2>3, Frame
  <1>4. CASE /\ ~failed /\ ~IsCancelled /\ phase = "contributions" /\ StartInternal
             /\ worker' = [w \in Workers |-> "idle"]
    <2>1. jobs = {}
      BY <1>1, <1>4, WitnessAssumption DEF Places
    <2>2. witnessRx = {} /\ dispatcher \notin Instances
      BY <1>1, <1>4, WitnessAssumption DEF Places
    <2>3. MainTypes' /\ SpawnTypes' /\ TraceTypes' /\ WorkTypes'
      BY <1>1, <1>4 DEF JoinWorkers, StartInternal, MainTypes, SpawnTypes, TraceTypes,
                        WorkTypes
    <2>4. OnePlace'
      BY <1>1, <1>4, <2>1, WitnessAssumption DEF StartInternal, OnePlace, Upcoming, All
    <2>5. TablesApart'
      <3>1. \A t \in Tables : trace'[t] # "shared" /\ trace'[t] # "none"
        BY <1>1, <1>4 DEF TablesApart
      <3> QED
        BY <1>4, <3>1 DEF StartInternal, TablesApart
    <2>6. Places'
      BY <1>1, <1>4, <2>1, <2>2, WitnessAssumption
      DEF JoinWorkers, StartInternal, Places, Finished, IsCancelled
    <2> QED
      BY <1>2, <2>3, <2>4, <2>5, <2>6
  <1> QED
    BY <1>3, <1>4 DEF JoinWorkers

(* What is resident is proved and released; the rest is queued again.      *)
LEMMA FeedKeepsInv ==
  ASSUME IInv, Feed
  PROVE  IInv'
  <1> USE DEF IInv, TypeOK, call, spawning, buffers, results
  <1>1. PICK R \in SUBSET contributed : \E P \in SUBSET R :
          /\ cancelled' = cancelled \/ Fails("Prove")
          /\ Release(P) /\ proved' = P
          /\ jobs' = {i \in All \ R : trace[i] # "none"}
          /\ todo' = {i \in All \ R : trace[i] = "none"}
    BY DEF Feed
  <1>2. PICK P \in SUBSET R :
          /\ cancelled' = cancelled \/ Fails("Prove")
          /\ Release(P) /\ proved' = P
          /\ jobs' = {i \in All \ R : trace[i] # "none"}
          /\ todo' = {i \in All \ R : trace[i] = "none"}
    BY <1>1
  <1>3. /\ pc = "resident" /\ target' = Cardinality(todo') /\ done' = 0
        /\ thread' = [i \in Instances |-> "none"] /\ dispatcher' = "waiting"
        /\ pc' = "calculate"
        /\ UNCHANGED <<mode, skipped, phase, closing, failed, witnessRx, tokens, calculated,
                       toBeReleased, worker, contributed>>
    BY DEF Feed
  <1>4. /\ phase = "internal" /\ toBeReleased = {} /\ witnessRx = {} /\ closing = FALSE
        /\ \A w \in Workers : worker[w] = "idle"
        /\ \A i \in Instances : Finished(i)
    BY <1>3 DEF Places, MainTypes
  <1>5. /\ todo' \subseteq Instances /\ P \in SUBSET All /\ jobs' \subseteq All
        /\ jobs' \cap todo' = {} /\ jobs' \cap P = {} /\ todo' \cap P = {}
    BY <1>2, <1>3 DEF TablesApart, All, WorkTypes
  <1>6. /\ trace' \in [All -> {"none", "shared", "own"}]
        /\ \A i \in P : trace'[i] = "none"
        /\ \A i \in All \ P : trace'[i] = trace[i]
        /\ pool' + Cardinality(InPool(All)') = pool + Cardinality(InPool(All))
        /\ pool' \in Nat
    BY <1>2, <1>5, ReleaseStep
  <1>7. Active' = Active /\ Held' = Held /\ Active = {} /\ Held = {}
    BY <1>3, <1>4 DEF Active, Held, Finished
  <1>8. cancelled' \in {cancelled, "error"} /\ (IsCancelled => IsCancelled')
    BY <1>2 DEF Fails, IsCancelled
  <1>9. ResourcesConserved'
    <2>1. Accounted' = Accounted
      <3>1. Cardinality(Held) = 0
        BY <1>7, FS_EmptySet
      <3> QED
        BY <1>6, <1>7, <3>1, Counts, CountsNext DEF Accounted, TraceTypes
    <2>2. Used' = Used
      BY <1>3, <1>7 DEF Used, Need
    <2> QED
      BY <1>8, <2>1, <2>2, CountTypes, ResourcesStep
  <1>10. MainTypes'
    BY <1>3, <1>8 DEF MainTypes
  <1>11. SpawnTypes'
    <2>1. Cardinality(todo') \in 0 .. Cardinality(Instances)
      BY <1>5, Finite, Counts
    <2> QED
      BY <1>3, <1>5, <2>1, Counts DEF SpawnTypes
  <1>12. TraceTypes' /\ WorkTypes'
    BY <1>2, <1>3, <1>5, <1>6, <1>9, ChannelsFit DEF TraceTypes, WorkTypes
  <1>13. ThreadOnce'
    <2>1. /\ \A i \in Instances : thread'[i] = "none"
          /\ \A i \in todo' \cup witnessRx' : dispatcher' # i
      BY <1>3, <1>4, <1>5, WitnessAssumption
    <2>2. done' <= Cardinality({i \in Instances : thread[i] = "ended"}')
      BY <1>3, CountsNext DEF Ended
    <2> QED
      BY <2>1, <2>2 DEF ThreadOnce
  <1>14. OnePlace'
    <2>1. \A i \in Instances : Upcoming(i)' => i \in todo'
      BY <1>3, <1>4, WitnessAssumption DEF Upcoming
    <2>2. \A w \in Workers : worker'[w] \notin All
      BY <1>3, <1>4, WitnessAssumption DEF All
    <2>3. /\ \A i \in todo' : trace'[i] = "none" /\ i \in All
          /\ \A i \in jobs' : trace'[i] # "none"
      BY <1>2, <1>5, <1>6
    <2> QED
      BY <1>3, <1>4, <1>5, <2>1, <2>2, <2>3 DEF OnePlace
  <1>15. TablesApart'
    BY <1>3, <1>4, <1>5, <1>6 DEF TablesApart, All
  <1>16. Places'
    BY <1>3, <1>4, <1>8, WitnessAssumption DEF Places, IsCancelled
  <1> QED
    BY <1>9, <1>10, <1>11, <1>12, <1>13, <1>14, <1>15, <1>16

(* A cancellation, by the caller or a timeout, changes nothing else.       *)
LEMMA CancelKeepsInv ==
  ASSUME IInv, Cancel \/ Timeout
  PROVE  IInv'
  <1> USE DEF IInv, TypeOK, call, spawning, buffers, results
  <1>1. cancelled' \in {"caller", "timeout"} /\ UNCHANGED <<call, spawning, buffers, results>>
    BY DEF Cancel, Timeout
  <1>2. MainTypes'
    BY <1>1 DEF MainTypes
  <1>3. Places'
    BY <1>1 DEF Places, Finished, IsCancelled
  <1>4. IsCancelled => IsCancelled'
    BY <1>1 DEF IsCancelled
  <1> QED
    BY <1>1, <1>2, <1>3, <1>4, Frame

(* reset finds no thread and no worker.                                    *)
LEMMA ResetKeepsInv ==
  ASSUME IInv, Reset
  PROVE  IInv'
  <1> USE DEF IInv, TypeOK, call, spawning, buffers, results
  <1>1. /\ pc \in {"ok", "failed"} /\ pc' = "reset"
        /\ pool' = NBuffers /\ trace' = [i \in All |-> "none"] /\ toBeReleased' = {}
        /\ tokens' = MaxThreads /\ witnessRx' = {} /\ jobs' = {}
        /\ UNCHANGED <<mode, skipped, phase, closing, failed, todo, done, target,
                       dispatcher, thread, calculated, worker, contributed, proved,
                       cancelled>>
    BY DEF Reset
  <1>2. /\ \A w \in Workers : worker[w] = "ended" /\ worker[w] \notin All
        /\ \A i \in Instances : Finished(i)
        /\ dispatcher \notin Instances
    BY <1>1, WitnessAssumption DEF Places, All
  <1>3. MainTypes' /\ SpawnTypes' /\ TraceTypes' /\ WorkTypes'
    BY <1>1, WitnessAssumption DEF MainTypes, SpawnTypes, TraceTypes, WorkTypes
  <1>4. ThreadOnce'
    BY <1>1 DEF ThreadOnce
  <1>5. OnePlace'
    BY <1>1, <1>2 DEF OnePlace, All
  <1>6. TablesApart'
    BY <1>1, WitnessAssumption DEF TablesApart, All
  <1>7. Places'
    BY <1>1, <1>2, WitnessAssumption DEF Places, Finished, IsCancelled
  <1>8. ResourcesConserved'
    <2>1. Active' = {} /\ Held' = {} /\ InPool(All)' = {} /\ Need' = Need
      BY <1>1, <1>2 DEF Active, Held, Finished, InPool, Need
    <2>2. Cardinality({}) = 0 /\ NBuffers \in Nat
      BY FS_EmptySet, WitnessAssumption
    <2>3. Accounted' = NBuffers /\ Used' = MaxThreads
      BY <1>1, <2>1, <2>2, TokenTypes DEF Accounted, Used
    <2> QED
      BY <2>2, <2>3, TokenTypes DEF ResourcesConserved, Accounted, Used, Held, Active
  <1> QED
    BY <1>3, <1>4, <1>5, <1>6, <1>7, <1>8

-----------------------------------------------------------------------------
(* The dispatcher moves an instance from the channel to its thread.        *)
LEMMA DispatcherKeepsInv ==
  ASSUME IInv, Dispatcher
  PROVE  IInv'
  <1> USE DEF IInv, TypeOK, call, spawning, buffers, results
  <1>1. CASE \E i \in Instances : Dispatch(i)
    <2>1. PICK i \in Instances : Dispatch(i)
      BY <1>1
    <2>2. SpawnTypes'
      BY <2>1 DEF Dispatch, SpawnTypes
    <2>3. ThreadOnce'
      <3>1. i \notin todo /\ i \in witnessRx
        BY <2>1 DEF Dispatch, Places
      <3> QED
        BY <2>1, <3>1 DEF Dispatch, ThreadOnce
    <2>4. OnePlace'
      BY <2>1, WitnessAssumption DEF Dispatch, OnePlace, Upcoming
    <2>5. Places'
      BY <2>1, WitnessAssumption DEF Dispatch, Places, Finished, IsCancelled
    <2> QED
      BY <2>1, <2>2, <2>3, <2>4, <2>5, Frame DEF Dispatch, IsCancelled
  <1>2. CASE \E i \in Instances : DispatcherSpawn(i)
    <2>1. PICK i \in Instances : DispatcherSpawn(i)
      BY <1>2
    <2>2. /\ dispatcher = i /\ thread[i] = "none" /\ i \notin todo \cup witnessRx
          /\ tokens' = tokens - Need /\ thread' = [thread EXCEPT ![i] = "ready"]
          /\ dispatcher' = "waiting" /\ ~IsCancelled
          /\ UNCHANGED <<call, todo, done, target, witnessRx, calculated, buffers, results,
                         cancelled>>
      BY <2>1 DEF DispatcherSpawn, ThreadOnce
    <2>3. TokensTaken(i) /\ ThreadMoved(i, "ready")
      BY <2>1, <2>2, ThreadStep DEF TokensTaken, DispatcherSpawn
    <2>4. ResourcesConserved' /\ tokens' \in 0 .. MaxThreads
      BY <2>3, TakingTokens
    <2>5. SpawnTypes'
      BY <2>2, <2>3, <2>4 DEF SpawnTypes, ThreadMoved
    <2>6. ThreadOnce'
      <3>1. done' <= Cardinality({j \in Instances : thread[j] = "ended"}')
        BY <2>2, <2>3, Counts DEF ThreadOnce, Ended, ThreadMoved
      <3>2. \A j \in Instances : dispatcher' # j
        BY <2>2, WitnessAssumption
      <3>3. todo' \subseteq Instances /\ witnessRx' \subseteq Instances
        BY <2>5 DEF SpawnTypes
      <3> QED
        BY <2>2, <2>3, <3>1, <3>2, <3>3 DEF ThreadOnce, ThreadMoved
    <2>7. OnePlace'
      BY <2>2, <2>3, WitnessAssumption DEF OnePlace, Upcoming, ThreadMoved
    <2>8. Places'
      BY <2>1, <2>2, WitnessAssumption DEF DispatcherSpawn, Places, Finished, IsCancelled
    <2> QED
      BY <2>2, <2>4, <2>5, <2>6, <2>7, <2>8, Frame
  <1>3. CASE DispatcherEnds
    <2>1. /\ tokens' \in Nat /\ tokens' <= tokens /\ (tokens' = tokens \/ IsCancelled)
          /\ UNCHANGED <<mode, thread, pool, trace, cancelled>>
      BY <1>3, NeedType DEF DispatcherEnds, SpawnTypes
    <2>2. ResourcesConserved' /\ tokens' \in 0 .. MaxThreads
      BY <2>1, TokensLost
    <2>3. SpawnTypes'
      BY <1>3, <2>2 DEF DispatcherEnds, SpawnTypes
    <2>4. ThreadOnce'
      BY <1>3, WitnessAssumption DEF DispatcherEnds, ThreadOnce, SpawnTypes
    <2>5. OnePlace'
      BY <1>3, WitnessAssumption DEF DispatcherEnds, OnePlace, Upcoming
    <2>6. Places'
      BY <1>3, WitnessAssumption DEF DispatcherEnds, Places, Finished, IsCancelled, SpawnTypes
    <2> QED
      BY <1>3, <2>2, <2>3, <2>4, <2>5, <2>6, Frame DEF DispatcherEnds
  <1> QED
    BY <1>1, <1>2, <1>3 DEF Dispatcher

-----------------------------------------------------------------------------
(* The thread of an instance: pre-calculated, or left alone.               *)
LEMMA CalculateKeepsInv ==
  ASSUME IInv, NEW i \in Instances, Calculate(i)
  PROVE  IInv'
  <1> USE DEF IInv, TypeOK, call, spawning, buffers, results
  <1>1. PICK to \in {"take", "give", "ended"} :
          /\ thread[i] = "ready" /\ thread' = [thread EXCEPT ![i] = to]
          /\ calculated' \subseteq Instances
          /\ to = "ended" => IsCancelled'
          /\ IsCancelled => IsCancelled'
          /\ cancelled' \in {cancelled, "error"}
          /\ UNCHANGED <<call, todo, done, target, witnessRx, dispatcher, tokens, buffers,
                         results>>
    <2>1. CASE /\ thread' = [thread EXCEPT ![i] = IF i \in calculated THEN "give" ELSE "take"]
               /\ calculated' = calculated \cup {i}
               /\ UNCHANGED cancelled
      <3> DEFINE to == IF i \in calculated THEN "give" ELSE "take"
      <3> WITNESS to \in {"take", "give", "ended"}
      <3> QED
        BY <2>1 DEF Calculate, IsCancelled, SpawnTypes
    <2>2. CASE /\ Fails("Precalculate") /\ thread' = [thread EXCEPT ![i] = "ended"]
               /\ UNCHANGED calculated
      <3> WITNESS "ended" \in {"take", "give", "ended"}
      <3> QED
        BY <2>2 DEF Calculate, Fails, IsCancelled, SpawnTypes
    <2> QED
      BY <2>1, <2>2 DEF Calculate
  <1>2. ThreadMoved(i, to)
    BY <1>1, ThreadStep
  <1>3. /\ Cardinality(Held') = Cardinality(Held)
        /\ Cardinality(Active') <= Cardinality(Active)
        /\ to # "ended" => Cardinality(Active') = Cardinality(Active)
        /\ Cardinality(Ended') >= Cardinality(Ended)
    BY <1>1, <1>2, Counts DEF ThreadMoved
  <1>4. MainTypes' /\ SpawnTypes'
    BY <1>1, <1>2 DEF MainTypes, SpawnTypes, ThreadMoved
  <1>5. ThreadOnce'
    <2>1. done' <= Cardinality({j \in Instances : thread[j] = "ended"}')
      BY <1>1, <1>3, Counts, CountsNext DEF ThreadOnce, Ended, SpawnTypes
    <2> QED
      BY <1>1, <1>2, <2>1 DEF ThreadOnce, ThreadMoved
  <1>6. OnePlace'
    BY <1>1, <1>2 DEF OnePlace, Upcoming, ThreadMoved
  <1>7. Places'
    BY <1>1, <1>2 DEF Places, Finished, IsCancelled, ThreadMoved
  <1>8. ResourcesConserved'
    <2>1. Accounted' = Accounted
      BY <1>1, <1>3 DEF Accounted, InPool
    <2>2. Used' \in Nat /\ Used' <= Used /\ (to # "ended" => Used' = Used)
      BY <1>1, <1>3, UsedLess
    <2> QED
      BY <1>1, <2>1, <2>2, CountTypes, ResourcesStep
  <1> QED
    BY <1>1, <1>4, <1>5, <1>6, <1>7, <1>8, Frame

(* A buffer goes from the channel to a thread.                             *)
LEMMA TakeFreeKeepsInv ==
  ASSUME IInv, NEW i \in Instances, TakeFree(i)
  PROVE  IInv'
  <1> USE DEF IInv, TypeOK, call, spawning, buffers, results
  <1>1. /\ thread[i] = "take" /\ pool > 0 /\ pool' = pool - 1
        /\ thread' = [thread EXCEPT ![i] = "hold"]
        /\ UNCHANGED <<call, todo, done, target, witnessRx, dispatcher, tokens, calculated,
                       toBeReleased, trace, results, cancelled>>
    BY DEF TakeFree
  <1>2. ThreadMoved(i, "hold")
    BY <1>1, ThreadStep
  <1>3. pool \in Nat /\ pool' \in Nat /\ pool <= NBuffers /\ NBuffers \in Nat
    BY <1>1, WitnessAssumption DEF TraceTypes
  <1>4. SpawnTypes' /\ TraceTypes'
    BY <1>1, <1>2, <1>3 DEF SpawnTypes, TraceTypes, ThreadMoved
  <1>5. ThreadOnce'
    <2>1. done' <= Cardinality({j \in Instances : thread[j] = "ended"}')
      BY <1>1, <1>2, Counts DEF ThreadOnce, Ended, ThreadMoved
    <2> QED
      BY <1>1, <1>2, <2>1 DEF ThreadOnce, ThreadMoved
  <1>6. OnePlace'
    BY <1>1, <1>2 DEF OnePlace, Upcoming, ThreadMoved
  <1>7. Places'
    BY <1>1, <1>2 DEF Places, Finished, IsCancelled, ThreadMoved
  <1>8. ResourcesConserved'
    <2>1. Accounted' = Accounted
      BY <1>1, <1>2, <1>3, Counts DEF Accounted, InPool, ThreadMoved
    <2>2. Used' \in Nat /\ Used' = Used
      BY <1>1, <1>2, Counts, UsedLess DEF ThreadMoved
    <2> QED
      BY <1>1, <2>1, <2>2, CountTypes, ResourcesStep DEF IsCancelled
  <1> QED
    BY <1>1, <1>4, <1>5, <1>6, <1>7, <1>8, Frame DEF IsCancelled

(* A buffer goes from a trace whose contribution is known to a thread.     *)
LEMMA TakeReleasedKeepsInv ==
  ASSUME IInv, NEW i \in Instances, TakeReleased(i)
  PROVE  IInv'
  <1> USE DEF IInv, TypeOK, call, spawning, buffers, results
  <1>1. PICK j \in toBeReleased :
          /\ toBeReleased' = toBeReleased \ {j}
          /\ trace' = [trace EXCEPT ![j] = "none"]
          /\ thread' = IF trace[j] = "shared" THEN [thread EXCEPT ![i] = "hold"]
                       ELSE thread
    BY DEF TakeReleased
  <1>2. /\ thread[i] = "take"
        /\ UNCHANGED <<call, todo, done, target, witnessRx, dispatcher, tokens, calculated,
                       pool, results, cancelled>>
    BY DEF TakeReleased
  <1>3. j \in Instances /\ j \in All /\ j \notin Tables
    BY <1>1, WitnessAssumption DEF TraceTypes, All
  <1>4. TraceMoved(j, "none")
    BY <1>1, <1>3, TraceStep
  <1>5. PICK to \in {"take", "hold"} :
          /\ thread' = [thread EXCEPT ![i] = to]
          /\ to = "hold" <=> trace[j] = "shared"
    <2>1. CASE trace[j] = "shared"
      <3> WITNESS "hold" \in {"take", "hold"}
      <3> QED
        BY <1>1, <2>1
    <2>2. CASE trace[j] # "shared"
      <3> WITNESS "take" \in {"take", "hold"}
      <3> QED
        BY <1>1, <1>2, <2>2 DEF SpawnTypes
    <2> QED
      BY <2>1, <2>2
  <1>6. ThreadMoved(i, to)
    BY <1>5, ThreadStep
  <1>7. SpawnTypes' /\ TraceTypes'
    BY <1>1, <1>2, <1>4, <1>6 DEF SpawnTypes, TraceTypes, ThreadMoved, TraceMoved
  <1>8. ThreadOnce'
    <2>1. Cardinality(Ended') = Cardinality(Ended)
      BY <1>2, <1>5, <1>6, Counts DEF ThreadMoved
    <2>2. done' <= Cardinality({k \in Instances : thread[k] = "ended"}')
      BY <1>2, <2>1 DEF ThreadOnce, Ended
    <2> QED
      BY <1>2, <1>6, <2>2 DEF ThreadOnce, ThreadMoved
  <1>9. OnePlace'
    <2>1. /\ ~Upcoming(j) /\ j \notin jobs /\ \A w \in Workers : worker[w] # j
      BY <1>1, <1>3 DEF OnePlace
    <2>2. \A k \in Instances : Upcoming(k)' => Upcoming(k)
      BY <1>2, <1>5, <1>6 DEF Upcoming, ThreadMoved
    <2>3. \A k \in All \ {j} : trace'[k] = trace[k]
      BY <1>4 DEF TraceMoved
    <2>4. \A k \in Instances :
          Upcoming(k)' => /\ trace'[k] = "none" /\ k \notin jobs' \cup toBeReleased'
                          /\ \A w \in Workers : worker'[w] # k
      BY <1>1, <1>2, <2>1, <2>2, <2>3 DEF OnePlace, All
    <2>5. \A k \in jobs' : trace'[k] # "none" /\ k \notin toBeReleased'
      BY <1>1, <1>2, <2>1, <2>3 DEF OnePlace, WorkTypes
    <2>6. \A w \in Workers :
          worker'[w] \in All =>
             /\ trace'[worker'[w]] # "none" /\ worker'[w] \notin jobs' \cup toBeReleased'
             /\ \A v \in Workers \ {w} : worker'[v] # worker'[w]
      BY <1>1, <1>2, <2>1, <2>3 DEF OnePlace
    <2> QED
      BY <2>4, <2>5, <2>6 DEF OnePlace
  <1>10. TablesApart'
    <2>1. \A t \in Tables : trace'[t] = trace[t]
      BY <1>3, <1>4 DEF TraceMoved, All
    <2> QED
      BY <1>2, <2>1 DEF TablesApart
  <1>11. Places'
    BY <1>1, <1>2, <1>6 DEF Places, Finished, IsCancelled, ThreadMoved
  <1>12. ResourcesConserved'
    <2>1. Accounted' = Accounted
      <3>1. pool' = pool /\ pool \in Nat
        BY <1>2 DEF TraceTypes
      <3> QED
        BY <1>2, <1>4, <1>5, <1>6, <3>1, Counts DEF Accounted, ThreadMoved, TraceMoved
    <2>2. Cardinality(Active') = Cardinality(Active)
      BY <1>2, <1>5, <1>6, Counts DEF ThreadMoved
    <2>3. Used' \in Nat /\ Used' = Used
      BY <1>2, <2>2, Counts, UsedLess
    <2> QED
      BY <1>2, <2>1, <2>3, CountTypes, ResourcesStep DEF IsCancelled
  <1> QED
    BY <1>2, <1>7, <1>8, <1>9, <1>10, <1>11, <1>12, Frame

(* The trace is stored, or its computation fails and loses the buffer.     *)
LEMMA StoreKeepsInv ==
  ASSUME IInv, NEW i \in Instances, Store(i)
  PROVE  IInv'
  <1> USE DEF IInv, TypeOK, call, spawning, buffers, results
  <1>1. /\ thread[i] = "hold"
        /\ UNCHANGED <<call, todo, done, target, witnessRx, dispatcher, tokens, calculated,
                       pool, toBeReleased, worker, contributed, proved>>
    BY DEF Store
  <1>2. /\ i \notin todo /\ i \notin witnessRx /\ dispatcher # i /\ i \in All
        /\ trace[i] = "none" /\ i \notin jobs \cup toBeReleased
        /\ \A w \in Workers : worker[w] # i
        /\ i \notin Tables
    BY <1>1, WitnessAssumption DEF ThreadOnce, OnePlace, Upcoming, All
  <1>3. CASE /\ trace' = [trace EXCEPT ![i] = "shared"]
             /\ jobs' = jobs \cup {i}
             /\ thread' = [thread EXCEPT ![i] = "give"]
             /\ UNCHANGED cancelled
    <2>1. ThreadMoved(i, "give") /\ TraceMoved(i, "shared")
      BY <1>2, <1>3, ThreadStep, TraceStep
    <2>2. SpawnTypes' /\ TraceTypes' /\ WorkTypes'
      BY <1>1, <1>2, <1>3, <2>1
      DEF SpawnTypes, TraceTypes, WorkTypes, ThreadMoved, TraceMoved
    <2>3. ThreadOnce'
      <3>1. done' <= Cardinality({j \in Instances : thread[j] = "ended"}')
        BY <1>1, <2>1, Counts DEF ThreadOnce, Ended, ThreadMoved
      <3> QED
        BY <1>1, <1>2, <2>1, <3>1 DEF ThreadOnce, ThreadMoved
    <2>4. OnePlace'
      <3>1. ~Upcoming(i)' /\ \A j \in Instances \ {i} : Upcoming(j)' = Upcoming(j)
        BY <1>1, <1>2, <2>1 DEF Upcoming, ThreadMoved
      <3>2. trace'[i] = "shared" /\ \A j \in All \ {i} : trace'[j] = trace[j]
        BY <2>1 DEF TraceMoved
      <3>3. \A j \in Instances :
            Upcoming(j)' => /\ trace'[j] = "none" /\ j \notin jobs' \cup toBeReleased'
                            /\ \A w \in Workers : worker'[w] # j
        BY <1>1, <1>3, <3>1, <3>2 DEF OnePlace, All
      <3>4. \A j \in jobs' : trace'[j] # "none" /\ j \notin toBeReleased'
        BY <1>1, <1>2, <1>3, <3>2 DEF OnePlace, WorkTypes
      <3>5. \A w \in Workers :
            worker'[w] \in All =>
               /\ trace'[worker'[w]] # "none" /\ worker'[w] \notin jobs' \cup toBeReleased'
               /\ \A v \in Workers \ {w} : worker'[v] # worker'[w]
        BY <1>1, <1>2, <1>3, <3>2 DEF OnePlace
      <3> QED
        BY <3>3, <3>4, <3>5 DEF OnePlace
    <2>5. TablesApart'
      <3>1. \A t \in Tables : trace'[t] = trace[t] /\ (t \in jobs' <=> t \in jobs)
        BY <1>2, <1>3, <2>1 DEF TraceMoved, All
      <3> QED
        BY <1>1, <3>1 DEF TablesApart
    <2>6. Places'
      BY <1>1, <1>3, <2>1 DEF Places, Finished, IsCancelled, ThreadMoved
    <2>7. ResourcesConserved'
      <3>1. Accounted' = Accounted
        <4>1. pool' = pool /\ pool \in Nat
          BY <1>1 DEF TraceTypes
        <4> QED
          BY <1>1, <1>2, <2>1, <4>1, Counts DEF Accounted, ThreadMoved, TraceMoved
      <3>2. Cardinality(Active') = Cardinality(Active)
        BY <1>1, <2>1, Counts DEF ThreadMoved
      <3>3. Used' \in Nat /\ Used' = Used
        BY <1>1, <3>2, Counts, UsedLess
      <3> QED
        BY <1>3, <3>1, <3>3, CountTypes, ResourcesStep DEF IsCancelled
    <2> QED
      BY <1>1, <1>3, <2>2, <2>3, <2>4, <2>5, <2>6, <2>7, Frame
  <1>4. CASE Fails("Compute") /\ UNCHANGED <<trace, jobs>>
    <2>1. PICK to \in {"give", "ended"} : thread' = [thread EXCEPT ![i] = to]
      <3>1. CASE thread' = [thread EXCEPT ![i] = "give"]
        BY <3>1
      <3>2. CASE thread' = [thread EXCEPT ![i] = "ended"]
        BY <3>2
      <3> QED
        BY <1>1, <1>2, <1>4, <3>1, <3>2 DEF Store
    <2>2. ThreadMoved(i, to)
      BY <2>1, ThreadStep
    <2>3. IsCancelled' /\ cancelled' \in {cancelled, "error"}
      BY <1>4 DEF Fails, IsCancelled
    <2>4. MainTypes' /\ SpawnTypes' /\ WorkTypes'
      BY <1>1, <1>4, <2>2, <2>3 DEF MainTypes, SpawnTypes, WorkTypes, ThreadMoved
    <2>5. ThreadOnce'
      <3>1. Cardinality(Ended') >= Cardinality(Ended)
        BY <1>1, <2>1, <2>2, Counts DEF ThreadMoved
      <3>2. done' <= Cardinality({j \in Instances : thread[j] = "ended"}')
        BY <1>1, <3>1, Counts, CountsNext DEF ThreadOnce, Ended, SpawnTypes
      <3> QED
        BY <1>1, <2>2, <3>2 DEF ThreadOnce, ThreadMoved
    <2>6. OnePlace'
      BY <1>1, <1>4, <2>1, <2>2 DEF OnePlace, Upcoming, ThreadMoved
    <2>7. Places'
      BY <1>1, <1>4, <2>1, <2>2, <2>3 DEF Places, Finished, ThreadMoved
    <2>8. ResourcesConserved'
      <3>1. Accounted' \in Nat /\ Accounted' <= Accounted
        <4>1. pool' = pool /\ pool \in Nat /\ InPool(All)' = InPool(All)
          BY <1>1, <1>4 DEF TraceTypes, InPool
        <4> QED
          BY <1>1, <2>1, <2>2, <4>1, Counts DEF Accounted, ThreadMoved
      <3>2. Cardinality(Active') <= Cardinality(Active)
        BY <1>1, <2>1, <2>2, Counts DEF ThreadMoved
      <3>3. Used' \in Nat /\ Used' <= Used
        BY <1>1, <3>2, UsedLess
      <3> QED
        BY <2>3, <3>1, <3>3, ResourcesStep
    <2> QED
      BY <1>1, <1>4, <2>3, <2>4, <2>5, <2>6, <2>7, <2>8, Frame
  <1> QED
    BY <1>3, <1>4 DEF Store

(* The tokens go back, all of them or, after a cancellation, some.         *)
LEMMA GiveKeepsInv ==
  ASSUME IInv, NEW i \in Instances, Give(i)
  PROVE  IInv'
  <1> USE DEF IInv, TypeOK, call, spawning, buffers, results
  <1>1. PICK k \in 0 .. Need : (k = Need \/ IsCancelled) /\ tokens' = tokens + k
    BY DEF Give
  <1>2. /\ thread[i] = "give" /\ thread' = [thread EXCEPT ![i] = "ended"]
        /\ done' = done + 1
        /\ UNCHANGED <<call, todo, target, witnessRx, dispatcher, calculated, buffers,
                       results, cancelled>>
    BY DEF Give
  <1>3. ThreadMoved(i, "ended")
    BY <1>2, ThreadStep
  <1>4. Need \in Nat /\ k \in Nat /\ k <= Need /\ tokens \in Nat /\ MaxThreads \in Nat
    BY <1>1, TokenTypes
  <1>5. /\ Cardinality(Held') = Cardinality(Held)
        /\ Cardinality(Ended') = Cardinality(Ended) + 1
        /\ Cardinality(Active) = Cardinality(Active') + 1
        /\ Cardinality(Active') \in Nat
    BY <1>2, <1>3, Counts DEF ThreadMoved
  <1>6. Used' \in Nat /\ Used' <= Used /\ (k = Need => Used' = Used)
    <2> DEFINE n == Need * Cardinality(Active')
    <2>1. n \in Nat /\ Need * (Cardinality(Active') + 1) = n + Need
      BY <1>4, <1>5
    <2>2. Used = tokens + (n + Need)
      BY <1>5, <2>1 DEF Used
    <2>3. Used' = tokens + k + n
      BY <1>1, <1>2 DEF Used, Need
    <2> HIDE DEF n
    <2> QED
      BY <1>4, <2>1, <2>2, <2>3
  <1>7. ResourcesConserved'
    <2>1. Accounted' = Accounted
      BY <1>2, <1>5 DEF Accounted, InPool
    <2> QED
      BY <1>1, <1>2, <1>6, <2>1, CountTypes, ResourcesStep DEF IsCancelled
  <1>8. tokens' \in 0 .. MaxThreads
    <2>1. Used' <= MaxThreads
      BY <1>7 DEF ResourcesConserved, Used, Active
    <2> DEFINE n == Need * Cardinality(Active')
    <2>2. n \in Nat
      BY <1>4, <1>5
    <2>3. Used' = tokens' + n
      BY <1>2 DEF Used, Need
    <2>4. tokens' \in Nat
      BY <1>1, <1>4
    <2> HIDE DEF n
    <2>5. tokens' + n <= MaxThreads
      BY <2>1, <2>3
    <2>6. tokens' <= MaxThreads
      <3>1. ASSUME NEW a \in Nat, NEW b \in Nat, NEW m \in Nat, a + b <= m
            PROVE  a <= m
        BY <3>1
      <3>2. MaxThreads \in Nat
        BY <1>4
      <3> QED
        BY <2>2, <2>4, <2>5, <3>1, <3>2
    <2> QED
      BY <1>4, <2>4, <2>6
  <1>9. done' <= Cardinality(Ended')
    BY <1>2, <1>5, Counts DEF ThreadOnce, Ended, SpawnTypes
  <1>10. SpawnTypes'
    <2>1. done' \in 0 .. Cardinality(Instances)
      BY <1>2, <1>9, Counts, CountsNext DEF SpawnTypes
    <2> QED
      BY <1>2, <1>3, <1>8, <2>1 DEF SpawnTypes, ThreadMoved
  <1>11. ThreadOnce'
    <2>1. done' <= Cardinality({j \in Instances : thread[j] = "ended"}')
      BY <1>9 DEF Ended
    <2> QED
      BY <1>2, <1>3, <2>1 DEF ThreadOnce, ThreadMoved
  <1>12. OnePlace'
    BY <1>2, <1>3 DEF OnePlace, Upcoming, ThreadMoved
  <1>13. Places'
    BY <1>2, <1>3 DEF Places, Finished, IsCancelled, ThreadMoved
  <1> QED
    BY <1>2, <1>7, <1>10, <1>11, <1>12, <1>13, Frame


-----------------------------------------------------------------------------
(* A trace leaves the worker that has read it, and its buffer is released. *)
LEMMA WorkerReleases ==
  ASSUME IInv, NEW i \in All, Release({i}), \A j \in Instances : Upcoming(j) => j # i,
         UNCHANGED <<mode, tokens, thread>>, IsCancelled => IsCancelled'
  PROVE  /\ ResourcesConserved' /\ pool' \in 0 .. NBuffers
         /\ trace' \in [All -> {"none", "shared", "own"}] /\ trace'[i] = "none"
         /\ \A j \in All \ {i} : trace'[j] = trace[j]
         /\ \A t \in Tables : trace'[t] # "shared"
  <1>1. TypeOK /\ {i} \in SUBSET All
    BY DEF IInv
  <1>2. /\ trace' \in [All -> {"none", "shared", "own"}] /\ trace'[i] = "none"
        /\ \A j \in All \ {i} : trace'[j] = trace[j]
        /\ pool' + Cardinality(InPool(All)') = pool + Cardinality(InPool(All))
        /\ pool' \in Nat
    BY <1>1, ReleaseStep
  <1>3. Accounted' = Accounted
    <2>1. Held' = Held /\ pool \in Nat
      BY <1>1 DEF Held, TypeOK, TraceTypes
    <2> QED
      BY <1>2, <2>1, Counts, CountsNext DEF Accounted
  <1>4. Used' = Used
    BY DEF Used, Need, Active, Finished
  <1>5. ResourcesConserved'
    BY <1>1, <1>3, <1>4, CountTypes, ResourcesStep
  <1>6. \A t \in Tables : trace'[t] # "shared"
    BY <1>2 DEF IInv, TablesApart, All
  <1> QED
    BY <1>2, <1>5, <1>6, ChannelsFit

(* A worker takes an instance, or drops it after a cancellation.           *)
LEMMA TakeJobKeepsInv ==
  ASSUME IInv, NEW w \in Workers, NEW i \in All, TakeJob(w, i)
  PROVE  IInv'
  <1> USE DEF IInv, TypeOK, call, spawning, buffers, results
  <1>1. /\ worker[w] = "idle" /\ i \in jobs /\ jobs' = jobs \ {i}
        /\ UNCHANGED <<call, spawning, toBeReleased, contributed, proved, cancelled>>
    BY DEF TakeJob
  <1>2. /\ trace[i] # "none" /\ i \notin toBeReleased /\ \A v \in Workers : worker[v] # i
        /\ \A j \in Instances : Upcoming(j) => j # i
    BY <1>1 DEF OnePlace
  <1>3. CASE UNCHANGED <<pool, trace>> /\ \E s \in {i, "ended"} :
               /\ worker' = [worker EXCEPT ![w] = s]
               /\ s = "ended" => IsCancelled /\ phase = "contributions"
    <2>1. PICK s \in {i, "ended"} :
            /\ worker' = [worker EXCEPT ![w] = s]
            /\ s = "ended" => IsCancelled /\ phase = "contributions"
      BY <1>3
    <2>2. WorkTypes'
      BY <1>1, <2>1 DEF WorkTypes
    <2>3. /\ worker'[w] = s /\ (s \in All => s = i)
          /\ \A v \in Workers \ {w} : worker'[v] = worker[v]
      BY <2>1, WitnessAssumption DEF WorkTypes, All
    <2>4. OnePlace'
      <3>1. \A j \in Instances : Upcoming(j)' = Upcoming(j)
        BY <1>1 DEF Upcoming
      <3>2. \A j \in Instances :
            Upcoming(j)' => /\ trace'[j] = "none" /\ j \notin jobs' \cup toBeReleased'
                            /\ \A v \in Workers : worker'[v] # j
        BY <1>1, <1>2, <1>3, <2>3, <3>1 DEF OnePlace, All
      <3>3. \A j \in jobs' : trace'[j] # "none" /\ j \notin toBeReleased'
        BY <1>1, <1>3 DEF OnePlace
      <3>4. \A u \in Workers :
            worker'[u] \in All =>
               /\ trace'[worker'[u]] # "none" /\ worker'[u] \notin jobs' \cup toBeReleased'
               /\ \A v \in Workers \ {u} : worker'[v] # worker'[u]
        BY <1>1, <1>2, <1>3, <2>3 DEF OnePlace
      <3> QED
        BY <3>2, <3>3, <3>4 DEF OnePlace
    <2>5. TablesApart'
      BY <1>1, <1>3, <2>3 DEF TablesApart, All
    <2>6. Places'
      BY <1>1, <2>1, <2>3, WitnessAssumption DEF Places, Finished, IsCancelled, All
    <2> QED
      BY <1>1, <1>3, <2>2, <2>4, <2>5, <2>6, Frame DEF IsCancelled
  <1>4. CASE phase # "contributions" /\ Release({i}) /\ UNCHANGED worker
    <2>1. /\ ResourcesConserved' /\ pool' \in 0 .. NBuffers
          /\ trace' \in [All -> {"none", "shared", "own"}] /\ trace'[i] = "none"
          /\ \A j \in All \ {i} : trace'[j] = trace[j]
          /\ \A t \in Tables : trace'[t] # "shared"
      BY <1>1, <1>2, <1>4, WorkerReleases DEF IsCancelled
    <2>2. TraceTypes' /\ WorkTypes'
      BY <1>1, <1>4, <2>1 DEF TraceTypes, WorkTypes
    <2>3. OnePlace'
      BY <1>1, <1>2, <1>4, <2>1 DEF OnePlace, Upcoming, All, WorkTypes
    <2>4. TablesApart'
      <3>1. phase = "internal" /\ pc # "resident"
        BY <1>1, <1>4 DEF Places, MainTypes
      <3> QED
        BY <1>1, <2>1, <3>1 DEF TablesApart
    <2>5. Places'
      BY <1>1, <1>4 DEF Places, Finished, IsCancelled
    <2> QED
      BY <1>1, <2>1, <2>2, <2>3, <2>4, <2>5, Frame DEF IsCancelled
  <1>5. CASE ~IsCancelled
    <2>1. i \in {i, "ended"} /\ i # "ended"
      BY WitnessAssumption DEF All
    <2> QED
      BY <1>3, <1>5, <2>1 DEF TakeJob
  <1>6. CASE IsCancelled
    BY <1>3, <1>4, <1>6 DEF TakeJob
  <1> QED
    BY <1>5, <1>6

(* A worker is done with an instance: it is idle again or has failed.      *)
LEMMA WorkerLeaves ==
  ASSUME IInv, NEW w \in Workers, worker[w] \in All, NEW s \in {"idle", "ended"},
         worker' = [worker EXCEPT ![w] = s], s = "ended" => IsCancelled',
         cancelled' \in {cancelled, "error"}, IsCancelled => IsCancelled',
         UNCHANGED <<call, spawning, jobs>>
  PROVE  /\ MainTypes' /\ SpawnTypes' /\ ThreadOnce'
         /\ worker' \in [Workers -> All \cup {"idle", "ended"}]
         /\ toBeReleased' = {} \/ phase = "contributions" => Places'
         /\ UNCHANGED <<trace, toBeReleased>> => OnePlace'
         /\ UNCHANGED trace => TablesApart'
         /\ worker'[w] \notin All
         /\ \A v \in Workers \ {w} : worker'[v] = worker[v]
  <1> USE DEF IInv, TypeOK, call, spawning
  <1>1. /\ worker' \in [Workers -> All \cup {"idle", "ended"}]
        /\ worker'[w] = s /\ s \notin All
        /\ \A v \in Workers \ {w} : worker'[v] = worker[v]
    BY WitnessAssumption DEF WorkTypes, All
  <1>2. MainTypes' /\ SpawnTypes'
    BY DEF MainTypes, SpawnTypes
  <1>3. ThreadOnce'
    BY Frame
  <1>4. UNCHANGED <<trace, toBeReleased>> => OnePlace'
    BY <1>1 DEF OnePlace, Upcoming, All
  <1>5. UNCHANGED trace => TablesApart'
    BY <1>1 DEF TablesApart, All
  <1>6. toBeReleased' = {} \/ phase = "contributions" => Places'
    <2>1. pc \notin {"execute", "resident", "ok", "failed", "reset"}
      BY WitnessAssumption DEF Places, All
    <2> QED
      BY <1>1, <2>1 DEF Places, Finished, IsCancelled
  <1> QED
    BY <1>1, <1>2, <1>3, <1>4, <1>5, <1>6

(* The contribution is made, and the trace marked for soft release.        *)
LEMMA ContributeKeepsInv ==
  ASSUME IInv, NEW w \in Workers, Contribute(w)
  PROVE  IInv'
  <1> USE DEF IInv, TypeOK, call, spawning, buffers, results
  <1>1. /\ phase = "contributions" /\ worker[w] \in All
        /\ UNCHANGED <<call, spawning, pool, trace, jobs, proved>>
    BY DEF Contribute
  <1>2. ResourcesConserved'
    BY <1>1, Frame DEF Contribute, Fails, IsCancelled
  <1>3. CASE /\ contributed' = contributed \cup {worker[w]}
             /\ toBeReleased' = toBeReleased \cup InPool({worker[w]})
             /\ worker' = [worker EXCEPT ![w] = "idle"]
             /\ UNCHANGED cancelled
    <2>1. /\ MainTypes' /\ SpawnTypes' /\ ThreadOnce' /\ Places' /\ TablesApart'
          /\ worker' \in [Workers -> All \cup {"idle", "ended"}]
          /\ worker'[w] \notin All /\ \A v \in Workers \ {w} : worker'[v] = worker[v]
      BY <1>1, <1>3, WorkerLeaves DEF IsCancelled
    <2>2. InPool({worker[w]}) \subseteq Instances \cap {worker[w]}
      BY <1>1 DEF InPool, TablesApart, All
    <2>3. TraceTypes' /\ WorkTypes'
      BY <1>1, <1>3, <2>1, <2>2 DEF TraceTypes, WorkTypes
    <2>4. OnePlace'
      <3>1. \A j \in Instances : /\ Upcoming(j)' = Upcoming(j)
                                 /\ Upcoming(j) => worker[w] # j
        BY <1>1 DEF OnePlace, Upcoming
      <3>2. \A j \in Instances :
            Upcoming(j)' => /\ trace'[j] = "none" /\ j \notin jobs' \cup toBeReleased'
                            /\ \A v \in Workers : worker'[v] # j
        BY <1>1, <1>3, <2>1, <2>2, <3>1 DEF OnePlace, All
      <3>3. \A j \in jobs' : trace'[j] # "none" /\ j \notin toBeReleased'
        BY <1>1, <1>3, <2>2 DEF OnePlace
      <3>4. \A u \in Workers :
            worker'[u] \in All =>
               /\ trace'[worker'[u]] # "none" /\ worker'[u] \notin jobs' \cup toBeReleased'
               /\ \A v \in Workers \ {u} : worker'[v] # worker'[u]
        BY <1>1, <1>3, <2>1, <2>2 DEF OnePlace
      <3> QED
        BY <3>2, <3>3, <3>4 DEF OnePlace
    <2> QED
      BY <1>2, <2>1, <2>3, <2>4
  <1>4. CASE /\ Fails("Contribute") /\ worker' = [worker EXCEPT ![w] = "ended"]
             /\ UNCHANGED <<contributed, toBeReleased>>
    <2>1. IsCancelled' /\ cancelled' \in {cancelled, "error"}
      BY <1>4 DEF Fails, IsCancelled
    <2>2. /\ MainTypes' /\ SpawnTypes' /\ ThreadOnce' /\ Places' /\ TablesApart' /\ OnePlace'
          /\ worker' \in [Workers -> All \cup {"idle", "ended"}]
      BY <1>1, <1>4, <2>1, WorkerLeaves
    <2>3. TraceTypes' /\ WorkTypes'
      BY <1>1, <1>4, <2>2 DEF TraceTypes, WorkTypes
    <2> QED
      BY <1>2, <2>2, <2>3
  <1> QED
    BY <1>3, <1>4 DEF Contribute

(* The proof is made and the trace freed.                                  *)
LEMMA ProveKeepsInv ==
  ASSUME IInv, NEW w \in Workers, Prove(w)
  PROVE  IInv'
  <1> USE DEF IInv, TypeOK, call, spawning, buffers, results
  <1>1. /\ phase = "internal" /\ worker[w] \in All
        /\ UNCHANGED <<call, spawning, toBeReleased, jobs, contributed>>
    BY DEF Prove
  <1>2. toBeReleased = {}
    BY <1>1 DEF Places
  <1>3. CASE /\ proved' = proved \cup {worker[w]} /\ Release({worker[w]})
             /\ worker' = [worker EXCEPT ![w] = "idle"]
             /\ UNCHANGED cancelled
    <2>1. /\ MainTypes' /\ SpawnTypes' /\ ThreadOnce' /\ Places'
          /\ worker' \in [Workers -> All \cup {"idle", "ended"}]
          /\ worker'[w] \notin All /\ \A v \in Workers \ {w} : worker'[v] = worker[v]
      BY <1>1, <1>2, <1>3, WorkerLeaves DEF IsCancelled
    <2>2. \A j \in Instances : Upcoming(j) => j # worker[w]
      BY <1>1 DEF OnePlace
    <2>3. /\ ResourcesConserved' /\ pool' \in 0 .. NBuffers
          /\ trace' \in [All -> {"none", "shared", "own"}] /\ trace'[worker[w]] = "none"
          /\ \A j \in All \ {worker[w]} : trace'[j] = trace[j]
          /\ \A t \in Tables : trace'[t] # "shared"
      BY <1>1, <1>3, <2>2, WorkerReleases DEF IsCancelled
    <2>4. TraceTypes' /\ WorkTypes'
      BY <1>1, <1>3, <2>1, <2>3 DEF TraceTypes, WorkTypes
    <2>5. TablesApart'
      <3>1. pc # "resident"
        BY <1>1, WitnessAssumption DEF Places, All
      <3> QED
        BY <1>1, <2>3, <3>1 DEF TablesApart
    <2>6. OnePlace'
      <3>1. \A j \in Instances : Upcoming(j)' = Upcoming(j)
        BY <1>1 DEF Upcoming
      <3>2. \A j \in Instances :
            Upcoming(j)' => /\ trace'[j] = "none" /\ j \notin jobs' \cup toBeReleased'
                            /\ \A v \in Workers : worker'[v] # j
        BY <1>1, <2>1, <2>2, <2>3, <3>1 DEF OnePlace, All
      <3>3. \A j \in jobs' : trace'[j] # "none" /\ j \notin toBeReleased'
        BY <1>1, <1>2, <2>3 DEF OnePlace, WorkTypes
      <3>4. \A u \in Workers :
            worker'[u] \in All =>
               /\ trace'[worker'[u]] # "none" /\ worker'[u] \notin jobs' \cup toBeReleased'
               /\ \A v \in Workers \ {u} : worker'[v] # worker'[u]
        BY <1>1, <1>2, <2>1, <2>3 DEF OnePlace
      <3> QED
        BY <3>2, <3>3, <3>4 DEF OnePlace
    <2> QED
      BY <2>1, <2>3, <2>4, <2>5, <2>6
  <1>4. CASE /\ Fails("Prove") /\ worker' = [worker EXCEPT ![w] = "ended"]
             /\ UNCHANGED <<proved, pool, trace>>
    <2>1. IsCancelled' /\ cancelled' \in {cancelled, "error"}
      BY <1>4 DEF Fails, IsCancelled
    <2>2. /\ MainTypes' /\ SpawnTypes' /\ ThreadOnce' /\ Places' /\ TablesApart' /\ OnePlace'
          /\ worker' \in [Workers -> All \cup {"idle", "ended"}]
      BY <1>1, <1>2, <1>4, <2>1, WorkerLeaves
    <2>3. TraceTypes' /\ WorkTypes' /\ ResourcesConserved'
      BY <1>1, <1>4, <2>1, <2>2, Frame DEF TraceTypes, WorkTypes
    <2> QED
      BY <2>2, <2>3
  <1> QED
    BY <1>3, <1>4 DEF Prove

LEMMA WorkerEndsKeepsInv ==
  ASSUME IInv, NEW w \in Workers, WorkerEnds(w)
  PROVE  IInv'
  <1> USE DEF IInv, TypeOK, call, spawning, buffers, results
  <1>1. /\ worker[w] = "idle" /\ jobs = {} /\ (closing \/ IsCancelled)
        /\ pc # "resident" /\ worker' = [worker EXCEPT ![w] = "ended"]
        /\ UNCHANGED <<call, spawning, buffers, jobs, contributed, proved, cancelled>>
    BY DEF WorkerEnds
  <1>2. /\ worker' \in [Workers -> All \cup {"idle", "ended"}]
        /\ worker'[w] = "ended" /\ "ended" \notin All
        /\ \A v \in Workers \ {w} : worker'[v] = worker[v]
    BY <1>1, WitnessAssumption DEF WorkTypes, All
  <1>3. WorkTypes'
    BY <1>1, <1>2 DEF WorkTypes
  <1>4. OnePlace'
    BY <1>1, <1>2 DEF OnePlace, Upcoming, All
  <1>5. TablesApart'
    BY <1>1, <1>2 DEF TablesApart, All
  <1>6. Places'
    BY <1>1, <1>2 DEF Places, Finished, IsCancelled
  <1> QED
    BY <1>1, <1>3, <1>4, <1>5, <1>6, Frame DEF IsCancelled

-----------------------------------------------------------------------------
LEMMA StepKeepsInv == IInv /\ [Next]_vars => IInv'
  <1> SUFFICES ASSUME IInv, [Next]_vars PROVE IInv'
    OBVIOUS
  <1>1. CASE Main
    BY <1>1, SpawningKeepsInv, WaitingKeepsInv, ComputeTablesKeepsInv, JoinWorkersKeepsInv,
       FeedKeepsInv, CancelKeepsInv DEF Main
  <1>2. CASE Cancel
    BY <1>2, CancelKeepsInv
  <1>3. CASE Reset
    BY <1>3, ResetKeepsInv
  <1>4. CASE Dispatcher
    BY <1>4, DispatcherKeepsInv
  <1>5. CASE UNCHANGED vars
    <2>1. UNCHANGED <<call, spawning, buffers, results, cancelled>>
      BY <1>5 DEF vars
    <2>2. Places'
      BY <2>1 DEF IInv, Places, Finished, IsCancelled, call, spawning, buffers, results
    <2> QED
      BY <2>1, <2>2, Frame DEF IInv, TypeOK, IsCancelled, call, spawning, buffers, results
  <1>6. CASE \E i \in Instances : Thread(i)
    BY <1>6, CalculateKeepsInv, TakeFreeKeepsInv, TakeReleasedKeepsInv, StoreKeepsInv,
       GiveKeepsInv DEF Thread
  <1>7. CASE \E w \in Workers : Worker(w)
    BY <1>7, ContributeKeepsInv, ProveKeepsInv, WorkerEndsKeepsInv, TakeJobKeepsInv
    DEF Worker
  <1> QED
    BY <1>1, <1>2, <1>3, <1>4, <1>5, <1>6, <1>7 DEF Next, Stopped

LEMMA Invariance == Spec => []IInv
  BY InitInv, StepKeepsInv, PTL DEF Spec

(* Every variable keeps its type; the pool never holds more buffers than   *)
(* were allocated, and the channel of tokens never more than were made, so *)
(* no send to either of them blocks.                                       *)
THEOREM TypeCorrect == Spec => []TypeOK
  <1>1. IInv => TypeOK
    BY DEF IInv
  <1> QED
    BY <1>1, Invariance, PTL

(* The trace of an instance that is queued for a contribution or a proof,  *)
(* or that a worker reads, is there: no soft release takes it              *)
(* (memory_handler.rs 140-156, proofman.rs 2001, 2204-2205).               *)
THEOREM TracesThere == Spec => []TraceAtUse
  <1>1. IInv => TraceAtUse
    BY DEF IInv, OnePlace, TraceAtUse
  <1> QED
    BY <1>1, Invariance, PTL

(* Buffers and tokens are conserved until the call is cancelled, and never *)
(* become more: a buffer is in the channel, with one thread, or in one     *)
(* stored trace (memory_handler.rs, try_send_threads).                     *)
THEOREM ResourcesKept == Spec => []ResourcesConserved
  <1>1. IInv => ResourcesConserved
    BY DEF IInv
  <1> QED
    BY <1>1, Invariance, PTL

-----------------------------------------------------------------------------
(* What keeps the call going.                                              *)

(* An instance has been given out for this phase, or is about to be.       *)
Given == {i \in Instances : i \in todo \/ i \in witnessRx \/ dispatcher = i
                             \/ thread[i] # "none"}

(* Execute left an instance out, and its thread will never be started.     *)
Skipping == skipped # {} /\ mode # "queued"

(* A thread whose witness counts as calculated has passed that point.      *)
CalculatedOnce ==
    /\ \A i \in calculated : thread[i] \in {"take", "hold", "give", "ended"}
    /\ pc = "resident" => calculated = {}

SkippedIdle == mode # "queued" => \A i \in skipped : thread[i] = "none"

(* In a call that was not cancelled: the counter of the wait counts the    *)
(* threads that have ended, and its target is what was given out,          *)
DoneExactly == done = Cardinality(Ended)

GivenAll ==
    ~Skipping /\ pc \in {"calculate", "wait"} => target = Cardinality(Given)

(* except when an instance is skipped: such a call never leaves the wait;  *)
SkipBlocks ==
    Skipping => /\ phase = "contributions" /\ pc \in {"execute", "calculate", "wait"}
                /\ pc # "execute" => target = Cardinality(Instances)

(* a trace in a shared buffer is still used, or can be released;           *)
AtWork(i) == i \in jobs \/ \E w \in Workers : worker[w] = i

SharedFound ==
    pc \notin {"resident", "ok", "failed", "reset"} =>
       \A i \in All : trace[i] = "shared" => AtWork(i) \/ i \in toBeReleased

(* and an instance without its proof is on its way to one.                 *)
ToBeProved ==
    phase = "internal" /\ pc \in {"calculate", "wait", "join", "zero"} =>
       \A i \in All : i \in proved \/ AtWork(i) \/ (i \in Instances /\ Upcoming(i))

LEMMA CalculatedOnceKept ==
  ASSUME IInv, Next, CalculatedOnce
  PROVE  CalculatedOnce'
  <1> USE WitnessAssumption DEF IInv, TypeOK, call, spawning, buffers, results,
      CalculatedOnce, ThreadOnce, Places, SpawnTypes, MainTypes, StartInternal
  <1>1. CASE Execute
    BY <1>1 DEF Execute
  <1>2. CASE PreCalculate
    BY <1>2 DEF PreCalculate
  <1>3. CASE MainSpawned
    BY <1>3 DEF MainSpawned
  <1>4. CASE WaitDone
    BY <1>4 DEF WaitDone
  <1>5. CASE JoinThreads
    BY <1>5 DEF JoinThreads
  <1>6. CASE ComputeTables
    BY <1>6 DEF ComputeTables
  <1>7. CASE WaitZero
    BY <1>7 DEF WaitZero
  <1>8. CASE Close
    BY <1>8 DEF Close
  <1>9. CASE JoinWorkers
    BY <1>9 DEF JoinWorkers
  <1>10. CASE Feed
    BY <1>10 DEF Feed
  <1>11. CASE Timeout
    BY <1>11 DEF Timeout
  <1>12. CASE Cancel
    BY <1>12 DEF Cancel
  <1>13. CASE Reset
    BY <1>13 DEF Reset
  <1>14. CASE DispatcherEnds
    BY <1>14 DEF DispatcherEnds
  <1>15. ASSUME NEW i \in Instances, MainSpawn(i) PROVE CalculatedOnce'
    BY <1>15 DEF MainSpawn
  <1>16. ASSUME NEW i \in Instances, Dispatch(i) PROVE CalculatedOnce'
    BY <1>16 DEF Dispatch
  <1>17. ASSUME NEW i \in Instances, DispatcherSpawn(i) PROVE CalculatedOnce'
    BY <1>17 DEF DispatcherSpawn
  <1>18. ASSUME NEW i \in Instances, Calculate(i) PROVE CalculatedOnce'
    <2>1. pc # "resident" /\ pc' = pc
      BY <1>18 DEF Calculate, Finished
    <2>2. CASE /\ thread' = [thread EXCEPT ![i] = IF i \in calculated THEN "give" ELSE "take"]
               /\ calculated' = calculated \cup {i}
      BY <2>1, <2>2
    <2>3. CASE thread' = [thread EXCEPT ![i] = "ended"] /\ calculated' = calculated
      BY <2>1, <2>3
    <2> QED
      BY <1>18, <2>2, <2>3 DEF Calculate
  <1>19. ASSUME NEW i \in Instances, TakeFree(i) PROVE CalculatedOnce'
    BY <1>19 DEF TakeFree
  <1>20. ASSUME NEW i \in Instances, TakeReleased(i) PROVE CalculatedOnce'
    BY <1>20 DEF TakeReleased
  <1>21. ASSUME NEW i \in Instances, Store(i) PROVE CalculatedOnce'
    BY <1>21 DEF Store
  <1>22. ASSUME NEW i \in Instances, Give(i) PROVE CalculatedOnce'
    BY <1>22 DEF Give
  <1>23. ASSUME NEW w \in Workers, Contribute(w) PROVE CalculatedOnce'
    BY <1>23 DEF Contribute
  <1>24. ASSUME NEW w \in Workers, Prove(w) PROVE CalculatedOnce'
    BY <1>24 DEF Prove
  <1>25. ASSUME NEW w \in Workers, WorkerEnds(w) PROVE CalculatedOnce'
    BY <1>25 DEF WorkerEnds
  <1>26. ASSUME NEW w \in Workers, NEW i \in All, TakeJob(w, i) PROVE CalculatedOnce'
    BY <1>26 DEF TakeJob
  <1>27. CASE Stopped
    BY <1>27 DEF Stopped, vars
  <1> QED
    BY <1>1, <1>2, <1>3, <1>4, <1>5, <1>6, <1>7, <1>8, <1>9, <1>10, <1>11, <1>12,
       <1>13, <1>14, <1>15, <1>16, <1>17, <1>18, <1>19, <1>20, <1>21, <1>22, <1>23,
       <1>24, <1>25, <1>26, <1>27
    DEF Next, Main, Dispatcher, Thread, Worker

LEMMA SkippedIdleKept ==
  ASSUME IInv, Next, SkippedIdle
  PROVE  SkippedIdle'
  <1> USE WitnessAssumption DEF IInv, TypeOK, call, spawning, buffers, results,
      SkippedIdle, ThreadOnce, Places, SpawnTypes, MainTypes
  <1>1. CASE Execute
    BY <1>1 DEF Execute
  <1>2. CASE PreCalculate
    BY <1>2 DEF PreCalculate
  <1>3. CASE MainSpawned
    BY <1>3 DEF MainSpawned
  <1>4. CASE WaitDone
    BY <1>4 DEF WaitDone
  <1>5. CASE JoinThreads
    BY <1>5 DEF JoinThreads
  <1>6. CASE ComputeTables
    BY <1>6 DEF ComputeTables
  <1>7. CASE WaitZero
    BY <1>7 DEF WaitZero
  <1>8. CASE Close
    BY <1>8 DEF Close
  <1>9. CASE JoinWorkers
    BY <1>9 DEF JoinWorkers
  <1>10. CASE Feed
    BY <1>10 DEF Feed
  <1>11. CASE Timeout
    BY <1>11 DEF Timeout
  <1>12. CASE Cancel
    BY <1>12 DEF Cancel
  <1>13. CASE Reset
    BY <1>13 DEF Reset
  <1>14. CASE DispatcherEnds
    BY <1>14 DEF DispatcherEnds
  <1>15. ASSUME NEW i \in Instances, MainSpawn(i) PROVE SkippedIdle'
    BY <1>15 DEF MainSpawn
  <1>16. ASSUME NEW i \in Instances, Dispatch(i) PROVE SkippedIdle'
    BY <1>16 DEF Dispatch
  <1>17. ASSUME NEW i \in Instances, DispatcherSpawn(i) PROVE SkippedIdle'
    BY <1>17 DEF DispatcherSpawn
  <1>18. ASSUME NEW i \in Instances, Calculate(i) PROVE SkippedIdle'
    BY <1>18 DEF Calculate
  <1>19. ASSUME NEW i \in Instances, TakeFree(i) PROVE SkippedIdle'
    BY <1>19 DEF TakeFree
  <1>20. ASSUME NEW i \in Instances, TakeReleased(i) PROVE SkippedIdle'
    BY <1>20 DEF TakeReleased
  <1>21. ASSUME NEW i \in Instances, Store(i) PROVE SkippedIdle'
    BY <1>21 DEF Store
  <1>22. ASSUME NEW i \in Instances, Give(i) PROVE SkippedIdle'
    BY <1>22 DEF Give
  <1>23. ASSUME NEW w \in Workers, Contribute(w) PROVE SkippedIdle'
    BY <1>23 DEF Contribute
  <1>24. ASSUME NEW w \in Workers, Prove(w) PROVE SkippedIdle'
    BY <1>24 DEF Prove
  <1>25. ASSUME NEW w \in Workers, WorkerEnds(w) PROVE SkippedIdle'
    BY <1>25 DEF WorkerEnds
  <1>26. ASSUME NEW w \in Workers, NEW i \in All, TakeJob(w, i) PROVE SkippedIdle'
    BY <1>26 DEF TakeJob
  <1>27. CASE Stopped
    BY <1>27 DEF Stopped, vars
  <1> QED
    BY <1>1, <1>2, <1>3, <1>4, <1>5, <1>6, <1>7, <1>8, <1>9, <1>10, <1>11, <1>12,
       <1>13, <1>14, <1>15, <1>16, <1>17, <1>18, <1>19, <1>20, <1>21, <1>22, <1>23,
       <1>24, <1>25, <1>26, <1>27
    DEF Next, Main, Dispatcher, Thread, Worker

LEMMA SkipBlocksKept ==
  ASSUME IInv, Next, SkippedIdle, SkipBlocks, DoneExactly, ~IsCancelled'
  PROVE  SkipBlocks'
  <1> USE WitnessAssumption DEF IInv, TypeOK, call, spawning, buffers, results,
      SkipBlocks, Skipping, Places, SpawnTypes, MainTypes, IsCancelled, Fails
  <1>1. CASE Execute
    BY <1>1 DEF Execute
  <1>2. CASE PreCalculate
    BY <1>2 DEF PreCalculate
  <1>3. CASE MainSpawned
    BY <1>3 DEF MainSpawned
  <1>4. CASE WaitDone
    <2> SUFFICES ASSUME Skipping PROVE FALSE
      BY <1>4 DEF WaitDone
    <2>1. Ended \subseteq Instances /\ \E i \in Instances : i \notin Ended
      BY DEF Ended, SkippedIdle
    <2>2. Cardinality(Ended) < Cardinality(Instances)
      BY <2>1, Counts, FS_Subset
    <2>3. done < target
      BY <1>4, <2>2, Counts DEF WaitDone, DoneExactly
    <2> QED
      BY <1>4, <2>3 DEF WaitDone
  <1>5. CASE JoinThreads
    BY <1>5 DEF JoinThreads
  <1>6. CASE ComputeTables
    BY <1>6 DEF ComputeTables
  <1>7. CASE WaitZero
    BY <1>7 DEF WaitZero
  <1>8. CASE Close
    BY <1>8 DEF Close
  <1>9. CASE JoinWorkers
    BY <1>9 DEF JoinWorkers
  <1>10. CASE Feed
    BY <1>10 DEF Feed
  <1>11. CASE Timeout
    BY <1>11 DEF Timeout
  <1>12. CASE Cancel
    BY <1>12 DEF Cancel
  <1>13. CASE Reset
    BY <1>13 DEF Reset
  <1>14. CASE DispatcherEnds
    BY <1>14 DEF DispatcherEnds
  <1>15. ASSUME NEW i \in Instances, MainSpawn(i) PROVE SkipBlocks'
    BY <1>15 DEF MainSpawn
  <1>16. ASSUME NEW i \in Instances, Dispatch(i) PROVE SkipBlocks'
    BY <1>16 DEF Dispatch
  <1>17. ASSUME NEW i \in Instances, DispatcherSpawn(i) PROVE SkipBlocks'
    BY <1>17 DEF DispatcherSpawn
  <1>18. ASSUME NEW i \in Instances, Calculate(i) PROVE SkipBlocks'
    BY <1>18 DEF Calculate
  <1>19. ASSUME NEW i \in Instances, TakeFree(i) PROVE SkipBlocks'
    BY <1>19 DEF TakeFree
  <1>20. ASSUME NEW i \in Instances, TakeReleased(i) PROVE SkipBlocks'
    BY <1>20 DEF TakeReleased
  <1>21. ASSUME NEW i \in Instances, Store(i) PROVE SkipBlocks'
    BY <1>21 DEF Store
  <1>22. ASSUME NEW i \in Instances, Give(i) PROVE SkipBlocks'
    BY <1>22 DEF Give
  <1>23. ASSUME NEW w \in Workers, Contribute(w) PROVE SkipBlocks'
    BY <1>23 DEF Contribute
  <1>24. ASSUME NEW w \in Workers, Prove(w) PROVE SkipBlocks'
    BY <1>24 DEF Prove
  <1>25. ASSUME NEW w \in Workers, WorkerEnds(w) PROVE SkipBlocks'
    BY <1>25 DEF WorkerEnds
  <1>26. ASSUME NEW w \in Workers, NEW i \in All, TakeJob(w, i) PROVE SkipBlocks'
    BY <1>26 DEF TakeJob
  <1>27. CASE Stopped
    BY <1>27 DEF Stopped, vars
  <1> QED
    BY <1>1, <1>2, <1>3, <1>4, <1>5, <1>6, <1>7, <1>8, <1>9, <1>10, <1>11, <1>12,
       <1>13, <1>14, <1>15, <1>16, <1>17, <1>18, <1>19, <1>20, <1>21, <1>22, <1>23,
       <1>24, <1>25, <1>26, <1>27
    DEF Next, Main, Dispatcher, Thread, Worker

LEMMA SharedFoundKept ==
  ASSUME IInv, Next, SharedFound, ~IsCancelled'
  PROVE  SharedFound'
  <1> USE WitnessAssumption DEF IInv, TypeOK, call, spawning, buffers, results,
      SharedFound, AtWork, Places, SpawnTypes, MainTypes, TraceTypes, WorkTypes,
      IsCancelled, Fails, Release, InPool, All
  <1>1. CASE Execute
    BY <1>1 DEF Execute
  <1>2. CASE PreCalculate
    BY <1>2 DEF PreCalculate
  <1>3. CASE MainSpawned
    BY <1>3 DEF MainSpawned
  <1>4. CASE WaitDone
    BY <1>4 DEF WaitDone
  <1>5. CASE JoinThreads
    BY <1>5 DEF JoinThreads
  <1>6. CASE ComputeTables
    BY <1>6 DEF ComputeTables
  <1>7. CASE WaitZero
    BY <1>7 DEF WaitZero
  <1>8. CASE Close
    BY <1>8 DEF Close
  <1>9. CASE JoinWorkers
    <2>1. pc' \in {"failed", "ok", "resident"}
      BY <1>9 DEF JoinWorkers, StartInternal
    <2> QED
      BY <2>1
  <1>10. CASE Feed
    BY <1>10 DEF Feed
  <1>11. CASE Timeout
    BY <1>11 DEF Timeout
  <1>12. CASE Cancel
    BY <1>12 DEF Cancel
  <1>13. CASE Reset
    BY <1>13 DEF Reset
  <1>14. CASE DispatcherEnds
    BY <1>14 DEF DispatcherEnds
  <1>15. ASSUME NEW i \in Instances, MainSpawn(i) PROVE SharedFound'
    BY <1>15 DEF MainSpawn
  <1>16. ASSUME NEW i \in Instances, Dispatch(i) PROVE SharedFound'
    BY <1>16 DEF Dispatch
  <1>17. ASSUME NEW i \in Instances, DispatcherSpawn(i) PROVE SharedFound'
    BY <1>17 DEF DispatcherSpawn
  <1>18. ASSUME NEW i \in Instances, Calculate(i) PROVE SharedFound'
    BY <1>18 DEF Calculate
  <1>19. ASSUME NEW i \in Instances, TakeFree(i) PROVE SharedFound'
    BY <1>19 DEF TakeFree
  <1>20. ASSUME NEW i \in Instances, TakeReleased(i) PROVE SharedFound'
    BY <1>20 DEF TakeReleased
  <1>21. ASSUME NEW i \in Instances, Store(i) PROVE SharedFound'
    BY <1>21 DEF Store
  <1>22. ASSUME NEW i \in Instances, Give(i) PROVE SharedFound'
    BY <1>22 DEF Give
  <1>23. ASSUME NEW w \in Workers, Contribute(w) PROVE SharedFound'
    BY <1>23 DEF Contribute
  <1>24. ASSUME NEW w \in Workers, Prove(w) PROVE SharedFound'
    BY <1>24 DEF Prove
  <1>25. ASSUME NEW w \in Workers, WorkerEnds(w) PROVE SharedFound'
    BY <1>25 DEF WorkerEnds
  <1>26. ASSUME NEW w \in Workers, NEW i \in All, TakeJob(w, i) PROVE SharedFound'
    BY <1>26 DEF TakeJob
  <1>27. CASE Stopped
    BY <1>27 DEF Stopped, vars
  <1> QED
    BY <1>1, <1>2, <1>3, <1>4, <1>5, <1>6, <1>7, <1>8, <1>9, <1>10, <1>11, <1>12,
       <1>13, <1>14, <1>15, <1>16, <1>17, <1>18, <1>19, <1>20, <1>21, <1>22, <1>23,
       <1>24, <1>25, <1>26, <1>27
    DEF Next, Main, Dispatcher, Thread, Worker

LEMMA ToBeProvedKept ==
  ASSUME IInv, Next, CalculatedOnce, SkipBlocks, ToBeProved, ~IsCancelled'
  PROVE  ToBeProved'
  <1> USE WitnessAssumption DEF IInv, TypeOK, call, spawning, buffers, results,
      ToBeProved, AtWork, Upcoming, Places, SpawnTypes, MainTypes, WorkTypes,
      TraceTypes, IsCancelled, Fails, All
  <1>1. CASE Execute
    BY <1>1 DEF Execute
  <1>2. CASE PreCalculate
    BY <1>2 DEF PreCalculate
  <1>3. CASE MainSpawned
    BY <1>3 DEF MainSpawned
  <1>4. CASE WaitDone
    BY <1>4 DEF WaitDone
  <1>5. CASE JoinThreads
    BY <1>5 DEF JoinThreads
  <1>6. CASE ComputeTables
    BY <1>6 DEF ComputeTables
  <1>7. CASE WaitZero
    BY <1>7 DEF WaitZero
  <1>8. CASE Close
    BY <1>8 DEF Close
  <1>9. CASE JoinWorkers
    <2>1. pc' \in {"failed", "ok", "resident"}
      BY <1>9 DEF JoinWorkers, StartInternal
    <2> QED
      BY <2>1
  <1>10. CASE Feed
    <2>1. \E R \in SUBSET contributed : \E P \in SUBSET R :
            /\ IF P = R THEN UNCHANGED cancelled
               ELSE IF IsCancelled THEN UNCHANGED cancelled
               ELSE Fails("Prove")
            /\ proved' = P
            /\ jobs' = {i \in All \ R : trace[i] # "none"}
            /\ todo' = {i \in All \ R : trace[i] = "none"}
      BY <1>10 DEF Feed
    <2>2. PICK R \in SUBSET contributed :
            /\ proved' = R
            /\ jobs' = {i \in All \ R : trace[i] # "none"}
            /\ todo' = {i \in All \ R : trace[i] = "none"}
      BY <2>1
    <2>3. \A i \in Tables : trace[i] # "none"
      BY <1>10 DEF Feed, TablesApart
    <2> QED
      BY <1>10, <2>2, <2>3 DEF Feed
  <1>11. CASE Timeout
    BY <1>11 DEF Timeout
  <1>12. CASE Cancel
    BY <1>12 DEF Cancel
  <1>13. CASE Reset
    BY <1>13 DEF Reset
  <1>14. CASE DispatcherEnds
    BY <1>14 DEF DispatcherEnds
  <1>15. ASSUME NEW i \in Instances, MainSpawn(i) PROVE ToBeProved'
    <2> SUFFICES ASSUME phase = "internal" PROVE ToBeProved'
      BY <1>15 DEF MainSpawn
    <2>1. i \notin skipped
      BY <1>15 DEF MainSpawn, SkipBlocks, Skipping
    <2>2. /\ todo' = todo \ {i} /\ thread' = [thread EXCEPT ![i] = "ready"]
          /\ UNCHANGED <<phase, pc, witnessRx, dispatcher, jobs, worker, proved>>
      BY <1>15, <2>1 DEF MainSpawn
    <2> QED
      BY <2>2
  <1>16. ASSUME NEW i \in Instances, Dispatch(i) PROVE ToBeProved'
    BY <1>16 DEF Dispatch
  <1>17. ASSUME NEW i \in Instances, DispatcherSpawn(i) PROVE ToBeProved'
    BY <1>17 DEF DispatcherSpawn
  <1>18. ASSUME NEW i \in Instances, Calculate(i) PROVE ToBeProved'
    <2>1. i \notin calculated
      BY <1>18 DEF Calculate, CalculatedOnce
    <2>2. /\ thread' = [thread EXCEPT ![i] = "take"]
          /\ UNCHANGED <<phase, pc, todo, witnessRx, dispatcher, jobs, worker, proved>>
      BY <1>18, <2>1 DEF Calculate
    <2> QED
      BY <2>2
  <1>19. ASSUME NEW i \in Instances, TakeFree(i) PROVE ToBeProved'
    BY <1>19 DEF TakeFree
  <1>20. ASSUME NEW i \in Instances, TakeReleased(i) PROVE ToBeProved'
    BY <1>20 DEF TakeReleased
  <1>21. ASSUME NEW i \in Instances, Store(i) PROVE ToBeProved'
    <2>1. /\ thread' = [thread EXCEPT ![i] = "give"] /\ jobs' = jobs \cup {i}
          /\ UNCHANGED <<phase, pc, todo, witnessRx, dispatcher, worker, proved>>
      BY <1>21 DEF Store
    <2> QED
      BY <2>1
  <1>22. ASSUME NEW i \in Instances, Give(i) PROVE ToBeProved'
    BY <1>22 DEF Give
  <1>23. ASSUME NEW w \in Workers, Contribute(w) PROVE ToBeProved'
    BY <1>23 DEF Contribute
  <1>24. ASSUME NEW w \in Workers, Prove(w) PROVE ToBeProved'
    BY <1>24 DEF Prove
  <1>25. ASSUME NEW w \in Workers, WorkerEnds(w) PROVE ToBeProved'
    BY <1>25 DEF WorkerEnds
  <1>26. ASSUME NEW w \in Workers, NEW i \in All, TakeJob(w, i) PROVE ToBeProved'
    BY <1>26 DEF TakeJob
  <1>27. CASE Stopped
    BY <1>27 DEF Stopped, vars
  <1> QED
    BY <1>1, <1>2, <1>3, <1>4, <1>5, <1>6, <1>7, <1>8, <1>9, <1>10, <1>11, <1>12,
       <1>13, <1>14, <1>15, <1>16, <1>17, <1>18, <1>19, <1>20, <1>21, <1>22, <1>23,
       <1>24, <1>25, <1>26, <1>27
    DEF Next, Main, Dispatcher, Thread, Worker

LEMMA DoneExactlyKept ==
  ASSUME IInv, Next, DoneExactly, ~IsCancelled'
  PROVE  DoneExactly'
  <1> USE WitnessAssumption DEF IInv, TypeOK, call, spawning, buffers, results,
      DoneExactly, Ended, SpawnTypes, IsCancelled, Fails
  <1>1. CASE Execute
    BY <1>1 DEF Execute
  <1>2. CASE PreCalculate
    BY <1>2 DEF PreCalculate
  <1>3. CASE MainSpawned
    BY <1>3 DEF MainSpawned
  <1>4. CASE WaitDone
    BY <1>4 DEF WaitDone
  <1>5. CASE JoinThreads
    BY <1>5 DEF JoinThreads
  <1>6. CASE ComputeTables
    BY <1>6 DEF ComputeTables
  <1>7. CASE WaitZero
    BY <1>7 DEF WaitZero
  <1>8. CASE Close
    BY <1>8 DEF Close
  <1>9. CASE JoinWorkers
    BY <1>9 DEF JoinWorkers
  <1>10. CASE Feed
    <2>1. Ended' = {} /\ done' = 0
      BY <1>10 DEF Feed
    <2> QED
      BY <2>1, FS_EmptySet
  <1>11. CASE Timeout
    BY <1>11 DEF Timeout
  <1>12. CASE Cancel
    BY <1>12 DEF Cancel
  <1>13. CASE Reset
    BY <1>13 DEF Reset
  <1>14. CASE DispatcherEnds
    BY <1>14 DEF DispatcherEnds
  <1>15. ASSUME NEW i \in Instances, MainSpawn(i) PROVE DoneExactly'
    <2>1. Ended' = Ended /\ done' = done
      BY <1>15 DEF MainSpawn, ThreadOnce
    <2> QED
      BY <2>1
  <1>16. ASSUME NEW i \in Instances, Dispatch(i) PROVE DoneExactly'
    BY <1>16 DEF Dispatch
  <1>17. ASSUME NEW i \in Instances, DispatcherSpawn(i) PROVE DoneExactly'
    <2>1. Ended' = Ended /\ done' = done
      BY <1>17 DEF DispatcherSpawn, ThreadOnce
    <2> QED
      BY <2>1
  <1>18. ASSUME NEW i \in Instances, Calculate(i) PROVE DoneExactly'
    BY <1>18 DEF Calculate
  <1>19. ASSUME NEW i \in Instances, TakeFree(i) PROVE DoneExactly'
    BY <1>19 DEF TakeFree
  <1>20. ASSUME NEW i \in Instances, TakeReleased(i) PROVE DoneExactly'
    <2>1. thread' = thread \/ thread' = [thread EXCEPT ![i] = "hold"]
      BY <1>20 DEF TakeReleased
    <2>2. Ended' = Ended /\ done' = done
      BY <1>20, <2>1 DEF TakeReleased
    <2> QED
      BY <2>2
  <1>21. ASSUME NEW i \in Instances, Store(i) PROVE DoneExactly'
    BY <1>21 DEF Store
  <1>22. ASSUME NEW i \in Instances, Give(i) PROVE DoneExactly'
    <2>1. i \notin Ended /\ Ended' = Ended \cup {i} /\ done' = done + 1
      BY <1>22 DEF Give
    <2> QED
      BY <2>1, Counts, FS_AddElement
  <1>23. ASSUME NEW w \in Workers, Contribute(w) PROVE DoneExactly'
    BY <1>23 DEF Contribute
  <1>24. ASSUME NEW w \in Workers, Prove(w) PROVE DoneExactly'
    BY <1>24 DEF Prove
  <1>25. ASSUME NEW w \in Workers, WorkerEnds(w) PROVE DoneExactly'
    BY <1>25 DEF WorkerEnds
  <1>26. ASSUME NEW w \in Workers, NEW i \in All, TakeJob(w, i) PROVE DoneExactly'
    BY <1>26 DEF TakeJob
  <1>27. CASE Stopped
    BY <1>27 DEF Stopped, vars
  <1> QED
    BY <1>1, <1>2, <1>3, <1>4, <1>5, <1>6, <1>7, <1>8, <1>9, <1>10, <1>11, <1>12,
       <1>13, <1>14, <1>15, <1>16, <1>17, <1>18, <1>19, <1>20, <1>21, <1>22, <1>23,
       <1>24, <1>25, <1>26, <1>27
    DEF Next, Main, Dispatcher, Thread, Worker

LEMMA GivenAllKept ==
  ASSUME IInv, Next, GivenAll, ~IsCancelled'
  PROVE  GivenAll'
  <1> USE WitnessAssumption DEF IInv, TypeOK, call, spawning, buffers, results,
      GivenAll, Given, Skipping, SpawnTypes, IsCancelled, Fails, Places, MainTypes,
      ThreadOnce
  <1>1. CASE Execute
    <2>1. CASE pc' = "calculate" /\ todo' = Instances /\ target' = Cardinality(Instances)
      <3>1. Given' = Instances
        BY <2>1
      <3> QED
        BY <2>1, <3>1
    <2> QED
      BY <1>1, <2>1 DEF Execute
  <1>2. CASE PreCalculate
    <2>1. \/ pc' = "join" /\ failed'
          \/ /\ pc = "calculate" /\ pc' = "wait" /\ witnessRx' = todo /\ todo' = {}
             /\ UNCHANGED <<mode, skipped, target, dispatcher, thread>>
      BY <1>2 DEF PreCalculate
    <2>2. CASE pc' = "join" /\ failed'
      BY <2>2
    <2>3. CASE /\ pc = "calculate" /\ pc' = "wait" /\ witnessRx' = todo /\ todo' = {}
               /\ UNCHANGED <<mode, skipped, target, dispatcher, thread>>
      <3>1. Given' = Given
        BY <2>3
      <3> QED
        BY <2>3, <3>1
    <2> QED
      BY <2>1, <2>2, <2>3
  <1>3. CASE MainSpawned
    <2>1. /\ pc = "calculate" /\ todo = {} /\ todo' = {}
          /\ UNCHANGED <<mode, skipped, target, witnessRx, dispatcher, thread>>
      BY <1>3 DEF MainSpawned
    <2>2. Given' = Given
      BY <2>1
    <2> QED
      BY <2>1, <2>2
  <1>4. CASE WaitDone
    BY <1>4 DEF WaitDone
  <1>5. CASE JoinThreads
    BY <1>5 DEF JoinThreads
  <1>6. CASE ComputeTables
    BY <1>6 DEF ComputeTables
  <1>7. CASE WaitZero
    BY <1>7 DEF WaitZero
  <1>8. CASE Close
    BY <1>8 DEF Close
  <1>9. CASE JoinWorkers
    <2>1. pc' \in {"failed", "ok", "resident"}
      BY <1>9 DEF JoinWorkers, StartInternal
    <2> QED
      BY <2>1
  <1>10. CASE Feed
    <2>1. pc = "resident" /\ thread' = [i \in Instances |-> "none"] /\ dispatcher' = "waiting"
          /\ witnessRx' = witnessRx /\ target' = Cardinality(todo')
      BY <1>10 DEF Feed
    <2>2. todo' \subseteq Instances
      <3>1. \A t \in Tables : trace[t] # "none"
        BY <2>1 DEF TablesApart
      <3> QED
        BY <1>10, <3>1 DEF Feed, All
    <2>3. Given' = todo'
      BY <2>1, <2>2
    <2> QED
      BY <2>1, <2>3
  <1>11. CASE Timeout
    BY <1>11 DEF Timeout
  <1>12. CASE Cancel
    BY <1>12 DEF Cancel
  <1>13. CASE Reset
    BY <1>13 DEF Reset
  <1>14. CASE DispatcherEnds
    <2>1. /\ dispatcher = "waiting" /\ dispatcher' = "ended"
          /\ UNCHANGED <<call, todo, target, witnessRx, thread>>
      BY <1>14 DEF DispatcherEnds
    <2>2. Given' = Given
      BY <2>1
    <2> QED
      BY <2>1, <2>2
  <1>15. ASSUME NEW i \in Instances, MainSpawn(i) PROVE GivenAll'
    <2> SUFFICES ASSUME ~Skipping PROVE GivenAll'
      BY <1>15 DEF MainSpawn
    <2>1. /\ i \in todo /\ todo' = todo \ {i} /\ thread' = [thread EXCEPT ![i] = "ready"]
          /\ UNCHANGED <<call, target, witnessRx, dispatcher>>
      BY <1>15 DEF MainSpawn
    <2>2. Given' = Given
      BY <2>1
    <2> QED
      BY <2>1, <2>2
  <1>16. ASSUME NEW i \in Instances, Dispatch(i) PROVE GivenAll'
    <2>1. Given' = Given
      BY <1>16 DEF Dispatch
    <2> QED
      BY <1>16, <2>1 DEF Dispatch
  <1>17. ASSUME NEW i \in Instances, DispatcherSpawn(i) PROVE GivenAll'
    <2>1. Given' = Given
      BY <1>17 DEF DispatcherSpawn
    <2> QED
      BY <1>17, <2>1 DEF DispatcherSpawn
  <1>18. ASSUME NEW i \in Instances, Calculate(i) PROVE GivenAll'
    <2>1. Given' = Given
      BY <1>18 DEF Calculate
    <2> QED
      BY <1>18, <2>1 DEF Calculate
  <1>19. ASSUME NEW i \in Instances, TakeFree(i) PROVE GivenAll'
    <2>1. Given' = Given
      BY <1>19 DEF TakeFree
    <2> QED
      BY <1>19, <2>1 DEF TakeFree
  <1>20. ASSUME NEW i \in Instances, TakeReleased(i) PROVE GivenAll'
    <2>1. thread' = thread \/ thread' = [thread EXCEPT ![i] = "hold"]
      BY <1>20 DEF TakeReleased
    <2>2. Given' = Given
      BY <1>20, <2>1 DEF TakeReleased
    <2> QED
      BY <1>20, <2>2 DEF TakeReleased
  <1>21. ASSUME NEW i \in Instances, Store(i) PROVE GivenAll'
    <2>1. Given' = Given
      BY <1>21 DEF Store
    <2> QED
      BY <1>21, <2>1 DEF Store
  <1>22. ASSUME NEW i \in Instances, Give(i) PROVE GivenAll'
    <2>1. Given' = Given
      BY <1>22 DEF Give
    <2> QED
      BY <1>22, <2>1 DEF Give
  <1>23. ASSUME NEW w \in Workers, Contribute(w) PROVE GivenAll'
    BY <1>23 DEF Contribute
  <1>24. ASSUME NEW w \in Workers, Prove(w) PROVE GivenAll'
    BY <1>24 DEF Prove
  <1>25. ASSUME NEW w \in Workers, WorkerEnds(w) PROVE GivenAll'
    BY <1>25 DEF WorkerEnds
  <1>26. ASSUME NEW w \in Workers, NEW i \in All, TakeJob(w, i) PROVE GivenAll'
    BY <1>26 DEF TakeJob
  <1>27. CASE Stopped
    BY <1>27 DEF Stopped, vars
  <1> QED
    BY <1>1, <1>2, <1>3, <1>4, <1>5, <1>6, <1>7, <1>8, <1>9, <1>10, <1>11, <1>12,
       <1>13, <1>14, <1>15, <1>16, <1>17, <1>18, <1>19, <1>20, <1>21, <1>22, <1>23,
       <1>24, <1>25, <1>26, <1>27
    DEF Next, Main, Dispatcher, Thread, Worker

WaitsInv ==
    /\ IInv /\ CalculatedOnce /\ SkippedIdle
    /\ ~IsCancelled => DoneExactly /\ GivenAll /\ SkipBlocks /\ SharedFound /\ ToBeProved

LEMMA InitWaits == Init => WaitsInv
  <1> SUFFICES ASSUME Init PROVE WaitsInv
    OBVIOUS
  <1>1. CalculatedOnce /\ SkippedIdle /\ GivenAll /\ SkipBlocks /\ SharedFound /\ ToBeProved
    BY WitnessAssumption
    DEF Init, CalculatedOnce, SkippedIdle, GivenAll, SkipBlocks, SharedFound, ToBeProved
  <1>2. DoneExactly
    <2>1. Ended = {} /\ done = 0
      BY DEF Init, Ended
    <2> QED
      BY <2>1, FS_EmptySet DEF DoneExactly
  <1> QED
    BY <1>1, <1>2, InitInv DEF WaitsInv

LEMMA StepKeepsWaits == WaitsInv /\ [Next]_vars => WaitsInv'
  <1> SUFFICES ASSUME WaitsInv, [Next]_vars PROVE WaitsInv'
    OBVIOUS
  <1>1. IInv'
    BY StepKeepsInv DEF WaitsInv
  <1>2. CASE Next
    <2>1. ~IsCancelled' => ~IsCancelled
      BY <1>2 DEF Next, Main, Execute, PreCalculate, MainSpawned, MainSpawn, WaitDone,
         JoinThreads, ComputeTables, WaitZero, Close, JoinWorkers, Feed, Timeout, Cancel,
         Reset, Dispatcher, DispatcherEnds, Dispatch, DispatcherSpawn, Stopped, vars,
         Thread, Calculate, TakeFree, TakeReleased, Store, Give, Worker, Contribute, Prove,
         WorkerEnds, TakeJob, Fails, IsCancelled
    <2> QED
      BY <1>1, <1>2, <2>1, CalculatedOnceKept, SkippedIdleKept, DoneExactlyKept,
         GivenAllKept, SkipBlocksKept, SharedFoundKept, ToBeProvedKept DEF WaitsInv
  <1>3. CASE UNCHANGED vars
    <2> USE <1>3 DEF vars, call, spawning, buffers, results
    <2>1. CalculatedOnce' /\ SkippedIdle' /\ (IsCancelled' <=> IsCancelled)
      BY DEF CalculatedOnce, SkippedIdle, WaitsInv, IsCancelled
    <2>2. Ended' = Ended /\ Given' = Given
      BY DEF Ended, Given
    <2>3. ~IsCancelled => DoneExactly' /\ GivenAll' /\ SkipBlocks'
      BY <2>2 DEF DoneExactly, GivenAll, SkipBlocks, Skipping, WaitsInv
    <2>4. ~IsCancelled => SharedFound' /\ ToBeProved'
      BY DEF SharedFound, ToBeProved, AtWork, Upcoming, WaitsInv
    <2> QED
      BY <1>1, <2>1, <2>3, <2>4 DEF WaitsInv
  <1> QED
    BY <1>2, <1>3

SomeoneGoesOn ==
    \/ MainGoesOn \/ DispatcherGoesOn
    \/ \E i \in Instances : ThreadGoesOn(i)
    \/ \E w \in Workers : WorkerGoesOn(w)

(* A queued instance has a worker that can take it, or works on another.   *)
LEMMA QueueServed ==
  ASSUME WaitsInv, ~IsCancelled, pc \notin {"ok", "failed", "reset"},
         NEW i \in All, AtWork(i)
  PROVE  SomeoneGoesOn
  <1>1. CASE \E w \in Workers : worker[w] = i
    BY <1>1 DEF WorkerGoesOn, SomeoneGoesOn
  <1>2. CASE i \in jobs
    <2>1. PICK w \in Workers : TRUE
      BY WitnessAssumption
    <2>2. worker[w] # "ended"
      BY <1>2 DEF WaitsInv, IInv, Places
    <2>3. worker[w] \in All \cup {"idle"}
      BY <2>2 DEF WaitsInv, IInv, TypeOK, WorkTypes
    <2> QED
      BY <1>2, <2>3 DEF WorkerGoesOn, SomeoneGoesOn
  <1> QED
    BY <1>1, <1>2 DEF AtWork

(* A thread that waits for a buffer gets one, or somebody who has one goes *)
(* on, unless the call was cancelled and all workers have ended.           *)
LEMMA ThreadServed ==
  ASSUME WaitsInv, NEW i \in Instances, ~Finished(i)
  PROVE  SomeoneGoesOn \/ Starved
  <1>1. thread[i] \in {"ready", "take", "hold", "give"}
    BY DEF WaitsInv, IInv, TypeOK, SpawnTypes, Finished
  <1>2. pc \notin {"tables", "resident", "zero", "drain", "ok", "failed", "reset"}
    BY DEF WaitsInv, IInv, Places
  <1>3. SUFFICES ASSUME thread[i] = "take", ~(pool > 0), toBeReleased = {}
        PROVE  SomeoneGoesOn \/ Starved
    BY <1>1 DEF ThreadGoesOn, SomeoneGoesOn
  <1>4. pool = 0
    BY <1>3, WitnessAssumption DEF WaitsInv, IInv, TypeOK, TraceTypes
  <1>5. CASE IsCancelled
    <2>1. CASE \A w \in Workers : worker[w] = "ended"
      BY <1>3, <1>4, <1>5, <2>1 DEF Starved
    <2>2. CASE \E w \in Workers : worker[w] # "ended"
      BY <1>2, <1>5, <2>2
      DEF WaitsInv, IInv, TypeOK, WorkTypes, WorkerGoesOn, SomeoneGoesOn
    <2> QED
      BY <2>1, <2>2
  <1>6. CASE ~IsCancelled
    <2>1. Accounted = NBuffers
      BY <1>6 DEF WaitsInv, IInv, ResourcesConserved, Accounted, Held
    <2>2. Held # {} \/ InPool(All) # {}
      <3>1. SUFFICES ASSUME Held = {}, InPool(All) = {} PROVE FALSE
        OBVIOUS
      <3>2. Accounted = 0
        BY <1>4, <3>1, FS_EmptySet DEF Accounted
      <3> QED
        BY <2>1, <3>2, WitnessAssumption
    <2>3. CASE Held # {}
      BY <2>3 DEF Held, ThreadGoesOn, SomeoneGoesOn
    <2>4. CASE InPool(All) # {}
      <3>1. PICK j \in All : trace[j] = "shared"
        BY <2>4 DEF InPool
      <3>2. AtWork(j)
        BY <1>2, <1>3, <1>6, <3>1 DEF WaitsInv, SharedFound
      <3> QED
        BY <1>2, <1>6, <3>2, QueueServed
    <2> QED
      BY <2>2, <2>3, <2>4
  <1> QED
    BY <1>5, <1>6

(* Tokens that are missing are with a thread.                              *)
LEMMA TokensServed ==
  ASSUME WaitsInv, ~IsCancelled, ~(tokens >= Need)
  PROVE  SomeoneGoesOn \/ Starved
  <1>1. IInv
    BY DEF WaitsInv
  <1>2. Used = MaxThreads
    BY <1>1 DEF IInv, ResourcesConserved, Used, Active
  <1>3. Active # {}
    <2>1. SUFFICES ASSUME Active = {} PROVE FALSE
      OBVIOUS
    <2>2. Used = tokens + Need * 0
      BY <2>1, FS_EmptySet DEF Used
    <2> QED
      BY <1>1, <1>2, <2>2, TokenTypes
  <1> QED
    BY <1>3, ThreadServed DEF Active

(* At its end a wait finds every instance done, if it finds nobody busy.   *)
LEMMA AllDone ==
  ASSUME WaitsInv, ~IsCancelled, ~Skipping, pc = "wait",
         witnessRx = {}, dispatcher \notin Instances,
         \A i \in Instances : Finished(i)
  PROVE  done >= target
  <1>1. todo = {}
    BY DEF WaitsInv, IInv, Places
  <1>2. Given = Ended
    BY <1>1 DEF Given, Ended, Finished
  <1>3. done = Cardinality(Ended) /\ target = Cardinality(Ended)
    BY <1>2 DEF WaitsInv, DoneExactly, GivenAll
  <1> QED
    BY <1>3, Counts

LEMMA SomeoneIsThere == WaitsInv => NeverStuck
  <1> SUFFICES ASSUME WaitsInv, pc \notin {"ok", "failed", "reset"},
                      ~(pc = "wait" /\ Skipping)
               PROVE  SomeoneGoesOn \/ Starved
    BY DEF NeverStuck, SomeoneGoesOn, Skipping
  <1>1. IInv
    BY DEF WaitsInv
  <1>2. CASE \E i \in Instances : ~Finished(i)
    BY <1>2, ThreadServed
  <1>3. CASE ~IsCancelled /\ ~(tokens >= Need)
    BY <1>3, TokensServed
  <1>4. CASE mode = "queued"
             /\ (dispatcher \in Instances \/ (dispatcher = "waiting" /\ witnessRx # {}))
    BY <1>3, <1>4 DEF DispatcherGoesOn, SomeoneGoesOn
  <1>5. ASSUME \A i \in Instances : Finished(i), IsCancelled \/ tokens >= Need,
               dispatcher \notin Instances, dispatcher = "waiting" => witnessRx = {}
        PROVE  SomeoneGoesOn \/ Starved
    <2>1. CASE pc \in {"execute", "tables", "resident", "calculate"}
      BY <1>5, <2>1 DEF MainGoesOn, SomeoneGoesOn
    <2>2. CASE pc = "wait"
      <3>1. CASE IsCancelled
        BY <2>2, <3>1 DEF MainGoesOn, SomeoneGoesOn
      <3>2. CASE ~IsCancelled
        <4>1. witnessRx = {}
          BY <1>1, <1>5, <3>2 DEF IInv, Places, TypeOK, SpawnTypes
        <4>2. done >= target
          BY <1>5, <2>2, <3>2, <4>1, AllDone
        <4> QED
          BY <2>2, <4>2 DEF MainGoesOn, SomeoneGoesOn
      <3> QED
        BY <3>1, <3>2
    <2>3. CASE pc = "join"
      <3>1. CASE mode = "queued" => dispatcher = "ended"
        BY <1>5, <2>3, <3>1 DEF MainGoesOn, SomeoneGoesOn
      <3>2. CASE mode = "queued" /\ dispatcher = "waiting"
        BY <2>3, <3>2 DEF DispatcherGoesOn, SomeoneGoesOn
      <3> QED
        BY <1>1, <1>5, <3>1, <3>2 DEF IInv, TypeOK, SpawnTypes
    <2>4. CASE pc = "zero"
      <3>1. CASE proved = All \/ IsCancelled
        BY <2>4, <3>1 DEF MainGoesOn, SomeoneGoesOn
      <3>2. CASE ~IsCancelled /\ proved # All
        <4>1. PICK i \in All : i \notin proved
          BY <1>1, <3>2 DEF IInv, TypeOK, WorkTypes
        <4>2. i \in Instances => ~Upcoming(i)
          <5>1. todo = {} /\ witnessRx = {} /\ dispatcher # i
            BY <1>1, <1>5, <2>4, <3>2, WitnessAssumption
            DEF IInv, Places, TypeOK, SpawnTypes, All
          <5>2. i \in Instances => thread[i] \notin {"ready", "take", "hold"}
            BY <1>5 DEF Finished
          <5> QED
            BY <5>1, <5>2 DEF Upcoming
        <4>3. AtWork(i)
          BY <1>1, <2>4, <3>2, <4>1, <4>2 DEF WaitsInv, IInv, Places, ToBeProved
        <4> QED
          BY <2>4, <3>2, <4>3, QueueServed
      <3> QED
        BY <3>1, <3>2
    <2>5. CASE pc = "drain"
      <3>1. CASE ~closing \/ \A w \in Workers : worker[w] = "ended"
        BY <2>5, <3>1 DEF MainGoesOn, SomeoneGoesOn
      <3>2. CASE closing /\ \E w \in Workers : worker[w] # "ended"
        BY <1>1, <2>5, <3>2 DEF IInv, TypeOK, WorkTypes, WorkerGoesOn, SomeoneGoesOn
      <3> QED
        BY <3>1, <3>2
    <2> QED
      BY <1>1, <2>1, <2>2, <2>3, <2>4, <2>5 DEF IInv, TypeOK, MainTypes
  <1>6. mode # "queued" => witnessRx = {} /\ dispatcher = "waiting" /\ "waiting" \notin Instances
    BY <1>1, WitnessAssumption DEF IInv, Places
  <1> QED
    BY <1>2, <1>3, <1>4, <1>5, <1>6

LEMMA WaitsInvariant == Spec => []WaitsInv
  BY InitWaits, StepKeepsWaits, PTL DEF Spec

(* A call never comes to a stop: while it has not returned, the main       *)
(* thread, the dispatcher, a thread or a worker can go on, whatever the    *)
(* number of buffers and tokens and whatever fails; the exceptions are a   *)
(* thread starved by a cancellation, and a skipped instance (memory_handler.rs *)
(* 128-156, proofman.rs 2163-2181, 2480-2530).                             *)
THEOREM NoDeadlock == Spec => []NeverStuck
  BY SomeoneIsThere, WaitsInvariant, PTL

(* A wait that has lasted ten minutes because nobody is left to end it     *)
(* cancels only calls that skip an instance: in all others the counters    *)
(* that the waits read reach their values (proofman.rs 226-261).           *)
THEOREM TimeoutOnlyIfSkipped == Spec => [][~Timeout \/ Skipping]_vars
  <1>1. WaitsInv /\ [Next]_vars => [~Timeout \/ Skipping]_vars
    <2> SUFFICES ASSUME WaitsInv, Timeout, ~Skipping PROVE FALSE
      OBVIOUS
    <2>1. /\ ~IsCancelled /\ jobs = {} /\ witnessRx = {} /\ dispatcher \notin Instances
          /\ \A i \in Instances : Finished(i)
          /\ \A w \in Workers : worker[w] \notin All
          /\ (pc = "wait" /\ done < target) \/ (pc = "zero" /\ proved # All)
      BY DEF Timeout
    <2>2. CASE pc = "wait" /\ done < target
      <3>1. done \in Nat /\ target \in Nat
        BY Counts DEF WaitsInv, IInv, TypeOK, SpawnTypes
      <3> QED
        BY <2>1, <2>2, <3>1, AllDone
    <2>3. CASE pc = "zero" /\ proved # All
      <3>1. PICK i \in All : i \notin proved
        BY <2>3 DEF WaitsInv, IInv, TypeOK, WorkTypes
      <3>2. ~AtWork(i)
        BY <2>1 DEF AtWork
      <3>3. i \in Instances => ~Upcoming(i)
        BY <2>1, <2>3 DEF Upcoming, Finished, WaitsInv, IInv, Places
      <3> QED
        BY <2>1, <2>3, <3>1, <3>2, <3>3 DEF WaitsInv, IInv, Places, ToBeProved
    <2> QED
      BY <2>1, <2>2, <2>3
  <1> QED
    BY <1>1, WaitsInvariant, PTL DEF Spec
-----------------------------------------------------------------------------
(* That a call goes on towards its end.                                    *)
LEMMA AheadType ==
  ASSUME NEW i
  PROVE  /\ ToTrace(i) \in 0..7 /\ ToRelease(i) \in 0..3 /\ Ahead(i) \in Nat
         /\ ToTrace(i)' \in 0..7 /\ ToRelease(i)' \in 0..3 /\ Ahead(i)' \in Nat
  <1>1. ToTrace(i) \in 0..7 /\ ToTrace(i)' \in 0..7
    BY DEF ToTrace
  <1>2. ToRelease(i) \in 0..3 /\ ToRelease(i)' \in 0..3
    BY DEF ToRelease
  <1> QED
    BY <1>1, <1>2 DEF Ahead

(* What the rank of an instance looks at.                                  *)
LEMMA AheadSame ==
  ASSUME NEW i \in All, i \in todo' <=> i \in todo, i \in witnessRx' <=> i \in witnessRx,
         dispatcher' = i <=> dispatcher = i, i \in Instances => thread'[i] = thread[i],
         i \in jobs' <=> i \in jobs, i \in toBeReleased' <=> i \in toBeReleased,
         (\E w \in Workers : worker'[w] = i) <=> (\E w \in Workers : worker[w] = i)
  PROVE  Ahead(i)' = Ahead(i)
  BY DEF Ahead, ToTrace, ToRelease

(* The main thread passes to its next place.                               *)
LEMMA MainOnward ==
  ASSUME IInv,
         \/ Execute \/ PreCalculate \/ MainSpawned \/ WaitDone \/ JoinThreads
         \/ ComputeTables \/ WaitZero \/ Close \/ JoinWorkers \/ Feed \/ Reset
  PROVE  Onward
  <1>0. Passed' > Passed
    <2> USE DEF Passed, IInv, TypeOK, MainTypes, Places
    <2>1. CASE Execute
      BY <2>1 DEF Execute
    <2>2. CASE PreCalculate
      BY <2>2 DEF PreCalculate
    <2>3. CASE MainSpawned
      BY <2>3 DEF MainSpawned
    <2>4. CASE WaitDone
      BY <2>4 DEF WaitDone
    <2>5. CASE JoinThreads
      BY <2>5 DEF JoinThreads
    <2>6. CASE ComputeTables
      BY <2>6 DEF ComputeTables
    <2>7. CASE WaitZero
      BY <2>7 DEF WaitZero
    <2>8. CASE Close
      BY <2>8 DEF Close
    <2>9. CASE JoinWorkers
      BY <2>9 DEF JoinWorkers, StartInternal
    <2>10. CASE Feed
      BY <2>10 DEF Feed
    <2>11. CASE Reset
      BY <2>11 DEF Reset
    <2> QED
      BY <2>1, <2>2, <2>3, <2>4, <2>5, <2>6, <2>7, <2>8, <2>9, <2>10, <2>11
  <1> QED
    BY <1>0 DEF Onward

(* A step that leaves the main thread where it is, the workers, the        *)
(* dispatcher and the token no further back, and one instance nearer.      *)
Steady ==
  /\ Passed' = Passed
  /\ \A w \in Workers : worker[w] = "ended" => worker'[w] = "ended"
  /\ dispatcher = "ended" => dispatcher' = "ended"
  /\ IsCancelled => IsCancelled'

LEMMA OneOnward ==
  ASSUME Steady, NEW i \in All, Ahead(i)' < Ahead(i),
         \A j \in All \ {i} : Ahead(j)' <= Ahead(j)
  PROVE  Onward
  <1>1. \A j \in All : Ahead(j)' <= Ahead(j)
    BY AheadType
  <1> QED
    BY <1>1 DEF Onward, Steady

(* The steps that bring an instance to its trace.                          *)
LEMMA SpawnOnward ==
  ASSUME IInv, NEW i \in Instances,
         MainSpawn(i) \/ Dispatch(i) \/ DispatcherSpawn(i) \/ Calculate(i)
         \/ TakeFree(i) \/ Give(i)
  PROVE  Onward
  <1>1. i \in All /\ i \notin {"waiting", "ended"}
    BY WitnessAssumption DEF All
  <1>2. Steady
    BY <1>1 DEF MainSpawn, Dispatch, DispatcherSpawn, Calculate, TakeFree, Give, call,
       results, Steady, Passed, Fails, IsCancelled
  <1>3. UNCHANGED <<jobs, worker, toBeReleased>>
    BY DEF MainSpawn, Dispatch, DispatcherSpawn, Calculate, TakeFree, Give, results,
       buffers
  <1>4. \A j \in All \ {i} : Ahead(j)' = Ahead(j)
    <2> SUFFICES ASSUME NEW j \in All \ {i} PROVE Ahead(j)' = Ahead(j)
      OBVIOUS
    <2>1. j \notin {"waiting", "ended"}
      BY WitnessAssumption DEF All
    <2>2. /\ j \in todo' <=> j \in todo
          /\ j \in witnessRx' <=> j \in witnessRx
          /\ dispatcher' = j <=> dispatcher = j
          /\ j \in Instances => thread'[j] = thread[j]
      BY <2>1 DEF MainSpawn, Dispatch, DispatcherSpawn, Calculate, TakeFree, Give, IInv,
         TypeOK, SpawnTypes
    <2> QED
      BY <1>3, <2>2, AheadSame
  <1>5. ToRelease(i)' = ToRelease(i)
    BY <1>3 DEF ToRelease
  <1>6. ToTrace(i)' < ToTrace(i)
    <2> USE <1>1 DEF ToTrace, IInv, TypeOK, SpawnTypes
    <2>1. CASE MainSpawn(i)
      <3>1. i \in todo /\ i \notin todo'
        BY <2>1 DEF MainSpawn
      <3> QED
        BY <3>1
    <2>2. CASE Dispatch(i)
      <3>1. i \in witnessRx /\ i \notin witnessRx' /\ dispatcher' = i /\ todo' = todo
        BY <2>2 DEF Dispatch
      <3>2. i \notin todo
        BY <3>1 DEF Places
      <3> QED
        BY <3>1, <3>2
    <2>3. CASE DispatcherSpawn(i)
      BY <2>3 DEF DispatcherSpawn, ThreadOnce
    <2>4. CASE Calculate(i)
      BY <2>4 DEF Calculate, ThreadOnce
    <2>5. CASE TakeFree(i)
      BY <2>5 DEF TakeFree, ThreadOnce
    <2>6. CASE Give(i)
      BY <2>6 DEF Give, ThreadOnce
    <2> QED
      BY <2>1, <2>2, <2>3, <2>4, <2>5, <2>6
  <1>7. Ahead(i)' < Ahead(i)
    BY <1>1, <1>5, <1>6, AheadType DEF Ahead
  <1> QED
    BY <1>1, <1>2, <1>4, <1>7, AheadType, OneOnward

(* A thread that takes the buffer of another instance releases its trace.  *)
LEMMA TakeReleasedOnward ==
  ASSUME IInv, NEW i \in Instances, TakeReleased(i)
  PROVE  Onward
  <1>1. PICK r \in toBeReleased :
          /\ toBeReleased' = toBeReleased \ {r}
          /\ thread' = IF trace[r] = "shared" THEN [thread EXCEPT ![i] = "hold"] ELSE thread
    BY DEF TakeReleased
  <1>2. /\ thread[i] = "take" /\ r \in Instances /\ r \in All
        /\ UNCHANGED <<call, todo, witnessRx, dispatcher, jobs, worker, cancelled>>
    BY DEF TakeReleased, IInv, TypeOK, TraceTypes, All, results
  <1>3. Steady
    BY <1>2 DEF call, Steady, Passed, IsCancelled
  <1>4. ToTrace(r)' <= ToTrace(r)
    BY <1>1, <1>2, AheadType DEF ToTrace, IInv, TypeOK, SpawnTypes
  <1>5. ToRelease(r)' < ToRelease(r)
    <2>1. r \notin jobs /\ \A w \in Workers : worker[w] # r
      BY <1>2 DEF IInv, OnePlace
    <2> QED
      BY <1>1, <1>2, <2>1 DEF ToRelease
  <1>6. Ahead(r)' < Ahead(r)
    BY <1>4, <1>5, AheadType DEF Ahead
  <1>7. ASSUME NEW j \in All \ {r}
        PROVE  Ahead(j)' <= Ahead(j)
    <2>1. ToRelease(j)' = ToRelease(j)
      BY <1>1, <1>2 DEF ToRelease
    <2>2. ToTrace(j)' <= ToTrace(j)
      BY <1>1, <1>2, AheadType DEF ToTrace, IInv, TypeOK, SpawnTypes
    <2> QED
      BY <2>1, <2>2, AheadType DEF Ahead
  <1> QED
    BY <1>2, <1>3, <1>6, <1>7, OneOnward

(* A thread that stores its trace queues it, or fails and queues nothing.  *)
LEMMA StoreOnward ==
  ASSUME IInv, NEW i \in Instances, Store(i)
  PROVE  Onward
  <1>1. i \in All /\ i \notin {"waiting", "ended"}
    BY WitnessAssumption DEF All
  <1>2. /\ thread[i] = "hold"
        /\ UNCHANGED <<call, todo, witnessRx, dispatcher, toBeReleased, worker>>
        /\ jobs' = jobs \cup {i} \/ jobs' = jobs
        /\ \E to \in {"give", "ended"} : thread' = [thread EXCEPT ![i] = to]
        /\ IsCancelled => IsCancelled'
    BY DEF Store, Fails, IsCancelled
  <1>3. Steady
    BY <1>2 DEF call, Steady, Passed
  <1>4. \A j \in All \ {i} : Ahead(j)' = Ahead(j)
    <2> SUFFICES ASSUME NEW j \in All \ {i} PROVE Ahead(j)' = Ahead(j)
      OBVIOUS
    <2>1. (j \in jobs' <=> j \in jobs) /\ (j \in Instances => thread'[j] = thread[j])
      BY <1>2 DEF IInv, TypeOK, SpawnTypes
    <2> QED
      BY <1>2, <2>1, AheadSame
  <1>5. ToTrace(i)' < ToTrace(i)
    BY <1>1, <1>2 DEF ToTrace, IInv, TypeOK, SpawnTypes, ThreadOnce
  <1>6. Ahead(i)' < Ahead(i)
    BY <1>5, AheadType DEF Ahead
  <1> QED
    BY <1>1, <1>3, <1>4, <1>6, AheadType, OneOnward

(* The workers take an instance from the channel and are done with it.     *)
LEMMA WorkerOnward ==
  ASSUME IInv, NEW w \in Workers, NEW i \in All,
         \/ TakeJob(w, i)
         \/ worker[w] = i /\ (Contribute(w) \/ Prove(w))
  PROVE  Onward
  <1>1. i \notin {"waiting", "idle", "ended"}
    BY WitnessAssumption DEF All
  <1>2. PICK to \in {i, "idle", "ended"} :
          /\ worker' = [worker EXCEPT ![w] = to]
          /\ TakeJob(w, i) => worker[w] = "idle"
          /\ ~TakeJob(w, i) => worker[w] = i /\ to # i
    BY <1>1 DEF TakeJob, Contribute, Prove, IInv, TypeOK, WorkTypes
  <1>3. /\ UNCHANGED <<call, spawning>>
        /\ IsCancelled => IsCancelled'
        /\ \A j \in All \ {i} : /\ j \in jobs' <=> j \in jobs
                                /\ j \in toBeReleased' <=> j \in toBeReleased
    BY DEF TakeJob, Contribute, Prove, Release, InPool, Fails, IsCancelled
  <1>4. Steady
    BY <1>1, <1>2, <1>3 DEF call, spawning, Steady, Passed, IInv, TypeOK, WorkTypes
  <1>5. \A v \in Workers \ {w} : worker'[v] = worker[v]
    BY <1>2 DEF IInv, TypeOK, WorkTypes
  <1>6. \A j \in All \ {i} : Ahead(j)' = Ahead(j)
    <2> SUFFICES ASSUME NEW j \in All \ {i} PROVE Ahead(j)' = Ahead(j)
      OBVIOUS
    <2>1. j \notin {"waiting", "idle", "ended"}
      BY WitnessAssumption DEF All
    <2>2. worker'[w] # j /\ worker[w] # j
      BY <1>1, <1>2, <2>1 DEF IInv, TypeOK, WorkTypes
    <2> QED
      BY <1>3, <1>5, <2>2, AheadSame DEF spawning
  <1>7. ToTrace(i)' = ToTrace(i)
    BY <1>3 DEF ToTrace, spawning
  <1>8. ToRelease(i)' < ToRelease(i)
    <2>1. CASE TakeJob(w, i)
      <3>1. i \in jobs /\ i \notin jobs' /\ toBeReleased' = toBeReleased /\ ToRelease(i) = 3
        BY <2>1 DEF TakeJob, ToRelease
      <3> QED
        BY <3>1 DEF ToRelease
    <2>2. CASE ~TakeJob(w, i)
      <3>1. worker[w] = i /\ i \notin jobs /\ jobs' = jobs
        BY <2>2 DEF IInv, OnePlace, Contribute, Prove
      <3>2. ToRelease(i) = 2
        BY <3>1 DEF ToRelease
      <3>3. \A v \in Workers : worker'[v] # i
        BY <1>1, <1>2, <1>5, <2>2, <3>1 DEF IInv, OnePlace, TypeOK, WorkTypes
      <3> QED
        BY <3>1, <3>2, <3>3 DEF ToRelease
    <2> QED
      BY <2>1, <2>2
  <1>9. Ahead(i)' < Ahead(i)
    BY <1>7, <1>8, AheadType DEF Ahead
  <1> QED
    BY <1>4, <1>6, <1>9, AheadType, OneOnward

(* The dispatcher or a worker ends, or the call is cancelled.              *)
LEMMA EndOnward ==
  ASSUME IInv, DispatcherEnds \/ Cancel \/ Timeout \/ \E w \in Workers : WorkerEnds(w)
  PROVE  Onward
  <1>1. Steady /\ UNCHANGED <<todo, witnessRx, thread, jobs, toBeReleased>>
    BY DEF DispatcherEnds, Cancel, Timeout, WorkerEnds, Steady, Passed, call, spawning,
       results, buffers, IsCancelled, IInv, TypeOK, WorkTypes
  <1>2. \A i \in All : Ahead(i)' <= Ahead(i)
    <2> SUFFICES ASSUME NEW i \in All PROVE Ahead(i)' <= Ahead(i)
      OBVIOUS
    <2>1. i \notin {"waiting", "idle", "ended"}
      BY WitnessAssumption DEF All
    <2>2. ToRelease(i)' = ToRelease(i)
      <3>1. \A w \in Workers : worker'[w] = i <=> worker[w] = i
        BY <2>1 DEF DispatcherEnds, Cancel, Timeout, WorkerEnds, results, IInv, TypeOK,
           WorkTypes
      <3> QED
        BY <1>1, <3>1 DEF ToRelease
    <2>3. dispatcher' = i => dispatcher = i
      BY <2>1 DEF DispatcherEnds, Cancel, Timeout, WorkerEnds, spawning
    <2>4. ToTrace(i)' <= ToTrace(i)
      <3>1. CASE dispatcher' = i <=> dispatcher = i
        BY <1>1, <3>1, AheadType DEF ToTrace
      <3>2. CASE dispatcher = i /\ dispatcher' # i
        <4>1. i \in Instances /\ thread[i] = "none"
          BY <2>1, <3>2 DEF IInv, ThreadOnce, TypeOK, SpawnTypes
        <4> QED
          BY <1>1, <2>3, <3>2, <4>1 DEF ToTrace
      <3> QED
        BY <2>3, <3>1, <3>2
    <2> QED
      BY <2>2, <2>4, AheadType DEF Ahead
  <1>3. \/ dispatcher # "ended" /\ dispatcher' = "ended"
        \/ \E w \in Workers : worker[w] # "ended" /\ worker'[w] = "ended"
        \/ ~IsCancelled /\ IsCancelled'
    <2>1. CASE DispatcherEnds
      BY <2>1, WitnessAssumption DEF DispatcherEnds
    <2>2. CASE Cancel \/ Timeout
      BY <2>2 DEF Cancel, Timeout, IsCancelled
    <2>3. CASE \E w \in Workers : WorkerEnds(w)
      BY <2>3 DEF WorkerEnds, IInv, TypeOK, WorkTypes
    <2> QED
      BY <2>1, <2>2, <2>3
  <1> QED
    BY <1>1, <1>2, <1>3 DEF Onward, Steady

(* Every step of a call goes on towards its end, in each mode, with any    *)
(* number of instances, buffers and tokens and whatever fails; together    *)
(* with NoDeadlock: a call that is scheduled returns, or is one of the     *)
(* exceptions there.                                                       *)
THEOREM StepsOnward == Spec => AlwaysOnward
  <1>1. IInv /\ [Next]_vars => [Onward]_vars
    <2> SUFFICES ASSUME IInv, Next, vars' # vars PROVE Onward
      OBVIOUS
    <2>1. CASE Main
      BY <2>1, MainOnward, SpawnOnward, EndOnward DEF Main
    <2>2. CASE Cancel \/ Reset \/ Dispatcher
      BY <2>2, MainOnward, SpawnOnward, EndOnward DEF Dispatcher
    <2>3. CASE \E i \in Instances : Thread(i)
      BY <2>3, SpawnOnward, TakeReleasedOnward, StoreOnward DEF Thread
    <2>4. CASE \E w \in Workers : Worker(w)
      <3>1. PICK w \in Workers : Worker(w)
        BY <2>4
      <3>2. CASE WorkerEnds(w)
        BY <3>2, EndOnward
      <3>3. CASE \E i \in All : TakeJob(w, i)
        BY <3>3, WorkerOnward
      <3>4. CASE Contribute(w) \/ Prove(w)
        BY <3>4, WorkerOnward DEF Contribute, Prove
      <3> QED
        BY <3>1, <3>2, <3>3, <3>4 DEF Worker
    <2> QED
      BY <2>1, <2>2, <2>3, <2>4 DEF Next, Stopped
  <1> QED
    BY <1>1, Invariance, PTL DEF Spec, AlwaysOnward
=============================================================================
